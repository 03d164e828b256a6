------------------------ MODULE TcpConnectionProofs ------------------------
(***************************************************************************)
(* That the clock events of a TCP connection agree with its state, that it *)
(* keeps the streams of both directions intact and that it keeps to its    *)
(* sizes, for every size of the rings, every window and any number of      *)
(* bytes, whatever is lost, repeated, reset or closed.  Each operator of   *)
(* TcpConnection has a lemma for each of the three: what it makes of a     *)
(* connection in order, sound and sized is in order, sound and sized.      *)
(***************************************************************************)
EXTENDS TcpConnection, NaturalsInduction, WellFoundedInduction, TLAPS

\* A sequence, whatever it is of; and a record with the fields of a connection.
IsSeq(s) == \E T : s \in Seq(T)
IsRecord(k) == DOMAIN k = DOMAIN NoConnection /\ k = [f \in DOMAIN k |-> k[f]]

\* A connection that was started, in or out of the stack's table, with the packet
\* timers and the clock events that EventsMatchState asks for.
Watched(k) ==
    /\ "Retransmit" \in k.events => k.timers # <<>>
    /\ k.timers # <<>> /\ k.state \notin {"TIME_WAIT", "CLOSED"} => "Retransmit" \in k.events
Closing(k) == "Close" \in k.events <=> k.state = "TIME_WAIT"
Whole(k) ==
    /\ IsRecord(k) /\ IsSeq(k.timers) /\ k.listed \in BOOLEAN /\ k.held \in BOOLEAN
    /\ k.state # "none" /\ (k.state \notin {"TIME_WAIT", "CLOSED"} => k.listed = TRUE)
InOrder(k) == Whole(k) /\ Watched(k) /\ Closing(k)

\* Who has it: the stack's table or the application.  Most operators change neither,
\* nor do they close what was not closed.
Alive(k) == k.listed = TRUE \/ k.held = TRUE
Alike(k, m) == m.listed = k.listed /\ m.held = k.held /\ (m.state = "CLOSED" => k.state = "CLOSED")

\* The inductive invariant: nothing yet, or a connection in order that has left the
\* table if it is closed, and has no event left when nobody has it.
Between(k) == InOrder(k) /\ (k.state = "CLOSED" => k.listed = FALSE) /\ (Alive(k) \/ k.events = {})
Orderly == c = NoConnection \/ Between(c)

-----------------------------------------------------------------------------
(* Sequences and numbers.                                                    *)

LEMMA MemberFacts ==
    ASSUME NEW T, NEW s \in Seq(T)
    PROVE  \A i \in 1 .. Len(s) : s[i] \in T
  OBVIOUS

LEMMA AppendFacts ==
    ASSUME NEW s, NEW x, IsSeq(s)
    PROVE  IsSeq(Append(s, x)) /\ Append(s, x) # <<>>
<1>1. PICK T : s \in Seq(T)
  BY DEF IsSeq
<1> DEFINE U == T \union {x}
<1>2. x \in U /\ s \in Seq(U)
  <2>1. T \subseteq U
    OBVIOUS
  <2> QED BY <1>1, <2>1
<1> HIDE DEF U
<1>3. Append(s, x) \in Seq(U) /\ Len(Append(s, x)) = Len(s) + 1 /\ Len(s) \in Nat
  BY <1>2
<1>4. Append(s, x) # <<>>
  BY <1>3
<1> QED BY <1>3, <1>4 DEF IsSeq

LEMMA SuffixFacts ==
    ASSUME NEW s, IsSeq(s), NEW i \in DOMAIN s
    PROVE  IsSeq(SubSeq(s, i, Len(s))) /\ SubSeq(s, i, Len(s)) # <<>>
<1>1. PICK T : s \in Seq(T)
  BY DEF IsSeq
<1>2. i \in 1 .. Len(s) /\ Len(s) \in Nat
  BY <1>1
<1> DEFINE suffix == SubSeq(s, i, Len(s))
<1>3. suffix \in Seq(T) /\ Len(suffix) = Len(s) - i + 1
  BY <1>1, <1>2
<1> HIDE DEF suffix
<1>4. Len(suffix) # 0
  BY <1>2, <1>3
<1>5. suffix # <<>>
  BY <1>4
<1>6. IsSeq(suffix)
  BY <1>3 DEF IsSeq
<1> QED BY <1>5, <1>6 DEF suffix

LEMMA EmptyIsSeq == IsSeq(<<>>)
<1>1. <<>> \in Seq({})
  OBVIOUS
<1> QED BY <1>1 DEF IsSeq

\* A set of natural numbers that is not empty has a least one.
LEMMA LeastNatural ==
    ASSUME NEW S, S \subseteq Nat, S # {}
    PROVE  \E n \in S : \A m \in S : n <= m
<1>1. PICK n \in S : \A m \in S : ~ (<<m, n>> \in OpToRel(<, Nat))
  BY NatLessThanWellFounded, WFMin, Zenon
<1>2. ASSUME NEW m \in S PROVE ~ (m < n)
  BY <1>1, Zenon DEF OpToRel
<1>3. \A m \in S : n <= m
  BY <1>2
<1> QED BY <1>3

-----------------------------------------------------------------------------
(* The operators on connections.                                             *)

LEMMA Fields ==
    DOMAIN NoConnection =
        {"state", "listed", "held", "sendOpen", "recvOpen", "synQueued", "finQueued",
         "finReceived", "written", "base", "next", "lastAck", "limit", "threshold",
         "recvBase", "recv", "timers", "events", "stray", "frame"}
  BY DEF NoConnection

LEMMA ConstructedRecord == IsRecord(NoConnection)
  BY DEF IsRecord, NoConnection

LEMMA SchedulingKeepsOrder ==
    ASSUME NEW k, InOrder(k)
    PROVE  InOrder(Schedule(k)) /\ Alike(k, Schedule(k))
<1> USE Fields DEF InOrder, Whole, Watched, Closing, IsRecord, Alike
<1>1. CASE TransmitStatus(k) = "Yes"
  BY <1>1 DEF Schedule
<1>2. CASE TransmitStatus(k) = "Deferred"
  BY <1>2 DEF Schedule
<1>3. CASE TransmitStatus(k) = "DeferredZeroWindow"
  BY <1>3 DEF Schedule
<1>4. CASE TransmitStatus(k) = "No"
  BY <1>4 DEF Schedule
<1> QED BY <1>1, <1>2, <1>3, <1>4 DEF TransmitStatus

\* What is sent is watched by the retransmit event.
LEMMA TransmissionKeepsOrder ==
    ASSUME NEW k, InOrder(k), NEW ack, NEW count, NEW probe
    PROVE  InOrder(Transmit(k, ack, count, probe)) /\ Alike(k, Transmit(k, ack, count, probe))
<1> DEFINE syn == k.synQueued /\ k.next = k.base
           n   == ToSend(k, probe)
           fin == k.finQueued /\ n > 0 /\ n = Waiting(k)
           seg == [Segment(k.next, AckNo(k),
                           RingRead(k, k.next, n - (IF fin THEN 1 ELSE 0)))
                     EXCEPT !.ack = ack \/ ~ syn, !.syn = syn, !.fin = fin]
           next == k.next + n + (IF syn THEN 1 ELSE 0)
           state == IF ~ fin THEN k.state
                    ELSE IF k.state = "ESTABLISHED" THEN "FIN_WAIT_1"
                    ELSE IF k.state = "CLOSE_WAIT" THEN "LAST_ACK" ELSE k.state
           timer == [first |-> k.next, last |-> k.next + n, count |-> count]
           timers == IF n = 0 THEN k.timers ELSE Append(k.timers, timer)
           events == (k.events \ {"WindowProbe", "ZeroWindowProbe", "Transmit"})
                     \union (IF n = 0 THEN {} ELSE {"Retransmit"})
           m == [k EXCEPT !.frame = <<seg>>, !.next = next, !.state = state,
                          !.timers = timers, !.events = events]
<1>1. Transmit(k, ack, count, probe) = Schedule(m)
  BY Zenon DEF Transmit
<1>2. /\ \/ state = k.state
         \/ /\ k.state \notin {"none", "TIME_WAIT", "CLOSED"}
            /\ state \notin {"none", "TIME_WAIT", "CLOSED"}
      /\ IsSeq(timers) /\ (timers = k.timers \/ timers # <<>>)
      /\ n = 0 => timers = k.timers
      /\ n # 0 => timers # <<>>
      /\ "Close" \in events <=> "Close" \in k.events
      /\ "Retransmit" \in events <=> "Retransmit" \in k.events \/ n # 0
  BY AppendFacts DEF InOrder, Whole
<1> HIDE DEF seg, next, state, timers, events, n
<1>3. InOrder(m) /\ Alike(k, m)
  BY <1>2, Fields DEF InOrder, Whole, Watched, Closing, IsRecord, Alike
<1> HIDE DEF m
<1> QED BY <1>1, <1>3, SchedulingKeepsOrder DEF Alike

LEMMA TransmitNowKeepsOrder ==
    ASSUME NEW k, InOrder(k)
    PROVE  InOrder(TransmitNow(k)) /\ Alike(k, TransmitNow(k))
  BY SchedulingKeepsOrder, TransmissionKeepsOrder DEF TransmitNow

\* The closing timer is set whatever the connection was.
Held(k) == IsRecord(k) /\ IsSeq(k.timers) /\ k.listed \in BOOLEAN /\ k.held \in BOOLEAN

LEMMA TimeWaitInOrder ==
    ASSUME NEW k, Held(k)
    PROVE  /\ InOrder(ChangeToTimeWait(k)) /\ Alike(k, ChangeToTimeWait(k))
           /\ ChangeToTimeWait(k).state = "TIME_WAIT"
  BY Fields DEF ChangeToTimeWait, InOrder, Whole, Watched, Closing, IsRecord, Held, Alike

LEMMA ResetInOrder ==
    ASSUME NEW k, Held(k)
    PROVE  /\ InOrder(ResetConnection(k)) /\ Alike(k, ResetConnection(k))
           /\ ResetConnection(k).state = "TIME_WAIT"
<1> DEFINE seg == [Segment(k.base, 0, <<>>) EXCEPT !.rst = TRUE, !.ack = FALSE]
           m == [k EXCEPT !.written = SubSeq(@, 1, k.base - 1), !.next = k.base, !.recv = <<>>,
                          !.recvOpen = FALSE, !.sendOpen = FALSE, !.frame = <<seg>>]
<1>1. ResetConnection(k) = ChangeToTimeWait(m)
  BY DEF ResetConnection
<1> HIDE DEF seg
<1>2. IsRecord(m) /\ m.timers = k.timers /\ m.listed = k.listed /\ m.held = k.held
  BY Fields DEF IsRecord, Held
<1> HIDE DEF m
<1> QED BY <1>1, <1>2, TimeWaitInOrder DEF Held, Alike

LEMMA QueueFinKeepsOrder ==
    ASSUME NEW k, InOrder(k)
    PROVE  InOrder(QueueFin(k)) /\ Alike(k, QueueFin(k))
  BY Fields DEF QueueFin, InOrder, Whole, Watched, Closing, IsRecord, Alike

LEMMA ShutdownSendKeepsOrder ==
    ASSUME NEW k, InOrder(k)
    PROVE  InOrder(ShutdownSend(k)) /\ Alike(k, ShutdownSend(k))
<1>1. CASE ~ k.sendOpen
  BY <1>1 DEF ShutdownSend, Alike
<1>2. CASE k.sendOpen
  <2> DEFINE shut == [k EXCEPT !.sendOpen = FALSE]
  <2>1. InOrder(shut) /\ Alike(k, shut)
    BY Fields DEF InOrder, Whole, Watched, Closing, IsRecord, Alike
  <2>2. ShutdownSend(k) = Schedule(IF XmitSpace(k) > 0 THEN QueueFin(shut) ELSE shut)
    BY <1>2 DEF ShutdownSend
  <2> HIDE DEF shut
  <2>3. InOrder(QueueFin(shut)) /\ Alike(k, QueueFin(shut))
    BY <2>1, QueueFinKeepsOrder DEF Alike
  <2> QED BY <2>1, <2>2, <2>3, SchedulingKeepsOrder DEF Alike
<1> QED BY <1>1, <1>2

\* Either half of a shutdown, whatever the state: a closed connection that is reset is
\* in TIME_WAIT again, and nothing else of what it was is lost.
LEMMA ShutdownKeepsOrder ==
    ASSUME NEW k, InOrder(k), NEW send \in BOOLEAN, NEW receive \in BOOLEAN
    PROVE  InOrder(ShutdownSocket(k, send, receive)) /\ Alike(k, ShutdownSocket(k, send, receive))
<1> DEFINE half == IF receive /\ k.recvOpen THEN ShutdownReceive(k) ELSE k
<1>1. ShutdownSocket(k, send, receive) = IF send THEN ShutdownSend(half) ELSE half
  BY DEF ShutdownSocket
<1>2. InOrder(ResetConnection(k)) /\ Alike(k, ResetConnection(k))
  BY ResetInOrder DEF InOrder, Whole, Held
<1>3. InOrder([k EXCEPT !.recvOpen = FALSE]) /\ Alike(k, [k EXCEPT !.recvOpen = FALSE])
  BY Fields DEF InOrder, Whole, Watched, Closing, IsRecord, Alike
<1>4. InOrder(half) /\ Alike(k, half)
  BY <1>2, <1>3 DEF ShutdownReceive, Alike
<1> HIDE DEF half
<1> QED BY <1>1, <1>4, ShutdownSendKeepsOrder DEF Alike

\* A forced close asks for less: the retransmit event has fired already.
LEMMA ForcedCloseKeepsOrder ==
    ASSUME NEW k, Whole(k), Closing(k), k.state # "TIME_WAIT", k.state # "CLOSED"
    PROVE  InOrder(CloseSocket(k, TRUE)) /\ Alike(k, CloseSocket(k, TRUE))
<1>1. CloseSocket(k, TRUE) = ResetConnection(k)
  BY DEF CloseSocket
<1> QED BY <1>1, ResetInOrder DEF Whole, Held

LEMMA CloseKeepsOrder ==
    ASSUME NEW k, InOrder(k), NEW force \in BOOLEAN
    PROVE  InOrder(CloseSocket(k, force)) /\ Alike(k, CloseSocket(k, force))
<1>1. CASE k.state \in {"TIME_WAIT", "CLOSED"}
  BY <1>1 DEF CloseSocket, Alike
<1>2. CASE k.state \notin {"TIME_WAIT", "CLOSED"} /\ force
  <2>1. force = TRUE
    BY <1>2
  <2> QED BY <1>2, <2>1, ForcedCloseKeepsOrder DEF InOrder
<1>3. CASE k.state \notin {"TIME_WAIT", "CLOSED"} /\ ~ force
  <2>1. CloseSocket(k, force) = ShutdownSocket(k, TRUE, TRUE)
    BY <1>3 DEF CloseSocket
  <2> QED BY <2>1, ShutdownKeepsOrder
<1> QED BY <1>1, <1>2, <1>3

LEMMA DestroyedInOrder == Between(Destroyed)
<1>1. Destroyed.timers = <<>> /\ Destroyed.events = {} /\ Destroyed.state = "CLOSED"
      /\ Destroyed.listed = FALSE /\ Destroyed.held = FALSE
  BY DEF Destroyed, NoConnection
<1>2. IsRecord(Destroyed)
  BY ConstructedRecord, Fields DEF IsRecord, Destroyed
<1> QED BY <1>1, <1>2, EmptyIsSeq DEF Between, InOrder, Whole, Watched, Closing

\* A connection leaves the table closed, whatever its packet timers.
LEMMA DeletedInOrder ==
    ASSUME NEW k, Held(k), "Close" \notin k.events,
           "Retransmit" \in k.events => k.timers # <<>>
    PROVE  Between(DeleteConnection(k))
<1>1. k.held => Between([k EXCEPT !.state = "CLOSED", !.listed = FALSE])
  BY Fields DEF Between, InOrder, Whole, Watched, Closing, IsRecord, Held, Alive
<1> QED BY <1>1, DestroyedInOrder DEF DeleteConnection

-----------------------------------------------------------------------------
(* Receiving.                                                                *)

\* The timers an ACK leaves are a suffix of those there were.
LEMMA TimersLeftFacts ==
    ASSUME NEW k, IsSeq(k.timers), NEW ackNo
    PROVE  IsSeq(TimersLeft(k, ackNo))
<1> DEFINE open == {i \in DOMAIN k.timers : AtMost(k.timers[i].last, k.limit) > ackNo}
<1>1. CASE open = {}
  BY <1>1, EmptyIsSeq DEF TimersLeft
<1>2. CASE open # {}
  <2> DEFINE first == CHOOSE i \in open : \A j \in open : i <= j
  <2>1. open \subseteq DOMAIN k.timers /\ DOMAIN k.timers \subseteq Nat
    <3>1. PICK T : k.timers \in Seq(T)
      BY DEF IsSeq
    <3> QED BY <3>1
  <2>2. TimersLeft(k, ackNo) = SubSeq(k.timers, first, Len(k.timers))
    BY <1>2 DEF TimersLeft
  <2> HIDE DEF open
  <2>3. \E i \in open : \A j \in open : i <= j
    BY <1>2, <2>1, LeastNatural
  <2>4. first \in DOMAIN k.timers
    BY <2>1, <2>3
  <2> HIDE DEF first
  <2> QED BY <2>2, <2>4, SuffixFacts
<1> QED BY <1>1, <1>2

LEMMA UpdateTimersKeepsOrder ==
    ASSUME NEW k, InOrder(k), NEW ackNo
    PROVE  /\ InOrder(UpdateTimers(k, ackNo))
           /\ Alike(k, UpdateTimers(k, ackNo))
<1> DEFINE left == TimersLeft(k, ackNo)
           events == IF left = <<>> THEN k.events \ {"Retransmit"}
                     ELSE k.events \union {"Retransmit"}
           m == [k EXCEPT !.timers = left, !.events = events]
<1>1. UpdateTimers(k, ackNo) = m
  BY DEF UpdateTimers
<1>2. IsSeq(left)
  BY TimersLeftFacts DEF InOrder, Whole
<1>3. /\ "Retransmit" \in events <=> left # <<>>
      /\ "Close" \in events <=> "Close" \in k.events
  OBVIOUS
<1> HIDE DEF left, events
<1>4. /\ m.timers = left /\ m.events = events /\ m.state = k.state /\ m.listed = k.listed
      /\ m.held = k.held /\ IsRecord(m)
  BY Fields DEF InOrder, Whole, IsRecord
<1> HIDE DEF m
<1> QED BY <1>1, <1>2, <1>3, <1>4 DEF InOrder, Whole, Watched, Closing, Alike

LEMMA UpdateRingKeepsOrder ==
    ASSUME NEW k, InOrder(k), NEW ackNo
    PROVE  InOrder(UpdateRing(k, ackNo)) /\ Alike(k, UpdateRing(k, ackNo))
<1> DEFINE state == IF k.state = "SYN_RCVD" THEN "ESTABLISHED" ELSE k.state
           acked == [k EXCEPT !.base = ackNo, !.synQueued = FALSE, !.state = state]
<1>1. UpdateRing(k, ackNo) \in {k, acked, QueueFin(acked)}
  BY DEF UpdateRing
<1>2. InOrder(acked) /\ Alike(k, acked)
  BY Fields DEF InOrder, Whole, Watched, Closing, IsRecord, Alike
<1> HIDE DEF acked
<1> QED BY <1>1, <1>2, QueueFinKeepsOrder DEF Alike

\* The last ACK closes a connection that is still listed: Reply deletes it.
LEMMA FinAckedKeepsOrder ==
    ASSUME NEW k, InOrder(k), k.listed = TRUE
    PROVE  InOrder(FinAcked(k)) /\ FinAcked(k).listed = TRUE
<1>1. CASE ~ (k.finQueued /\ XmitLevel(k) = 0) \/ k.state \notin {"CLOSING", "LAST_ACK", "FIN_WAIT_1"}
  <2>1. FinAcked(k) = k
    BY <1>1 DEF FinAcked
  <2> QED BY <2>1
<1>2. CASE k.finQueued /\ XmitLevel(k) = 0 /\ k.state = "CLOSING"
  <2>1. FinAcked(k) = ChangeToTimeWait(k)
    BY <1>2 DEF FinAcked
  <2>2. Held(k)
    BY DEF InOrder, Whole, Held
  <2> QED BY <2>1, <2>2, TimeWaitInOrder DEF Alike
<1>3. CASE k.finQueued /\ XmitLevel(k) = 0 /\ k.state = "LAST_ACK"
  <2>1. FinAcked(k) = [k EXCEPT !.state = "CLOSED"]
    BY <1>3 DEF FinAcked
  <2> QED BY <1>3, <2>1, Fields DEF InOrder, Whole, Watched, Closing, IsRecord
<1>4. CASE k.finQueued /\ XmitLevel(k) = 0 /\ k.state = "FIN_WAIT_1"
  <2>1. FinAcked(k) = [k EXCEPT !.state = "FIN_WAIT_2"]
    BY <1>4 DEF FinAcked
  <2> QED BY <1>4, <2>1, Fields DEF InOrder, Whole, Watched, Closing, IsRecord
<1> QED BY <1>1, <1>2, <1>3, <1>4

LEMMA AcknowledgeKeepsOrder ==
    ASSUME NEW k, InOrder(k), k.listed = TRUE, NEW s
    PROVE  InOrder(Acknowledge(k, s)) /\ Acknowledge(k, s).listed = TRUE
<1> DEFINE timed == UpdateTimers(k, s.ackNo)
           rung  == UpdateRing(timed, s.ackNo)
<1>1. Acknowledge(k, s) \in {k, FinAcked(rung)}
  BY DEF Acknowledge
<1>2. InOrder(timed) /\ timed.listed = TRUE
  BY UpdateTimersKeepsOrder DEF Alike
<1> HIDE DEF timed
<1>3. InOrder(rung) /\ rung.listed = TRUE
  BY <1>2, UpdateRingKeepsOrder DEF Alike
<1> HIDE DEF rung
<1> QED BY <1>1, <1>3, FinAckedKeepsOrder

LEMMA AcceptFinKeepsOrder ==
    ASSUME NEW k, InOrder(k), k.listed = TRUE
    PROVE  InOrder(AcceptFin(k)) /\ AcceptFin(k).listed = TRUE
<1> DEFINE got == [k EXCEPT !.finReceived = TRUE]
<1>1. InOrder(got) /\ got.listed = TRUE /\ got.state = k.state
  BY Fields DEF InOrder, Whole, Watched, Closing, IsRecord
<1>2. CASE k.finReceived
  <2>1. AcceptFin(k) = k
    BY <1>2 DEF AcceptFin
  <2> QED BY <2>1
<1>3. CASE ~ k.finReceived /\ k.state = "ESTABLISHED"
  <2>1. AcceptFin(k) = [got EXCEPT !.state = "CLOSE_WAIT"]
    BY <1>3 DEF AcceptFin
  <2> HIDE DEF got
  <2> QED BY <1>1, <1>3, <2>1, Fields DEF InOrder, Whole, Watched, Closing, IsRecord
<1>4. CASE ~ k.finReceived /\ k.state = "FIN_WAIT_2"
  <2>1. AcceptFin(k) = ChangeToTimeWait(got)
    BY <1>4 DEF AcceptFin
  <2> HIDE DEF got
  <2>2. Held(got)
    BY <1>1 DEF InOrder, Whole, Held
  <2> QED BY <1>1, <2>1, <2>2, TimeWaitInOrder DEF Alike
<1>5. CASE ~ k.finReceived /\ k.state \notin {"ESTABLISHED", "FIN_WAIT_2"}
  <2>1. AcceptFin(k) = got
    BY <1>5 DEF AcceptFin
  <2> HIDE DEF got
  <2> QED BY <1>1, <2>1
<1> QED BY <1>2, <1>3, <1>4, <1>5

LEMMA AcceptKeepsOrder ==
    ASSUME NEW k, InOrder(k), k.listed = TRUE, NEW s
    PROVE  InOrder(Accept(k, s)) /\ Accept(k, s).listed = TRUE
<1> DEFINE recv == k.recv \o SubSeq(s.data, 1, AtMost(Taken(k, s), Len(s.data)))
           got  == [k EXCEPT !.recv = recv]
<1>1. Accept(k, s) \in {got, AcceptFin(got)}
  BY DEF Accept
<1> HIDE DEF recv
<1>2. InOrder(got) /\ got.listed = TRUE
  BY Fields DEF InOrder, Whole, Watched, Closing, IsRecord
<1> HIDE DEF got
<1> QED BY <1>1, <1>2, AcceptFinKeepsOrder

\* A connection that was closed by what it received has left the table when its
\* handler returns.
LEMMA ReplySettles ==
    ASSUME NEW k, InOrder(k), k.listed = TRUE, NEW s
    PROVE  Between(Reply(k, s))
<1>1. CASE k.state = "CLOSED"
  <2>1. Reply(k, s) = DeleteConnection(k)
    BY <1>1 DEF Reply
  <2>2. "Close" \notin k.events
    BY <1>1 DEF InOrder, Closing
  <2> QED BY <2>1, <2>2, DeletedInOrder DEF InOrder, Whole, Watched, Held
<1>2. CASE k.state # "CLOSED"
  <2>1. Reply(k, s) \in {k, TransmitNow(k), Transmit(k, TRUE, 0, FALSE)}
    BY <1>2 DEF Reply
  <2>2. Between(k)
    BY <1>2 DEF Between, Alive
  <2>3. Between(TransmitNow(k))
    BY <1>2, TransmitNowKeepsOrder DEF Between, Alike, Alive
  <2>4. Between(Transmit(k, TRUE, 0, FALSE))
    <3>1. InOrder(Transmit(k, TRUE, 0, FALSE)) /\ Alike(k, Transmit(k, TRUE, 0, FALSE))
      BY TransmissionKeepsOrder
    <3> QED BY <1>2, <3>1 DEF Between, Alike, Alive
  <2> QED BY <2>1, <2>2, <2>3, <2>4
<1> QED BY <1>1, <1>2

LEMMA OnPacketKeepsOrder ==
    ASSUME NEW k, Between(k), k.listed = TRUE, NEW s
    PROVE  Between(OnPacket(k, s))
<1> DEFINE start  == IF k.state = "SYN_SENT"
                     THEN [k EXCEPT !.state = "SYN_RCVD", !.recvBase = s.seq + 1] ELSE k
           opened == Window(start, s)
           acked  == Acknowledge(opened, s)
           failed == IF s.rst THEN [k EXCEPT !.sendOpen = FALSE, !.finReceived = TRUE] ELSE k
<1>1. OnPacket(k, s) \in {CloseSocket(failed, TRUE), k, ResetConnection(acked), Reply(Accept(acked, s), s)}
  BY DEF OnPacket
<1>2. InOrder(k) /\ k.state # "CLOSED"
  BY DEF Between
<1>3. InOrder(failed) /\ Alike(k, failed)
  BY <1>2, Fields DEF InOrder, Whole, Watched, Closing, IsRecord, Alike
<1>4. InOrder(start) /\ start.listed = TRUE
  BY <1>2, Fields DEF InOrder, Whole, Watched, Closing, IsRecord
<1> HIDE DEF start, failed
<1>5. InOrder(opened) /\ opened.listed = TRUE
  <2> DEFINE ackNo == IF s.ack THEN s.ackNo ELSE start.lastAck
             threshold == AtLeast(start.threshold, AtMost(s.wnd \div 2, 256))
  <2>1. opened = [start EXCEPT !.lastAck = ackNo, !.limit = ackNo + s.wnd, !.threshold = threshold]
    BY DEF Window
  <2> HIDE DEF opened, ackNo, threshold
  <2> QED BY <1>4, <2>1, Fields DEF InOrder, Whole, Watched, Closing, IsRecord
<1> HIDE DEF opened
<1>6. InOrder(acked) /\ acked.listed = TRUE
  BY <1>5, AcknowledgeKeepsOrder
<1> HIDE DEF acked
<1>7. Between(CloseSocket(failed, TRUE))
  BY <1>2, <1>3, CloseKeepsOrder DEF Between, Alike, Alive
<1>8. Between(ResetConnection(acked))
  BY <1>6, ResetInOrder DEF Between, InOrder, Whole, Held, Alike, Alive
<1>9. Between(Reply(Accept(acked, s), s))
  BY <1>6, AcceptKeepsOrder, ReplySettles
<1> QED BY <1>1, <1>7, <1>8, <1>9

-----------------------------------------------------------------------------
(* The steps.                                                                *)

\* Sending a frame, or losing it, and a clock event fired leave a connection in
\* order; a retransmit event that fires leaves its timers unwatched.
LEMMA BecomesInOrder ==
    ASSUME NEW k, Between(k), Becomes(k)
    PROVE  Orderly'
<1>1. c' = [k EXCEPT !.frame = <<>>]
  BY DEF Becomes
<1>2. Between(c')
  BY <1>1, Fields DEF Between, InOrder, Whole, Watched, Closing, IsRecord, Alive
<1> QED BY <1>2 DEF Orderly, Between, InOrder, Whole, Watched, Closing, IsRecord, IsSeq

LEMMA FiredInOrder ==
    ASSUME Between(c), NEW event, event \in c.events, event \notin {"Retransmit", "Close"}
    PROVE  Between(Without(event)) /\ Alive(Without(event))
  BY Fields DEF Without, Between, InOrder, Whole, Watched, Closing, IsRecord, Alive

\* A connection that starts has no timers and no events.
LEMMA StartedInOrder ==
    ASSUME NEW k, k = NoConnection, NEW state \in {"SYN_SENT", "SYN_RCVD"}
    PROVE  LET m == [Started(k) EXCEPT !.state = state]
           IN  InOrder(m) /\ m.state = state /\ m.listed = TRUE
<1> DEFINE m == [Started(k) EXCEPT !.state = state]
<1>1. m.timers = <<>> /\ m.events = {} /\ m.state = state /\ m.listed = TRUE /\ m.held = TRUE
  BY DEF Started, NoConnection
<1>2. IsRecord(m)
  BY ConstructedRecord, Fields DEF IsRecord, Started
<1> HIDE DEF m
<1>3. InOrder(m)
  BY <1>1, <1>2, EmptyIsSeq DEF InOrder, Whole, Watched, Closing
<1> QED BY <1>1, <1>3 DEF m

LEMMA ProbeKeepsOrder ==
    ASSUME NEW k, Between(k), Alive(k)
    PROVE  Between(Probe(k))
<1>1. Probe(k) \in {k, Transmit(k, FALSE, 0, TRUE)}
  BY DEF Probe
<1>2. InOrder(Transmit(k, FALSE, 0, TRUE)) /\ Alike(k, Transmit(k, FALSE, 0, TRUE))
  BY TransmissionKeepsOrder DEF Between
<1>3. Between(Transmit(k, FALSE, 0, TRUE))
  BY <1>2 DEF Between, Alike, Alive
<1> QED BY <1>1, <1>3

\* The packet timers are forgotten and what they watched is sent again, or the
\* connection is reset.
LEMMA RetransmitKeepsOrder ==
    ASSUME Between(c), "Retransmit" \in c.events
    PROVE  Between(Retransmit(Without("Retransmit")))
<1> DEFINE k == Without("Retransmit")
<1>1. /\ IsRecord(k) /\ k.timers = c.timers /\ k.state = c.state /\ k.listed = c.listed
      /\ k.held = c.held /\ k.events = c.events \ {"Retransmit"}
  BY Fields DEF Without, Between, InOrder, Whole, IsRecord
<1>2. Whole(k) /\ Closing(k) /\ "Retransmit" \notin k.events
  BY <1>1 DEF Between, InOrder, Whole, Closing
<1>3. (k.state = "CLOSED" => k.listed = FALSE) /\ Alive(k)
  BY <1>1 DEF Between, Alive
<1> HIDE DEF k
<1> DEFINE failed == [k EXCEPT !.sendOpen = FALSE, !.finReceived = TRUE]
           next == IF Head(k.timers).first \in k.base .. TailSeq(k) - 1 THEN Head(k.timers).first ELSE k.base
           again == [k EXCEPT !.timers = <<>>, !.next = next]
           count == Head(k.timers).count + 1
<1>4. Retransmit(k) \in {CloseSocket(failed, TRUE), Transmit(again, TRUE, count, FALSE)}
  BY Zenon DEF Retransmit
<1>5. Between(CloseSocket(failed, TRUE))
  <2>1. Whole(failed) /\ Closing(failed) /\ Alike(k, failed) /\ "Retransmit" \notin failed.events
    BY <1>2, Fields DEF Whole, Closing, IsRecord, Alike
  <2> HIDE DEF failed
  <2>2. CASE failed.state \in {"TIME_WAIT", "CLOSED"}
    <3>1. CloseSocket(failed, TRUE) = failed
      BY <2>2 DEF CloseSocket
    <3> QED BY <1>3, <2>1, <2>2, <3>1 DEF Between, InOrder, Watched, Alike, Alive
  <2>3. CASE failed.state \notin {"TIME_WAIT", "CLOSED"}
    BY <1>3, <2>1, <2>3, ForcedCloseKeepsOrder DEF Between, Alike, Alive
  <2> QED BY <2>2, <2>3
<1>6. Between(Transmit(again, TRUE, count, FALSE))
  <2> HIDE DEF next, count
  <2>1. InOrder(again) /\ Alike(k, again)
    BY <1>2, EmptyIsSeq, Fields DEF InOrder, Whole, Watched, Closing, IsRecord, Alike
  <2> HIDE DEF again
  <2>2. /\ InOrder(Transmit(again, TRUE, count, FALSE))
        /\ Alike(again, Transmit(again, TRUE, count, FALSE))
    BY <2>1, TransmissionKeepsOrder
  <2> QED BY <1>3, <2>1, <2>2 DEF Between, Alike, Alive
<1> QED BY <1>4, <1>5, <1>6 DEF k

LEMMA ClockEventStep == Orderly /\ ClockEvent => Orderly'
<1> SUFFICES ASSUME Orderly, ClockEvent PROVE Orderly'
  OBVIOUS
<1>1. Between(c)
  <2>1. ASSUME c = NoConnection PROVE FALSE
    BY <2>1 DEF ClockEvent, CloseEvent, TransmitEvent, RetransmitEvent, ProbeEvent, StrayEvent,
                Fires, NoConnection
  <2> QED BY <2>1 DEF Orderly
<1>2. CASE CloseEvent
  <2> DEFINE k == Without("Close")
  <2>1. "Close" \in c.events /\ Becomes(DeleteConnection(k))
    BY <1>2 DEF CloseEvent, Fires
  <2>2. /\ Held(k) /\ "Close" \notin k.events
        /\ "Retransmit" \in k.events => k.timers # <<>>
    BY <1>1, Fields DEF Without, Between, InOrder, Whole, Watched, IsRecord, Held
  <2> HIDE DEF k
  <2> QED BY <2>1, <2>2, DeletedInOrder, BecomesInOrder
<1>3. CASE TransmitEvent
  <2>1. "Transmit" \in c.events /\ Becomes(TransmitNow(Without("Transmit")))
    BY <1>3 DEF TransmitEvent, Fires
  <2>2. Between(Without("Transmit")) /\ Alive(Without("Transmit"))
    BY <1>1, <2>1, FiredInOrder
  <2>3. Between(TransmitNow(Without("Transmit")))
    BY <2>2, TransmitNowKeepsOrder DEF Between, Alike, Alive
  <2> QED BY <2>1, <2>3, BecomesInOrder
<1>4. CASE RetransmitEvent
  BY <1>1, <1>4, RetransmitKeepsOrder, BecomesInOrder DEF RetransmitEvent, Fires
<1>5. CASE ProbeEvent
  <2>1. PICK event \in {"WindowProbe", "ZeroWindowProbe"} : Fires(event, Probe(Without(event)))
    BY <1>5 DEF ProbeEvent
  <2>2. Between(Without(event)) /\ Alive(Without(event))
    BY <1>1, <2>1, FiredInOrder DEF Fires
  <2> QED BY <2>1, <2>2, ProbeKeepsOrder, BecomesInOrder DEF Fires
<1>6. CASE StrayEvent
  <2>1. PICK stray \in BOOLEAN : Becomes(Probe([Without("WindowProbe") EXCEPT !.stray = stray]))
    BY <1>6 DEF StrayEvent
  <2> DEFINE k == [Without("WindowProbe") EXCEPT !.stray = stray]
  <2>2. Between(k) /\ Alive(k)
    BY <1>1, <1>6, Fields DEF StrayEvent, Without, Between, InOrder, Whole, Watched, Closing, IsRecord, Alive
  <2>3. Becomes(Probe(k))
    BY <2>1
  <2> HIDE DEF k
  <2> QED BY <2>2, <2>3, ProbeKeepsOrder, BecomesInOrder
<1> QED BY <1>2, <1>3, <1>4, <1>5, <1>6 DEF ClockEvent

\* Calls of the application.
LEMMA AppStep == Orderly /\ (App \/ CheckAbandoned) => Orderly'
<1> SUFFICES ASSUME Orderly, App \/ CheckAbandoned PROVE Orderly'
  OBVIOUS
<1>1. CASE Connect
  <2> DEFINE m == [Started(c) EXCEPT !.state = "SYN_SENT"]
  <2>1. c.state = "none" /\ Becomes(Transmit(m, FALSE, 0, FALSE))
    BY <1>1 DEF Connect
  <2>2. c = NoConnection
    BY <2>1 DEF Orderly, Between, InOrder, Whole
  <2>3. InOrder(m) /\ m.state = "SYN_SENT" /\ m.listed = TRUE
    BY <2>2, StartedInOrder
  <2> HIDE DEF m
  <2>4. Between(Transmit(m, FALSE, 0, FALSE))
    <3>1. InOrder(Transmit(m, FALSE, 0, FALSE)) /\ Alike(m, Transmit(m, FALSE, 0, FALSE))
      BY <2>3, TransmissionKeepsOrder
    <3> QED BY <2>3, <3>1 DEF Between, Alike, Alive
  <2> QED BY <2>1, <2>4, BecomesInOrder
<1>2. ASSUME c.state # "none" PROVE Between(c) /\ InOrder(c)
  BY <1>2 DEF Orderly, NoConnection, Between
<1>3. CASE Send
  <2>1. PICK n \in 1 .. AtMost(XmitSpace(c), MaxBytes - appSent - guest.sent) :
            Call(Schedule([c EXCEPT !.written = @ \o Bytes(appSent + 1, n)]))
    BY <1>3 DEF Send
  <2> DEFINE written == c.written \o Bytes(appSent + 1, n)
             k == [c EXCEPT !.written = written]
  <2>2. c.state # "none" /\ c.held /\ Becomes(Schedule(k))
    BY <2>1 DEF Call
  <2> HIDE DEF written
  <2>3. Between(k) /\ Alive(k)
    BY <1>2, <2>2, Fields DEF Between, InOrder, Whole, Watched, Closing, IsRecord, Alive
  <2> HIDE DEF k
  <2>4. Between(Schedule(k))
    BY <2>3, SchedulingKeepsOrder DEF Between, Alike, Alive
  <2> QED BY <2>2, <2>4, BecomesInOrder
<1>4. CASE Recv
  <2>1. PICK n \in 1 .. Len(c.recv) :
            Call([c EXCEPT !.recvBase = @ + n, !.recv = SubSeq(@, n + 1, Len(@))])
    BY <1>4 DEF Recv
  <2> DEFINE recv == SubSeq(c.recv, n + 1, Len(c.recv))
             k == [c EXCEPT !.recvBase = @ + n, !.recv = recv]
  <2>2. c.state # "none" /\ c.held /\ Becomes(k)
    BY <2>1 DEF Call
  <2> HIDE DEF recv
  <2>3. Between(k)
    BY <1>2, <2>2, Fields DEF Between, InOrder, Whole, Watched, Closing, IsRecord, Alive
  <2> HIDE DEF k
  <2> QED BY <2>2, <2>3, BecomesInOrder
<1>5. CASE Shutdown
  <2>1. PICK send \in BOOLEAN, receive \in BOOLEAN :
            c.state # "none" /\ c.held /\ Becomes(ShutdownSocket(c, send, receive))
    BY <1>5 DEF Shutdown, Call
  <2>2. c.held = TRUE /\ Between(c)
    BY <1>2, <2>1 DEF InOrder, Whole
  <2>3. Between(ShutdownSocket(c, send, receive))
    BY <2>2, ShutdownKeepsOrder DEF Between, Alike, Alive
  <2> QED BY <2>1, <2>3, BecomesInOrder
<1>6. CASE Close
  <2>1. PICK force \in BOOLEAN : c.state # "none" /\ c.held /\ Becomes(CloseSocket(c, force))
    BY <1>6 DEF Close, Call
  <2>2. c.held = TRUE /\ Between(c)
    BY <1>2, <2>1 DEF InOrder, Whole
  <2>3. Between(CloseSocket(c, force))
    BY <2>2, CloseKeepsOrder DEF Between, Alike, Alive
  <2> QED BY <2>1, <2>3, BecomesInOrder
<1>7. CASE Release
  <2>1. c.state # "none" /\ Becomes(IF c.listed THEN [c EXCEPT !.held = FALSE] ELSE Destroyed)
    BY <1>7 DEF Release, Call
  <2>2. c.listed => Between([c EXCEPT !.held = FALSE])
    BY <1>2, <2>1, Fields DEF Between, InOrder, Whole, Watched, Closing, IsRecord, Alive
  <2> QED BY <2>1, <2>2, DestroyedInOrder, BecomesInOrder
<1>8. CASE CheckAbandoned
  <2>1. c.listed /\ Becomes(CloseSocket(c, TRUE))
    BY <1>8 DEF CheckAbandoned
  <2>2. Between(c) /\ c.listed = TRUE
    BY <2>1 DEF Orderly, NoConnection, Between, InOrder, Whole
  <2>3. Between(CloseSocket(c, TRUE))
    BY <2>2, CloseKeepsOrder DEF Between, Alike, Alive
  <2> QED BY <2>1, <2>3, BecomesInOrder
<1> QED BY <1>1, <1>3, <1>4, <1>5, <1>6, <1>7, <1>8 DEF App

LEMMA OrderlyNext == Orderly /\ [Next]_vars => Orderly'
<1> SUFFICES ASSUME Orderly, [Next]_vars PROVE Orderly'
  OBVIOUS
<1>1. CASE Listen
  <2> DEFINE s == Head(toStack)
             m == [Started(c) EXCEPT !.state = "SYN_RCVD", !.recvBase = s.seq + 1,
                      !.lastAck = s.seq + 1, !.limit = s.seq + 1 + s.wnd]
  <2>1. c.state = "none" /\ Becomes(Transmit(m, TRUE, 0, FALSE))
    BY <1>1 DEF Listen
  <2>2. c = NoConnection
    BY <2>1 DEF Orderly, Between, InOrder, Whole
  <2> DEFINE started == [Started(c) EXCEPT !.state = "SYN_RCVD"]
  <2>3. InOrder(started) /\ started.state = "SYN_RCVD" /\ started.listed = TRUE
    BY <2>2, StartedInOrder
  <2>4. m = [started EXCEPT !.recvBase = s.seq + 1, !.lastAck = s.seq + 1, !.limit = s.seq + 1 + s.wnd]
    OBVIOUS
  <2> HIDE DEF s, m, started
  <2>5. InOrder(m) /\ m.state = "SYN_RCVD" /\ m.listed = TRUE
    BY <2>3, <2>4, Fields DEF InOrder, Whole, Watched, Closing, IsRecord
  <2>6. Between(Transmit(m, TRUE, 0, FALSE))
    <3>1. InOrder(Transmit(m, TRUE, 0, FALSE)) /\ Alike(m, Transmit(m, TRUE, 0, FALSE))
      BY <2>5, TransmissionKeepsOrder
    <3> QED BY <2>5, <3>1 DEF Between, Alike, Alive
  <2> QED BY <2>1, <2>6, BecomesInOrder
<1>2. CASE Refuse
  <2>1. PICK frame : Becomes([c EXCEPT !.frame = frame])
    BY <1>2 DEF Refuse
  <2> DEFINE k == [c EXCEPT !.frame = frame]
  <2>2. CASE Between(c)
    <3>1. Between(k)
      BY <2>2, Fields DEF Between, InOrder, Whole, Watched, Closing, IsRecord, Alive
    <3>2. Becomes(k)
      BY <2>1
    <3> HIDE DEF k
    <3> QED BY <3>1, <3>2, BecomesInOrder
  <2>3. CASE c = NoConnection
    <3>1. IsRecord(c) /\ c.frame = <<>>
      BY <2>3, ConstructedRecord DEF NoConnection
    <3>2. c' = [f \in DOMAIN c |-> c[f]]
      BY <2>1, <3>1, Fields DEF Becomes, IsRecord
    <3> QED BY <2>3, <3>1, <3>2 DEF IsRecord, Orderly
  <2> QED BY <2>2, <2>3 DEF Orderly
<1>3. CASE Receive
  <2>1. c.listed /\ Becomes(OnPacket(c, Head(toStack)))
    BY <1>3 DEF Receive
  <2>2. Between(c) /\ c.listed = TRUE
    BY <2>1 DEF Orderly, NoConnection, Between, InOrder, Whole
  <2> QED BY <2>1, <2>2, OnPacketKeepsOrder, BecomesInOrder
<1>4. CASE ClockEvent \/ App \/ CheckAbandoned
  BY <1>4, ClockEventStep, AppStep
<1>5. CASE Guest \/ UNCHANGED vars
  <2>1. c' = c
    BY <1>5 DEF Guest, GuestSyn, GuestData, GuestAck, GuestReset, GuestReceive, GuestSends, vars
  <2> QED BY <2>1 DEF Orderly, Between, InOrder, Whole, Watched, Closing, IsRecord, IsSeq
<1> QED BY <1>1, <1>2, <1>3, <1>4, <1>5 DEF Next

LEMMA OrderlyInit == Init => Orderly
  BY DEF Init, Orderly

LEMMA OrderlyIsEnough == Orderly => EventsMatchState
<1>1. CASE c = NoConnection
  BY <1>1 DEF NoConnection, EventsMatchState
<1>2. CASE Between(c)
  BY <1>2 DEF Between, InOrder, Whole, Watched, Closing, Alive, EventsMatchState
<1> QED BY <1>1, <1>2 DEF Orderly

\* Whatever arrives, is lost, is shut or fires early: while a live connection has a
\* packet timer the retransmit event is pending, and never without one (data that has
\* no packet timer, the SYN among it, is not spoken of); the closing event is pending
\* just in TIME_WAIT, entered again or not; a live connection is in the stack's table,
\* a closed one is not, and one that neither the table nor the application has leaves
\* no event that it knows of behind.
THEOREM EventsSafety == Spec => []EventsMatchState
  BY OrderlyInit, OrderlyNext, OrderlyIsEnough, PTL DEF Spec

-----------------------------------------------------------------------------
(* The streams.  Byte b of the application has sequence number b + 1, after  *)
(* the SYN, which the ring holds as the placeholder 0; byte b of the guest   *)
(* has sequence number b.  A world is what the connection is judged by: how  *)
(* much each side sent, how much the application got, whether the guest has  *)
(* closed its side, and up to where the guest has the application's bytes.   *)

World == [app |-> appSent, got |-> appGot, sent |-> guest.sent, closed |-> guest.closed,
          has |-> AtLeast(guest.rcv, 1)]
IsWorld(w) ==
    w.app \in Nat /\ w.got \in Nat /\ w.sent \in Nat /\ w.closed \in BOOLEAN /\ w.has \in Nat \ {0}

\* The ring holds all that was sent and perhaps the FIN; or a reset emptied it.
Full(k, w) ==
    /\ Len(k.written) = w.app + (IF k.finQueued THEN 2 ELSE 1)
    /\ k.sendOpen => ~ k.finQueued
Cut(k) ==
    /\ ~ k.sendOpen /\ Len(k.written) = k.base - 1
    /\ ~ k.synQueued => k.next = k.base

SendTypes(k) ==
    /\ k.written \in Seq(Nat) /\ k.base \in Nat \ {0} /\ k.limit \in Int /\ k.lastAck \in Int
    /\ k.synQueued \in BOOLEAN /\ k.finQueued \in BOOLEAN /\ k.sendOpen \in BOOLEAN
    /\ k.base <= TailSeq(k)

\* Where the next byte to send is: behind the SYN and not behind the ring.
Position(k) ==
    IF k.synQueued
    THEN k.base = 1 /\ k.next \in {1, 2} /\ k.timers = <<>>
    ELSE k.base > 1 /\ k.next \in 2 .. TailSeq(k)

\* What the ring holds is what was sent, and what it let go of the guest has.
Stored(k, w) ==
    /\ \A i \in 1 .. Len(k.written) : i <= w.app + 1 => k.written[i] = i - 1
    /\ k.base <= w.has

SynWasSent(k, w) == k.synQueued /\ Full(k, w) => k.next = 2
Sending(k, w) == SendTypes(k) /\ Position(k) /\ Stored(k, w) /\ (Full(k, w) \/ Cut(k))

\* What was received and not read; none once the application has shut its side.
Early == {"none", "SYN_SENT"}
Finished == {"CLOSE_WAIT", "LAST_ACK", "CLOSING", "TIME_WAIT", "CLOSED"}
Reads(k, w) ==
    /\ \A i \in 1 .. Len(k.recv) : k.recv[i] = w.got + i
    /\ IF k.state \in Early
       THEN k.recvBase = 0 /\ w.got = 0 /\ k.recv = <<>> /\ ~ k.finReceived
       ELSE k.recvBase = w.got + 1
    /\ k.finReceived => w.closed /\ w.got + Len(k.recv) = w.sent
    /\ k.state \in Finished => k.finReceived
Receiving(k, w) ==
    /\ k.recv \in Seq(Nat)
    /\ k.recvBase \in Nat /\ k.recvOpen \in BOOLEAN /\ k.finReceived \in BOOLEAN
    /\ IF k.recvOpen THEN Reads(k, w) ELSE k.recv = <<>>

\* A segment to the guest: bytes the application sent, whatever stands for those the
\* guest has already, a FIN behind the last of them, and no byte of the guest
\* acknowledged that the application cannot have.
Acked(a, k, w) ==
    a \in Nat /\ (k.recvOpen => \/ a - 1 <= w.got + Len(k.recv)
                                \/ w.closed /\ w.sent <= w.got + Len(k.recv))
Carries(s, k, w) ==
    /\ s.seq \in Nat \ {0, 1} /\ s.data \in Seq(Nat)
    /\ \A i \in 1 .. Len(s.data) : /\ s.seq + i - 2 <= w.app
                                     /\ (s.seq + i - 1 < w.has \/ AsSent(s.data[i], s.seq + i - 2))
    /\ s.fin => s.seq + Len(s.data) = w.app + 2 /\ ~ k.sendOpen
Fair(s, k, w) ==
    IF s.rst THEN ~ s.syn
    ELSE /\ s.ack => Acked(s.ackNo, k, w)
         /\ s.fin \in BOOLEAN
         /\ IF s.syn THEN s.seq = 1 ELSE Carries(s, k, w)
FrameFair(k, w) == k.frame = <<>> \/ \E s \in {k.frame[1]} : k.frame = <<s>> /\ Fair(s, k, w)

\* A connection that something can still happen to, as it should be.
HasFields(k) == DOMAIN k = DOMAIN NoConnection
Sound(k, w) ==
    /\ HasFields(k) /\ k.state # "none"
    /\ Sending(k, w) /\ SynWasSent(k, w) /\ Receiving(k, w) /\ FrameFair(k, w)

\* What an operator makes of a connection does not undo: m comes of k.
Follows(k, m) ==
    /\ m.sendOpen => k.sendOpen
    /\ m.recvOpen => k.recvOpen /\ Len(m.recv) >= Len(k.recv)
Makes(k, m, w) == Sound(m, w) /\ Follows(k, m) /\ m.base = k.base

\* A segment from the guest: bytes it sent, a FIN behind the last of them, and nothing
\* acknowledged that the guest does not have.
Honest(s, rcv, w) ==
    /\ s.seq \in Nat /\ s.ackNo \in Nat /\ s.ackNo <= rcv /\ s.wnd \in Nat /\ s.data \in Seq(Nat)
    /\ s.fin \in BOOLEAN
    /\ \A i \in 1 .. Len(s.data) : s.data[i] = s.seq + i - 1
    /\ s.data # <<>> => s.seq + Len(s.data) - 1 <= w.sent
    /\ s.syn => s.seq = 0 /\ s.data = <<>> /\ ~ s.fin
    /\ s.fin => w.closed /\ s.seq + Len(s.data) - 1 = w.sent

GuestTypes(g) ==
    /\ DOMAIN g = DOMAIN NoGuest
    /\ g.una \in Nat /\ g.sent \in Nat /\ g.rcv \in Nat /\ g.got \in Seq(Nat)
    /\ g.closed \in BOOLEAN /\ g.fin \in BOOLEAN
GuestHas(g, k, w) ==
    /\ \A i \in 1 .. Len(g.got) : AsSent(g.got[i], i)
    /\ Len(g.got) <= w.app
    /\ g.fin => Len(g.got) = w.app /\ ~ k.sendOpen
    /\ g.state \in {"open", "accepting"} /\ ~ g.fin => g.rcv = Len(g.got) + 2
    /\ g.state \in {"idle", "opening"} => g.rcv = 0 /\ g.got = <<>> /\ ~ g.fin
    /\ Acked(g.una, k, w)

\* The inductive invariant.
Connection(k, w) ==
    \/ k = NoConnection /\ w.app = 0 /\ w.got = 0
    \/ k = Destroyed
    \/ Sound(k, w) /\ k.frame = <<>>
FairFrames(q, k, w) == IsSeq(q) /\ \A i \in DOMAIN q : Fair(q[i], k, w)
HonestFrames(q, rcv, w) == IsSeq(q) /\ \A i \in DOMAIN q : Honest(q[i], rcv, w)
StreamInv ==
    /\ IsWorld(World) /\ Connection(c, World)
    /\ FairFrames(toGuest, c, World) /\ HonestFrames(toStack, guest.rcv, World)
    /\ GuestTypes(guest) /\ GuestHas(guest, c, World)
    /\ c.base <= AtLeast(guest.rcv, 1)

-----------------------------------------------------------------------------
(* What a change of other fields leaves.                                     *)

SameSend(k, m) ==
    /\ m.written = k.written /\ m.base = k.base /\ m.next = k.next /\ m.limit = k.limit
    /\ m.lastAck = k.lastAck /\ m.synQueued = k.synQueued /\ m.finQueued = k.finQueued
    /\ m.timers = k.timers
SameReceive(k, m) ==
    /\ m.recv = k.recv /\ m.recvBase = k.recvBase /\ m.recvOpen = k.recvOpen
    /\ m.finReceived = k.finReceived

LEMMA SendingKept ==
    ASSUME NEW k, NEW m, NEW w, SameSend(k, m), m.sendOpen = k.sendOpen
    PROVE  /\ Sending(k, w) => Sending(m, w)
           /\ SynWasSent(k, w) => SynWasSent(m, w)
  BY DEF SameSend, Sending, SendTypes, Position, Stored, Full, Cut, SynWasSent, TailSeq

LEMMA ReceivingKept ==
    ASSUME NEW k, NEW m, NEW w, SameReceive(k, m), m.state = k.state, Receiving(k, w)
    PROVE  Receiving(m, w)
  BY DEF SameReceive, Receiving, Reads

\* A frame that was fair is still fair when a side has been shut or more was received.
LEMMA FairFollows ==
    ASSUME NEW k, NEW m, NEW w, IsWorld(w), Follows(k, m),
           k.recv \in Seq(Nat), m.recv \in Seq(Nat), NEW s, Fair(s, k, w)
    PROVE  Fair(s, m, w)
<1>1. ASSUME NEW a, Acked(a, k, w) PROVE Acked(a, m, w)
  BY <1>1 DEF Acked, Follows, IsWorld
<1>2. Carries(s, k, w) => Carries(s, m, w)
  BY DEF Carries, Follows
<1> QED BY <1>1, <1>2 DEF Fair

LEMMA FrameKept ==
    ASSUME NEW k, NEW m, NEW w, IsWorld(w), Follows(k, m), m.frame = k.frame,
           k.recv \in Seq(Nat), m.recv \in Seq(Nat), FrameFair(k, w)
    PROVE  FrameFair(m, w)
  BY FairFollows DEF FrameFair

LEMMA FollowsItself == ASSUME NEW k, k.recv \in Seq(Nat) PROVE Follows(k, k)
  BY DEF Follows
LEMMA FollowsOn ==
    ASSUME NEW k, NEW m, NEW n, Follows(k, m), Follows(m, n),
           k.recv \in Seq(Nat), m.recv \in Seq(Nat), n.recv \in Seq(Nat)
    PROVE  Follows(k, n)
  BY DEF Follows

\* A change of the events, the threshold or the references is none.
LEMMA SoundKept ==
    ASSUME NEW k, NEW m, NEW w, IsWorld(w), Sound(k, w), HasFields(m),
           SameSend(k, m), SameReceive(k, m), m.sendOpen = k.sendOpen,
           m.state = k.state, m.frame = k.frame
    PROVE  Makes(k, m, w)
<1>1. Sending(m, w) /\ SynWasSent(m, w) /\ Receiving(m, w)
  BY SendingKept, ReceivingKept DEF Sound
<1>2. k.recv \in Seq(Nat) /\ m.recv = k.recv
  BY DEF Sound, Receiving, SameReceive
<1>3. Follows(k, m)
  BY <1>2 DEF Follows, SameReceive
<1>4. FrameFair(m, w)
  BY <1>2, <1>3, FrameKept DEF Sound
<1> QED BY <1>1, <1>3, <1>4 DEF Makes, Sound, SameSend

LEMMA MakesOn ==
    ASSUME NEW k, NEW m, NEW n, NEW w, Sound(k, w), Makes(k, m, w), Makes(m, n, w)
    PROVE  Makes(k, n, w)
<1>1. k.recv \in Seq(Nat) /\ m.recv \in Seq(Nat) /\ n.recv \in Seq(Nat)
  BY DEF Makes, Sound, Receiving
<1> QED BY <1>1, FollowsOn DEF Makes

LEMMA MakesItself ==
    ASSUME NEW k, NEW w, Sound(k, w)
    PROVE  Makes(k, k, w)
  BY FollowsItself DEF Makes, Sound, Receiving

-----------------------------------------------------------------------------
(* Sending.                                                                  *)

LEMMA SchedulingOnlySets ==
    ASSUME NEW k, HasFields(k)
    PROVE  LET m == Schedule(k) IN
           /\ HasFields(m) /\ SameSend(k, m) /\ SameReceive(k, m) /\ m.sendOpen = k.sendOpen
           /\ m.state = k.state /\ m.frame = k.frame
<1> USE Fields DEF HasFields, SameSend, SameReceive
<1>1. CASE TransmitStatus(k) = "Yes"
  BY <1>1 DEF Schedule
<1>2. CASE TransmitStatus(k) = "Deferred"
  BY <1>2 DEF Schedule
<1>3. CASE TransmitStatus(k) = "DeferredZeroWindow"
  BY <1>3 DEF Schedule
<1>4. CASE TransmitStatus(k) = "No"
  BY <1>4 DEF Schedule
<1> QED BY <1>1, <1>2, <1>3, <1>4 DEF TransmitStatus

LEMMA SchedulingKeepsSound ==
    ASSUME NEW k, NEW w, IsWorld(w), Sound(k, w)
    PROVE  Makes(k, Schedule(k), w)
<1> DEFINE m == Schedule(k)
<1>1. /\ HasFields(m) /\ SameSend(k, m) /\ SameReceive(k, m) /\ m.sendOpen = k.sendOpen
      /\ m.state = k.state /\ m.frame = k.frame
  BY SchedulingOnlySets DEF Sound
<1> HIDE DEF m
<1> QED BY <1>1, SoundKept DEF m

LEMMA ToSendFacts ==
    ASSUME NEW k, NEW w, IsWorld(w), Sending(k, w), NEW probe \in BOOLEAN
    PROVE  /\ ToSend(k, probe) \in Nat
           /\ k.synQueued => ToSend(k, probe) = 0
           /\ ~ k.synQueued => k.next + ToSend(k, probe) <= TailSeq(k)
<1>1. Len(k.written) \in Nat /\ k.next \in Nat /\ k.limit \in Int
  BY DEF Sending, SendTypes, Position, TailSeq
<1>2. Waiting(k) \in Nat /\ (k.synQueued => Waiting(k) = 0)
      /\ (~ k.synQueued => k.next + Waiting(k) = TailSeq(k))
  BY <1>1 DEF Waiting, Sending, SendTypes, Position, TailSeq
<1>3. AtLeast(k.limit - k.next, 0) \in Nat
  BY <1>1 DEF AtLeast
<1> DEFINE space == AtLeast(k.limit - k.next, 0)
<1>4. ToSend(k, probe) = IF probe /\ space = 0 THEN AtMost(Waiting(k), 1)
                         ELSE AtMost(AtMost(Waiting(k), space), MSS)
  BY DEF ToSend
<1> HIDE DEF space
<1>5. MSS \in Nat
  BY TcpAssumption
<1>6. ToSend(k, probe) \in 0 .. Waiting(k)
  BY <1>2, <1>3, <1>4, <1>5 DEF AtMost, space
<1>7. TailSeq(k) \in Nat
  BY <1>1 DEF TailSeq
<1> QED BY <1>1, <1>2, <1>6, <1>7

LEMMA RemainderFacts ==
    ASSUME NEW a \in Nat, NEW b \in Nat \ {0}
    PROVE  a % b \in 0 .. b - 1 /\ (a < b => a % b = a)
  OBVIOUS

LEMMA TabulatedFacts ==
    ASSUME NEW n \in Nat, NEW F, \A i \in 1 .. n : F[i] \in Nat, F = [i \in 1 .. n |-> F[i]]
    PROVE  F \in Seq(Nat) /\ Len(F) = n
  OBVIOUS

\* A read of the ring, wherever it begins: what the guest does not have yet is what the
\* application put there, or comes from outside of the buffer, but that not before the
\* first ringful has been acknowledged.
LEMMA RingReadFacts ==
    ASSUME NEW k, NEW w, IsWorld(w), SendTypes(k), Stored(k, w),
           NEW seq \in Nat \ {0}, NEW n \in Nat, n > 0 => seq + n <= TailSeq(k)
    PROVE  LET data == RingRead(k, seq, n)
           IN  /\ data \in Seq(Nat) /\ Len(data) = n
               /\ \A i \in 1 .. n :
                    seq + i - 1 <= w.app + 1 => seq + i - 1 < w.has \/ AsSent(data[i], seq + i - 2)
<1> DEFINE data == RingRead(k, seq, n)
           far  == k.base - seq > ReadPtr(k)
           L    == Len(k.written)
<1>1. /\ k.written \in Seq(Nat) /\ L \in Nat /\ TailSeq(k) = L + 1
      /\ k.base \in Nat \ {0} /\ k.base <= w.has /\ w.has \in Nat /\ w.app \in Nat
  BY DEF SendTypes, Stored, IsWorld, TailSeq
<1>2. XmitSize \in Nat \ {0} /\ Outside \in Nat
  BY TcpAssumption DEF Outside
<1>3. data = [i \in 1 .. n |-> IF far THEN Outside ELSE ByteAt(k, seq + i - 1)]
  BY DEF RingRead
<1>4. \A q \in 1 .. L : k.written[q] \in Nat
  BY <1>1, MemberFacts
<1>5. ASSUME NEW i \in 1 .. n
      PROVE  /\ data[i] \in Nat
             /\ seq + i - 1 <= w.app + 1 => seq + i - 1 < w.has \/ AsSent(data[i], seq + i - 2)
  <2> DEFINE p == seq + i - 1
  <2>1. p \in 1 .. L /\ p \in Nat /\ seq + i - 2 = p - 1 /\ seq <= p
    BY <1>1
  <2>2. data[i] = IF far THEN Outside ELSE ByteAt(k, p)
    BY <1>3
  <2> HIDE DEF data, p
  <2>3. CASE far
    <3>1. p >= k.base => p - 1 >= XmitSize
      <4> SUFFICES ASSUME p >= k.base, p - 1 < XmitSize PROVE FALSE
        BY <1>2, <2>1
      <4>1. k.base - 1 \in Nat /\ k.base - 1 < XmitSize
        BY <1>1, <1>2, <2>1
      <4>2. ReadPtr(k) = k.base - 1
        BY <1>2, <4>1, RemainderFacts DEF ReadPtr
      <4> QED BY <1>1, <2>3, <4>2
    <3>2. data[i] = Outside /\ data[i] \in Nat
      BY <1>2, <2>2, <2>3
    <3>3. seq + i - 1 = p
      BY DEF p
    <3>4. p < k.base => p < w.has
      BY <1>1, <2>1
    <3>5. p >= k.base => AsSent(data[i], p - 1)
      BY <3>1, <3>2 DEF AsSent
    <3>6. p < k.base \/ p >= k.base
      BY <1>1, <2>1
    <3> HIDE DEF far
    <3> QED BY <2>1, <3>2, <3>3, <3>4, <3>5, <3>6
  <2>4. CASE ~ far
    <3> DEFINE again == p + XmitSize
    <3>1. CASE p < k.base /\ again < TailSeq(k)
      <4>1. data[i] = k.written[again]
        BY <2>2, <2>4, <3>1 DEF ByteAt
      <4>2. again \in 1 .. L
        BY <1>1, <1>2, <2>1, <3>1
      <4>3. data[i] \in Nat
        BY <1>4, <4>1, <4>2
      <4>4. p < w.has /\ p = seq + i - 1
        BY <1>1, <2>1, <3>1 DEF p
      <4> QED BY <4>3, <4>4
    <3>2. CASE ~ (p < k.base /\ again < TailSeq(k))
      <4>1. data[i] = k.written[p]
        BY <2>2, <2>4, <3>2 DEF ByteAt
      <4>2. p <= w.app + 1 => data[i] = p - 1
        BY <2>1, <4>1 DEF Stored
      <4>3. data[i] \in Nat
        BY <1>4, <2>1, <4>1
      <4> QED BY <2>1, <4>2, <4>3 DEF AsSent
    <3> QED BY <3>1, <3>2
  <2> QED BY <2>3, <2>4
<1>6. data = [i \in 1 .. n |-> data[i]]
  BY <1>3
<1> HIDE DEF data
<1>7. data \in Seq(Nat) /\ Len(data) = n
  BY <1>5, <1>6, TabulatedFacts
<1> QED BY <1>5, <1>7 DEF data

\* What leaves the ring is what the application put in, the FIN behind the last of it.
LEMMA DataFacts ==
    ASSUME NEW k, NEW w, IsWorld(w), Sending(k, w), NEW n \in Nat,
           k.synQueued => n = 0, ~ k.synQueued => k.next + n <= TailSeq(k),
           ~ (k.synQueued /\ k.next = k.base), NEW f \in {0, 1},
           f = 1 <=> k.finQueued /\ n > 0 /\ n = Waiting(k)
    PROVE  LET data == RingRead(k, k.next, n - f)
           IN  /\ k.next \in Nat \ {0, 1} /\ data \in Seq(Nat) /\ Len(data) = n - f
               /\ \A i \in 1 .. n - f :
                    /\ k.next + i - 2 <= w.app
                    /\ (k.next + i - 1 < w.has \/ AsSent(data[i], k.next + i - 2))
               /\ f = 1 => k.next + Len(data) = w.app + 2 /\ ~ k.sendOpen
<1> DEFINE first == k.next
           L == Len(k.written)
           a == w.app
           W == Waiting(k)
           data == RingRead(k, first, n - f)
<1>1. k.written \in Seq(Nat) /\ L \in Nat /\ a \in Nat
  BY DEF Sending, SendTypes, IsWorld
<1>2. first \in Nat \ {0, 1}
  <2>1. CASE k.synQueued
    BY <2>1 DEF Sending, Position
  <2>2. CASE ~ k.synQueued
    <3>1. first \in 2 .. L + 1
      BY <2>2 DEF Sending, Position, TailSeq
    <3> QED BY <1>1, <3>1
  <2> QED BY <2>1, <2>2
<1>3. n > 0 => first + n - 1 <= L /\ W = L + 1 - first
  <2> SUFFICES ASSUME n > 0 PROVE first + n - 1 <= L /\ W = L + 1 - first
    OBVIOUS
  <2>1. ~ k.synQueued
    BY n > 0
  <2>2. W = TailSeq(k) - first /\ first + n <= TailSeq(k)
    BY <2>1, Zenon DEF Waiting
  <2>3. TailSeq(k) = L + 1
    BY DEF TailSeq
  <2> HIDE DEF W, first, L
  <2> QED BY <1>1, <1>2, <2>2, <2>3
<1>4. n > 0 => /\ k.finQueued => L = a + 2 /\ ~ k.sendOpen
               /\ ~ k.finQueued => L = a + 1
  <2> SUFFICES ASSUME n > 0 PROVE Full(k, w)
    BY DEF Full, Sending, SendTypes
  <2> SUFFICES ASSUME Cut(k) PROVE FALSE
    BY DEF Sending
  <2> QED BY <1>1, <1>2, <1>3 DEF Cut, Sending, SendTypes
<1> DEFINE noFin == n > 0 /\ L = a + 1 /\ f = 0
           fin == n > 0 /\ L = a + 2 /\ f = 1 /\ first + n = L + 1 /\ ~ k.sendOpen
           more == n > 0 /\ L = a + 2 /\ f = 0 /\ first + n <= L
<1>5. (n = 0 /\ f = 0) \/ noFin \/ fin \/ more
  <2>1. CASE n = 0
    BY <2>1
  <2>2. CASE n > 0 /\ ~ k.finQueued
    BY <1>4, <2>2
  <2>3. CASE n > 0 /\ k.finQueued
    <3> HIDE DEF W, L, first, a
    <3>1. CASE n = W
      BY <1>1, <1>2, <1>3, <1>4, <2>3, <3>1 DEF W
    <3>2. CASE n # W
      <4>1. f = 0
        BY <3>2 DEF W
      <4>2. L = a + 2 /\ n # L + 1 - first /\ first + n - 1 <= L
        BY <1>3, <1>4, <2>3, <3>2
      <4>3. first + n <= L
        BY <1>1, <1>2, <4>2
      <4> QED BY <2>3, <4>1, <4>2, <4>3
    <3> QED BY <3>1, <3>2
  <2> QED BY <2>1, <2>2, <2>3
<1> HIDE DEF L, first, a, W
<1>6. n > 0 => n >= f /\ first + n - 1 - f <= a + 1 /\ first + n - 1 - f <= L
  BY <1>1, <1>2, <1>3, <1>5
<1>7. n - f \in Nat /\ (n - f > 0 => first + (n - f) <= TailSeq(k))
  BY <1>1, <1>2, <1>5, <1>6 DEF TailSeq, L
<1>8. /\ data \in Seq(Nat) /\ Len(data) = n - f
      /\ \A i \in 1 .. n - f :
            first + i - 1 <= a + 1 => first + i - 1 < w.has \/ AsSent(data[i], first + i - 2)
  BY <1>2, <1>7, RingReadFacts DEF Sending, a
<1>9. ASSUME NEW i \in 1 .. n - f PROVE first + i - 2 <= a /\ first + i - 1 <= a + 1
  <2>1. n > 0 /\ n - f >= i /\ i >= 1 /\ i \in Nat
    BY <1>5
  <2> QED BY <1>1, <1>2, <1>6, <2>1
<1>10. f = 1 => first + (n - f) = a + 2 /\ ~ k.sendOpen
  BY <1>1, <1>2, <1>5
<1> HIDE DEF data
<1> QED BY <1>2, <1>8, <1>9, <1>10 DEF data, first, a

\* What a connection acknowledges, its application has or can read.
LEMMA AckNoFair ==
    ASSUME NEW k, NEW w, IsWorld(w), Receiving(k, w)
    PROVE  Acked(AckNo(k), k, w)
<1>1. Len(k.recv) \in Nat /\ k.recvBase \in Nat /\ w.got \in Nat /\ w.sent \in Nat
  BY DEF Receiving, IsWorld
<1>2. AckNo(k) = k.recvBase + Len(k.recv) + (IF k.finReceived THEN 1 ELSE 0)
  BY DEF AckNo, RecvTail
<1>3. CASE ~ k.recvOpen
  BY <1>1, <1>2, <1>3 DEF Acked
<1>4. CASE k.recvOpen
  <2>1. k.recvBase <= w.got + 1
    BY <1>1, <1>4 DEF Receiving, Reads
  <2>2. k.finReceived => w.closed /\ w.got + Len(k.recv) = w.sent
    BY <1>4 DEF Receiving, Reads
  <2> QED BY <1>1, <1>2, <2>1, <2>2 DEF Acked
<1> QED BY <1>3, <1>4

\* A state behind which no less is received, and no more of the FIN known, than before.
LEMMA ReceivingInState ==
    ASSUME NEW k, NEW m, NEW w, SameReceive(k, m), Receiving(k, w),
           m.state \in Early <=> k.state \in Early,
           m.state \in Finished => k.finReceived
    PROVE  Receiving(m, w)
  BY DEF SameReceive, Receiving, Reads

LEMMA TransmissionIsSound ==
    ASSUME NEW k, NEW w, IsWorld(w), HasFields(k), k.state # "none",
           Sending(k, w), Receiving(k, w), NEW ack, NEW count, NEW probe \in BOOLEAN
    PROVE  Makes(k, Transmit(k, ack, count, probe), w)
<1> DEFINE syn == k.synQueued /\ k.next = k.base
           n   == ToSend(k, probe)
           fin == k.finQueued /\ n > 0 /\ n = Waiting(k)
           f   == IF fin THEN 1 ELSE 0
           data == RingRead(k, k.next, n - f)
           seg == [Segment(k.next, AckNo(k), data) EXCEPT !.ack = ack \/ ~ syn, !.syn = syn, !.fin = fin]
           next == k.next + n + (IF syn THEN 1 ELSE 0)
           state == IF ~ fin THEN k.state
                    ELSE IF k.state = "ESTABLISHED" THEN "FIN_WAIT_1"
                    ELSE IF k.state = "CLOSE_WAIT" THEN "LAST_ACK" ELSE k.state
           timer == [first |-> k.next, last |-> k.next + n, count |-> count]
           timers == IF n = 0 THEN k.timers ELSE Append(k.timers, timer)
           events == (k.events \ {"WindowProbe", "ZeroWindowProbe", "Transmit"})
                     \union (IF n = 0 THEN {} ELSE {"Retransmit"})
           m == [k EXCEPT !.frame = <<seg>>, !.next = next, !.state = state,
                          !.timers = timers, !.events = events]
<1>1. Transmit(k, ack, count, probe) = Schedule(m)
  BY Zenon DEF Transmit
<1>2. /\ n \in Nat /\ (k.synQueued => n = 0)
      /\ ~ k.synQueued => k.next + n <= TailSeq(k)
  BY ToSendFacts
<1>3. IF syn THEN k.next = 1 ELSE Carries(seg, k, w)
  <2>1. CASE syn
    <3>1. k.base = 1
      BY <2>1 DEF Sending, Position
    <3> QED BY <2>1, <3>1
  <2>2. CASE ~ syn
    <3>1. f \in {0, 1} /\ (f = 1 <=> fin)
      OBVIOUS
    <3>2. seg.seq = k.next /\ seg.data = data /\ seg.fin = fin
      BY DEF Segment
    <3> HIDE DEF n, f, seg
    <3>3. /\ k.next \in Nat \ {0, 1} /\ data \in Seq(Nat) /\ Len(data) = n - f
          /\ \A i \in 1 .. n - f : /\ k.next + i - 2 <= w.app
                                   /\ (k.next + i - 1 < w.has \/ AsSent(data[i], k.next + i - 2))
          /\ f = 1 => k.next + Len(data) = w.app + 2 /\ ~ k.sendOpen
      BY <1>2, <2>2, <3>1, DataFacts
    <3> HIDE DEF data, fin
    <3> QED BY <2>2, <3>1, <3>2, <3>3 DEF Carries
  <2> QED BY <2>1, <2>2
<1>4. Fair(seg, k, w)
  <2>1. /\ seg.rst = FALSE /\ seg.ackNo = AckNo(k) /\ seg.seq = k.next
        /\ seg.syn = syn /\ seg.fin = fin
    BY DEF Segment
  <2>2. fin \in BOOLEAN /\ syn \in BOOLEAN
    BY DEF Sending, SendTypes
  <2> HIDE DEF seg, syn, fin
  <2> QED BY <1>3, <2>1, <2>2, AckNoFair DEF Fair
<1>5. /\ ~ k.synQueued => next = k.next + n /\ next \in 2 .. TailSeq(k)
      /\ k.synQueued => next = 2
  <2>1. CASE k.synQueued
    <3>1. n = 0 /\ k.next \in {1, 2} /\ k.base = 1
      BY <1>2, <2>1 DEF Sending, Position
    <3> HIDE DEF n
    <3> QED BY <2>1, <3>1
  <2>2. CASE ~ k.synQueued
    <3>1. k.next \in Nat /\ k.next >= 2 /\ TailSeq(k) \in Nat /\ next = k.next + n + 0
      BY <2>2 DEF Sending, SendTypes, Position, TailSeq
    <3> HIDE DEF n, next
    <3> QED BY <1>2, <2>2, <3>1
  <2> QED BY <2>1, <2>2
<1>6. Cut(k) /\ ~ k.synQueued => next = k.next
  <2> SUFFICES ASSUME Cut(k), ~ k.synQueued PROVE next = k.next
    OBVIOUS
  <2>1. k.next = TailSeq(k) /\ k.next \in Nat
    BY DEF Cut, Sending, SendTypes, TailSeq
  <2>2. n = 0
    <3> HIDE DEF n
    <3> QED BY <1>2, <2>1
  <2> QED BY <1>5, <2>1, <2>2
<1>7. k.synQueued => timers = k.timers
  BY <1>2
<1>8. /\ state # "none" /\ (state \in Early <=> k.state \in Early)
      /\ state \in Finished => k.state \in Finished
  BY DEF Early, Finished
<1> HIDE DEF syn, n, fin, f, data, seg, next, state, timers, events
<1>9. /\ HasFields(m) /\ m.frame = <<seg>> /\ m.next = next /\ m.state = state /\ m.timers = timers
      /\ m.written = k.written /\ m.base = k.base /\ m.limit = k.limit /\ m.lastAck = k.lastAck
      /\ m.synQueued = k.synQueued /\ m.finQueued = k.finQueued /\ m.sendOpen = k.sendOpen
      /\ SameReceive(k, m)
  BY Fields DEF HasFields, SameReceive
<1> HIDE DEF m
<1>10. Sending(m, w) /\ SynWasSent(m, w)
  <2>1. SendTypes(m) /\ Stored(m, w) /\ (Full(m, w) <=> Full(k, w)) /\ TailSeq(m) = TailSeq(k)
    BY <1>9 DEF Sending, SendTypes, Stored, Full, TailSeq
  <2>2. Position(m) /\ SynWasSent(m, w)
    BY <1>5, <1>7, <1>9, <2>1 DEF Sending, Position, SynWasSent
  <2>3. Cut(k) => Cut(m)
    BY <1>6, <1>9 DEF Cut
  <2> QED BY <2>1, <2>2, <2>3 DEF Sending
<1>11. Receiving(m, w)
  <2>1. CASE k.recvOpen
    <3>1. m.state \in Finished => k.finReceived
      BY <1>8, <1>9, <2>1 DEF Receiving, Reads
    <3> QED BY <1>8, <1>9, <3>1, ReceivingInState
  <2>2. CASE ~ k.recvOpen
    BY <1>9, <2>2 DEF SameReceive, Receiving
  <2> QED BY <2>1, <2>2
<1>12. Follows(k, m) /\ k.recv \in Seq(Nat) /\ m.recv \in Seq(Nat)
  BY <1>9 DEF Follows, SameReceive, Receiving
<1>13. FrameFair(m, w)
  BY <1>4, <1>9, <1>12, FairFollows DEF FrameFair
<1>14. Sound(m, w) /\ Makes(m, Schedule(m), w)
  BY <1>8, <1>9, <1>10, <1>11, <1>13, SchedulingKeepsSound DEF Sound
<1>15. Schedule(m).recv \in Seq(Nat)
  BY <1>14 DEF Makes, Sound, Receiving
<1> QED BY <1>1, <1>9, <1>12, <1>14, <1>15, FollowsOn DEF Makes

LEMMA TransmitNowIsSound ==
    ASSUME NEW k, NEW w, IsWorld(w), Sound(k, w)
    PROVE  Makes(k, TransmitNow(k), w)
<1>1. Makes(k, Transmit(k, FALSE, 0, FALSE), w)
  BY TransmissionIsSound DEF Sound
<1> QED BY <1>1, SchedulingKeepsSound DEF TransmitNow

LEMMA ProbeIsSound ==
    ASSUME NEW k, NEW w, IsWorld(w), Sound(k, w)
    PROVE  Makes(k, Probe(k), w)
<1>1. Makes(k, Transmit(k, FALSE, 0, TRUE), w)
  BY TransmissionIsSound DEF Sound
<1> QED BY <1>1, MakesItself DEF Probe

-----------------------------------------------------------------------------
(* Closing.                                                                  *)

LEMMA TimeWaitIsSound ==
    ASSUME NEW k, NEW w, IsWorld(w), Sound(k, w), k.recvOpen => k.finReceived
    PROVE  Makes(k, ChangeToTimeWait(k), w)
<1> DEFINE m == ChangeToTimeWait(k)
<1>1. /\ HasFields(m) /\ m.state = "TIME_WAIT" /\ SameSend(k, m) /\ m.sendOpen = k.sendOpen
      /\ SameReceive(k, m) /\ m.frame = k.frame
  BY Fields DEF ChangeToTimeWait, Sound, HasFields, SameSend, SameReceive
<1> HIDE DEF m
<1>2. Receiving(m, w)
  <2>1. CASE k.recvOpen
    <3>1. k.state \notin Early
      BY <2>1 DEF Sound, Receiving, Reads
    <3> QED BY <1>1, <2>1, <3>1, ReceivingInState DEF Sound, Early
  <2>2. CASE ~ k.recvOpen
    BY <1>1, <2>2 DEF Sound, Receiving, SameReceive
  <2> QED BY <2>1, <2>2
<1>3. Sending(m, w) /\ SynWasSent(m, w)
  BY <1>1, SendingKept DEF Sound
<1>4. Follows(k, m) /\ k.recv \in Seq(Nat) /\ m.recv \in Seq(Nat)
  BY <1>1 DEF Follows, SameReceive, Sound, Receiving
<1>5. FrameFair(m, w)
  BY <1>1, <1>4, FrameKept DEF Sound
<1>6. Sound(m, w) /\ m.base = k.base
  BY <1>1, <1>2, <1>3, <1>5 DEF Sound, SameSend
<1> QED BY <1>4, <1>6 DEF Makes, m

\* A reset leaves nothing that could go wrong, whatever was known of a FIN.
LEMMA ResetIsSound ==
    ASSUME NEW k, NEW w, IsWorld(w), HasFields(k), Sending(k, w),
           k.recvBase \in Nat, k.finReceived \in BOOLEAN
    PROVE  LET m == ResetConnection(k) IN
           Sound(m, w) /\ m.sendOpen = FALSE /\ m.recvOpen = FALSE /\ m.base = k.base
<1> DEFINE seg == [Segment(k.base, 0, <<>>) EXCEPT !.rst = TRUE, !.ack = FALSE]
           written == SubSeq(k.written, 1, k.base - 1)
           m == ResetConnection(k)
<1>1. m = ChangeToTimeWait(
            [k EXCEPT !.written = written, !.next = k.base, !.recv = <<>>,
                      !.recvOpen = FALSE, !.sendOpen = FALSE, !.frame = <<seg>>])
  BY Zenon DEF ResetConnection
<1>2. Fair(seg, m, w)
  BY DEF Fair, Segment
<1>3. /\ k.written \in Seq(Nat) /\ k.base \in Nat \ {0} /\ k.base - 1 <= Len(k.written)
      /\ Len(k.written) \in Nat
  BY DEF Sending, SendTypes, TailSeq
<1>4. /\ written \in Seq(Nat) /\ Len(written) = k.base - 1
      /\ \A i \in 1 .. k.base - 1 : written[i] = k.written[i]
  <2>1. CASE k.base = 1
    <3>1. written = <<>> /\ Len(<<>>) = 0
      BY <1>3, <2>1
    <3> HIDE DEF written
    <3> QED BY <2>1, <3>1
  <2>2. CASE k.base > 1
    <3>1. k.base - 1 \in 1 .. Len(k.written) /\ 1 \in 1 .. Len(k.written)
      BY <1>3, <2>2
    <3> QED BY <1>3, <3>1
  <2> QED BY <1>3, <2>1, <2>2
<1> HIDE DEF written, seg
<1>5. /\ HasFields(m) /\ m.state = "TIME_WAIT" /\ m.written = written /\ m.next = k.base
      /\ m.recv = <<>> /\ m.recvOpen = FALSE /\ m.sendOpen = FALSE /\ m.frame = <<seg>>
      /\ m.base = k.base /\ m.limit = k.limit /\ m.lastAck = k.lastAck /\ m.timers = k.timers
      /\ m.synQueued = k.synQueued /\ m.finQueued = k.finQueued
      /\ m.recvBase = k.recvBase /\ m.finReceived = k.finReceived
  BY <1>1, Fields DEF ChangeToTimeWait, HasFields
<1> HIDE DEF m
<1>6. TailSeq(m) = k.base
  <2>1. TailSeq(m) = Len(written) + 1
    BY <1>5 DEF TailSeq
  <2>2. Len(written) + 1 = k.base
    BY <1>3, <1>4
  <2> QED BY <2>1, <2>2
<1>7. SendTypes(m) /\ Cut(m)
  <2>1. Cut(m)
    BY <1>4, <1>5 DEF Cut
  <2>2. k.base <= k.base
    BY <1>3
  <2> QED BY <1>3, <1>4, <1>5, <1>6, <2>1, <2>2 DEF SendTypes, Sending
<1>8. Position(m)
  BY <1>3, <1>5, <1>6 DEF Position, Sending
<1>9. Stored(m, w)
  BY <1>3, <1>4, <1>5, SMTT(20) DEF Sending, Stored
<1>10. SynWasSent(m, w)
  <2> SUFFICES ASSUME m.synQueued, Full(m, w) PROVE FALSE
    BY DEF SynWasSent
  <2>1. Len(m.written) = 0
    BY <1>4, <1>5, <1>8 DEF Position
  <2> QED BY <2>1 DEF Full, IsWorld
<1>11. Receiving(m, w)
  <2>1. <<>> \in Seq(Nat)
    OBVIOUS
  <2> QED BY <1>5, <2>1 DEF Receiving
<1>12. FrameFair(m, w)
  BY <1>2, <1>5 DEF FrameFair
<1> QED BY <1>5, <1>7, <1>8, <1>9, <1>10, <1>11, <1>12 DEF Sound, Sending, m

LEMMA QueueFinIsSound ==
    ASSUME NEW k, NEW w, IsWorld(w), Sound(k, w), Full(k, w), ~ k.finQueued, ~ k.sendOpen
    PROVE  Makes(k, QueueFin(k), w)
<1> DEFINE written == Append(k.written, Placeholder)
           m == QueueFin(k)
<1>1. /\ HasFields(m) /\ m.written = written /\ m.finQueued = TRUE
      /\ m.base = k.base /\ m.next = k.next /\ m.limit = k.limit /\ m.lastAck = k.lastAck
      /\ m.synQueued = k.synQueued /\ m.timers = k.timers /\ m.sendOpen = k.sendOpen
      /\ SameReceive(k, m) /\ m.state = k.state /\ m.frame = k.frame
  BY Fields DEF QueueFin, HasFields, Sound, SameReceive
<1>2. k.written \in Seq(Nat) /\ Len(k.written) = w.app + 1 /\ w.app \in Nat /\ k.base \in Nat
  BY DEF Full, Sound, Sending, SendTypes, IsWorld
<1>3. /\ written \in Seq(Nat) /\ Len(written) = w.app + 2
      /\ \A i \in 1 .. w.app + 1 : written[i] = k.written[i]
  BY <1>2 DEF Placeholder
<1> HIDE DEF written, m
<1>4. TailSeq(k) = w.app + 2 /\ TailSeq(m) = w.app + 3
  <2>1. TailSeq(k) = (w.app + 1) + 1 /\ TailSeq(m) = (w.app + 2) + 1
    BY <1>1, <1>2, <1>3, Zenon DEF TailSeq
  <2> QED BY <1>2, <2>1
<1>5. SendTypes(m) /\ Full(m, w)
  <2>1. Full(m, w)
    BY <1>1, <1>3 DEF Full
  <2>2. SendTypes(k) /\ k.base <= w.app + 2
    BY <1>4 DEF Sound, Sending, SendTypes
  <2>3. m.base <= TailSeq(m)
    BY <1>1, <1>2, <1>4, <2>2
  <2> QED BY <1>1, <1>3, <2>1, <2>2, <2>3 DEF SendTypes
<1>6. Position(m)
  <2>1. ~ k.synQueued => k.next \in 2 .. w.app + 3
    BY <1>2, <1>4 DEF Sound, Sending, Position
  <2> QED BY <1>1, <1>4, <2>1 DEF Sound, Sending, Position
<1>7. Stored(m, w)
  <2>1. ASSUME NEW i \in 1 .. Len(m.written), i <= w.app + 1
        PROVE  m.written[i] = i - 1
    <3>1. i \in 1 .. w.app + 1 /\ i \in 1 .. Len(k.written)
      BY <1>2, <2>1
    <3>2. written[i] = k.written[i]
      BY <1>3, <3>1
    <3>3. k.written[i] = i - 1
      BY <2>1, <3>1 DEF Sound, Sending, Stored
    <3> QED BY <1>1, <3>2, <3>3
  <2>2. m.base <= w.has
    BY <1>1 DEF Sound, Sending, Stored
  <2> QED BY <2>1, <2>2 DEF Stored
<1>8. SynWasSent(m, w)
  BY <1>1 DEF Sound, SynWasSent
<1>9. Receiving(m, w)
  BY <1>1, ReceivingKept DEF Sound
<1>10. Follows(k, m) /\ k.recv \in Seq(Nat) /\ m.recv \in Seq(Nat)
  BY <1>1 DEF Follows, SameReceive, Sound, Receiving
<1>11. FrameFair(m, w)
  BY <1>1, <1>10, FrameKept DEF Sound
<1>12. Sound(m, w)
  BY <1>1, <1>5, <1>6, <1>7, <1>8, <1>9, <1>11 DEF Sound, Sending
<1> QED BY <1>1, <1>10, <1>12 DEF Makes, m

LEMMA ShutIsSound ==
    ASSUME NEW k, NEW w, IsWorld(w), Sound(k, w)
    PROVE  /\ Makes(k, [k EXCEPT !.sendOpen = FALSE], w)
           /\ Full(k, w) => Full([k EXCEPT !.sendOpen = FALSE], w)
<1> DEFINE m == [k EXCEPT !.sendOpen = FALSE]
<1>1. /\ HasFields(m) /\ m.sendOpen = FALSE /\ SameSend(k, m) /\ SameReceive(k, m)
      /\ m.state = k.state /\ m.frame = k.frame
  BY Fields DEF HasFields, Sound, SameSend, SameReceive
<1> HIDE DEF m
<1>2. SendTypes(m) /\ Position(m) /\ Stored(m, w) /\ (Full(k, w) => Full(m, w)) /\ (Cut(k) => Cut(m))
  BY <1>1 DEF SameSend, Sound, Sending, SendTypes, Position, Stored, Full, Cut, TailSeq
<1>3. SynWasSent(m, w)
  <2> SUFFICES ASSUME m.synQueued, Full(m, w) PROVE m.next = 2
    BY DEF SynWasSent
  <2>1. k.synQueued /\ k.base = 1 /\ Len(k.written) = Len(m.written)
    BY <1>1 DEF SameSend, Sound, Sending, Position
  <2>2. ~ Cut(k)
    <3>1. Len(m.written) # 0
      BY DEF Full, IsWorld
    <3> QED BY <2>1, <3>1 DEF Cut
  <2>3. Full(k, w)
    BY <2>2 DEF Sound, Sending
  <2> QED BY <1>1, <2>1, <2>3 DEF Sound, SynWasSent, SameSend
<1>4. Receiving(m, w)
  BY <1>1, ReceivingKept DEF Sound
<1>5. Follows(k, m) /\ k.recv \in Seq(Nat) /\ m.recv \in Seq(Nat)
  BY <1>1 DEF Follows, SameReceive, Sound, Receiving
<1>6. FrameFair(m, w)
  BY <1>1, <1>5, FrameKept DEF Sound
<1>7. Sound(m, w) /\ m.base = k.base
  BY <1>1, <1>2, <1>3, <1>4, <1>6 DEF Sound, Sending, SameSend
<1> QED BY <1>2, <1>5, <1>7 DEF Makes, m

LEMMA ShutdownSendIsSound ==
    ASSUME NEW k, NEW w, IsWorld(w), Sound(k, w)
    PROVE  Makes(k, ShutdownSend(k), w)
<1>1. CASE ~ k.sendOpen
  BY <1>1, MakesItself DEF ShutdownSend
<1>2. CASE k.sendOpen
  <2> DEFINE shut == [k EXCEPT !.sendOpen = FALSE]
  <2>1. ShutdownSend(k) = Schedule(IF XmitSpace(k) > 0 THEN QueueFin(shut) ELSE shut)
    BY <1>2 DEF ShutdownSend
  <2>2. Full(k, w) /\ ~ k.finQueued
    BY <1>2 DEF Sound, Sending, Cut, Full
  <2>3. Makes(k, shut, w) /\ Full(shut, w)
    BY <2>2, ShutIsSound
  <2>4. shut.finQueued = k.finQueued /\ shut.sendOpen = FALSE
    BY Fields DEF Sound, HasFields
  <2> HIDE DEF shut
  <2>5. Makes(shut, QueueFin(shut), w)
    BY <2>2, <2>3, <2>4, QueueFinIsSound DEF Makes
  <2>6. Makes(k, QueueFin(shut), w)
    BY <2>3, <2>5, MakesOn
  <2>7. Makes(k, Schedule(QueueFin(shut)), w)
    <3>1. Makes(QueueFin(shut), Schedule(QueueFin(shut)), w)
      BY <2>6, SchedulingKeepsSound DEF Makes
    <3> QED BY <2>6, <3>1, MakesOn
  <2>8. Makes(k, Schedule(shut), w)
    <3>1. Makes(shut, Schedule(shut), w)
      BY <2>3, SchedulingKeepsSound DEF Makes
    <3> QED BY <2>3, <3>1, MakesOn
  <2> QED BY <2>1, <2>7, <2>8
<1> QED BY <1>1, <1>2

LEMMA ResetMakes ==
    ASSUME NEW k, NEW w, IsWorld(w), Sound(k, w)
    PROVE  Makes(k, ResetConnection(k), w)
<1>1. LET m == ResetConnection(k) IN
      Sound(m, w) /\ m.sendOpen = FALSE /\ m.recvOpen = FALSE /\ m.base = k.base
  BY ResetIsSound DEF Sound, Receiving
<1> QED BY <1>1 DEF Makes, Follows

LEMMA ShutdownReceiveIsSound ==
    ASSUME NEW k, NEW w, IsWorld(w), Sound(k, w)
    PROVE  Makes(k, ShutdownReceive(k), w)
<1>1. CASE k.recv # <<>>
  BY <1>1, ResetMakes DEF ShutdownReceive
<1>2. CASE k.recv = <<>>
  <2> DEFINE m == [k EXCEPT !.recvOpen = FALSE]
  <2>1. /\ HasFields(m) /\ m.recvOpen = FALSE /\ SameSend(k, m) /\ m.sendOpen = k.sendOpen
        /\ m.recv = k.recv /\ m.recvBase = k.recvBase /\ m.finReceived = k.finReceived
        /\ m.state = k.state /\ m.frame = k.frame
    BY Fields DEF HasFields, Sound, SameSend
  <2>2. ShutdownReceive(k) = m
    BY <1>2 DEF ShutdownReceive
  <2> HIDE DEF m
  <2>3. Receiving(m, w)
    BY <1>2, <2>1 DEF Sound, Receiving
  <2>4. Follows(k, m) /\ k.recv \in Seq(Nat) /\ m.recv \in Seq(Nat)
    BY <2>1 DEF Follows, Sound, Receiving
  <2>5. FrameFair(m, w)
    BY <2>1, <2>4, FrameKept DEF Sound
  <2>6. Sound(m, w) /\ m.base = k.base
    BY <2>1, <2>3, <2>5, SendingKept DEF Sound, SameSend
  <2> QED BY <2>2, <2>4, <2>6 DEF Makes
<1> QED BY <1>1, <1>2

LEMMA ShutdownIsSound ==
    ASSUME NEW k, NEW w, IsWorld(w), Sound(k, w), NEW send \in BOOLEAN, NEW receive \in BOOLEAN
    PROVE  Makes(k, ShutdownSocket(k, send, receive), w)
<1> DEFINE half == IF receive /\ k.recvOpen THEN ShutdownReceive(k) ELSE k
<1>1. ShutdownSocket(k, send, receive) = IF send THEN ShutdownSend(half) ELSE half
  BY DEF ShutdownSocket
<1>2. Makes(k, half, w)
  BY ShutdownReceiveIsSound, MakesItself
<1> HIDE DEF half
<1>3. Makes(half, ShutdownSend(half), w)
  BY <1>2, ShutdownSendIsSound DEF Makes
<1> QED BY <1>1, <1>2, <1>3, MakesOn

LEMMA CloseIsSound ==
    ASSUME NEW k, NEW w, IsWorld(w), Sound(k, w), NEW force \in BOOLEAN
    PROVE  Makes(k, CloseSocket(k, force), w)
<1>1. CASE k.state \in {"TIME_WAIT", "CLOSED"}
  BY <1>1, MakesItself DEF CloseSocket
<1>2. CASE k.state \notin {"TIME_WAIT", "CLOSED"} /\ force
  BY <1>2, ResetMakes DEF CloseSocket
<1>3. CASE k.state \notin {"TIME_WAIT", "CLOSED"} /\ ~ force
  BY <1>3, ShutdownIsSound DEF CloseSocket
<1> QED BY <1>1, <1>2, <1>3

\* A connection that is given up: an error is noted as a FIN before the reset.
GivenUp(k) == [k EXCEPT !.sendOpen = FALSE, !.finReceived = TRUE]

LEMMA GivenUpIsSound ==
    ASSUME NEW k, NEW w, IsWorld(w), Sound(k, w)
    PROVE  Makes(k, CloseSocket(GivenUp(k), TRUE), w)
<1> DEFINE shut == [k EXCEPT !.sendOpen = FALSE]
           m == GivenUp(k)
<1>1. Makes(k, shut, w)
  BY ShutIsSound
<1>2. /\ HasFields(m) /\ SameSend(shut, m) /\ m.sendOpen = shut.sendOpen /\ m.sendOpen = FALSE
      /\ m.recv = k.recv /\ m.recvOpen = k.recvOpen /\ m.recvBase = k.recvBase /\ m.finReceived = TRUE
      /\ m.state = k.state /\ m.frame = k.frame /\ m.base = k.base
  BY Fields DEF GivenUp, Sound, HasFields, SameSend
<1>3. /\ shut.recv = k.recv /\ shut.recvOpen = k.recvOpen /\ shut.recvBase = k.recvBase
      /\ shut.finReceived = k.finReceived /\ shut.state = k.state /\ shut.frame = k.frame
  BY Fields DEF Sound, HasFields
<1> HIDE DEF m, shut
<1>4. Sending(m, w)
  BY <1>1, <1>2, SendingKept DEF Makes, Sound
<1>5. CASE k.state \in {"TIME_WAIT", "CLOSED"}
  <2>1. CloseSocket(m, TRUE) = m
    BY <1>2, <1>5 DEF CloseSocket
  <2>2. k.recvOpen => k.finReceived = TRUE
    BY <1>5 DEF Sound, Receiving, Reads, Finished
  <2>3. Receiving(m, w)
    BY <1>2, <2>2 DEF Sound, Receiving, Reads
  <2>4. Follows(k, m) /\ k.recv \in Seq(Nat) /\ m.recv \in Seq(Nat)
    BY <1>2 DEF Follows, Sound, Receiving
  <2>5. FrameFair(m, w)
    BY <1>2, <2>4, FrameKept DEF Sound
  <2>6. SynWasSent(m, w)
    BY <1>1, <1>2, SendingKept DEF Makes, Sound
  <2>7. Sound(m, w)
    BY <1>2, <1>4, <2>3, <2>5, <2>6 DEF Sound
  <2> QED BY <1>2, <2>1, <2>4, <2>7 DEF Makes, m
<1>6. CASE k.state \notin {"TIME_WAIT", "CLOSED"}
  <2>1. CloseSocket(m, TRUE) = ResetConnection(m)
    BY <1>2, <1>6 DEF CloseSocket
  <2>2. LET n == ResetConnection(m) IN
        Sound(n, w) /\ n.sendOpen = FALSE /\ n.recvOpen = FALSE /\ n.base = m.base
    BY <1>2, <1>4, ResetIsSound DEF Sound, Receiving
  <2> QED BY <1>2, <2>1, <2>2 DEF Makes, Follows, m
<1> QED BY <1>5, <1>6

\* What a connection becomes at most: none, or one that undoes nothing.
Lasting(k, m, w) == m = Destroyed \/ (Sound(m, w) /\ Follows(k, m))

\* A connection that has received its FIN, or reads nothing, leaves the table.
LEMMA DeletionIsSound ==
    ASSUME NEW k, NEW w, IsWorld(w), Sound(k, w), k.recvOpen => k.finReceived
    PROVE  DeleteConnection(k) = Destroyed \/ Makes(k, DeleteConnection(k), w)
<1> DEFINE m == [k EXCEPT !.state = "CLOSED", !.listed = FALSE]
<1>1. /\ HasFields(m) /\ m.state = "CLOSED" /\ SameSend(k, m) /\ m.sendOpen = k.sendOpen
      /\ SameReceive(k, m) /\ m.frame = k.frame
  BY Fields DEF Sound, HasFields, SameSend, SameReceive
<1>2. DeleteConnection(k) \in {Destroyed, m}
  BY DEF DeleteConnection
<1> HIDE DEF m
<1>3. Receiving(m, w)
  <2>1. CASE k.recvOpen
    <3>1. k.state \notin Early
      BY <2>1 DEF Sound, Receiving, Reads
    <3> QED BY <1>1, <2>1, <3>1, ReceivingInState DEF Sound, Early
  <2>2. CASE ~ k.recvOpen
    BY <1>1, <2>2 DEF Sound, Receiving, SameReceive
  <2> QED BY <2>1, <2>2
<1>4. Follows(k, m) /\ k.recv \in Seq(Nat) /\ m.recv \in Seq(Nat)
  BY <1>1 DEF Follows, SameReceive, Sound, Receiving
<1>5. FrameFair(m, w)
  BY <1>1, <1>4, FrameKept DEF Sound
<1>6. Sound(m, w) /\ m.base = k.base
  BY <1>1, <1>3, <1>5, SendingKept DEF Sound, SameSend
<1> QED BY <1>2, <1>4, <1>6 DEF Makes

\* The connection before it sends again, back at the first byte that is not acknowledged:
\* the SYN is long acknowledged then.
Again(k) ==
    [k EXCEPT !.timers = <<>>,
              !.next = IF Head(k.timers).first \in k.base .. TailSeq(k) - 1
                       THEN Head(k.timers).first ELSE k.base]

LEMMA AgainIsSound ==
    ASSUME NEW k, NEW w, IsWorld(w), Sound(k, w), k.timers # <<>>
    PROVE  LET m == Again(k) IN
           /\ HasFields(m) /\ m.state = k.state /\ m.base = k.base /\ m.sendOpen = k.sendOpen
           /\ Sending(m, w) /\ Receiving(m, w) /\ SameReceive(k, m)
<1> DEFINE next == IF Head(k.timers).first \in k.base .. TailSeq(k) - 1
                   THEN Head(k.timers).first ELSE k.base
           m == Again(k)
<1>1. /\ k.base \in Nat /\ k.base > 1 /\ k.base <= TailSeq(k) /\ TailSeq(k) \in Nat
      /\ ~ k.synQueued
  <2>1. ~ k.synQueued
    BY DEF Sound, Sending, Position
  <2> QED BY <2>1 DEF Sound, Sending, SendTypes, Position, TailSeq
<1>2. next \in 2 .. TailSeq(k)
  BY <1>1
<1>3. Cut(k) => next = k.base
  <2> SUFFICES ASSUME Cut(k) PROVE k.base .. TailSeq(k) - 1 = {}
    OBVIOUS
  <2>1. TailSeq(k) = k.base
    BY <1>1 DEF Cut, TailSeq, Sound, Sending, SendTypes
  <2> QED BY <1>1, <2>1
<1>4. /\ HasFields(m) /\ m.next = next /\ m.timers = <<>> /\ m.state = k.state /\ m.frame = k.frame
      /\ m.written = k.written /\ m.base = k.base /\ m.limit = k.limit /\ m.lastAck = k.lastAck
      /\ m.synQueued = k.synQueued /\ m.finQueued = k.finQueued /\ m.sendOpen = k.sendOpen
      /\ SameReceive(k, m)
  <2> HIDE DEF next
  <2>1. m = [k EXCEPT !.timers = <<>>, !.next = next]
    BY Zenon DEF Again, next
  <2> HIDE DEF m
  <2> QED BY <2>1, Fields DEF HasFields, SameReceive, Sound
<1> HIDE DEF m, next
<1>5. Sending(m, w)
  <2>1. SendTypes(m) /\ Stored(m, w) /\ (Full(k, w) => Full(m, w)) /\ TailSeq(m) = TailSeq(k)
    BY <1>4 DEF Sound, Sending, SendTypes, Stored, Full, TailSeq
  <2>2. Position(m)
    BY <1>1, <1>2, <1>4, <2>1 DEF Position
  <2>3. Cut(k) => Cut(m)
    BY <1>3, <1>4 DEF Cut
  <2> QED BY <2>1, <2>2, <2>3 DEF Sound, Sending
<1>6. Receiving(m, w)
  BY <1>4, ReceivingKept DEF Sound
<1> QED BY <1>4, <1>5, <1>6 DEF m

LEMMA RetransmitIsSound ==
    ASSUME NEW k, NEW w, IsWorld(w), Sound(k, w), k.timers # <<>>
    PROVE  Makes(k, Retransmit(k), w)
<1> DEFINE m == Again(k)
           count == Head(k.timers).count + 1
<1>1. Retransmit(k) = IF count >= MaxRetransmits THEN CloseSocket(GivenUp(k), TRUE)
                      ELSE Transmit(m, TRUE, count, FALSE)
  BY Zenon DEF Retransmit, GivenUp, Again
<1>2. /\ HasFields(m) /\ m.state = k.state /\ m.base = k.base /\ m.sendOpen = k.sendOpen
      /\ Sending(m, w) /\ Receiving(m, w) /\ SameReceive(k, m)
  BY AgainIsSound
<1> HIDE DEF m, count
<1>3. Makes(m, Transmit(m, TRUE, count, FALSE), w)
  BY <1>2, TransmissionIsSound DEF Sound
<1>4. Makes(k, Transmit(m, TRUE, count, FALSE), w)
  BY <1>2, <1>3 DEF Makes, Follows, SameReceive
<1> QED BY <1>1, <1>4, GivenUpIsSound

-----------------------------------------------------------------------------
(* Receiving.                                                                *)

LEMMA StateIsSound ==
    ASSUME NEW k, NEW w, IsWorld(w), Sound(k, w), NEW state,
           state \notin Early,
           k.recvOpen => k.state \notin Early /\ (state \in Finished => k.finReceived)
    PROVE  Makes(k, [k EXCEPT !.state = state], w)
<1> DEFINE m == [k EXCEPT !.state = state]
<1>1. /\ HasFields(m) /\ m.state = state /\ SameSend(k, m) /\ m.sendOpen = k.sendOpen
      /\ SameReceive(k, m) /\ m.frame = k.frame
  BY Fields DEF Sound, HasFields, SameSend, SameReceive
<1> HIDE DEF m
<1>2. Receiving(m, w)
  <2>1. CASE k.recvOpen
    BY <1>1, <2>1, ReceivingInState DEF Sound
  <2>2. CASE ~ k.recvOpen
    BY <1>1, <2>2 DEF Sound, Receiving, SameReceive
  <2> QED BY <2>1, <2>2
<1>3. Follows(k, m) /\ k.recv \in Seq(Nat) /\ m.recv \in Seq(Nat)
  BY <1>1 DEF Follows, SameReceive, Sound, Receiving
<1>4. FrameFair(m, w)
  BY <1>1, <1>3, FrameKept DEF Sound
<1>5. Sound(m, w) /\ m.base = k.base
  BY <1>1, <1>2, <1>4, SendingKept DEF Sound, SameSend, Early
<1> QED BY <1>3, <1>5 DEF Makes, m

LEMMA WindowIsSound ==
    ASSUME NEW k, NEW w, IsWorld(w), Sound(k, w), NEW s, s.ackNo \in Nat, s.wnd \in Nat
    PROVE  Makes(k, Window(k, s), w) /\ SameReceive(k, Window(k, s)) /\ Window(k, s).state = k.state
<1> DEFINE acked == IF s.ack THEN s.ackNo ELSE k.lastAck
           limit == acked + s.wnd
           threshold == AtLeast(k.threshold, AtMost(s.wnd \div 2, 256))
           m == [k EXCEPT !.lastAck = acked, !.limit = limit, !.threshold = threshold]
<1>1. Window(k, s) = m
  BY Zenon DEF Window
<1>2. acked \in Int /\ limit \in Int
  BY DEF Sound, Sending, SendTypes
<1> HIDE DEF acked, limit, threshold
<1>3. /\ HasFields(m) /\ m.lastAck = acked /\ m.limit = limit
      /\ m.next = k.next /\ m.timers = k.timers /\ m.state = k.state /\ m.frame = k.frame
      /\ m.written = k.written /\ m.base = k.base
      /\ m.synQueued = k.synQueued /\ m.finQueued = k.finQueued /\ m.sendOpen = k.sendOpen
      /\ SameReceive(k, m)
  BY Fields DEF Sound, HasFields, SameReceive
<1> HIDE DEF m
<1>4. Sending(m, w) /\ SynWasSent(m, w)
  BY <1>2, <1>3 DEF Sound, Sending, SendTypes, Position, Stored, Full, Cut, SynWasSent, TailSeq
<1>5. Receiving(m, w)
  BY <1>3, ReceivingKept DEF Sound
<1>6. Follows(k, m) /\ k.recv \in Seq(Nat) /\ m.recv \in Seq(Nat)
  BY <1>3 DEF Follows, SameReceive, Sound, Receiving
<1>7. FrameFair(m, w)
  BY <1>3, <1>6, FrameKept DEF Sound
<1>8. Sound(m, w)
  BY <1>3, <1>4, <1>5, <1>7 DEF Sound
<1> QED BY <1>1, <1>3, <1>6, <1>8 DEF Makes

LEMMA UpdateTimersIsSound ==
    ASSUME NEW k, NEW w, IsWorld(w), Sound(k, w), NEW ackNo
    PROVE  LET m == UpdateTimers(k, ackNo) IN
           Makes(k, m, w) /\ SameReceive(k, m) /\ m.state = k.state
<1> DEFINE left == TimersLeft(k, ackNo)
           events == IF left = <<>> THEN k.events \ {"Retransmit"} ELSE k.events \union {"Retransmit"}
           m == [k EXCEPT !.timers = left, !.events = events]
<1>1. UpdateTimers(k, ackNo) = m
  BY Zenon DEF UpdateTimers
<1>2. k.timers = <<>> => left = <<>>
  <2> SUFFICES ASSUME k.timers = <<>> PROVE left = <<>>
    OBVIOUS
  <2>1. {i \in DOMAIN k.timers : AtMost(k.timers[i].last, k.limit) > ackNo} = {}
    OBVIOUS
  <2> QED BY <2>1, Zenon DEF TimersLeft
<1> HIDE DEF left, events
<1>3. /\ HasFields(m) /\ m.timers = left
      /\ m.next = k.next /\ m.limit = k.limit /\ m.lastAck = k.lastAck
      /\ m.state = k.state /\ m.frame = k.frame /\ m.written = k.written /\ m.base = k.base
      /\ m.synQueued = k.synQueued /\ m.finQueued = k.finQueued /\ m.sendOpen = k.sendOpen
      /\ SameReceive(k, m)
  BY Fields DEF Sound, HasFields, SameReceive
<1> HIDE DEF m
<1>4. Sending(m, w) /\ SynWasSent(m, w)
  BY <1>2, <1>3 DEF Sound, Sending, SendTypes, Position, Stored, Full, Cut, SynWasSent, TailSeq
<1>5. Receiving(m, w)
  BY <1>3, ReceivingKept DEF Sound
<1>6. Follows(k, m) /\ k.recv \in Seq(Nat) /\ m.recv \in Seq(Nat)
  BY <1>3 DEF Follows, SameReceive, Sound, Receiving
<1>7. FrameFair(m, w)
  BY <1>3, <1>6, FrameKept DEF Sound
<1>8. Sound(m, w)
  BY <1>3, <1>4, <1>5, <1>7 DEF Sound
<1> QED BY <1>1, <1>3, <1>6, <1>8 DEF Makes

\* The SYN was acknowledged with the first bytes, so it had been sent.
LEMMA UpdateRingIsSound ==
    ASSUME NEW k, NEW w, IsWorld(w), Sound(k, w), k.state # "SYN_SENT",
           NEW ackNo \in k.base .. TailSeq(k), k.base \in Nat, TailSeq(k) \in Nat, ackNo <= w.has
    PROVE  LET m == UpdateRing(k, ackNo) IN
           /\ Sound(m, w) /\ Follows(k, m) /\ SameReceive(k, m)
           /\ m.base = ackNo /\ m.state # "SYN_SENT"
<1>1. CASE ackNo = k.base
  <2>1. UpdateRing(k, ackNo) = k
    BY <1>1 DEF UpdateRing
  <2> QED BY <1>1, <2>1, MakesItself DEF Makes, SameReceive
<1>2. CASE ackNo # k.base
  <2> DEFINE state == IF k.state = "SYN_RCVD" THEN "ESTABLISHED" ELSE k.state
             m == [k EXCEPT !.base = ackNo, !.synQueued = FALSE, !.state = state]
  <2>1. UpdateRing(k, ackNo) = IF ~ m.sendOpen /\ ~ m.finQueued THEN QueueFin(m) ELSE m
    <3>1. m.sendOpen = k.sendOpen /\ m.finQueued = k.finQueued
      BY Fields DEF Sound, HasFields
    <3>2. UpdateRing(k, ackNo) = IF ~ k.sendOpen /\ ~ k.finQueued THEN QueueFin(m) ELSE m
      BY <1>2, Zenon DEF UpdateRing
    <3> QED BY <3>1, <3>2
  <2>2. /\ state # "none" /\ state # "SYN_SENT" /\ (state \in Early <=> k.state \in Early)
        /\ state \in Finished => k.state \in Finished
    BY DEF Sound, Early, Finished
  <2> HIDE DEF state
  <2>3. /\ HasFields(m) /\ m.timers = k.timers /\ m.next = k.next /\ m.limit = k.limit
        /\ m.lastAck = k.lastAck /\ m.state = state /\ m.frame = k.frame /\ m.written = k.written
        /\ m.base = ackNo /\ m.synQueued = FALSE /\ m.finQueued = k.finQueued
        /\ m.sendOpen = k.sendOpen /\ SameReceive(k, m)
    BY Fields DEF Sound, HasFields, SameReceive
  <2> HIDE DEF m
  <2>4. k.base < ackNo /\ ackNo <= TailSeq(k) /\ ackNo \in Nat /\ k.base >= 1 /\ TailSeq(m) = TailSeq(k)
    BY <1>2, <2>3 DEF Sound, Sending, SendTypes, TailSeq
  <2>5. Full(k, w) /\ ~ Cut(k)
    BY <2>4 DEF Sound, Sending, SendTypes, Cut, TailSeq
  <2>6. k.next \in 2 .. TailSeq(k)
    <3>1. k.synQueued => k.next = 2
      BY <2>5 DEF Sound, SynWasSent
    <3>2. CASE k.synQueued
      BY <2>4, <3>1, <3>2
    <3>3. CASE ~ k.synQueued
      BY <3>3 DEF Sound, Sending, Position
    <3> QED BY <3>2, <3>3
  <2>7. Sending(m, w) /\ SynWasSent(m, w) /\ Full(m, w)
    <3>1. SendTypes(m) /\ Stored(m, w) /\ Full(m, w)
      <4>1. m.base \in Nat \ {0} /\ m.base <= TailSeq(m)
        BY <2>3, <2>4
      <4>2. SendTypes(m)
        BY <2>3, <4>1 DEF Sound, Sending, SendTypes
      <4>3. Stored(m, w) /\ Full(m, w)
        BY <2>3, <2>5 DEF Sound, Sending, Stored, Full
      <4> QED BY <4>2, <4>3
    <3>2. Position(m) /\ SynWasSent(m, w)
      BY <2>3, <2>4, <2>6 DEF Position, SynWasSent
    <3> QED BY <3>1, <3>2 DEF Sending
  <2>8. Receiving(m, w)
    <3>1. CASE k.recvOpen
      <4>1. m.state \in Finished => k.finReceived
        BY <2>2, <2>3, <3>1 DEF Sound, Receiving, Reads
      <4> QED BY <2>2, <2>3, <4>1, ReceivingInState DEF Sound
    <3>2. CASE ~ k.recvOpen
      BY <2>3, <3>2 DEF SameReceive, Sound, Receiving
    <3> QED BY <3>1, <3>2
  <2>9. Follows(k, m) /\ k.recv \in Seq(Nat) /\ m.recv \in Seq(Nat)
    BY <2>3 DEF Follows, SameReceive, Sound, Receiving
  <2>10. FrameFair(m, w)
    BY <2>3, <2>9, FrameKept DEF Sound
  <2>11. Sound(m, w)
    BY <2>2, <2>3, <2>7, <2>8, <2>10 DEF Sound
  <2>12. ASSUME ~ m.sendOpen, ~ m.finQueued
         PROVE  LET n == QueueFin(m) IN
                /\ Sound(n, w) /\ Follows(k, n) /\ SameReceive(k, n)
                /\ n.base = ackNo /\ n.state # "SYN_SENT"
    <3> DEFINE n == QueueFin(m)
    <3>1. Makes(m, n, w)
      BY <2>7, <2>11, <2>12, QueueFinIsSound
    <3>2. SameReceive(m, n) /\ n.state = m.state
      BY <2>3, Fields DEF QueueFin, HasFields, SameReceive
    <3> HIDE DEF n
    <3>3. n.recv \in Seq(Nat)
      BY <3>1 DEF Makes, Sound, Receiving
    <3>4. Follows(k, n)
      BY <2>9, <3>1, <3>3, FollowsOn DEF Makes
    <3>5. SameReceive(k, n)
      BY <2>3, <3>2 DEF SameReceive
    <3> QED BY <2>2, <2>3, <3>1, <3>2, <3>4, <3>5 DEF Makes, n
  <2> QED BY <2>1, <2>2, <2>3, <2>9, <2>11, <2>12
<1> QED BY <1>1, <1>2

\* What an ACK makes of a connection changes nothing of what was received.
Acknowledges(k, m, w) ==
    Sound(m, w) /\ Follows(k, m) /\ SameReceive(k, m) /\ m.state # "SYN_SENT"

LEMMA FinAckedIsSound ==
    ASSUME NEW k, NEW w, IsWorld(w), Sound(k, w), k.state # "SYN_SENT"
    PROVE  Acknowledges(k, FinAcked(k), w)
<1>1. k.state \notin Early
  BY DEF Sound, Early
<1>2. k.state \in Finished /\ k.recvOpen => k.finReceived
  BY DEF Sound, Receiving, Reads
<1>3. CASE ~ (k.finQueued /\ XmitLevel(k) = 0) \/ k.state \notin {"CLOSING", "LAST_ACK", "FIN_WAIT_1"}
  <2>1. FinAcked(k) = k
    BY <1>3 DEF FinAcked
  <2> QED BY <2>1, MakesItself DEF Makes, Acknowledges, SameReceive
<1>4. CASE k.finQueued /\ XmitLevel(k) = 0 /\ k.state = "CLOSING"
  <2>1. FinAcked(k) = ChangeToTimeWait(k)
    BY <1>4 DEF FinAcked
  <2>2. Makes(k, ChangeToTimeWait(k), w)
    BY <1>2, <1>4, TimeWaitIsSound DEF Finished
  <2>3. ChangeToTimeWait(k).state = "TIME_WAIT" /\ SameReceive(k, ChangeToTimeWait(k))
    BY Fields DEF Sound, HasFields, ChangeToTimeWait, SameReceive
  <2> QED BY <2>1, <2>2, <2>3 DEF Makes, Acknowledges
<1>5. CASE k.finQueued /\ XmitLevel(k) = 0 /\ k.state = "LAST_ACK"
  <2> DEFINE m == [k EXCEPT !.state = "CLOSED"]
  <2>1. FinAcked(k) = m
    BY <1>5 DEF FinAcked
  <2>2. Makes(k, m, w)
    BY <1>1, <1>2, <1>5, StateIsSound DEF Finished, Early
  <2>3. m.state = "CLOSED" /\ SameReceive(k, m)
    BY Fields DEF Sound, HasFields, SameReceive
  <2> QED BY <2>1, <2>2, <2>3 DEF Makes, Acknowledges
<1>6. CASE k.finQueued /\ XmitLevel(k) = 0 /\ k.state = "FIN_WAIT_1"
  <2> DEFINE m == [k EXCEPT !.state = "FIN_WAIT_2"]
  <2>1. FinAcked(k) = m
    BY <1>6 DEF FinAcked
  <2>2. Makes(k, m, w)
    BY <1>1, StateIsSound DEF Finished, Early
  <2>3. m.state = "FIN_WAIT_2" /\ SameReceive(k, m)
    BY Fields DEF Sound, HasFields, SameReceive
  <2> QED BY <2>1, <2>2, <2>3 DEF Makes, Acknowledges
<1> QED BY <1>3, <1>4, <1>5, <1>6

LEMMA AcknowledgmentIsSound ==
    ASSUME NEW k, NEW w, IsWorld(w), Sound(k, w), k.state # "SYN_SENT", NEW s,
           s.ackNo \in Nat, s.ackNo <= w.has
    PROVE  Acknowledges(k, Acknowledge(k, s), w)
<1>1. CASE ~ (s.ack /\ s.ackNo \in k.base .. TailSeq(k))
  BY <1>1, MakesItself DEF Acknowledge, Makes, Acknowledges, SameReceive
<1>2. CASE s.ack /\ s.ackNo \in k.base .. TailSeq(k)
  <2> DEFINE t == UpdateTimers(k, s.ackNo)
             r == UpdateRing(t, s.ackNo)
  <2>1. Acknowledge(k, s) = FinAcked(r)
    BY <1>2 DEF Acknowledge
  <2>2. Makes(k, t, w) /\ SameReceive(k, t) /\ t.state = k.state
    BY UpdateTimersIsSound
  <2>3. TailSeq(t) = TailSeq(k)
    BY Fields DEF UpdateTimers, TailSeq, Sound, HasFields
  <2>4. k.base \in Nat /\ TailSeq(k) \in Nat
    BY DEF Sound, Sending, SendTypes, TailSeq
  <2> HIDE DEF t
  <2>5. /\ Sound(r, w) /\ Follows(t, r) /\ SameReceive(t, r)
        /\ r.base = s.ackNo /\ r.state # "SYN_SENT"
    BY <1>2, <2>2, <2>3, <2>4, UpdateRingIsSound DEF Makes
  <2> HIDE DEF r
  <2>6. Acknowledges(r, FinAcked(r), w)
    BY <2>5, FinAckedIsSound
  <2> DEFINE m == FinAcked(r)
  <2> HIDE DEF m
  <2>7. SameReceive(k, m)
    BY <2>2, <2>5, <2>6 DEF m, Acknowledges, SameReceive
  <2>8. m.sendOpen => k.sendOpen
    BY <2>2, <2>5, <2>6 DEF m, Acknowledges, Makes, Follows
  <2>9. Follows(k, m)
    BY <2>7, <2>8 DEF Follows, SameReceive, Sound, Receiving
  <2> QED BY <2>1, <2>5, <2>6, <2>7, <2>9 DEF m, Acknowledges
<1> QED BY <1>1, <1>2

\* The FIN is noted behind the last byte of a guest that has closed.
LEMMA AcceptFinIsSound ==
    ASSUME NEW k, NEW w, IsWorld(w), Sound(k, w), k.state # "SYN_SENT",
           k.recvOpen => w.closed /\ w.got + Len(k.recv) = w.sent
    PROVE  Makes(k, AcceptFin(k), w)
<1> DEFINE got == [k EXCEPT !.finReceived = TRUE]
<1>1. k.state \notin Early
  BY DEF Sound, Early
<1>2. /\ HasFields(got) /\ got.finReceived = TRUE /\ SameSend(k, got) /\ got.sendOpen = k.sendOpen
      /\ got.recv = k.recv /\ got.recvBase = k.recvBase /\ got.recvOpen = k.recvOpen
      /\ got.state = k.state /\ got.frame = k.frame
  BY Fields DEF Sound, HasFields, SameSend
<1>3. AcceptFin(k) \in {k, got, ChangeToTimeWait(got), [got EXCEPT !.state = "CLOSE_WAIT"]}
  BY DEF AcceptFin
<1> HIDE DEF got
<1>4. Receiving(got, w)
  BY <1>1, <1>2 DEF Sound, Receiving, Reads
<1>5. Follows(k, got) /\ k.recv \in Seq(Nat) /\ got.recv \in Seq(Nat)
  BY <1>2 DEF Follows, Sound, Receiving
<1>6. FrameFair(got, w)
  BY <1>2, <1>5, FrameKept DEF Sound
<1>7. Sound(got, w) /\ got.base = k.base
  BY <1>2, <1>4, <1>6, SendingKept DEF Sound, SameSend
<1>8. Makes(k, got, w)
  BY <1>5, <1>7 DEF Makes
<1>9. Makes(got, ChangeToTimeWait(got), w)
  BY <1>2, <1>7, TimeWaitIsSound
<1>10. Makes(got, [got EXCEPT !.state = "CLOSE_WAIT"], w)
  BY <1>1, <1>2, <1>7, StateIsSound DEF Early
<1> QED BY <1>3, <1>8, <1>9, <1>10, MakesItself, MakesOn

LEMMA ConcatFacts ==
    ASSUME NEW s \in Seq(Nat), NEW t \in Seq(Nat)
    PROVE  /\ s \o t \in Seq(Nat) /\ Len(s \o t) = Len(s) + Len(t)
           /\ \A i \in 1 .. Len(s) + Len(t) : (s \o t)[i] = IF i <= Len(s) THEN s[i] ELSE t[i - Len(s)]
  OBVIOUS

\* What the ring takes of a segment is what the guest sent, from where the ring ends.
Continues(recv, k, w, n) ==
    /\ recv \in Seq(Nat) /\ Len(recv) = Len(k.recv) + n
    /\ \A i \in 1 .. Len(recv) : recv[i] = w.got + i
LEMMA AcceptedData ==
    ASSUME NEW k, NEW w, IsWorld(w), Sound(k, w), k.state # "SYN_SENT", k.recvOpen,
           NEW s, NEW rcv, Honest(s, rcv, w), NEW n \in Nat, n <= Len(s.data),
           s.seq = RecvTail(k)
    PROVE  Continues(k.recv \o SubSeq(s.data, 1, n), k, w, n)
<1> DEFINE more == SubSeq(s.data, 1, n)
           recv == k.recv \o more
           got == w.got
           had == Len(k.recv)
<1>1. k.recv \in Seq(Nat) /\ had \in Nat /\ got \in Nat
  BY DEF Sound, Receiving, IsWorld
<1>2. k.recvBase = got + 1 /\ \A i \in 1 .. had : k.recv[i] = got + i
  BY DEF Sound, Receiving, Reads, Early
<1>3. s.data \in Seq(Nat) /\ Len(s.data) \in Nat /\ \A i \in 1 .. Len(s.data) : s.data[i] = s.seq + i - 1
  BY DEF Honest
<1>4. more \in Seq(Nat) /\ Len(more) = n /\ \A i \in 1 .. n : more[i] = s.data[i]
  <2>1. CASE n = 0
    <3>1. more = <<>> /\ Len(<<>>) = 0 /\ 1 .. 0 = {}
      BY <1>3, <2>1
    <3> HIDE DEF more
    <3> QED BY <2>1, <3>1
  <2>2. CASE n > 0
    <3>1. 1 \in 1 .. Len(s.data) /\ n \in 1 .. Len(s.data)
      BY <1>3, <2>2
    <3> QED BY <1>3, <3>1
  <2> QED BY <2>1, <2>2
<1>5. s.seq = got + 1 + had
  BY <1>2 DEF RecvTail
<1> HIDE DEF more
<1>6. /\ recv \in Seq(Nat) /\ Len(recv) = had + n
      /\ \A i \in 1 .. had + n : recv[i] = IF i <= had THEN k.recv[i] ELSE more[i - had]
  BY <1>1, <1>4, ConcatFacts
<1> HIDE DEF recv, got, had
<1>7. ASSUME NEW i \in 1 .. had + n PROVE recv[i] = got + i
  <2>1. CASE i <= had
    <3>1. i \in 1 .. had
      BY <1>1, <2>1
    <3>2. recv[i] = k.recv[i]
      BY <1>6, <2>1
    <3> QED BY <1>2, <3>1, <3>2
  <2>2. CASE i > had
    <3>1. i - had \in 1 .. n /\ i - had \in 1 .. Len(s.data) /\ ~ (i <= had)
      BY <1>1, <1>3, <2>2
    <3>2. recv[i] = s.data[i - had]
      BY <1>4, <1>6, <3>1
    <3>3. s.data[i - had] = s.seq + (i - had) - 1
      BY <1>3, <3>1
    <3> QED BY <1>1, <1>5, <3>1, <3>2, <3>3
  <2> QED BY <1>1, <2>1, <2>2
<1> QED BY <1>6, <1>7 DEF Continues, recv, got, had, more

LEMMA NothingAppended == ASSUME NEW s \in Seq(Nat) PROVE s \o <<>> = s
<1>1. Len(<<>>) = 0 /\ <<>> \in Seq(Nat) /\ Len(s) \in Nat
  OBVIOUS
<1>2. /\ s \o <<>> \in Seq(Nat) /\ Len(s \o <<>>) = Len(s)
      /\ \A i \in 1 .. Len(s) : (s \o <<>>)[i] = s[i]
  BY <1>1, ConcatFacts
<1> DEFINE t == s \o <<>>
<1> HIDE DEF t
<1>3. t = s
  BY <1>2 DEF t
<1> QED BY <1>3 DEF t

LEMMA TakenFacts ==
    ASSUME NEW k, k.recv \in Seq(Nat), NEW s, s.data \in Seq(Nat), s.fin \in BOOLEAN
    PROVE  /\ Taken(k, s) \in Int
           /\ Taken(k, s) > 0 => s.seq = RecvTail(k) /\ Taken(k, s) <= Length(s)
           /\ Length(s) \in {Len(s.data), Len(s.data) + 1} /\ (Length(s) # Len(s.data) => s.fin)
<1>1. RecvSpace(k) \in Int
  BY TcpAssumption DEF RecvSpace
<1>2. /\ Length(s) \in {Len(s.data), Len(s.data) + 1} /\ (Length(s) # Len(s.data) => s.fin)
      /\ Length(s) \in Int
  <2>1. Len(s.data) \in Nat
    OBVIOUS
  <2>2. CASE s.fin
    BY <2>1, <2>2 DEF Length
  <2>3. CASE ~ s.fin
    BY <2>1, <2>3 DEF Length
  <2> QED BY <2>2, <2>3
<1> QED BY <1>1, <1>2 DEF Taken, AtMost

LEMMA AcceptIsSound ==
    ASSUME NEW k, NEW w, IsWorld(w), Sound(k, w), k.state # "SYN_SENT",
           NEW s, NEW rcv, Honest(s, rcv, w),
           Taken(k, s) > 0 /\ s.data # <<>> => k.recvOpen
    PROVE  Makes(k, Accept(k, s), w)
<1> DEFINE n == Taken(k, s)
           taken == AtMost(n, Len(s.data))
           recv == k.recv \o SubSeq(s.data, 1, taken)
           got == [k EXCEPT !.recv = recv]
           had == Len(k.recv)
           len == Len(s.data)
<1>1. Accept(k, s) = IF n > len THEN AcceptFin(got) ELSE got
  BY Zenon DEF Accept
<1>2. /\ k.recv \in Seq(Nat) /\ had \in Nat /\ s.data \in Seq(Nat) /\ len \in Nat /\ s.fin \in BOOLEAN
      /\ w.got \in Nat /\ w.sent \in Nat /\ k.recvOpen \in BOOLEAN /\ (len > 0 => s.data # <<>>)
  <2>1. k.recv \in Seq(Nat) /\ k.recvOpen \in BOOLEAN
    BY DEF Sound, Receiving
  <2>2. s.data \in Seq(Nat) /\ s.fin \in BOOLEAN
    BY DEF Honest
  <2>3. w.got \in Nat /\ w.sent \in Nat
    BY DEF IsWorld
  <2>4. had \in Nat /\ len \in Nat /\ (len > 0 => s.data # <<>>)
    BY <2>1, <2>2
  <2> QED BY <2>1, <2>2, <2>3, <2>4, Zenon
<1>3. /\ n \in Int /\ (n > 0 => s.seq = RecvTail(k) /\ n <= Length(s))
      /\ Length(s) \in {len, len + 1} /\ (Length(s) # len => s.fin)
  BY <1>2, TakenFacts
<1>4. taken \in Int /\ taken <= n /\ taken <= len /\ (n > len => taken = len)
  BY <1>2, <1>3 DEF AtMost
<1>5. k.recvOpen => k.recvBase = w.got + 1 /\ RecvTail(k) = w.got + 1 + had
  BY DEF Sound, Receiving, Reads, Early, RecvTail
<1> HIDE DEF n, taken
<1>6. /\ recv \in Seq(Nat) /\ Len(recv) >= had
      /\ k.recvOpen => /\ \A i \in 1 .. Len(recv) : recv[i] = w.got + i
                       /\ n > len => Len(recv) = had + len
                       /\ recv # k.recv => s.seq = w.got + 1 + had /\ len > 0
  <2>1. CASE taken <= 0
    <3>1. SubSeq(s.data, 1, taken) = <<>>
      BY <1>2, <1>4, <2>1
    <3>2. recv = k.recv
      BY <1>2, <3>1, NothingAppended
    <3>3. n > len => Len(recv) = had + len
      <4> HIDE DEF recv, had, len
      <4>1. n > len => had + len = had
        BY <1>2, <1>4, <2>1
      <4> QED BY <3>2, <4>1 DEF had
    <3>4. k.recvOpen => \A i \in 1 .. Len(k.recv) : k.recv[i] = w.got + i
      BY DEF Sound, Receiving, Reads
    <3>5. Len(k.recv) >= had
      BY <1>2
    <3> HIDE DEF recv, had, len
    <3> QED BY <1>2, <3>2, <3>3, <3>4, <3>5
  <2>2. CASE taken > 0
    <3>1. n > 0 /\ len > 0 /\ taken \in Nat /\ s.data # <<>>
      BY <1>2, <1>3, <1>4, <2>2
    <3>2. k.recvOpen /\ s.seq = RecvTail(k)
      BY <1>3, <3>1 DEF n
    <3>3. /\ recv \in Seq(Nat) /\ Len(recv) = had + taken
          /\ \A i \in 1 .. Len(recv) : recv[i] = w.got + i
      <4>1. taken \in Nat /\ taken <= Len(s.data)
        BY <1>4, <3>1
      <4> HIDE DEF taken
      <4>2. Continues(k.recv \o SubSeq(s.data, 1, taken), k, w, taken)
        BY <3>2, <4>1, AcceptedData
      <4> QED BY <4>2 DEF Continues
    <3> HIDE DEF recv, had, len
    <3>4. Len(recv) >= had /\ (n > len => Len(recv) = had + len)
      BY <1>2, <1>4, <3>1, <3>3
    <3>5. s.seq = w.got + 1 + had
      BY <1>5, <3>2
    <3> QED BY <3>1, <3>3, <3>4, <3>5
  <2>3. taken <= 0 \/ taken > 0
    BY <1>4
  <2> HIDE DEF recv, had, len
  <2> QED BY <2>1, <2>2, <2>3
<1>7. k.recvOpen /\ k.finReceived => recv = k.recv
  <2> SUFFICES ASSUME k.recvOpen, k.finReceived, recv # k.recv PROVE FALSE
    OBVIOUS
  <2>1. w.got + had = w.sent
    BY DEF Sound, Receiving, Reads
  <2>2. s.seq = w.got + 1 + had /\ len > 0
    BY <1>6
  <2>3. s.seq + len - 1 <= w.sent
    BY <1>2, <2>2 DEF Honest
  <2> HIDE DEF had, len
  <2> QED BY <1>2, <2>1, <2>2, <2>3
<1>8. ~ k.recvOpen => recv = <<>>
  <2> SUFFICES ASSUME ~ k.recvOpen PROVE recv = <<>>
    OBVIOUS
  <2>1. k.recv = <<>>
    BY DEF Sound, Receiving
  <2>2. taken <= 0
    <3> HIDE DEF len
    <3>1. n <= 0 \/ len <= 0
      BY <1>2, <1>3 DEF n, len
    <3> QED BY <1>2, <1>3, <1>4, <3>1
  <2>3. SubSeq(s.data, 1, taken) = <<>>
    BY <1>2, <1>4, <2>2
  <2> QED BY <2>1, <2>3
<1>9. /\ HasFields(got) /\ got.recv = recv /\ SameSend(k, got) /\ got.sendOpen = k.sendOpen
      /\ got.recvBase = k.recvBase /\ got.recvOpen = k.recvOpen /\ got.finReceived = k.finReceived
      /\ got.state = k.state /\ got.frame = k.frame
  <2> HIDE DEF recv
  <2> QED BY Fields DEF Sound, HasFields, SameSend
<1> HIDE DEF got, recv
<1>10. Receiving(got, w)
  <2>1. CASE k.recvOpen
    <3>1. k.recv = <<>> \/ k.state \notin Early
      BY <2>1 DEF Sound, Receiving, Reads
    <3>2. k.state \notin Early
      BY DEF Sound, Early
    <3>3. Reads(got, w)
      <4>1. got.finReceived => w.closed /\ w.got + Len(got.recv) = w.sent
        BY <1>7, <1>9, <2>1 DEF Sound, Receiving, Reads
      <4>2. \A i \in 1 .. Len(got.recv) : got.recv[i] = w.got + i
        BY <1>6, <1>9, <2>1
      <4> QED BY <1>5, <1>9, <2>1, <3>2, <4>1, <4>2 DEF Sound, Receiving, Reads
    <3> QED BY <1>6, <1>9, <2>1, <3>3 DEF Sound, Receiving
  <2>2. CASE ~ k.recvOpen
    BY <1>6, <1>8, <1>9, <2>2 DEF Sound, Receiving
  <2> QED BY <2>1, <2>2
<1>11. Follows(k, got) /\ got.recv \in Seq(Nat)
  BY <1>6, <1>9 DEF Follows
<1>12. FrameFair(got, w)
  BY <1>2, <1>9, <1>11, FrameKept DEF Sound
<1>13. Sound(got, w) /\ got.base = k.base
  BY <1>9, <1>10, <1>12, SendingKept DEF Sound, SameSend
<1>14. Makes(k, got, w)
  BY <1>11, <1>13 DEF Makes
<1>15. ASSUME n > len PROVE Makes(got, AcceptFin(got), w)
  <2>1. n > 0 /\ s.fin /\ s.seq = RecvTail(k)
    BY <1>2, <1>3, <1>15
  <2>2. w.closed /\ s.seq + len - 1 = w.sent
    BY <2>1 DEF Honest
  <2>3. got.recvOpen => w.closed /\ w.got + Len(got.recv) = w.sent
    <3> SUFFICES ASSUME got.recvOpen PROVE w.got + Len(got.recv) = w.sent
      BY <2>2
    <3>1. Len(got.recv) = had + len /\ s.seq = w.got + 1 + had
      BY <1>5, <1>6, <1>9, <1>15, <2>1
    <3> HIDE DEF had, len
    <3>2. w.got + (had + len) = w.sent
      BY <1>2, <2>2, <3>1
    <3> QED BY <3>1, <3>2
  <2> QED BY <1>9, <1>13, <2>3, AcceptFinIsSound
<1>16. ASSUME n > len PROVE Makes(k, AcceptFin(got), w)
  BY <1>14, <1>15, <1>16, MakesOn
<1> QED BY <1>1, <1>14, <1>16 DEF got

LEMMA ReplyIsSound ==
    ASSUME NEW k, NEW w, IsWorld(w), Sound(k, w), NEW s
    PROVE  Reply(k, s) = Destroyed \/ Makes(k, Reply(k, s), w)
<1>1. CASE k.state = "CLOSED"
  <2>1. k.recvOpen => k.finReceived
    BY <1>1 DEF Sound, Receiving, Reads, Finished
  <2>2. Reply(k, s) = DeleteConnection(k)
    BY <1>1 DEF Reply
  <2> QED BY <2>1, <2>2, DeletionIsSound
<1>2. CASE k.state # "CLOSED"
  <2>1. Reply(k, s) \in {Transmit(k, TRUE, 0, FALSE), k, TransmitNow(k)}
    BY <1>2 DEF Reply
  <2>2. Makes(k, Transmit(k, TRUE, 0, FALSE), w)
    BY TransmissionIsSound DEF Sound
  <2> QED BY <2>1, <2>2, TransmitNowIsSound, MakesItself
<1> QED BY <1>1, <1>2

\* The SYN of the guest says where its bytes begin.
LEMMA AnsweredIsSound ==
    ASSUME NEW k, NEW w, IsWorld(w), Sound(k, w), NEW s, NEW rcv, Honest(s, rcv, w),
           k.state = "SYN_SENT", s.syn
    PROVE  LET m == [k EXCEPT !.state = "SYN_RCVD", !.recvBase = s.seq + 1] IN
           Makes(k, m, w) /\ m.state = "SYN_RCVD"
<1> DEFINE first == s.seq + 1
           m == [k EXCEPT !.state = "SYN_RCVD", !.recvBase = first]
<1>1. first = 1
  BY DEF Honest
<1> HIDE DEF first
<1>2. /\ HasFields(m) /\ m.recvBase = first /\ SameSend(k, m) /\ m.sendOpen = k.sendOpen
      /\ m.recv = k.recv /\ m.recvOpen = k.recvOpen /\ m.finReceived = k.finReceived
      /\ m.state = "SYN_RCVD" /\ m.frame = k.frame
  BY Fields DEF Sound, HasFields, SameSend
<1> HIDE DEF m
<1>3. Receiving(m, w)
  <2>1. k.recvOpen => w.got = 0 /\ k.recv = <<>> /\ ~ k.finReceived
    BY DEF Sound, Receiving, Reads, Early
  <2>2. CASE k.recvOpen
    <3>1. Reads(m, w)
      BY <1>1, <1>2, <2>1, <2>2 DEF Sound, Receiving, Reads, Early, Finished
    <3> QED BY <1>1, <1>2, <2>2, <3>1 DEF Sound, Receiving
  <2>3. CASE ~ k.recvOpen
    BY <1>1, <1>2, <2>3 DEF Sound, Receiving
  <2> QED BY <2>2, <2>3
<1>4. Follows(k, m) /\ k.recv \in Seq(Nat) /\ m.recv \in Seq(Nat)
  BY <1>2 DEF Follows, Sound, Receiving
<1>5. FrameFair(m, w)
  BY <1>2, <1>4, FrameKept DEF Sound
<1>6. Sound(m, w) /\ m.base = k.base
  BY <1>2, <1>3, <1>5, SendingKept DEF Sound, SameSend
<1> QED BY <1>2, <1>4, <1>6 DEF Makes, m, first

\* Whatever segment an honest guest sends, and however late it comes.
LEMMA OnPacketIsSound ==
    ASSUME NEW k, NEW w, IsWorld(w), Sound(k, w), NEW s, NEW rcv, Honest(s, rcv, w),
           s.ackNo <= w.has
    PROVE  Lasting(k, OnPacket(k, s), w)
<1> DEFINE start  == IF k.state = "SYN_SENT" THEN [k EXCEPT !.state = "SYN_RCVD", !.recvBase = s.seq + 1]
                     ELSE k
           failed == IF s.rst THEN GivenUp(k) ELSE k
           window == Window(start, s)
           acked  == Acknowledge(window, s)
           taken  == Accept(acked, s)
<1>1. OnPacket(k, s) =
        IF Refused(k, s) THEN CloseSocket(failed, TRUE)
        ELSE IF s.rst THEN k
        ELSE IF Taken(acked, s) > 0 /\ s.data # <<>> /\ ~ acked.recvOpen THEN ResetConnection(acked)
        ELSE Reply(taken, s)
  BY Zenon DEF OnPacket, GivenUp
<1>2. ASSUME NEW m, Makes(k, m, w) PROVE Lasting(k, m, w)
  BY <1>2 DEF Makes, Lasting
<1>3. Makes(k, CloseSocket(failed, TRUE), w)
  BY GivenUpIsSound, CloseIsSound
<1>4. ASSUME ~ Refused(k, s), ~ s.rst
      PROVE  /\ Sound(acked, w) /\ Follows(k, acked) /\ acked.state # "SYN_SENT"
  <2>1. Makes(k, start, w) /\ start.state # "SYN_SENT"
    <3>1. CASE k.state = "SYN_SENT"
      BY <1>4, <3>1, AnsweredIsSound DEF Refused
    <3>2. CASE k.state # "SYN_SENT"
      BY <3>2, MakesItself
    <3> QED BY <3>1, <3>2
  <2> HIDE DEF start
  <2>2. Makes(start, window, w) /\ window.state # "SYN_SENT"
    BY <2>1, WindowIsSound DEF Makes, Honest
  <2> HIDE DEF window
  <2>3. Acknowledges(window, acked, w)
    BY <2>2, AcknowledgmentIsSound DEF Makes, Honest
  <2> HIDE DEF acked
  <2>4. k.recv \in Seq(Nat) /\ window.recv \in Seq(Nat) /\ acked.recv \in Seq(Nat)
    BY <2>2, <2>3 DEF Makes, Acknowledges, Sound, Receiving
  <2>5. Makes(k, window, w)
    BY <2>1, <2>2, MakesOn
  <2>6. Follows(k, acked)
    BY <2>3, <2>4, <2>5, FollowsOn DEF Makes, Acknowledges
  <2> QED BY <2>3, <2>5, <2>6 DEF Makes, Acknowledges
<1>5. ASSUME Sound(acked, w), Follows(k, acked),
             NEW m, m = Destroyed \/ Makes(acked, m, w)
      PROVE  Lasting(k, m, w)
  <2> HIDE DEF acked
  <2>1. CASE m = Destroyed
    BY <2>1 DEF Lasting
  <2>2. CASE Makes(acked, m, w)
    <3>1. k.recv \in Seq(Nat) /\ m.recv \in Seq(Nat) /\ acked.recv \in Seq(Nat)
      BY <1>5, <2>2 DEF Makes, Sound, Receiving
    <3>2. Follows(k, m)
      BY <1>5, <2>2, <3>1, FollowsOn DEF Makes
    <3> QED BY <1>5, <2>2, <3>2 DEF Lasting, Makes
  <2> QED BY <1>5, <2>1, <2>2
<1>6. ASSUME ~ Refused(k, s), ~ s.rst
      PROVE  /\ Lasting(k, ResetConnection(acked), w)
             /\ ~ (Taken(acked, s) > 0 /\ s.data # <<>> /\ ~ acked.recvOpen)
                   => Lasting(k, Reply(taken, s), w)
  <2> HIDE DEF acked
  <2>1. Sound(acked, w) /\ Follows(k, acked) /\ acked.state # "SYN_SENT"
    BY <1>4, <1>6
  <2>2. Makes(acked, ResetConnection(acked), w)
    BY <2>1, ResetMakes
  <2>3. ASSUME ~ (Taken(acked, s) > 0 /\ s.data # <<>> /\ ~ acked.recvOpen)
        PROVE  Lasting(k, Reply(taken, s), w)
    <3>1. Makes(acked, taken, w)
      BY <2>1, <2>3, AcceptIsSound
    <3> HIDE DEF taken
    <3>2. Reply(taken, s) = Destroyed \/ Makes(taken, Reply(taken, s), w)
      BY <3>1, ReplyIsSound DEF Makes
    <3>3. Reply(taken, s) = Destroyed \/ Makes(acked, Reply(taken, s), w)
      BY <2>1, <3>1, <3>2, MakesOn
    <3> QED BY <1>5, <2>1, <3>3
  <2> QED BY <1>5, <2>1, <2>2, <2>3
<1> HIDE DEF acked, taken, failed
<1> QED BY <1>1, <1>2, <1>3, <1>6, MakesItself

-----------------------------------------------------------------------------
(* Frames under way, while the world moves on.                               *)

Onward(k, w, m, v) ==
    /\ m.sendOpen => k.sendOpen
    /\ m.recvOpen => k.recvOpen /\ w.got + Len(k.recv) <= v.got + Len(m.recv)
    /\ w.app <= v.app /\ (~ k.sendOpen => v.app = w.app)
    /\ w.sent <= v.sent /\ (w.closed => v.closed /\ v.sent = w.sent)
    /\ w.has <= v.has

LEMMA AckedOnward ==
    ASSUME NEW k, NEW w, NEW m, NEW v, IsWorld(w), IsWorld(v), Onward(k, w, m, v),
           k.recv \in Seq(Nat), m.recv \in Seq(Nat), NEW a, Acked(a, k, w)
    PROVE  Acked(a, m, v)
<1>1. /\ Len(k.recv) \in Nat /\ Len(m.recv) \in Nat
      /\ w.got \in Nat /\ v.got \in Nat /\ w.sent \in Nat /\ v.sent \in Nat
  BY DEF IsWorld
<1> DEFINE before == w.got + Len(k.recv)
           after  == v.got + Len(m.recv)
<1>2. before \in Nat /\ after \in Nat
  <2>1. before \in Nat
    BY <1>1
  <2>2. after \in Nat
    BY <1>1
  <2> QED BY <2>1, <2>2
<1>3. a \in Nat
  BY DEF Acked
<1> SUFFICES ASSUME m.recvOpen PROVE a - 1 <= after \/ (v.closed /\ v.sent <= after)
  BY <1>3 DEF Acked
<1>4. before <= after /\ k.recvOpen
  BY DEF Onward
<1>5. a - 1 <= before \/ (w.closed /\ w.sent <= before)
  BY <1>4 DEF Acked
<1> HIDE DEF before, after
<1>6. CASE a - 1 <= before
  <2>1. a - 1 <= after
    BY <1>2, <1>3, <1>4, <1>6
  <2> QED BY <2>1
<1>7. CASE w.closed /\ w.sent <= before
  <2>1. v.closed /\ v.sent = w.sent
    BY <1>7 DEF Onward
  <2>2. v.sent <= after
    BY <1>1, <1>2, <1>4, <1>7, <2>1
  <2> QED BY <2>1, <2>2
<1> QED BY <1>5, <1>6, <1>7

LEMMA FairOnward ==
    ASSUME NEW k, NEW w, NEW m, NEW v, IsWorld(w), IsWorld(v), Onward(k, w, m, v),
           k.recv \in Seq(Nat), m.recv \in Seq(Nat), NEW s, Fair(s, k, w)
    PROVE  Fair(s, m, v)
<1>1. ASSUME Carries(s, k, w) PROVE Carries(s, m, v)
  <2>1. w.app \in Nat /\ v.app \in Nat /\ w.app <= v.app
    BY DEF IsWorld, Onward
  <2>2. ASSUME NEW i \in 1 .. Len(s.data)
        PROVE  /\ s.seq + i - 2 <= v.app
               /\ s.seq + i - 1 < v.has \/ AsSent(s.data[i], s.seq + i - 2)
    <3>1. /\ s.seq + i - 2 <= w.app /\ s.seq \in Nat /\ i \in Nat
          /\ s.seq + i - 1 < w.has \/ AsSent(s.data[i], s.seq + i - 2)
      BY <1>1 DEF Carries
    <3>2. w.has \in Nat /\ v.has \in Nat /\ w.has <= v.has
      BY DEF IsWorld, Onward
    <3> QED BY <2>1, <3>1, <3>2, SMTT(20)
  <2>3. s.fin => v.app = w.app /\ ~ m.sendOpen
    BY <1>1 DEF Carries, Onward
  <2> QED BY <1>1, <2>2, <2>3 DEF Carries
<1> QED BY <1>1, AckedOnward DEF Fair

LEMMA FairFramesOnward ==
    ASSUME NEW k, NEW w, NEW m, NEW v, IsWorld(w), IsWorld(v), Onward(k, w, m, v),
           k.recv \in Seq(Nat), m.recv \in Seq(Nat), NEW q, FairFrames(q, k, w)
    PROVE  FairFrames(q, m, v)
  BY FairOnward DEF FairFrames

LEMMA HonestOnward ==
    ASSUME NEW w, NEW v, IsWorld(w), IsWorld(v), NEW rcv \in Nat, NEW new \in Nat, rcv <= new,
           w.sent <= v.sent, w.closed => v.closed /\ v.sent = w.sent,
           NEW s, Honest(s, rcv, w)
    PROVE  Honest(s, new, v)
<1>1. s.seq \in Nat /\ s.ackNo \in Nat /\ Len(s.data) \in Nat /\ w.sent \in Nat /\ v.sent \in Nat
  BY DEF Honest, IsWorld
<1>2. s.ackNo <= new
  BY <1>1 DEF Honest
<1>3. s.data # <<>> => s.seq + Len(s.data) - 1 <= v.sent
  <2>1. s.data # <<>> => s.seq + Len(s.data) - 1 <= w.sent
    BY DEF Honest
  <2> QED BY <1>1, <2>1
<1>4. s.fin => v.closed /\ s.seq + Len(s.data) - 1 = v.sent
  BY DEF Honest
<1> QED BY <1>2, <1>3, <1>4 DEF Honest

LEMMA HonestFramesOnward ==
    ASSUME NEW w, NEW v, IsWorld(w), IsWorld(v), NEW rcv \in Nat, NEW new \in Nat, rcv <= new,
           w.sent <= v.sent, w.closed => v.closed /\ v.sent = w.sent,
           NEW q, HonestFrames(q, rcv, w)
    PROVE  HonestFrames(q, new, v)
  BY HonestOnward DEF HonestFrames

\* What is taken from the front or put at the end of a queue.
LEMMA TailFacts ==
    ASSUME NEW q, IsSeq(q), q # <<>>
    PROVE  /\ IsSeq(Tail(q)) /\ 1 \in DOMAIN q /\ Head(q) = q[1]
           /\ \A i \in DOMAIN Tail(q) : i + 1 \in DOMAIN q /\ Tail(q)[i] = q[i + 1]
<1>1. PICK T : q \in Seq(T)
  BY DEF IsSeq
<1>2. Tail(q) \in Seq(T) /\ Len(q) \in Nat /\ Len(q) > 0 /\ Len(Tail(q)) = Len(q) - 1
  BY <1>1
<1>3. IsSeq(Tail(q))
  BY <1>2 DEF IsSeq
<1>4. DOMAIN q = 1 .. Len(q) /\ DOMAIN Tail(q) = 1 .. Len(q) - 1
  BY <1>1, <1>2
<1>5. \A i \in 1 .. Len(q) - 1 : Tail(q)[i] = q[i + 1]
  BY <1>1
<1>6. Head(q) = q[1]
  BY <1>1, <1>2
<1> QED BY <1>2, <1>3, <1>4, <1>5, <1>6

LEMMA AppendedFacts ==
    ASSUME NEW q, IsSeq(q), NEW s
    PROVE  /\ IsSeq(Append(q, s))
           /\ \A i \in DOMAIN Append(q, s) : Append(q, s)[i] = s \/ (i \in DOMAIN q /\ Append(q, s)[i] = q[i])
<1>1. PICK T : q \in Seq(T)
  BY DEF IsSeq
<1> DEFINE U == T \union {s}
<1>2. q \in Seq(U) /\ s \in U
  <2>1. T \subseteq U
    OBVIOUS
  <2> QED BY <1>1, <2>1
<1> HIDE DEF U
<1> DEFINE r == Append(q, s)
<1>3. r \in Seq(U) /\ Len(r) = Len(q) + 1 /\ Len(q) \in Nat
  BY <1>2
<1>4. DOMAIN r = 1 .. Len(q) + 1 /\ DOMAIN q = 1 .. Len(q)
  BY <1>2, <1>3
<1>5. r[Len(q) + 1] = s /\ \A i \in 1 .. Len(q) : r[i] = q[i]
  BY <1>2
<1> HIDE DEF r
<1>6. IsSeq(r)
  BY <1>3 DEF IsSeq
<1>7. \A i \in DOMAIN r : r[i] = s \/ (i \in DOMAIN q /\ r[i] = q[i])
  BY <1>3, <1>4, <1>5
<1> QED BY <1>6, <1>7 DEF r

LEMMA AppendIsConcat == ASSUME NEW q, IsSeq(q), NEW s PROVE q \o <<s>> = Append(q, s)
<1>1. PICK T : q \in Seq(T)
  BY DEF IsSeq
<1> DEFINE U == T \union {s}
<1>2. q \in Seq(U) /\ s \in U
  <2>1. T \subseteq U
    OBVIOUS
  <2> QED BY <1>1, <2>1
<1> HIDE DEF U
<1> QED BY <1>2
LEMMA EmptyAppended == ASSUME NEW q, IsSeq(q) PROVE q \o <<>> = q
<1>1. PICK T : q \in Seq(T)
  BY DEF IsSeq
<1> QED BY <1>1

LEMMA TailsKeep ==
    ASSUME NEW q, q # <<>>
    PROVE  /\ \A k, w : FairFrames(q, k, w) => FairFrames(Tail(q), k, w) /\ Fair(Head(q), k, w)
           /\ \A rcv, w : HonestFrames(q, rcv, w) => HonestFrames(Tail(q), rcv, w) /\ Honest(Head(q), rcv, w)
  BY TailFacts DEF FairFrames, HonestFrames

LEMMA FrameSent ==
    ASSUME NEW q, NEW k, NEW w, NEW frame, FairFrames(q, k, w),
           frame = <<>> \/ \E s : frame = <<s>> /\ Fair(s, k, w)
    PROVE  FairFrames(q \o frame, k, w)
<1>1. CASE frame = <<>>
  BY <1>1, EmptyAppended DEF FairFrames
<1>2. ASSUME NEW s, frame = <<s>>, Fair(s, k, w) PROVE FairFrames(q \o frame, k, w)
  <2>1. q \o frame = Append(q, s)
    BY <1>2, AppendIsConcat DEF FairFrames
  <2>2. /\ IsSeq(Append(q, s))
        /\ \A i \in DOMAIN Append(q, s) : Append(q, s)[i] = s \/ (i \in DOMAIN q /\ Append(q, s)[i] = q[i])
    BY AppendedFacts DEF FairFrames
  <2>3. FairFrames(Append(q, s), k, w)
    BY <1>2, <2>2, Zenon DEF FairFrames
  <2> QED BY <2>1, <2>3
<1> QED BY <1>1, <1>2

LEMMA GuestOnward ==
    ASSUME NEW k, NEW w, NEW m, NEW v, IsWorld(w), IsWorld(v), Onward(k, w, m, v),
           k.recv \in Seq(Nat), m.recv \in Seq(Nat), NEW g, GuestTypes(g), GuestHas(g, k, w)
    PROVE  GuestHas(g, m, v)
<1>1. Acked(g.una, m, v)
  BY AckedOnward DEF GuestHas
<1>2. Len(g.got) <= v.app
  <2>1. Len(g.got) \in Nat /\ w.app \in Nat /\ v.app \in Nat /\ Len(g.got) <= w.app /\ w.app <= v.app
    BY DEF GuestTypes, GuestHas, IsWorld, Onward
  <2> QED BY <2>1
<1>3. g.fin => Len(g.got) = v.app /\ ~ m.sendOpen
  BY DEF GuestHas, Onward
<1> QED BY <1>1, <1>2, <1>3 DEF GuestHas

LEMMA ConnectionRing ==
    ASSUME NEW k, NEW w, Connection(k, w)
    PROVE  k.recv \in Seq(Nat) /\ k.base \in Nat /\ HasFields(k) /\ k.frame = <<>>
<1>1. <<>> \in Seq(Nat)
  OBVIOUS
<1>2. CASE k = NoConnection
  BY <1>1, <1>2 DEF NoConnection, HasFields
<1>3. CASE k = Destroyed
  BY <1>1, <1>3 DEF Destroyed, NoConnection, HasFields
<1>4. CASE Sound(k, w) /\ k.frame = <<>>
  BY <1>4 DEF Sound, Sending, SendTypes, Receiving
<1> QED BY <1>2, <1>3, <1>4 DEF Connection

\* The connection becomes m, and its frame goes on its way.
LEMMA BecomesKeeps ==
    ASSUME StreamInv, NEW m, NEW v, v = World', IsWorld(v), HasFields(m), m.recv \in Seq(Nat),
           FrameFair(m, v), Onward(c, World, m, v), m.base <= World.has,
           Becomes(m), guest' = guest, HonestFrames(toStack', guest.rcv, v),
           Connection([m EXCEPT !.frame = <<>>], v)
    PROVE  StreamInv'
<1>1. /\ c'.sendOpen = m.sendOpen /\ c'.recvOpen = m.recvOpen /\ c'.recv = m.recv /\ c'.base = m.base
      /\ Connection(c', v)
  BY Fields DEF Becomes, HasFields
<1>2. Onward(c, World, c', v) /\ c.recv \in Seq(Nat)
  BY <1>1, ConnectionRing DEF Onward, StreamInv
<1>3. FairFrames(toGuest, c', v) /\ GuestHas(guest, c', v)
  BY <1>1, <1>2, FairFramesOnward, GuestOnward DEF StreamInv
<1>4. m.frame = <<>> \/ \E s : m.frame = <<s>> /\ Fair(s, c', v)
  <2>1. Onward(m, v, c', v)
    BY <1>1 DEF Onward, IsWorld
  <2>2. ASSUME NEW s, Fair(s, m, v) PROVE Fair(s, c', v)
    BY <1>1, <2>1, <2>2, FairOnward
  <2> QED BY <2>2 DEF FrameFair
<1>5. FairFrames(toGuest', c', v)
  <2>1. toGuest' = toGuest \/ toGuest' = toGuest \o m.frame
    BY DEF Becomes
  <2> QED BY <1>3, <1>4, <2>1, FrameSent
<1>6. c'.base <= AtLeast(guest'.rcv, 1)
  BY <1>1 DEF World
<1> QED BY <1>1, <1>3, <1>5, <1>6 DEF StreamInv

\* One step of a connection that lasts, with or without a frame from the guest.
LEMMA LastingStep ==
    ASSUME StreamInv, NEW m, Lasting(c, m, World),
           Becomes(m), appSent' = appSent, appGot' = appGot, guest' = guest,
           toStack' = toStack \/ (toStack # <<>> /\ toStack' = Tail(toStack))
    PROVE  StreamInv'
<1> DEFINE v == World'
<1>1. v = World /\ IsWorld(v)
  BY DEF World, StreamInv
<1>2. HonestFrames(toStack', guest.rcv, v)
  <2> HIDE DEF v
  <2> QED BY <1>1, TailsKeep DEF StreamInv
<1>3. CASE m = Destroyed
  <2>1. /\ HasFields(m) /\ m.recv = <<>> /\ <<>> \in Seq(Nat) /\ m.frame = <<>> /\ m.base = 1
        /\ m.sendOpen = FALSE /\ m.recvOpen = FALSE
    BY <1>3 DEF Destroyed, NoConnection, HasFields
  <2>2. [m EXCEPT !.frame = <<>>] = m
    <3>1. IsRecord(m)
      BY <1>3, DestroyedInOrder DEF Between, InOrder, Whole
    <3>2. [m EXCEPT !.frame = <<>>] = [f \in DOMAIN m |-> m[f]]
      BY <2>1, <3>1, Fields DEF HasFields
    <3> QED BY <3>1, <3>2 DEF IsRecord
  <2>3. 1 <= World.has
    BY DEF StreamInv, IsWorld
  <2>4. Onward(c, World, m, v)
    BY <1>1, <2>1 DEF Onward, IsWorld
  <2>5. FrameFair(m, v) /\ Connection([m EXCEPT !.frame = <<>>], v)
    BY <1>3, <2>1, <2>2 DEF FrameFair, Connection
  <2> HIDE DEF v
  <2> QED BY <1>1, <1>2, <2>1, <2>3, <2>4, <2>5, BecomesKeeps DEF v
<1>4. CASE Sound(m, World) /\ Follows(c, m)
  <2>1. HasFields(m) /\ m.recv \in Seq(Nat) /\ c.recv \in Seq(Nat) /\ FrameFair(m, World)
    BY <1>4, ConnectionRing DEF Sound, Receiving, StreamInv
  <2>2. Onward(c, World, m, v)
    <3>1. /\ World.got \in Nat /\ World.app \in Nat /\ World.sent \in Nat /\ World.has \in Nat
          /\ Len(c.recv) \in Nat /\ Len(m.recv) \in Nat
      BY <2>1 DEF StreamInv, IsWorld
    <3>2. m.recvOpen => World.got + Len(c.recv) <= World.got + Len(m.recv)
      BY <1>4, <3>1 DEF Follows
    <3> HIDE DEF v
    <3> QED BY <1>1, <1>4, <3>1, <3>2 DEF Onward, Follows
  <2> DEFINE n == [m EXCEPT !.frame = <<>>]
  <2>3. /\ HasFields(n) /\ SameSend(m, n) /\ SameReceive(m, n) /\ n.sendOpen = m.sendOpen
        /\ n.state = m.state /\ n.frame = <<>>
    BY <2>1, Fields DEF HasFields, SameSend, SameReceive
  <2> HIDE DEF n
  <2>4. Sound(n, World)
    BY <1>4, <2>3, SendingKept, ReceivingKept DEF Sound, FrameFair
  <2>5. Connection(n, World)
    BY <2>3, <2>4 DEF Connection
  <2>6. m.base <= World.has
    BY <1>4 DEF Sound, Sending, Stored
  <2> HIDE DEF v
  <2> QED BY <1>1, <1>2, <1>4, <2>1, <2>2, <2>5, <2>6, BecomesKeeps DEF n, v
<1> QED BY <1>3, <1>4 DEF Lasting

-----------------------------------------------------------------------------
(* The application's bytes.                                                  *)

LEMMA BytesFacts ==
    ASSUME NEW first \in Nat, NEW n \in Nat
    PROVE  /\ Bytes(first, n) \in Seq(Nat) /\ Len(Bytes(first, n)) = n
           /\ \A i \in 1 .. n : Bytes(first, n)[i] = first + i - 1
<1>1. \A i \in 1 .. n : first + i - 1 \in Nat
  OBVIOUS
<1> QED BY <1>1 DEF Bytes

LEMMA SendIsSound ==
    ASSUME NEW k, NEW w, IsWorld(w), Sound(k, w), k.sendOpen, k.frame = <<>>,
           NEW n \in Nat, NEW v, IsWorld(v), v.app = w.app + n,
           v.got = w.got, v.sent = w.sent, v.closed = w.closed, v.has = w.has
    PROVE  LET m == [k EXCEPT !.written = @ \o Bytes(w.app + 1, n)] IN
           /\ Sound(m, v) /\ m.frame = <<>> /\ m.base = k.base /\ m.sendOpen = k.sendOpen
           /\ SameReceive(k, m)
<1> DEFINE more == Bytes(w.app + 1, n)
           written == k.written \o more
           m == [k EXCEPT !.written = written]
           sent == w.app
<1>1. k.written \in Seq(Nat) /\ Len(k.written) = sent + 1 /\ sent \in Nat /\ Full(k, w) /\ ~ k.finQueued
  BY DEF Sound, Sending, SendTypes, IsWorld, Full, Cut
<1>2. more \in Seq(Nat) /\ Len(more) = n /\ \A i \in 1 .. n : more[i] = sent + i
  <2>1. w.app + 1 \in Nat
    BY <1>1
  <2>2. \A i \in 1 .. n : more[i] = (w.app + 1) + i - 1
    BY <2>1, BytesFacts
  <2>3. more \in Seq(Nat) /\ Len(more) = n
    BY <2>1, BytesFacts
  <2> HIDE DEF more
  <2>4. ASSUME NEW i \in 1 .. n PROVE more[i] = sent + i
    BY <1>1, <2>2
  <2> QED BY <2>3, <2>4
<1> HIDE DEF more, sent
<1>3. /\ written \in Seq(Nat) /\ Len(written) = sent + 1 + n
      /\ \A i \in 1 .. sent + 1 + n :
            written[i] = IF i <= sent + 1 THEN k.written[i] ELSE more[i - (sent + 1)]
  <2>1. /\ written \in Seq(Nat) /\ Len(written) = Len(k.written) + Len(more)
        /\ \A i \in 1 .. Len(k.written) + Len(more) :
              written[i] = IF i <= Len(k.written) THEN k.written[i] ELSE more[i - Len(k.written)]
    BY <1>1, <1>2, ConcatFacts
  <2> HIDE DEF written
  <2> QED BY <1>1, <1>2, <2>1, Zenon
<1> HIDE DEF written
<1>4. ASSUME NEW i \in 1 .. sent + 1 + n PROVE written[i] = i - 1
  <2>1. CASE i <= sent + 1
    <3>1. i \in 1 .. Len(k.written) /\ i <= w.app + 1
      BY <1>1, <2>1 DEF sent
    <3>2. k.written[i] = i - 1
      BY <3>1 DEF Sound, Sending, Stored
    <3> QED BY <1>3, <2>1, <3>2
  <2>2. CASE i > sent + 1
    <3>1. i - (sent + 1) \in 1 .. n /\ ~ (i <= sent + 1) /\ sent + (i - (sent + 1)) = i - 1
      <4>1. i \in Nat /\ i <= sent + 1 + n /\ sent \in Nat
        BY <1>1
      <4> QED BY <2>2, <4>1
    <3> QED BY <1>2, <1>3, <3>1
  <2> QED BY <1>1, <2>1, <2>2
<1>5. /\ HasFields(m) /\ m.written = written /\ m.base = k.base /\ m.next = k.next
      /\ m.limit = k.limit /\ m.lastAck = k.lastAck /\ m.synQueued = k.synQueued
      /\ m.finQueued = k.finQueued /\ m.timers = k.timers /\ m.sendOpen = k.sendOpen
      /\ SameReceive(k, m) /\ m.state = k.state /\ m.frame = <<>>
  BY Fields DEF Sound, HasFields, SameReceive
<1> HIDE DEF m
<1>6. TailSeq(k) = sent + 2 /\ TailSeq(m) = sent + 2 + n /\ TailSeq(k) <= TailSeq(m)
      /\ TailSeq(k) \in Nat /\ TailSeq(m) \in Nat
  <2>1. TailSeq(k) = (sent + 1) + 1 /\ TailSeq(m) = (sent + 1 + n) + 1
    BY <1>1, <1>3, <1>5 DEF TailSeq
  <2> QED BY <1>1, <2>1
<1>7. SendTypes(m)
  <2>1. k.base \in Nat /\ k.base <= TailSeq(k)
    BY DEF Sound, Sending, SendTypes
  <2>2. m.base <= TailSeq(m)
    BY <1>5, <1>6, <2>1
  <2> QED BY <1>3, <1>5, <2>2 DEF Sound, Sending, SendTypes
<1>8. Position(m)
  <2>1. ~ k.synQueued => k.next \in 2 .. TailSeq(m)
    <3>1. ~ k.synQueued => k.next \in 2 .. TailSeq(k)
      BY DEF Sound, Sending, Position
    <3> QED BY <1>6, <3>1
  <2> QED BY <1>5, <2>1 DEF Sound, Sending, Position
<1>9. Full(m, v)
  <2>1. sent + 1 + n = v.app + 1
    BY <1>1 DEF sent
  <2> QED BY <1>1, <1>3, <1>5, <2>1 DEF Full
<1>10. Stored(m, v)
  <2>1. m.base <= v.has
    BY <1>5 DEF Sound, Sending, Stored
  <2> QED BY <1>3, <1>4, <1>5, <2>1 DEF Stored
<1>11. SynWasSent(m, v)
  BY <1>1, <1>5 DEF Sound, SynWasSent
<1>12. Receiving(m, v)
  BY <1>5 DEF SameReceive, Sound, Receiving, Reads
<1> QED BY <1>5, <1>7, <1>8, <1>9, <1>10, <1>11, <1>12 DEF Sound, Sending, FrameFair, m, written, more

\* The connection and the world once n bytes have been read.
Rest(k, n) == [k EXCEPT !.recvBase = @ + n, !.recv = SubSeq(@, n + 1, Len(@))]
Read(w, v, n) ==
    /\ v.got = w.got + n /\ v.app = w.app /\ v.sent = w.sent /\ v.closed = w.closed
    /\ v.has = w.has /\ IsWorld(v)
LetGo(k, w, m, v) ==
    /\ m.frame = <<>> /\ m.base = k.base /\ m.sendOpen = k.sendOpen
    /\ k.recvOpen /\ v.got + Len(m.recv) = w.got + Len(k.recv)

LEMMA RecvIsSound ==
    ASSUME NEW k, NEW w, IsWorld(w), Sound(k, w), k.frame = <<>>,
           NEW n \in 1 .. Len(k.recv), NEW v, Read(w, v, n)
    PROVE  Sound(Rest(k, n), v) /\ LetGo(k, w, Rest(k, n), v)
<1> USE DEF Read
<1> DEFINE had == Len(k.recv)
           recv == SubSeq(k.recv, n + 1, had)
           first == k.recvBase + n
           got == w.got
           m == [k EXCEPT !.recvBase = first, !.recv = recv]
<1>1. k.recv \in Seq(Nat) /\ had \in Nat /\ n \in Nat /\ n >= 1 /\ n <= had /\ got \in Nat
  BY DEF Sound, Receiving, IsWorld
<1>2. k.recv # <<>>
  BY <1>1
<1>3. k.recvOpen
  BY <1>2 DEF Sound, Receiving
<1>4. k.state \notin Early /\ k.recvBase = got + 1 /\ \A i \in 1 .. had : k.recv[i] = got + i
  BY <1>2, <1>3 DEF Sound, Receiving, Reads
<1>5. recv \in Seq(Nat) /\ Len(recv) = had - n /\ \A i \in 1 .. had - n : recv[i] = k.recv[n + i]
  <2>1. CASE n = had
    <3>1. recv = <<>> /\ had - n = 0 /\ <<>> \in Seq(Nat) /\ Len(<<>>) = 0 /\ 1 .. 0 = {}
      BY <1>1, <2>1
    <3> HIDE DEF recv
    <3> QED BY <3>1
  <2>2. CASE n < had
    <3>1. n + 1 \in 1 .. Len(k.recv) /\ had \in 1 .. Len(k.recv) /\ n + 1 <= had
      BY <1>1, <2>2
    <3>2. recv \in Seq(Nat) /\ Len(recv) = had - (n + 1) + 1
      BY <1>1, <3>1
    <3>3. \A i \in 1 .. had - (n + 1) + 1 : recv[i] = k.recv[(n + 1) + i - 1]
      BY <1>1, <3>1
    <3>4. had - (n + 1) + 1 = had - n
      BY <1>1
    <3>5. ASSUME NEW i \in 1 .. had - n PROVE recv[i] = k.recv[n + i]
      <4>1. (n + 1) + i - 1 = n + i
        BY <1>1
      <4> QED BY <3>3, <3>4, <4>1
    <3> QED BY <3>2, <3>4, <3>5
  <2>3. n = had \/ n < had
    BY <1>1
  <2> QED BY <2>1, <2>2, <2>3
<1> HIDE DEF recv, first
<1>6. /\ HasFields(m) /\ SameSend(k, m) /\ m.recv = recv /\ m.recvBase = first
      /\ m.recvOpen = k.recvOpen /\ m.finReceived = k.finReceived /\ m.sendOpen = k.sendOpen
      /\ m.state = k.state /\ m.frame = <<>> /\ m.base = k.base
  BY Fields DEF Sound, HasFields, SameSend
<1> HIDE DEF m, had, got
<1>7. Sending(m, w) /\ SynWasSent(m, w)
  BY <1>6, SendingKept DEF Sound
<1>8. Sending(m, v) /\ SynWasSent(m, v)
  BY <1>7 DEF Sending, SynWasSent, Full, Stored
<1>9. v.got = got + n /\ v.got + Len(recv) = got + had
  BY <1>1, <1>5 DEF got
<1>10. Reads(m, v)
  <2>1. ASSUME NEW i \in 1 .. had - n PROVE recv[i] = v.got + i
    <3>1. n + i \in 1 .. had /\ got + (n + i) = (got + n) + i
      BY <1>1
    <3> QED BY <1>4, <1>5, <1>9, <3>1
  <2>2. m.recvBase = v.got + 1
    BY <1>1, <1>4, <1>6, <1>9 DEF first
  <2>3. m.finReceived => v.closed /\ v.got + Len(m.recv) = v.sent
    BY <1>3, <1>6, <1>9 DEF Sound, Receiving, Reads, had, got
  <2>4. m.state \in Finished => m.finReceived
    BY <1>3, <1>6 DEF Sound, Receiving, Reads
  <2>5. m.state \notin Early
    BY <1>4, <1>6
  <2> QED BY <1>5, <1>6, <2>1, <2>2, <2>3, <2>4, <2>5 DEF Reads
<1>11. Receiving(m, v)
  <2>1. first \in Nat
    BY <1>1, <1>4 DEF first
  <2> QED BY <1>3, <1>5, <1>6, <1>10, <2>1 DEF Sound, Receiving
<1>12. Sound(m, v)
  BY <1>6, <1>8, <1>11 DEF Sound, FrameFair
<1>13. Rest(k, n) = m
  BY DEF Rest, m, recv, first, had
<1> QED BY <1>3, <1>6, <1>9, <1>12, <1>13 DEF LetGo, had, got

-----------------------------------------------------------------------------
(* The steps.                                                                *)

\* Something happens only to a connection that is sound.
LEMMA LiveConnection ==
    ASSUME NEW k, NEW w, Connection(k, w), k.held \/ k.listed \/ k.stray \/ k.events # {}
    PROVE  Sound(k, w) /\ k.frame = <<>>
<1>1. k # NoConnection
  <2> SUFFICES ASSUME k = NoConnection PROVE FALSE
    OBVIOUS
  <2>1. k.held = FALSE /\ k.listed = FALSE /\ k.stray = FALSE /\ k.events = {}
    BY DEF NoConnection
  <2> QED BY <2>1
<1>2. k # Destroyed
  <2> SUFFICES ASSUME k = Destroyed PROVE FALSE
    OBVIOUS
  <2>1. k.held = FALSE /\ k.listed = FALSE /\ k.stray = FALSE /\ k.events = {}
    BY DEF Destroyed, NoConnection
  <2> QED BY <2>1
<1> QED BY <1>1, <1>2 DEF Connection

LEMMA StartIsSound ==
    ASSUME NEW w, IsWorld(w), w.app = 0, w.got = 0, NEW m, HasFields(m),
           m.written = <<Placeholder>>, m.base = 1, m.next = 1, m.synQueued = TRUE,
           m.finQueued = FALSE, m.sendOpen = TRUE, m.timers = <<>>,
           m.limit \in Int, m.lastAck \in Int,
           m.recv = <<>>, m.recvOpen = TRUE, m.finReceived = FALSE,
           \/ m.state = "SYN_SENT" /\ m.recvBase = 0
           \/ m.state = "SYN_RCVD" /\ m.recvBase = 1
    PROVE  Sending(m, w) /\ Receiving(m, w) /\ m.state # "none"
<1>1. /\ m.written \in Seq(Nat) /\ Len(m.written) = 1 /\ m.written[1] = 0
      /\ m.recv \in Seq(Nat) /\ Len(m.recv) = 0
  BY DEF Placeholder
<1>2. TailSeq(m) = 2
  BY <1>1 DEF TailSeq
<1>3. SendTypes(m) /\ Position(m) /\ Full(m, w)
  <2>1. SendTypes(m)
    <3>1. m.base \in Nat \ {0} /\ m.base <= TailSeq(m)
      BY <1>2
    <3>2. m.synQueued \in BOOLEAN /\ m.finQueued \in BOOLEAN /\ m.sendOpen \in BOOLEAN
      OBVIOUS
    <3> QED BY <1>1, <3>1, <3>2, Zenon DEF SendTypes
  <2>2. Position(m)
    BY DEF Position
  <2>3. Full(m, w)
    BY <1>1 DEF Full
  <2> QED BY <2>1, <2>2, <2>3
<1>4. Stored(m, w)
  <2>1. ASSUME NEW i \in 1 .. 1 PROVE m.written[i] = i - 1
    BY <1>1
  <2>2. m.base <= w.has
    BY DEF IsWorld
  <2> QED BY <1>1, <2>1, <2>2 DEF Stored
<1>5. Receiving(m, w)
  <2>1. \A i \in 1 .. Len(m.recv) : m.recv[i] = w.got + i
    BY <1>1
  <2>2. m.recvBase \in Nat
    OBVIOUS
  <2>3. ~ m.finReceived /\ w.got = 0 /\ m.recv = <<>>
    OBVIOUS
  <2>4. Reads(m, w)
    <3>1. CASE m.state = "SYN_SENT" /\ m.recvBase = 0
      <4>1. m.state \in Early /\ m.state \notin Finished
        BY <3>1 DEF Early, Finished
      <4> QED BY <2>1, <2>3, <3>1, <4>1, Zenon DEF Reads
    <3>2. CASE m.state = "SYN_RCVD" /\ m.recvBase = 1
      <4>1. m.state \notin Early /\ m.state \notin Finished
        BY <3>2 DEF Early, Finished
      <4>2. m.recvBase = w.got + 1
        BY <3>2
      <4> QED BY <2>1, <2>3, <4>1, <4>2, Zenon DEF Reads
    <3> QED BY <3>1, <3>2
  <2> QED BY <1>1, <2>2, <2>4 DEF Receiving
<1> QED BY <1>3, <1>4, <1>5 DEF Sending

\* A connection comes to be with the frame it is opened with.
LEMMA OpeningStep ==
    ASSUME StreamInv, c = NoConnection, NEW m, HasFields(m), m.state # "none",
           Sending(m, World), Receiving(m, World), m.base = 1, NEW ack \in BOOLEAN,
           Becomes(Transmit(m, ack, 0, FALSE)),
           appSent' = appSent, appGot' = appGot, guest' = guest,
           toStack' = toStack \/ (toStack # <<>> /\ toStack' = Tail(toStack))
    PROVE  StreamInv'
<1> DEFINE n == Transmit(m, ack, 0, FALSE)
<1>1. Makes(m, n, World)
  BY TransmissionIsSound DEF StreamInv
<1> HIDE DEF n
<1>2. n.recv \in Seq(Nat)
  BY <1>1 DEF Makes, Sound, Receiving
<1>3. Follows(c, n)
  <2>1. c.sendOpen = TRUE /\ c.recvOpen = TRUE /\ Len(c.recv) = 0
    BY DEF NoConnection
  <2> QED BY <1>2, <2>1 DEF Follows
<1>4. Lasting(c, n, World)
  BY <1>1, <1>3 DEF Makes, Lasting
<1>5. Becomes(n)
  BY DEF n
<1> QED BY <1>4, <1>5, LastingStep

\* A connection that has been opened and has not sent yet: its ring holds the byte
\* that stands for its SYN.
Opened(m) ==
    /\ HasFields(m) /\ m.state \in {"SYN_SENT", "SYN_RCVD"}
    /\ m.written = <<Placeholder>> /\ m.base = 1 /\ m.recv = <<>> /\ m.timers = <<>>
    /\ m.frame = <<>> /\ m.events = {} /\ Sending(m, World) /\ Receiving(m, World)
Opens(m, ack) ==
    /\ Opened(m) /\ Becomes(Transmit(m, ack, 0, FALSE))
    /\ appSent' = appSent /\ appGot' = appGot /\ guest' = guest
    /\ toStack' = toStack \/ (toStack # <<>> /\ toStack' = Tail(toStack))

LEMMA Opening ==
    ASSUME Orderly, StreamInv, Connect \/ Listen
    PROVE  c = NoConnection /\ \E m : \E ack \in BOOLEAN : Opens(m, ack)
<1>1. c = NoConnection
  <2>1. c.state = "none"
    BY DEF Connect, Listen
  <2> QED BY <2>1 DEF Orderly, Between, InOrder, Whole
<1>2. World.app = 0 /\ World.got = 0 /\ IsWorld(World)
  BY <1>1 DEF StreamInv, Connection, Destroyed, NoConnection, Sound
<1>3. LET m == Started(c) IN
      /\ HasFields(m) /\ m.written = <<Placeholder>> /\ m.base = 1 /\ m.next = 1
      /\ m.synQueued = TRUE /\ m.finQueued = FALSE /\ m.sendOpen = TRUE /\ m.timers = <<>>
      /\ m.limit = 0 /\ m.lastAck = 0 /\ m.recv = <<>> /\ m.recvOpen = TRUE
      /\ m.finReceived = FALSE /\ m.recvBase = 0 /\ m.frame = <<>> /\ m.events = {}
  <2>1. /\ HasFields(c) /\ c.base = 1 /\ c.next = 1 /\ c.finQueued = FALSE /\ c.sendOpen = TRUE
        /\ c.timers = <<>> /\ c.limit = 0 /\ c.lastAck = 0 /\ c.recv = <<>> /\ c.recvOpen = TRUE
        /\ c.finReceived = FALSE /\ c.recvBase = 0 /\ c.frame = <<>> /\ c.events = {}
    BY <1>1 DEF HasFields, NoConnection
  <2> QED BY <2>1, Fields DEF HasFields, Started
<1>4. CASE Connect
  <2> DEFINE m == [Started(c) EXCEPT !.state = "SYN_SENT"]
  <2>1. /\ Becomes(Transmit(m, FALSE, 0, FALSE))
        /\ appSent' = appSent /\ appGot' = appGot /\ guest' = guest /\ toStack' = toStack
    BY <1>4 DEF Connect, app
  <2>2. /\ HasFields(m) /\ m.written = <<Placeholder>> /\ m.base = 1 /\ m.next = 1
        /\ m.synQueued = TRUE /\ m.finQueued = FALSE /\ m.sendOpen = TRUE /\ m.timers = <<>>
        /\ m.limit \in Int /\ m.lastAck \in Int /\ m.recv = <<>> /\ m.recvOpen = TRUE
        /\ m.finReceived = FALSE /\ m.state = "SYN_SENT" /\ m.recvBase = 0
        /\ m.frame = <<>> /\ m.events = {}
    BY <1>3, Fields DEF HasFields
  <2> HIDE DEF m
  <2>3. Sending(m, World) /\ Receiving(m, World)
    BY <1>2, <2>2, StartIsSound
  <2>4. Opened(m)
    BY <2>2, <2>3 DEF Opened
  <2>5. Opens(m, FALSE)
    BY <2>1, <2>4, Zenon DEF Opens
  <2> QED BY <1>1, <2>5
<1>5. CASE Listen
  <2> DEFINE s == Head(toStack)
             first == s.seq + 1
             limit == first + s.wnd
             m == [Started(c) EXCEPT !.state = "SYN_RCVD", !.recvBase = first,
                                     !.lastAck = first, !.limit = limit]
  <2>1. /\ Becomes(Transmit(m, TRUE, 0, FALSE)) /\ s.syn /\ toStack # <<>> /\ toStack' = Tail(toStack)
        /\ appSent' = appSent /\ appGot' = appGot /\ guest' = guest
    BY <1>5 DEF Listen, app
  <2>2. first = 1 /\ limit \in Int
    <3>1. Honest(s, guest.rcv, World)
      BY <2>1, TailsKeep DEF StreamInv
    <3> QED BY <2>1, <3>1 DEF Honest
  <2> HIDE DEF s, first, limit
  <2>3. /\ HasFields(m) /\ m.written = <<Placeholder>> /\ m.base = 1 /\ m.next = 1
        /\ m.synQueued = TRUE /\ m.finQueued = FALSE /\ m.sendOpen = TRUE /\ m.timers = <<>>
        /\ m.limit \in Int /\ m.lastAck \in Int /\ m.recv = <<>> /\ m.recvOpen = TRUE
        /\ m.finReceived = FALSE /\ m.state = "SYN_RCVD" /\ m.recvBase = 1
        /\ m.frame = <<>> /\ m.events = {}
    BY <1>3, <2>2, Fields DEF HasFields
  <2> HIDE DEF m
  <2>4. Sending(m, World) /\ Receiving(m, World)
    BY <1>2, <2>2, <2>3, StartIsSound
  <2>5. Opened(m)
    BY <2>3, <2>4 DEF Opened
  <2>6. Opens(m, TRUE)
    BY <2>1, <2>5, Zenon DEF Opens
  <2> QED BY <1>1, <2>6
<1> QED BY <1>4, <1>5

LEMMA OpeningSteps ==
    ASSUME Orderly, StreamInv, Connect \/ Listen PROVE StreamInv'
<1>1. c = NoConnection
  BY Opening
<1>2. PICK m : \E ack \in BOOLEAN : Opens(m, ack)
  BY Opening
<1>3. PICK ack \in BOOLEAN : Opens(m, ack)
  BY <1>2
<1>4. HasFields(m) /\ m.state # "none" /\ Sending(m, World) /\ Receiving(m, World) /\ m.base = 1
  BY <1>3 DEF Opens, Opened
<1> QED BY <1>1, <1>3, <1>4, OpeningStep DEF Opens

LEMMA RefuseStep ==
    ASSUME Orderly, StreamInv, Refuse PROVE StreamInv'
<1> DEFINE s == Head(toStack)
           rst == [Segment(s.ackNo, s.seq + 1, <<>>) EXCEPT !.rst = TRUE, !.ack = s.syn]
           frame == IF s.rst THEN <<>> ELSE <<rst>>
           m == [c EXCEPT !.frame = frame]
           v == World'
<1>1. /\ Becomes(m) /\ toStack # <<>> /\ toStack' = Tail(toStack)
      /\ appSent' = appSent /\ appGot' = appGot /\ guest' = guest
  BY DEF Refuse, app
<1>2. v = World /\ IsWorld(v)
  BY <1>1 DEF World, StreamInv
<1>3. Fair(rst, m, v)
  BY DEF Fair, Segment
<1>4. frame = <<>> \/ frame = <<rst>>
  OBVIOUS
<1>5. HasFields(c) /\ c.recv \in Seq(Nat) /\ c.frame = <<>> /\ Connection(c, World)
  BY ConnectionRing DEF StreamInv
<1>6. IsRecord(c)
  BY ConstructedRecord DEF Orderly, Between, InOrder, Whole
<1> HIDE DEF frame, rst, v
<1>7. /\ HasFields(m) /\ m.frame = frame /\ m.recv = c.recv /\ m.sendOpen = c.sendOpen
      /\ m.recvOpen = c.recvOpen /\ m.base = c.base
  BY <1>5, Fields DEF HasFields
<1>8. [m EXCEPT !.frame = <<>>] = c
  <2>1. [m EXCEPT !.frame = <<>>] = [f \in DOMAIN c |-> c[f]]
    BY <1>5, Fields DEF HasFields
  <2> QED BY <1>6, <2>1 DEF IsRecord
<1> HIDE DEF m
<1>9. Onward(c, World, m, v)
  BY <1>2, <1>5, <1>7 DEF Onward, IsWorld
<1>10. FrameFair(m, v)
  BY <1>3, <1>4, <1>7 DEF FrameFair
<1>11. HonestFrames(toStack', guest.rcv, v)
  BY <1>1, <1>2, TailsKeep DEF StreamInv
<1>12. m.base <= World.has
  BY <1>7 DEF StreamInv, World
<1> QED BY <1>1, <1>2, <1>5, <1>7, <1>8, <1>9, <1>10, <1>11, <1>12, BecomesKeeps DEF v

\* One step of an operator on a live connection.
LEMMA MakesStep ==
    ASSUME StreamInv, NEW m, Makes(c, m, World), Becomes(m),
           appSent' = appSent, appGot' = appGot, guest' = guest, toStack' = toStack
    PROVE  StreamInv'
<1>1. Lasting(c, m, World)
  BY DEF Lasting, Makes
<1> QED BY <1>1, LastingStep

LEMMA ReceiveStep ==
    ASSUME StreamInv, Receive PROVE StreamInv'
<1> DEFINE s == Head(toStack)
           m == OnPacket(c, s)
<1>1. /\ c.listed /\ Becomes(m) /\ toStack # <<>> /\ toStack' = Tail(toStack)
      /\ appSent' = appSent /\ appGot' = appGot /\ guest' = guest
  BY DEF Receive, app
<1>2. Sound(c, World)
  BY <1>1, LiveConnection DEF StreamInv
<1>3. Honest(s, guest.rcv, World)
  BY <1>1, TailsKeep DEF StreamInv
<1>4. s.ackNo <= World.has
  <2>1. s.ackNo \in Nat /\ s.ackNo <= guest.rcv /\ guest.rcv \in Nat
    BY <1>3 DEF Honest, StreamInv, GuestTypes
  <2> HIDE DEF s
  <2> QED BY <2>1 DEF World, AtLeast
<1> HIDE DEF s
<1>5. Lasting(c, m, World)
  BY <1>2, <1>3, <1>4, OnPacketIsSound DEF StreamInv
<1> HIDE DEF m
<1> QED BY <1>1, <1>5, LastingStep

LEMMA WithoutIsSound ==
    ASSUME NEW event, IsWorld(World), Sound(c, World)
    PROVE  /\ Makes(c, Without(event), World)
           /\ Without(event).state = c.state /\ Without(event).timers = c.timers
<1> DEFINE m == Without(event)
<1>1. /\ HasFields(m) /\ SameSend(c, m) /\ SameReceive(c, m) /\ m.sendOpen = c.sendOpen
      /\ m.state = c.state /\ m.frame = c.frame
  BY Fields DEF Without, Sound, HasFields, SameSend, SameReceive
<1> HIDE DEF m
<1>2. Makes(c, m, World)
  BY <1>1, SoundKept
<1> QED BY <1>1, <1>2 DEF m, SameSend

LEMMA ClockStep ==
    ASSUME Orderly, StreamInv, ClockEvent PROVE StreamInv'
<1>1. IsWorld(World)
  BY DEF StreamInv
<1>2. ASSUME c.events # {} \/ c.stray
      PROVE  Sound(c, World) /\ (c.events # {} => Between(c))
  <2>1. Sound(c, World)
    BY <1>2, LiveConnection DEF StreamInv
  <2>2. c = NoConnection => c.events = {}
    BY DEF NoConnection
  <2> QED BY <2>1, <2>2 DEF Orderly
<1>3. ASSUME NEW event, NEW m, Fires(event, m)
      PROVE  /\ event \in c.events /\ Becomes(m) /\ Sound(c, World) /\ Between(c)
             /\ appSent' = appSent /\ appGot' = appGot /\ guest' = guest /\ toStack' = toStack
             /\ Sound(Without(event), World)
  <2>1. /\ event \in c.events /\ Becomes(m)
        /\ appSent' = appSent /\ appGot' = appGot /\ guest' = guest /\ toStack' = toStack
    BY <1>3 DEF Fires, app
  <2>2. Sound(c, World) /\ Between(c)
    BY <1>2, <2>1
  <2> QED BY <1>1, <2>1, <2>2, WithoutIsSound DEF Makes
<1>4. ASSUME NEW event, NEW m, Fires(event, m), Makes(Without(event), m, World)
      PROVE  StreamInv'
  <2>1. Makes(c, m, World)
    BY <1>1, <1>3, <1>4, WithoutIsSound, MakesOn
  <2> QED BY <1>3, <1>4, <2>1, MakesStep
<1>5. CASE CloseEvent
  <2> DEFINE k == Without("Close")
             m == DeleteConnection(k)
  <2>1. Fires("Close", m)
    BY <1>5 DEF CloseEvent
  <2>2. "Close" \in c.events /\ Between(c) /\ Sound(c, World) /\ Sound(k, World)
    BY <1>3, <2>1
  <2>3. c.state = "TIME_WAIT"
    BY <2>2 DEF Between, InOrder, Closing
  <2>4. k.recvOpen => k.finReceived
    BY <1>1, <2>2, <2>3, WithoutIsSound DEF Sound, Receiving, Reads, Finished
  <2> HIDE DEF k
  <2>5. m = Destroyed \/ Makes(k, m, World)
    BY <1>1, <2>2, <2>4, DeletionIsSound
  <2>6. CASE m = Destroyed
    <3>1. Lasting(c, m, World)
      BY <2>6 DEF Lasting
    <3> HIDE DEF m
    <3> QED BY <1>3, <2>1, <3>1, LastingStep
  <2> HIDE DEF m
  <2>7. CASE Makes(k, m, World)
    BY <1>4, <2>1, <2>7 DEF k
  <2> QED BY <2>5, <2>6, <2>7
<1>6. CASE TransmitEvent
  <2>1. Fires("Transmit", TransmitNow(Without("Transmit")))
    BY <1>6 DEF TransmitEvent
  <2>2. Makes(Without("Transmit"), TransmitNow(Without("Transmit")), World)
    BY <1>1, <1>3, <2>1, TransmitNowIsSound
  <2> QED BY <1>4, <2>1, <2>2
<1>7. CASE RetransmitEvent
  <2>1. Fires("Retransmit", Retransmit(Without("Retransmit")))
    BY <1>7 DEF RetransmitEvent
  <2>2. "Retransmit" \in c.events /\ Between(c) /\ Sound(c, World) /\ Sound(Without("Retransmit"), World)
    BY <1>3, <2>1
  <2>3. Without("Retransmit").timers # <<>>
    BY <1>1, <2>2, WithoutIsSound DEF Between, InOrder, Watched
  <2>4. Makes(Without("Retransmit"), Retransmit(Without("Retransmit")), World)
    BY <1>1, <2>2, <2>3, RetransmitIsSound
  <2> QED BY <1>4, <2>1, <2>4
<1>8. CASE ProbeEvent
  <2>1. PICK event \in {"WindowProbe", "ZeroWindowProbe"} : Fires(event, Probe(Without(event)))
    BY <1>8 DEF ProbeEvent
  <2>2. Makes(Without(event), Probe(Without(event)), World)
    BY <1>1, <1>3, <2>1, ProbeIsSound
  <2> QED BY <1>4, <2>1, <2>2
<1>9. CASE StrayEvent
  <2>1. /\ c.stray /\ appSent' = appSent /\ appGot' = appGot /\ guest' = guest /\ toStack' = toStack
        /\ \E stray \in BOOLEAN : Becomes(Probe([Without("WindowProbe") EXCEPT !.stray = stray]))
    BY <1>9 DEF StrayEvent, app
  <2>2. PICK stray \in BOOLEAN : Becomes(Probe([Without("WindowProbe") EXCEPT !.stray = stray]))
    BY <2>1
  <2> DEFINE n == Without("WindowProbe")
             k == [n EXCEPT !.stray = stray]
  <2>3. Sound(c, World) /\ Makes(c, n, World)
    BY <1>1, <1>2, <2>1, WithoutIsSound
  <2> HIDE DEF n
  <2>4. /\ HasFields(k) /\ SameSend(n, k) /\ SameReceive(n, k) /\ k.sendOpen = n.sendOpen
        /\ k.state = n.state /\ k.frame = n.frame
    BY <2>3, Fields DEF Makes, Sound, HasFields, SameSend, SameReceive
  <2>5. Becomes(Probe(k))
    BY <2>2 DEF n
  <2> HIDE DEF k
  <2>6. Makes(n, k, World)
    BY <1>1, <2>3, <2>4, SoundKept DEF Makes
  <2>7. Makes(k, Probe(k), World)
    BY <1>1, <2>6, ProbeIsSound DEF Makes
  <2>8. Makes(c, Probe(k), World)
    BY <2>3, <2>6, <2>7, MakesOn
  <2> QED BY <2>1, <2>5, <2>8, MakesStep
<1> QED BY <1>5, <1>6, <1>7, <1>8, <1>9 DEF ClockEvent

\* A sound connection that has no frame to send, in a world that has moved on.
LEMMA SettledStep ==
    ASSUME StreamInv, NEW m, NEW v, v = World', IsWorld(v), Sound(m, v), m.frame = <<>>,
           Onward(c, World, m, v), m.base = c.base, Becomes(m), guest' = guest, toStack' = toStack,
           v.sent = World.sent, v.closed = World.closed
    PROVE  StreamInv'
<1>1. HasFields(m) /\ m.recv \in Seq(Nat) /\ FrameFair(m, v)
  BY DEF Sound, Receiving
<1> DEFINE n == [m EXCEPT !.frame = <<>>]
<1>2. /\ HasFields(n) /\ SameSend(m, n) /\ SameReceive(m, n) /\ n.sendOpen = m.sendOpen
      /\ n.state = m.state /\ n.frame = m.frame
  BY <1>1, Fields DEF HasFields, SameSend, SameReceive
<1> HIDE DEF n
<1>3. Connection(n, v)
  <2>1. Makes(m, n, v)
    BY <1>2, SoundKept
  <2> QED BY <1>2, <2>1 DEF Makes, Connection
<1>4. HonestFrames(toStack', guest.rcv, v)
  <2>1. guest.rcv \in Nat /\ guest.rcv <= guest.rcv
    BY DEF StreamInv, GuestTypes
  <2>2. World.sent <= v.sent
    BY DEF IsWorld
  <2> QED BY <2>1, <2>2, HonestFramesOnward DEF StreamInv
<1>5. m.base <= World.has
  BY DEF StreamInv, World
<1> QED BY <1>1, <1>3, <1>4, <1>5, BecomesKeeps DEF n

\* The application sends, and has its bytes in the ring.
LEMMA SendStep ==
    ASSUME StreamInv, Send PROVE StreamInv'
<1> PICK n \in 1 .. AtMost(XmitSpace(c), MaxBytes - appSent - guest.sent) :
        /\ Call(Schedule([c EXCEPT !.written = @ \o Bytes(appSent + 1, n)]))
        /\ appSent' = appSent + n
  BY DEF Send
<1> DEFINE k == [c EXCEPT !.written = @ \o Bytes(World.app + 1, n)]
           m == Schedule(k)
           v == World'
<1>1. /\ c.sendOpen /\ c.held /\ Becomes(m) /\ appGot' = appGot /\ guest' = guest /\ toStack' = toStack
      /\ appSent' = appSent + n /\ n \in Nat
  BY DEF Send, Call, World
<1>2. IsWorld(World) /\ Sound(c, World) /\ c.frame = <<>>
  BY <1>1, LiveConnection DEF StreamInv
<1>3. /\ v.app = World.app + n /\ v.got = World.got /\ v.sent = World.sent /\ v.closed = World.closed
      /\ v.has = World.has /\ IsWorld(v)
  BY <1>1, <1>2 DEF World, IsWorld
<1> HIDE DEF v
<1>4. /\ Sound(k, v) /\ k.frame = <<>> /\ k.base = c.base /\ k.sendOpen = c.sendOpen
      /\ SameReceive(c, k)
  BY <1>1, <1>2, <1>3, SendIsSound
<1> HIDE DEF k
<1>5. Makes(k, m, v)
  BY <1>3, <1>4, SchedulingKeepsSound
<1>6. m.frame = <<>>
  BY <1>4, SchedulingOnlySets DEF Sound
<1>7. SameReceive(c, m)
  BY <1>4, SchedulingOnlySets DEF Sound, SameReceive
<1> HIDE DEF m
<1>8. Onward(c, World, m, v)
  <2>1. World.app \in Nat /\ World.app <= v.app
    BY <1>1, <1>2, <1>3 DEF IsWorld
  <2>2. /\ World.sent <= v.sent /\ Len(c.recv) \in Nat
        /\ World.got + Len(c.recv) <= World.got + Len(c.recv)
    BY <1>2, <1>3 DEF IsWorld, Sound, Receiving
  <2>3. m.recv = c.recv /\ (m.recvOpen => c.recvOpen) /\ c.sendOpen
    BY <1>1, <1>7 DEF SameReceive
  <2>4. v.got + Len(m.recv) = World.got + Len(c.recv)
    BY <1>3, <2>3
  <2>5. v.got + Len(m.recv) >= World.got + Len(c.recv)
    BY <1>2, <2>2, <2>4 DEF IsWorld
  <2>6. World.has <= v.has
    BY <1>2, <1>3 DEF IsWorld
  <2> QED BY <1>3, <2>1, <2>2, <2>3, <2>5, <2>6, Zenon DEF Onward
<1>9. Sound(m, v) /\ m.base = c.base
  BY <1>4, <1>5 DEF Makes
<1>10. v = World'
  BY DEF v
<1> QED BY <1>1, <1>3, <1>6, <1>8, <1>9, <1>10, SettledStep

\* It reads, and has what the ring lets go of.
LEMMA RecvStep ==
    ASSUME StreamInv, Recv PROVE StreamInv'
<1> PICK n \in 1 .. Len(c.recv) :
        /\ Call([c EXCEPT !.recvBase = @ + n, !.recv = SubSeq(@, n + 1, Len(@))])
        /\ appGot' = appGot + n /\ UNCHANGED appSent
  BY DEF Recv
<1> DEFINE m == [c EXCEPT !.recvBase = @ + n, !.recv = SubSeq(@, n + 1, Len(@))]
           v == World'
<1>1. /\ c.held /\ Becomes(m) /\ appSent' = appSent /\ guest' = guest /\ toStack' = toStack
      /\ appGot' = appGot + n
  BY DEF Call
<1>2. IsWorld(World) /\ Sound(c, World) /\ c.frame = <<>>
  BY <1>1, LiveConnection DEF StreamInv
<1>3. Len(c.recv) \in Nat /\ n \in Nat
  BY <1>2 DEF Sound, Receiving
<1>4. /\ v.got = World.got + n /\ v.app = World.app /\ v.sent = World.sent /\ v.closed = World.closed
      /\ v.has = World.has /\ IsWorld(v)
  BY <1>1, <1>2, <1>3 DEF World, IsWorld
<1> HIDE DEF v
<1>5. /\ Sound(m, v) /\ m.frame = <<>> /\ m.base = c.base /\ m.sendOpen = c.sendOpen
      /\ c.recvOpen /\ v.got + Len(m.recv) = World.got + Len(c.recv)
  <2>1. Read(World, v, n)
    BY <1>4 DEF Read
  <2>2. Sound(Rest(c, n), v) /\ LetGo(c, World, Rest(c, n), v)
    BY <1>2, <2>1, RecvIsSound
  <2>3. m = Rest(c, n)
    BY DEF Rest
  <2> HIDE DEF m
  <2> QED BY <2>2, <2>3, Zenon DEF LetGo
<1> HIDE DEF m
<1>6. Onward(c, World, m, v)
  <2>1. /\ World.app <= v.app /\ World.sent <= v.sent /\ World.has <= v.has
        /\ World.got + Len(c.recv) <= World.got + Len(c.recv)
    BY <1>2, <1>3, <1>4 DEF IsWorld
  <2> QED BY <1>4, <1>5, <2>1 DEF Onward
<1> QED BY <1>1, <1>4, <1>5, <1>6, SettledStep DEF v

LEMMA AppSteps ==
    ASSUME Orderly, StreamInv, App \/ CheckAbandoned PROVE StreamInv'
<1>1. IsWorld(World)
  BY DEF StreamInv
<1>2. ASSUME c.held \/ c.listed PROVE Sound(c, World)
  BY <1>2, LiveConnection DEF StreamInv
<1>3. CASE Shutdown
  <2>1. PICK send \in BOOLEAN, receive \in BOOLEAN :
            Call(ShutdownSocket(c, send, receive)) /\ UNCHANGED app
    BY <1>3 DEF Shutdown
  <2>2. /\ c.held /\ Becomes(ShutdownSocket(c, send, receive)) /\ appSent' = appSent /\ appGot' = appGot
        /\ guest' = guest /\ toStack' = toStack
    BY <2>1 DEF Call, app
  <2>3. Makes(c, ShutdownSocket(c, send, receive), World)
    BY <1>1, <1>2, <2>2, ShutdownIsSound
  <2> QED BY <2>2, <2>3, MakesStep
<1>4. CASE Close
  <2>1. PICK force \in BOOLEAN : Call(CloseSocket(c, force)) /\ UNCHANGED app
    BY <1>4 DEF Close
  <2>2. /\ c.held /\ Becomes(CloseSocket(c, force)) /\ appSent' = appSent /\ appGot' = appGot
        /\ guest' = guest /\ toStack' = toStack
    BY <2>1 DEF Call, app
  <2>3. Makes(c, CloseSocket(c, force), World)
    BY <1>1, <1>2, <2>2, CloseIsSound
  <2> QED BY <2>2, <2>3, MakesStep
<1>5. CASE Release
  <2> DEFINE released == [c EXCEPT !.held = FALSE]
             m == IF c.listed THEN released ELSE Destroyed
  <2>1. /\ c.held /\ Becomes(m) /\ appSent' = appSent /\ appGot' = appGot
        /\ guest' = guest /\ toStack' = toStack
    BY <1>5 DEF Release, Call, app
  <2>2. Makes(c, released, World)
    <3>1. Sound(c, World)
      BY <1>2, <2>1
    <3>2. /\ HasFields(released) /\ SameSend(c, released) /\ SameReceive(c, released)
          /\ released.sendOpen = c.sendOpen /\ released.state = c.state /\ released.frame = c.frame
      BY <3>1, Fields DEF Sound, HasFields, SameSend, SameReceive
    <3> HIDE DEF released
    <3> QED BY <1>1, <3>1, <3>2, SoundKept
  <2> HIDE DEF released
  <2>3. Lasting(c, m, World)
    BY <2>2 DEF Lasting, Makes
  <2> HIDE DEF m
  <2> QED BY <2>1, <2>3, LastingStep
<1>6. CASE CheckAbandoned
  <2>1. /\ c.listed /\ Becomes(CloseSocket(c, TRUE)) /\ appSent' = appSent /\ appGot' = appGot
        /\ guest' = guest /\ toStack' = toStack
    BY <1>6 DEF CheckAbandoned, app
  <2>2. Makes(c, CloseSocket(c, TRUE), World)
    BY <1>1, <1>2, <2>1, CloseIsSound
  <2> QED BY <2>1, <2>2, MakesStep
<1> QED BY <1>3, <1>4, <1>5, <1>6, OpeningSteps, SendStep, RecvStep DEF App

-----------------------------------------------------------------------------
(* The steps of the guest.                                                   *)

\* What the guest sends more changes nothing for the connection yet.
LEMMA ConnectionOnward ==
    ASSUME NEW k, NEW w, NEW v, IsWorld(w), IsWorld(v), v.app = w.app, v.got = w.got, w.has <= v.has,
           w.closed => v.closed /\ v.sent = w.sent, Connection(k, w)
    PROVE  Connection(k, v)
<1>1. ASSUME Sound(k, w), k.frame = <<>> PROVE Sound(k, v)
  <2>0. k.base <= v.has
    BY <1>1 DEF Sound, Sending, SendTypes, Stored, IsWorld
  <2>1. Sending(k, v) /\ SynWasSent(k, v)
    BY <1>1, <2>0 DEF Sound, Sending, SynWasSent, Full, Stored
  <2>2. Receiving(k, v)
    <3>1. Reads(k, w) => Reads(k, v)
      BY DEF Reads
    <3> QED BY <1>1, <3>1 DEF Sound, Receiving
  <2> QED BY <1>1, <2>1, <2>2 DEF Sound, FrameFair
<1> QED BY <1>1 DEF Connection

LEMMA GuestStep ==
    ASSUME StreamInv, c' = c, appSent' = appSent, appGot' = appGot,
           NEW g, g = guest', GuestTypes(g), guest.rcv <= g.rcv, guest.sent <= g.sent,
           guest.closed => g.closed /\ g.sent = guest.sent,
           NEW v, v = World', GuestHas(guest, c, v) => GuestHas(g, c, v),
           toGuest' = toGuest \/ (toGuest # <<>> /\ toGuest' = Tail(toGuest)),
           HonestFrames(toStack', g.rcv, v)
    PROVE  StreamInv'
<1>1. /\ v.app = World.app /\ v.got = World.got /\ v.sent = g.sent /\ v.closed = g.closed
      /\ World.sent = guest.sent /\ World.closed = guest.closed
      /\ World.has = AtLeast(guest.rcv, 1) /\ v.has = AtLeast(g.rcv, 1)
  BY DEF World
<1>2. IsWorld(World) /\ IsWorld(v) /\ World.has <= v.has
  BY <1>1 DEF StreamInv, IsWorld, GuestTypes, AtLeast
<1>3. c.recv \in Seq(Nat) /\ c.base \in Nat
  BY ConnectionRing DEF StreamInv
<1>4. Onward(c, World, c, v)
  BY <1>1, <1>2, <1>3 DEF Onward, IsWorld
<1>5. Connection(c, v)
  BY <1>1, <1>2, ConnectionOnward DEF StreamInv
<1>6. GuestHas(g, c, v)
  BY <1>2, <1>3, <1>4, GuestOnward DEF StreamInv
<1>7. FairFrames(toGuest', c, v)
  <2>1. FairFrames(toGuest', c, World)
    BY TailsKeep DEF StreamInv
  <2> QED BY <1>2, <1>3, <1>4, <2>1, FairFramesOnward
<1>8. c.base <= AtLeast(g.rcv, 1)
  BY <1>3 DEF StreamInv, GuestTypes, AtLeast
<1> QED BY <1>2, <1>5, <1>6, <1>7, <1>8 DEF StreamInv

\* What the guest has does not depend on what it sent.
LEMMA GuestHasAlike ==
    ASSUME NEW g, NEW h, NEW k, NEW w, GuestHas(g, k, w), h.got = g.got, h.fin = g.fin,
           h.rcv = g.rcv, h.una = g.una,
           \/ h.state = g.state \/ h.state = "dead"
           \/ g.state = "idle" /\ h.state = "opening"
    PROVE  GuestHas(h, k, w)
  BY DEF GuestHas

LEMMA GuestFields == DOMAIN NoGuest = {"state", "una", "sent", "closed", "rcv", "got", "fin"}
  BY DEF NoGuest

\* A segment that the guest sends is put behind those under way.
LEMMA GuestSending ==
    ASSUME StreamInv, NEW g, g = guest', NEW s, NEW wnd, GuestSends(s, wnd),
           GuestTypes(g), g.rcv = guest.rcv, guest.sent <= g.sent,
           guest.closed => g.closed /\ g.sent = guest.sent,
           NEW v, v = World', GuestHas(guest, c, v) => GuestHas(g, c, v),
           Honest([s EXCEPT !.wnd = wnd], g.rcv, v)
    PROVE  StreamInv'
<1>1. /\ c' = c /\ appSent' = appSent /\ appGot' = appGot /\ toGuest' = toGuest
      /\ toStack' = Append(toStack, [s EXCEPT !.wnd = wnd])
  BY DEF GuestSends, app
<1> DEFINE t == [s EXCEPT !.wnd = wnd]
<1> HIDE DEF t
<1>2. guest.rcv \in Nat /\ g.rcv \in Nat /\ guest.rcv <= g.rcv
  BY DEF StreamInv, GuestTypes
<1>3. HonestFrames(toStack, g.rcv, v)
  <2>1. IsWorld(v) /\ World.sent <= v.sent /\ (World.closed => v.closed /\ v.sent = World.sent)
    BY <1>1 DEF StreamInv, IsWorld, World, GuestTypes, AtLeast
  <2> QED BY <1>2, <2>1, HonestFramesOnward DEF StreamInv
<1>4. HonestFrames(Append(toStack, t), g.rcv, v)
  <2>1. Honest(t, g.rcv, v)
    BY DEF t
  <2>2. /\ IsSeq(Append(toStack, t))
        /\ \A i \in DOMAIN Append(toStack, t) :
              Append(toStack, t)[i] = t \/ (i \in DOMAIN toStack /\ Append(toStack, t)[i] = toStack[i])
    BY AppendedFacts DEF StreamInv, HonestFrames
  <2> QED BY <1>3, <2>1, <2>2, Zenon DEF HonestFrames
<1>5. HonestFrames(toStack', g.rcv, v)
  BY <1>1, <1>4 DEF t
<1> QED BY <1>1, <1>2, <1>5, GuestStep

\* A segment without data or FIN.
LEMMA EmptyIsHonest ==
    ASSUME NEW t, NEW rcv, NEW w, t.seq \in Nat, t.ackNo \in Nat, t.ackNo <= rcv, t.wnd \in Nat,
           t.data = <<>>, t.fin = FALSE, t.syn => t.seq = 0
    PROVE  Honest(t, rcv, w)
<1>0. <<>> \in Seq(Nat)
  OBVIOUS
<1>1. t.data \in Seq(Nat) /\ ~ (t.data # <<>>) /\ t.fin \in BOOLEAN /\ ~ t.fin
  BY <1>0, Zenon
<1>2. \A i \in 1 .. Len(t.data) : t.data[i] = t.seq + i - 1
  OBVIOUS
<1>3. t.syn => t.seq = 0 /\ t.data = <<>> /\ ~ t.fin
  OBVIOUS
<1> QED BY <1>1, <1>2, <1>3, Zenon DEF Honest

LEMMA GuestSynStep ==
    ASSUME StreamInv, GuestSyn PROVE StreamInv'
<1> DEFINE g == guest'
           v == World'
           s == [Segment(0, guest.rcv, <<>>) EXCEPT !.syn = TRUE, !.ack = guest.state = "accepting"]
<1>1. PICK wnd \in Windows : GuestSends(s, wnd)
  BY DEF GuestSyn
<1>2. g = [guest EXCEPT !.state = IF @ = "idle" THEN "opening" ELSE @]
  BY DEF GuestSyn
<1>3. /\ GuestTypes(g) /\ g.rcv = guest.rcv /\ g.sent = guest.sent /\ g.closed = guest.closed
      /\ g.got = guest.got /\ g.fin = guest.fin /\ g.una = guest.una /\ guest.sent \in Nat
      /\ (g.state = guest.state \/ (guest.state = "idle" /\ g.state = "opening"))
  BY <1>2, GuestFields DEF StreamInv, GuestTypes
<1>4. wnd \in Nat /\ guest.rcv \in Nat
  BY TcpAssumption DEF StreamInv, GuestTypes
<1>5. Honest([s EXCEPT !.wnd = wnd], g.rcv, v)
  <2> DEFINE t == [s EXCEPT !.wnd = wnd]
  <2>1. /\ t.seq = 0 /\ t.ackNo = guest.rcv /\ t.data = <<>> /\ t.wnd = wnd
        /\ t.syn = TRUE /\ t.fin = FALSE
    BY DEF Segment
  <2> HIDE DEF t
  <2>2. t.seq \in Nat /\ t.ackNo \in Nat /\ t.ackNo <= g.rcv /\ t.wnd \in Nat
    BY <1>3, <1>4, <2>1
  <2>3. Honest(t, g.rcv, v)
    BY <2>1, <2>2, EmptyIsHonest
  <2> QED BY <2>3 DEF t
<1> HIDE DEF s
<1>6. GuestHas(guest, c, v) => GuestHas(g, c, v)
  BY <1>3, GuestHasAlike
<1> QED BY <1>1, <1>3, <1>5, <1>6, GuestSending

LEMMA GuestAckStep ==
    ASSUME StreamInv, GuestAck \/ GuestReset PROVE StreamInv'
<1> DEFINE g == guest'
           v == World'
           s == Segment(GuestNext, guest.rcv, <<>>)
<1>1. GuestNext \in Nat /\ guest.rcv \in Nat
  BY DEF StreamInv, GuestTypes, GuestNext
<1>2. ASSUME NEW t, t.seq = GuestNext, t.ackNo = guest.rcv, t.data = <<>>, t.fin = FALSE,
             t.syn = FALSE, t.wnd \in Nat, g.rcv = guest.rcv
      PROVE  Honest(t, g.rcv, v)
  <2>1. t.seq \in Nat /\ t.ackNo \in Nat /\ t.ackNo <= guest.rcv
    BY <1>1, <1>2
  <2> QED BY <1>2, <2>1, EmptyIsHonest
<1>3. CASE GuestAck
  <2>1. PICK wnd \in Windows : GuestSends(s, wnd)
    BY <1>3 DEF GuestAck
  <2>2. g = guest /\ wnd \in Nat /\ guest.sent \in Nat /\ GuestTypes(g)
    BY <1>3, TcpAssumption DEF GuestAck, StreamInv, GuestTypes
  <2>3. Honest([s EXCEPT !.wnd = wnd], g.rcv, v)
    BY <1>2, <2>2 DEF Segment
  <2> HIDE DEF s
  <2> QED BY <2>1, <2>2, <2>3, GuestSending
<1>4. CASE GuestReset
  <2> DEFINE r == [s EXCEPT !.rst = TRUE]
  <2>1. GuestSends(r, 0) /\ g = [guest EXCEPT !.state = "dead"]
    BY <1>4 DEF GuestReset
  <2>2. /\ GuestTypes(g) /\ g.rcv = guest.rcv /\ g.sent = guest.sent /\ g.closed = guest.closed
        /\ g.got = guest.got /\ g.fin = guest.fin /\ g.una = guest.una /\ guest.sent \in Nat
        /\ g.state = "dead"
    BY <2>1, GuestFields DEF StreamInv, GuestTypes
  <2>3. Honest([r EXCEPT !.wnd = 0], g.rcv, v)
    BY <1>2, <2>2 DEF Segment
  <2> HIDE DEF r
  <2>4. GuestHas(guest, c, v) => GuestHas(g, c, v)
    BY <2>2, GuestHasAlike
  <2>5. guest.sent <= g.sent /\ (guest.closed => g.closed /\ g.sent = guest.sent)
    BY <2>2
  <2>6. GuestSends(r, 0) /\ GuestTypes(g) /\ g.rcv = guest.rcv
    BY <2>1, <2>2
  <2> QED BY <2>3, <2>4, <2>5, <2>6, GuestSending
<1> QED BY <1>3, <1>4

\* New bytes, or old ones again, end where the guest has sent to; a FIN is behind them.
LEMMA DataIsHonest ==
    ASSUME NEW t, NEW rcv, NEW w, IsWorld(w), NEW first \in Nat, NEW n \in Nat,
           t.seq = first, t.ackNo \in Nat, t.ackNo <= rcv, t.wnd \in Nat, t.syn = FALSE,
           t.data = Bytes(first, n), t.fin \in BOOLEAN,
           n # 0 => first + n - 1 <= w.sent,
           t.fin => w.closed /\ first + n - 1 = w.sent
    PROVE  Honest(t, rcv, w)
<1>1. t.data \in Seq(Nat) /\ Len(t.data) = n /\ \A i \in 1 .. n : t.data[i] = first + i - 1
  BY BytesFacts
<1>2. t.data # <<>> => n # 0
  BY <1>1
<1>3. \A i \in 1 .. Len(t.data) : t.data[i] = t.seq + i - 1
  BY <1>1
<1>4. t.data # <<>> => t.seq + Len(t.data) - 1 <= w.sent
  BY <1>1, <1>2
<1>5. t.fin => w.closed /\ t.seq + Len(t.data) - 1 = w.sent
  BY <1>1
<1>6. t.seq \in Nat /\ ~ t.syn
  OBVIOUS
<1> QED BY <1>1, <1>3, <1>4, <1>5, <1>6, Zenon DEF Honest

LEMMA GuestDataStep ==
    ASSUME StreamInv, GuestData PROVE StreamInv'
<1> DEFINE g == guest'
           v == World'
<1> DEFINE Sent(first, wnd, fin, last) ==
             /\ last >= first \/ fin
             /\ fin => last >= guest.sent
             /\ GuestSends([Segment(first, guest.rcv, Bytes(first, last - first + 1)) EXCEPT !.fin = fin], wnd)
             /\ g = [guest EXCEPT !.sent = AtLeast(@, last), !.closed = @ \/ fin]
<1>0. PICK first \in {guest.una, GuestNext}, wnd \in Windows, fin \in BOOLEAN :
        \E last \in first - 1 .. IF guest.closed THEN guest.sent ELSE MaxBytes - appSent :
           Sent(first, wnd, fin, last)
  BY DEF GuestData
<1>1. PICK last \in first - 1 .. IF guest.closed THEN guest.sent ELSE MaxBytes - appSent :
         Sent(first, wnd, fin, last)
  BY <1>0
<1> DEFINE n == last - first + 1
           s == [Segment(first, guest.rcv, Bytes(first, n)) EXCEPT !.fin = fin]
           sent == guest.sent
<1>2. /\ first \in Nat /\ sent \in Nat /\ guest.rcv \in Nat /\ wnd \in Nat
      /\ guest.closed \in BOOLEAN
  BY TcpAssumption DEF StreamInv, GuestTypes, GuestNext
<1>3. last \in Int /\ n \in Nat /\ first + n - 1 = last /\ (guest.closed => last <= sent)
  <2>1. appSent \in Nat /\ MaxBytes \in Nat
    BY TcpAssumption DEF StreamInv, IsWorld, World
  <2>2. CASE guest.closed
    BY <1>2, <2>2
  <2>3. CASE ~ guest.closed
    BY <1>2, <2>1, <2>3
  <2> QED BY <2>2, <2>3
<1> DEFINE new == AtLeast(sent, last)
<1>4. new \in Nat /\ sent <= new /\ last <= new /\ (last <= sent => new = sent)
      /\ (last >= sent => new = last)
  BY <1>2, <1>3 DEF AtLeast
<1>5. /\ g.sent = new /\ g.closed = (guest.closed \/ fin) /\ g.rcv = guest.rcv /\ g.una = guest.una
      /\ g.got = guest.got /\ g.fin = guest.fin /\ g.state = guest.state /\ DOMAIN g = DOMAIN guest
  BY <1>1, GuestFields DEF StreamInv, GuestTypes
<1> HIDE DEF new, n, s, g
<1>6. GuestTypes(g)
  BY <1>2, <1>4, <1>5 DEF StreamInv, GuestTypes
<1>7. guest.closed => g.closed /\ g.sent = guest.sent
  BY <1>3, <1>4, <1>5
<1>8. GuestHas(guest, c, v) => GuestHas(g, c, v)
  BY <1>5, GuestHasAlike
<1>9. GuestSends(s, wnd)
  BY <1>1 DEF s, n
<1>10. IsWorld(v) /\ v.sent = new /\ v.closed = (guest.closed \/ fin)
  <2>1. appSent' = appSent /\ appGot' = appGot
    BY <1>9 DEF GuestSends, app
  <2>2. IsWorld(v)
    BY <1>6, <2>1 DEF StreamInv, IsWorld, World, GuestTypes, AtLeast, g
  <2> QED BY <1>5, <2>2 DEF World, g
<1> HIDE DEF v
<1>11. Honest([s EXCEPT !.wnd = wnd], g.rcv, v)
  <2> DEFINE t == [s EXCEPT !.wnd = wnd]
  <2>1. /\ t.seq = first /\ t.ackNo = guest.rcv /\ t.data = Bytes(first, n) /\ t.wnd = wnd
        /\ t.syn = FALSE /\ t.fin = fin
    BY DEF Segment, s
  <2> HIDE DEF t
  <2>2. t.ackNo \in Nat /\ t.ackNo <= g.rcv /\ t.wnd \in Nat /\ t.fin \in BOOLEAN
    BY <1>2, <1>5, <2>1
  <2>3. first + n - 1 <= v.sent
    BY <1>3, <1>4, <1>10
  <2>4. t.fin => v.closed /\ first + n - 1 = v.sent
    BY <1>1, <1>3, <1>4, <1>10, <2>1
  <2>5. Honest(t, g.rcv, v)
    BY <1>2, <1>3, <1>10, <2>1, <2>2, <2>3, <2>4, DataIsHonest
  <2> QED BY <2>5 DEF t
<1>12. guest.sent <= g.sent
  BY <1>4, <1>5
<1> QED BY <1>5, <1>6, <1>7, <1>8, <1>9, <1>11, <1>12, GuestSending DEF g, v

\* A part of a sequence that is not empty, or is.
LEMMA SliceFacts ==
    ASSUME NEW data \in Seq(Nat), NEW a \in Nat, NEW n \in Nat, a + n <= Len(data)
    PROVE  LET part == SubSeq(data, a + 1, a + n) IN
           /\ part \in Seq(Nat) /\ Len(part) = n /\ \A i \in 1 .. n : part[i] = data[a + i]
<1> DEFINE part == SubSeq(data, a + 1, a + n)
<1>1. Len(data) \in Nat
  OBVIOUS
<1>2. CASE n = 0
  <2>1. part = <<>> /\ <<>> \in Seq(Nat) /\ Len(<<>>) = 0 /\ 1 .. 0 = {}
    BY <1>1, <1>2
  <2> HIDE DEF part
  <2>2. part \in Seq(Nat) /\ Len(part) = n /\ \A i \in 1 .. n : part[i] = data[a + i]
    BY <1>2, <2>1
  <2> QED BY <2>2 DEF part
<1>3. CASE n > 0
  <2>1. a + 1 \in 1 .. Len(data) /\ a + n \in 1 .. Len(data) /\ a + 1 <= a + n
    BY <1>1, <1>3
  <2>2. part \in Seq(Nat) /\ Len(part) = (a + n) - (a + 1) + 1
    BY <1>1, <2>1
  <2>3. \A i \in 1 .. (a + n) - (a + 1) + 1 : part[i] = data[(a + 1) + i - 1]
    BY <1>1, <2>1
  <2>4. (a + n) - (a + 1) + 1 = n
    BY <1>1
  <2> HIDE DEF part
  <2>5. ASSUME NEW i \in 1 .. n PROVE part[i] = data[a + i]
    <3>1. (a + 1) + i - 1 = a + i
      BY <1>1
    <3> QED BY <2>3, <2>4, <3>1
  <2> QED BY <2>2, <2>4, <2>5 DEF part
<1> QED BY <1>2, <1>3

\* The bytes the guest adds to those it has are those that come next.
Counted(got) == got \in Seq(Nat) /\ \A i \in 1 .. Len(got) : AsSent(got[i], i)
From(data, seq, low) ==
    /\ data \in Seq(Nat)
    /\ \A i \in 1 .. Len(data) : seq + i - 1 < low \/ AsSent(data[i], seq + i - 2)
Added(got, data, a, n) == got \o SubSeq(data, a + 1, a + n)
Fits(got, data, seq, a, n) ==
    /\ seq \in Nat /\ a \in Nat /\ n \in Nat
    /\ a + n <= Len(data) /\ seq + a = Len(got) + 2
LEMMA AddedBytes ==
    ASSUME NEW got, Counted(got), NEW seq, NEW data, From(data, seq, Len(got) + 2),
           NEW a, NEW n, Fits(got, data, seq, a, n)
    PROVE  Counted(Added(got, data, a, n)) /\ Len(Added(got, data, a, n)) = Len(got) + n
<1> USE DEF Fits
<1> DEFINE part == SubSeq(data, a + 1, a + n)
           all == got \o part
           had == Len(got)
           size == Len(data)
<1>1. /\ had \in Nat /\ size \in Nat /\ got \in Seq(Nat) /\ data \in Seq(Nat)
      /\ a + n <= size /\ seq + a = had + 2 /\ \A i \in 1 .. had : AsSent(got[i], i)
      /\ \A i \in 1 .. size : seq + i - 1 < had + 2 \/ AsSent(data[i], seq + i - 2)
  BY DEF Counted, From
<1>0. /\ had \in Nat /\ size \in Nat /\ a \in Nat /\ n \in Nat /\ seq \in Nat
      /\ a + n <= size /\ seq + a = had + 2
  BY <1>1
<1>2. part \in Seq(Nat) /\ Len(part) = n /\ \A i \in 1 .. n : part[i] = data[a + i]
  BY <1>1, SliceFacts
<1> HIDE DEF part
<1>3. /\ all \in Seq(Nat) /\ Len(all) = had + n
      /\ \A i \in 1 .. had + n : all[i] = IF i <= had THEN got[i] ELSE part[i - had]
  BY <1>1, <1>2, ConcatFacts
<1> HIDE DEF all, had, size
<1>4. ASSUME NEW i \in 1 .. had + n PROVE AsSent(all[i], i)
  <2>1. CASE i <= had
    <3>1. i \in 1 .. had
      BY <1>0, <2>1
    <3>2. all[i] = got[i]
      BY <1>3, <2>1
    <3>3. AsSent(got[i], i)
      BY <1>1, <3>1
    <3> QED BY <3>2, <3>3, Zenon
  <2>2. CASE ~ (i <= had)
    <3> DEFINE j == i - had
    <3>1. j \in 1 .. n /\ all[i] = part[j] /\ j + had = i
      BY <1>1, <1>3, <2>2, SMTT(20)
    <3> HIDE DEF j
    <3>2. part[j] = data[a + j]
      BY <1>2, <3>1
    <3>3. a + j \in 1 .. size
      <4>1. j \in Nat /\ 1 <= j /\ j <= n
        BY <1>0, <3>1
      <4> QED BY <1>0, <4>1
    <3>4. seq + (a + j) - 1 < had + 2 \/ AsSent(data[a + j], seq + (a + j) - 2)
      BY <1>1, <3>3
    <3>5. seq + (a + j) - 2 = had + j /\ ~ (seq + (a + j) - 1 < had + 2)
      <4>1. j \in Nat /\ j >= 1
        BY <1>0, <3>1
      <4> QED BY <1>0, <4>1
    <3>6. had + j = i
      BY <1>0, <3>1
    <3> QED BY <3>1, <3>2, <3>4, <3>5, <3>6, Zenon
  <2> QED BY <2>1, <2>2
<1>5. Counted(all) /\ Len(all) = Len(got) + n
  BY <1>3, <1>4 DEF Counted, had
<1> QED BY <1>5 DEF all, part, Added

\* What a guest takes of a fair segment keeps what it has.
LEMMA TakingKeeps ==
    ASSUME NEW g, NEW k, NEW w, IsWorld(w), GuestTypes(g), GuestHas(g, k, w),
           w.has = AtLeast(g.rcv, 1), g.state \in {"open", "accepting"},
           NEW s, Fair(s, k, w), ~ s.syn, ~ s.rst, NEW n \in 0 .. NewTo(g, s)
    PROVE  LET h == GuestTakes(g, s, n) IN
           /\ GuestTypes(h) /\ GuestHas(h, k, w) /\ g.rcv <= h.rcv
           /\ h.sent = g.sent /\ h.closed = g.closed
<1> DEFINE h == GuestTakes(g, s, n)
           got == g.got
           had == Len(got)
           size == Len(s.data)
           a == g.rcv - s.seq
           end == a + n
<1>1. /\ s.seq \in Nat \ {0, 1} /\ s.data \in Seq(Nat) /\ s.fin \in BOOLEAN /\ size \in Nat
      /\ \A i \in 1 .. size : /\ s.seq + i - 2 <= w.app
                               /\ (s.seq + i - 1 < w.has \/ AsSent(s.data[i], s.seq + i - 2))
      /\ s.fin => s.seq + size = w.app + 2 /\ ~ k.sendOpen
      /\ s.ack => Acked(s.ackNo, k, w)
  BY DEF Fair, Carries
<1>2. /\ got \in Seq(Nat) /\ had \in Nat /\ g.rcv \in Nat /\ g.una \in Nat /\ g.fin \in BOOLEAN
      /\ \A i \in 1 .. had : AsSent(got[i], i)
      /\ w.app \in Nat /\ had <= w.app /\ a \in Int
  BY <1>1 DEF GuestTypes, GuestHas, IsWorld
<1>3. NewTo(g, s) \in Nat /\ n \in Nat
  <2>1. Length(s) \in Int
    BY <1>1 DEF Length
  <2>2. NewTo(g, s) \in Nat
    BY <1>1, <1>2, <2>1 DEF NewTo, AtLeast
  <2> QED BY <2>2
<1>4. /\ DOMAIN h = DOMAIN g /\ h.rcv = g.rcv + n /\ h.una = (IF s.ack THEN AtLeast(g.una, s.ackNo) ELSE g.una)
      /\ h.got = got \o SubSeq(s.data, a + 1, AtMost(end, size))
      /\ h.fin = (g.fin \/ (n > 0 /\ end > size)) /\ h.sent = g.sent /\ h.closed = g.closed
      /\ h.state \in {"open", "accepting"}
  BY <1>2, GuestFields DEF GuestTakes, GuestTypes
<1> HIDE DEF h, had, size, a
<1>5. h.una \in Nat /\ Acked(h.una, k, w)
  <2>1. Acked(g.una, k, w)
    BY DEF GuestHas
  <2>2. h.una = g.una \/ (s.ack /\ h.una = s.ackNo)
    BY <1>4 DEF AtLeast
  <2>3. Acked(h.una, k, w)
    BY <1>1, <2>1, <2>2
  <2> QED BY <2>3 DEF Acked
<1>6. n > 0 => /\ ~ g.fin /\ a \in Nat /\ g.rcv = had + 2 /\ s.seq + a = had + 2
               /\ end <= size + 1 /\ (end > size => s.fin)
  <2> SUFFICES ASSUME n > 0
               PROVE  /\ ~ g.fin /\ a \in Nat /\ g.rcv = had + 2 /\ s.seq + a = had + 2
                      /\ end <= size + 1 /\ (end > size => s.fin)
    OBVIOUS
  <2>1. ~ (s.seq > g.rcv \/ g.fin) /\ n <= AtLeast(Length(s) - a, 0)
    BY <1>3 DEF NewTo, a
  <2>2. a \in Nat /\ s.seq + a = g.rcv
    BY <1>1, <1>2, <2>1 DEF a
  <2>3. g.rcv = had + 2
    BY <2>1 DEF GuestHas, had
  <2>4. Length(s) = size + (IF s.fin THEN 1 ELSE 0)
    BY DEF Length, size
  <2>5. Length(s) \in Int
    BY <1>1, <2>4
  <2>6. n <= Length(s) - a
    BY <1>3, <2>1, <2>2, <2>5 DEF AtLeast
  <2>7. end <= size + 1 /\ (end > size => s.fin)
    <3>1. CASE s.fin
      BY <1>1, <1>3, <2>2, <2>4, <2>6, <3>1
    <3>2. CASE ~ s.fin
      BY <1>1, <1>3, <2>2, <2>4, <2>6, <3>2
    <3> QED BY <3>1, <3>2
  <2> QED BY <2>1, <2>2, <2>3, <2>7
<1> DEFINE more == n > 0 /\ ~ (end > size)
           last == n > 0 /\ end > size
<1>7. CASE n = 0
  <2>1. h.got = got
    <3>1. AtMost(end, size) < a + 1 /\ AtMost(end, size) \in Int
      BY <1>1, <1>2, <1>7 DEF AtMost
    <3>2. SubSeq(s.data, a + 1, AtMost(end, size)) = <<>>
      BY <1>1, <1>2, <3>1
    <3> QED BY <1>2, <1>4, <3>2, NothingAppended
  <2>2. h.fin = g.fin /\ h.rcv = g.rcv
    BY <1>2, <1>4, <1>7
  <2>3. GuestTypes(h)
    BY <1>4, <1>5, <2>1, <2>2 DEF GuestTypes
  <2>4. GuestHas(h, k, w)
    BY <1>4, <1>5, <2>1, <2>2 DEF GuestHas
  <2> QED BY <1>2, <1>4, <2>2, <2>3, <2>4 DEF h
<1>8. CASE more
  <2>0. n > 0 /\ ~ (end > size) /\ ~ g.fin /\ a \in Nat /\ g.rcv = had + 2 /\ s.seq + a = had + 2
    BY <1>6, <1>8, Zenon
  <2>1. end \in Nat /\ end <= size /\ AtMost(end, size) = a + n
    <3>1. end \in Nat /\ size \in Nat
      BY <1>1, <1>3, <2>0
    <3>2. end <= size
      BY <2>0, <3>1
    <3>3. AtMost(end, size) = end
      BY <3>1, <3>2 DEF AtMost
    <3> QED BY <3>1, <3>2, <3>3
  <2>2. /\ h.got \in Seq(Nat) /\ Len(h.got) = had + n
        /\ \A i \in 1 .. Len(h.got) : AsSent(h.got[i], i)
    <3>0. w.has = had + 2
      BY <1>2, <2>0 DEF AtLeast
    <3>1. Counted(got) /\ From(s.data, s.seq, Len(got) + 2)
      BY <1>1, <1>2, <3>0 DEF Counted, From, size, had
    <3>2. Fits(got, s.data, s.seq, a, n)
      BY <1>1, <1>3, <2>0, <2>1 DEF size, had, Fits
    <3>3. Counted(Added(got, s.data, a, n)) /\ Len(Added(got, s.data, a, n)) = Len(got) + n
      BY <3>1, <3>2, AddedBytes
    <3> QED BY <1>4, <2>1, <3>3, Zenon DEF had, Counted, Added
  <2>3. had + n <= w.app
    <3>1. end \in 1 .. size
      BY <1>3, <2>0, <2>1
    <3>2. s.seq + end - 2 <= w.app
      BY <1>1, <3>1
    <3>3. s.seq \in Nat /\ s.seq + (a + n) - 2 = had + n
      <4>1. s.seq \in Nat /\ a \in Nat /\ had \in Nat /\ s.seq + a = had + 2
        BY <1>1, <1>2, <2>0
      <4> QED BY <1>3, <4>1
    <3> QED BY <3>2, <3>3
  <2>4. h.fin = FALSE /\ h.rcv = had + n + 2 /\ h.rcv \in Nat /\ g.rcv <= h.rcv
    <3>1. h.fin = FALSE
      BY <1>2, <1>4, <2>0, Zenon
    <3>2. h.rcv = had + 2 + n
      BY <1>4, <2>0
    <3> QED BY <1>2, <1>3, <2>0, <3>1, <3>2
  <2>5. GuestTypes(h)
    BY <1>4, <1>5, <2>2, <2>4 DEF GuestTypes
  <2>6. GuestHas(h, k, w)
    BY <1>4, <1>5, <2>2, <2>3, <2>4 DEF GuestHas
  <2> QED BY <1>4, <2>4, <2>5, <2>6 DEF h
<1>9. CASE last
  <2> DEFINE m == size - a
  <2>0. /\ n > 0 /\ end > size /\ ~ g.fin /\ a \in Nat /\ g.rcv = had + 2 /\ s.seq + a = had + 2
        /\ end <= size + 1 /\ s.fin
    BY <1>6, <1>9, Zenon
  <2>1. end = size + 1 /\ m \in Nat /\ m = n - 1 /\ a + m = size /\ AtMost(end, size) = a + m
    BY <1>1, <1>3, <2>0 DEF AtMost
  <2> HIDE DEF m
  <2>2. /\ h.got \in Seq(Nat) /\ Len(h.got) = had + m
        /\ \A i \in 1 .. Len(h.got) : AsSent(h.got[i], i)
    <3>0. w.has = had + 2
      BY <1>2, <2>0 DEF AtLeast
    <3>1. Counted(got) /\ From(s.data, s.seq, Len(got) + 2)
      BY <1>1, <1>2, <3>0 DEF Counted, From, size, had
    <3>2. Fits(got, s.data, s.seq, a, m)
      BY <1>1, <2>0, <2>1 DEF size, had, Fits
    <3>3. Counted(Added(got, s.data, a, m)) /\ Len(Added(got, s.data, a, m)) = Len(got) + m
      BY <3>1, <3>2, AddedBytes
    <3> QED BY <1>4, <2>1, <3>3, Zenon DEF had, Counted, Added
  <2>3. had + m = w.app
    <3>1. s.seq + size = w.app + 2
      BY <1>1, <2>0, Zenon
    <3>2. s.seq \in Nat /\ s.seq + (a + m) = had + 2 + m
      BY <1>1, <2>0, <2>1
    <3>3. size = a + m /\ had \in Nat /\ m \in Nat /\ w.app \in Nat
      BY <1>2, <2>1
    <3> QED BY <3>1, <3>2, <3>3
  <2>4. h.fin = TRUE /\ h.rcv \in Nat /\ g.rcv <= h.rcv /\ ~ k.sendOpen
    <3>1. h.fin = TRUE /\ ~ k.sendOpen
      BY <1>1, <1>4, <2>0, Zenon
    <3> QED BY <1>2, <1>3, <1>4, <3>1
  <2>5. GuestTypes(h)
    BY <1>4, <1>5, <2>2, <2>4 DEF GuestTypes
  <2>6. GuestHas(h, k, w)
    <3>1. Len(h.got) <= w.app /\ Len(h.got) = w.app
      BY <1>2, <2>2, <2>3
    <3> QED BY <1>4, <1>5, <2>2, <2>4, <3>1, Zenon DEF GuestHas
  <2> QED BY <1>4, <2>4, <2>5, <2>6 DEF h
<1> QED BY <1>3, <1>7, <1>8, <1>9

LEMMA GuestReceiveStep ==
    ASSUME StreamInv, GuestReceive PROVE StreamInv'
<1> DEFINE g == guest'
           s == Head(toGuest)
           v == World'
<1>1. /\ c' = c /\ appSent' = appSent /\ appGot' = appGot /\ toStack' = toStack
      /\ toGuest # <<>> /\ toGuest' = Tail(toGuest)
  BY DEF GuestReceive, app
<1>2. Fair(s, c, World)
  BY <1>1, TailsKeep DEF StreamInv
<1>3. /\ guest.rcv \in Nat /\ guest.sent \in Nat /\ GuestTypes(guest) /\ GuestHas(guest, c, World)
      /\ IsWorld(World) /\ HonestFrames(toStack, guest.rcv, World)
  BY DEF StreamInv, GuestTypes
<1> HIDE DEF s
<1>4. ASSUME GuestTypes(g), GuestHas(g, c, World), guest.rcv <= g.rcv,
             g.sent = guest.sent, g.closed = guest.closed
      PROVE  StreamInv'
  <2>1. /\ v.app = World.app /\ v.got = World.got /\ v.sent = World.sent /\ v.closed = World.closed
        /\ World.has = AtLeast(guest.rcv, 1) /\ v.has = AtLeast(g.rcv, 1)
    BY <1>1, <1>4 DEF World
  <2>2. g.rcv \in Nat /\ guest.sent <= g.sent
    BY <1>3, <1>4 DEF GuestTypes
  <2> HIDE DEF v
  <2>3. IsWorld(v) /\ World.has <= v.has /\ World.sent <= v.sent
    BY <1>3, <1>4, <2>1, <2>2 DEF IsWorld, AtLeast
  <2>4. HonestFrames(toStack, g.rcv, v)
    BY <1>3, <1>4, <2>1, <2>2, <2>3, HonestFramesOnward
  <2>5. GuestHas(g, c, v)
    <3>1. c.recv \in Seq(Nat)
      BY ConnectionRing DEF StreamInv
    <3>2. Onward(c, World, c, v)
      <4>1. Len(c.recv) \in Nat /\ World.got \in Nat /\ World.app \in Nat
        BY <1>3, <3>1 DEF IsWorld
      <4> QED BY <2>1, <2>3, <4>1 DEF Onward
    <3> QED BY <1>3, <1>4, <2>3, <3>1, <3>2, GuestOnward
  <2>6. HonestFrames(toStack', g.rcv, v) /\ (GuestHas(guest, c, v) => GuestHas(g, c, v))
    BY <1>1, <2>4, <2>5
  <2> QED BY <1>1, <1>4, <2>2, <2>6, GuestStep DEF v
<1>5. CASE s.rst /\ g = [guest EXCEPT !.state = "dead"]
  <2>1. /\ GuestTypes(g) /\ g.rcv = guest.rcv /\ g.sent = guest.sent /\ g.closed = guest.closed
        /\ g.got = guest.got /\ g.fin = guest.fin /\ g.una = guest.una /\ g.state = "dead"
    BY <1>3, <1>5, GuestFields DEF GuestTypes
  <2>2. GuestHas(g, c, World)
    BY <1>3, <2>1, GuestHasAlike
  <2> QED BY <1>3, <1>4, <2>1, <2>2
<1> DEFINE GuestOpens(state, una) ==
             /\ s.syn /\ guest.state \in {"idle", "opening"} /\ state \in {"accepting", "open"}
             /\ DOMAIN g = DOMAIN guest /\ g.state = state /\ g.rcv = s.seq + 1 /\ g.una = una
             /\ g.got = guest.got /\ g.fin = guest.fin /\ g.sent = guest.sent
             /\ g.closed = guest.closed
<1>6. ASSUME NEW state, NEW una, GuestOpens(state, una), Acked(una, c, World) PROVE StreamInv'
  <2>1. s.seq = 1
    BY <1>2, <1>6 DEF Fair
  <2>2. g.rcv = 2 /\ guest.rcv = 0 /\ g.got = <<>> /\ g.fin = FALSE /\ una \in Nat
    <3>1. guest.rcv = 0 /\ guest.got = <<>> /\ guest.fin = FALSE
      BY <1>3, <1>6 DEF GuestHas, GuestTypes
    <3> QED BY <1>6, <2>1, <3>1 DEF Acked
  <2>3. GuestTypes(g)
    BY <1>3, <1>6, <2>2 DEF GuestTypes
  <2>4. GuestHas(g, c, World)
    <3>1. Len(g.got) = 0 /\ World.app \in Nat
      BY <1>3, <2>2 DEF IsWorld
    <3>2. \A i \in 1 .. Len(g.got) : AsSent(g.got[i], i)
      BY <3>1
    <3>3. Len(g.got) <= World.app /\ g.rcv = Len(g.got) + 2
      BY <2>2, <3>1
    <3>4. g.state \notin {"idle", "opening"}
      BY <1>6
    <3> QED BY <1>6, <2>2, <3>2, <3>3, <3>4, Zenon DEF GuestHas
  <2> QED BY <1>4, <1>6, <2>2, <2>3, <2>4
<1>7. CASE /\ s.syn /\ guest.state = "idle"
           /\ g = [guest EXCEPT !.state = "accepting", !.rcv = s.seq + 1]
  <2>1. GuestOpens("accepting", guest.una)
    BY <1>3, <1>7, GuestFields DEF GuestTypes
  <2> QED BY <1>3, <1>6, <2>1 DEF GuestHas
<1>8. CASE /\ s.syn /\ guest.state = "opening" /\ s.ack
           /\ g = [guest EXCEPT !.state = "open", !.rcv = s.seq + 1, !.una = s.ackNo]
  <2>1. GuestOpens("open", s.ackNo)
    BY <1>3, <1>8, GuestFields DEF GuestTypes
  <2>2. Acked(s.ackNo, c, World)
    BY <1>2, <1>8 DEF Fair
  <2> QED BY <1>6, <2>1, <2>2
<1>9. CASE /\ ~ s.syn /\ ~ s.rst /\ guest.state \in {"open", "accepting"}
           /\ \E n \in 0 .. NewTo(guest, s) : g = GuestTakes(guest, s, n)
  <2>1. PICK n \in 0 .. NewTo(guest, s) : g = GuestTakes(guest, s, n)
    BY <1>9
  <2>2. LET h == GuestTakes(guest, s, n) IN
        /\ GuestTypes(h) /\ GuestHas(h, c, World) /\ guest.rcv <= h.rcv
        /\ h.sent = guest.sent /\ h.closed = guest.closed
    <3>1. World.has = AtLeast(guest.rcv, 1)
      BY DEF World
    <3> QED BY <1>2, <1>3, <1>9, <3>1, TakingKeeps
  <2> QED BY <1>4, <2>1, <2>2
<1>10. CASE g = guest
  BY <1>3, <1>4, <1>10
<1> QED BY <1>5, <1>7, <1>8, <1>9, <1>10 DEF GuestReceive, s

-----------------------------------------------------------------------------
LEMMA StreamInit == Init => StreamInv
<1> SUFFICES ASSUME Init PROVE StreamInv
  OBVIOUS
<1>1. /\ c = NoConnection /\ toGuest = <<>> /\ toStack = <<>> /\ appSent = 0 /\ appGot = 0
      /\ guest = NoGuest
  BY DEF Init
<1>2. World.app = 0 /\ World.got = 0 /\ World.sent = 0 /\ World.closed = FALSE /\ World.has = 1
  BY <1>1 DEF World, NoGuest, AtLeast
<1>3. IsWorld(World) /\ Connection(c, World)
  <2>1. 0 \in Nat /\ FALSE \in BOOLEAN /\ 1 \in Nat \ {0}
    OBVIOUS
  <2>2. IsWorld(World)
    BY <1>2, <2>1, Zenon DEF IsWorld
  <2> QED BY <1>1, <1>2, <2>2, Zenon DEF Connection
<1>4. DOMAIN <<>> = {} /\ Len(<<>>) = 0 /\ <<>> \in Seq(Nat)
  OBVIOUS
<1>5. FairFrames(toGuest, c, World) /\ HonestFrames(toStack, guest.rcv, World)
  BY <1>1, <1>4, EmptyIsSeq DEF FairFrames, HonestFrames
<1>6. /\ guest.una = 0 /\ guest.sent = 0 /\ guest.rcv = 0 /\ guest.got = <<>>
      /\ guest.closed = FALSE /\ guest.fin = FALSE /\ guest.state = "idle"
  BY <1>1 DEF NoGuest
<1>7. GuestTypes(guest)
  <2>1. DOMAIN guest = DOMAIN NoGuest
    BY <1>1
  <2>2. 0 \in Nat /\ FALSE \in BOOLEAN
    OBVIOUS
  <2> QED BY <1>4, <1>6, <2>1, <2>2, Zenon DEF GuestTypes
<1>8. GuestHas(guest, c, World)
  <2>1. Acked(0, c, World)
    <3>1. Len(c.recv) = 0
      BY <1>1, <1>4 DEF NoConnection
    <3> QED BY <1>2, <3>1 DEF Acked
  <2>2. \A i \in 1 .. Len(guest.got) : AsSent(guest.got[i], i)
    BY <1>4, <1>6
  <2>3. Len(guest.got) <= World.app
    BY <1>2, <1>4, <1>6
  <2> QED BY <1>6, <2>1, <2>2, <2>3 DEF GuestHas
<1>9. c.base <= AtLeast(guest.rcv, 1)
  BY <1>1, <1>6 DEF NoConnection, AtLeast
<1> QED BY <1>3, <1>5, <1>7, <1>8, <1>9 DEF StreamInv

LEMMA StreamNext == Orderly /\ StreamInv /\ [Next]_vars => StreamInv'
<1> SUFFICES ASSUME Orderly, StreamInv, [Next]_vars PROVE StreamInv'
  OBVIOUS
<1>1. CASE Listen \/ Connect
  BY <1>1, OpeningSteps
<1>2. CASE Refuse
  BY <1>2, RefuseStep
<1>3. CASE Receive
  BY <1>3, ReceiveStep
<1>4. CASE ClockEvent
  BY <1>4, ClockStep
<1>5. CASE App \/ CheckAbandoned
  BY <1>5, AppSteps
<1>6. CASE Guest
  BY <1>6, GuestSynStep, GuestDataStep, GuestAckStep, GuestReceiveStep DEF Guest
<1>7. CASE UNCHANGED vars
  BY <1>7 DEF vars, app, StreamInv, World
<1> QED BY <1>1, <1>2, <1>3, <1>4, <1>5, <1>6, <1>7 DEF Next

LEMMA BytesAre ==
    ASSUME NEW q \in Seq(Nat), NEW first \in Nat, \A i \in 1 .. Len(q) : q[i] = first + i - 1
    PROVE  q = Bytes(first, Len(q))
<1>1. q = [i \in 1 .. Len(q) |-> q[i]]
  OBVIOUS
<1>2. [i \in 1 .. Len(q) |-> q[i]] = [i \in 1 .. Len(q) |-> first + i - 1]
  OBVIOUS
<1>3. Bytes(first, Len(q)) = [i \in 1 .. Len(q) |-> first + i - 1]
  BY DEF Bytes
<1> QED BY <1>1, <1>2, <1>3, Zenon

LEMMA StreamInvIsEnough == StreamInv => StreamsIntact
<1> SUFFICES ASSUME StreamInv PROVE StreamsIntact
  OBVIOUS
<1> DEFINE w == World
           n == Len(c.recv)
<1>1. /\ w.app = appSent /\ w.got = appGot /\ w.sent = guest.sent /\ w.closed = guest.closed
      /\ IsWorld(w) /\ Connection(c, w) /\ c.recv \in Seq(Nat) /\ n \in Nat
  BY ConnectionRing DEF StreamInv, World
<1>2. GuestTypes(guest) /\ GuestHas(guest, c, w)
  BY DEF StreamInv
<1> HIDE DEF w, n
<1>3. \A i \in DOMAIN guest.got : AsSent(guest.got[i], i)
  <2>1. guest.got \in Seq(Nat) /\ \A i \in 1 .. Len(guest.got) : AsSent(guest.got[i], i)
    BY <1>2 DEF GuestTypes, GuestHas
  <2> QED BY <2>1
<1>4. /\ Len(guest.got) <= appSent /\ (guest.fin => Len(guest.got) = appSent /\ ~ c.sendOpen)
      /\ Acked(guest.una, c, w)
  BY <1>1, <1>2 DEF GuestHas
<1>5. /\ \A i \in 1 .. n : c.recv[i] = appGot + i
      /\ c.recvOpen /\ c.finReceived => guest.closed /\ appGot + n = guest.sent
  <2>1. CASE c = NoConnection
    <3>1. n = 0 /\ c.finReceived = FALSE
      BY <2>1 DEF NoConnection, n
    <3> QED BY <3>1
  <2>2. CASE c = Destroyed
    <3>1. n = 0 /\ c.recvOpen = FALSE
      BY <2>2 DEF Destroyed, NoConnection, n
    <3> QED BY <3>1
  <2>3. CASE Sound(c, w)
    <3>1. CASE c.recvOpen
      BY <1>1, <2>3, <3>1 DEF Sound, Receiving, Reads, n
    <3>2. CASE ~ c.recvOpen
      <4>1. n = 0
        BY <2>3, <3>2 DEF Sound, Receiving, n
      <4> QED BY <3>2, <4>1
    <3> QED BY <3>1, <3>2
  <2> QED BY <1>1, <2>1, <2>2, <2>3 DEF Connection
<1>6. c.recv = Bytes(appGot + 1, Len(c.recv))
  <2>1. appGot + 1 \in Nat
    BY <1>1 DEF IsWorld
  <2>2. \A i \in 1 .. Len(c.recv) : c.recv[i] = (appGot + 1) + i - 1
    BY <1>1, <1>5 DEF IsWorld, n
  <2> QED BY <1>1, <2>1, <2>2, BytesAre
<1>7. c.recvOpen => AtMost(guest.una - 1, guest.sent) <= appGot + Len(c.recv)
  <2> SUFFICES ASSUME c.recvOpen PROVE AtMost(guest.una - 1, guest.sent) <= appGot + n
    BY DEF n
  <2>1. guest.una \in Nat /\ guest.sent \in Nat /\ appGot \in Nat
    BY <1>1, <1>2 DEF GuestTypes, IsWorld
  <2>2. guest.una - 1 <= appGot + n \/ guest.sent <= appGot + n
    BY <1>1, <1>4 DEF Acked, n
  <2> QED BY <1>1, <2>1, <2>2 DEF AtMost
<1> QED BY <1>3, <1>4, <1>5, <1>6, <1>7 DEF StreamsIntact, StreamInv, n

\* Whatever is lost, sent again, reset or shut, for every size of the rings, every
\* window and any number of bytes: the guest has a prefix of what the application
\* sent, but for bytes from XmitSize on in whose place a read outside of the ring's
\* buffer may have put others, and the application a prefix of what the guest sent; a
\* FIN says that it is all, nothing leaves the transmit ring before the guest has it,
\* and nothing is acknowledged that the application cannot have (OnPacket, Transmit,
\* ATNetTcpRingBuffer::Read, Send, Recv and the closing of tcpstack.cpp).
THEOREM StreamSafety == Spec => []StreamsIntact
<1>1. Init => Orderly /\ StreamInv
  BY OrderlyInit, StreamInit
<1>2. Orderly /\ StreamInv /\ [Next]_vars => (Orderly /\ StreamInv)'
  BY OrderlyNext, StreamNext
<1>3. Orderly /\ StreamInv => StreamsIntact
  BY StreamInvIsEnough
<1> QED BY <1>1, <1>2, <1>3, PTL DEF Spec

-----------------------------------------------------------------------------
(* The sizes.  Neither ring is overrun, and the count of a packet timer stays *)
(* below MaxRetransmits.                                                     *)

PacketTimer == [first : Nat, last : Nat, count : 0 .. MaxRetransmits - 1]
IsFrame(frame) == frame = <<>> \/ \E s \in SegmentType : frame = <<s>>

\* A connection within its sizes, that has read no more than the guest sent.
Known(k)  == k.state \in States /\ k.events \subseteq Events
Roomy(k)  == XmitLevel(k) <= XmitSize /\ k.written \in Seq(0 .. Outside)
Filled(k, w) == Len(k.recv) <= RecvSize /\ w.got + Len(k.recv) <= w.sent
Sized(k, w) ==
    /\ Known(k) /\ Roomy(k) /\ Filled(k, w)
    /\ k.timers \in Seq(PacketTimer) /\ IsFrame(k.frame)

\* The world of a run within MaxBytes.
Bounded(w) == IsWorld(w) /\ w.app + w.sent <= MaxBytes

LEMMA SizedKept ==
    ASSUME NEW k, NEW m, NEW w, Sized(k, w), Known(m), m.written = k.written, m.base = k.base,
           m.recv = k.recv, m.timers = k.timers, m.frame = k.frame
    PROVE  Sized(m, w)
  BY DEF Sized, Roomy, Filled, XmitLevel, TailSeq

LEMMA SchedulingKnows ==
    ASSUME NEW k, HasFields(k), Known(k)
    PROVE  Known(Schedule(k))
<1> USE Fields DEF HasFields, Known, Events
<1>1. CASE TransmitStatus(k) = "Yes"
  BY <1>1 DEF Schedule
<1>2. CASE TransmitStatus(k) = "Deferred"
  BY <1>2 DEF Schedule
<1>3. CASE TransmitStatus(k) = "DeferredZeroWindow"
  BY <1>3 DEF Schedule
<1>4. CASE TransmitStatus(k) = "No"
  BY <1>4 DEF Schedule
<1> QED BY <1>1, <1>2, <1>3, <1>4 DEF TransmitStatus

LEMMA SchedulingKeepsSize ==
    ASSUME NEW k, NEW w, HasFields(k), Sized(k, w)
    PROVE  Sized(Schedule(k), w)
<1> DEFINE m == Schedule(k)
<1>1. SameSend(k, m) /\ SameReceive(k, m) /\ m.frame = k.frame
  BY SchedulingOnlySets
<1>2. Known(m)
  BY SchedulingKnows DEF Sized
<1> HIDE DEF m
<1> QED BY <1>1, <1>2, SizedKept DEF SameSend, SameReceive, m

\* The segments of the stack.
LEMMA SegmentTyped ==
    ASSUME NEW seq \in Nat, NEW ackNo \in Nat, NEW data \in Seq(0 .. Outside)
    PROVE  Segment(seq, ackNo, data) \in SegmentType
  BY DEF SegmentType, Segment

LEMMA FlagsTyped ==
    ASSUME NEW s \in SegmentType, NEW ack \in BOOLEAN, NEW syn \in BOOLEAN, NEW fin \in BOOLEAN
    PROVE  /\ [s EXCEPT !.ack = ack, !.syn = syn, !.fin = fin] \in SegmentType
           /\ [s EXCEPT !.rst = TRUE, !.ack = ack] \in SegmentType
  BY DEF SegmentType

LEMMA OutsideIsLast == Outside \in Nat /\ 0 \in 0 .. Outside /\ Outside \in 0 .. Outside
  BY TcpAssumption DEF Outside

LEMMA SmallData ==
    ASSUME NEW data \in Seq(Nat), \A i \in 1 .. Len(data) : data[i] <= MaxBytes
    PROVE  data \in Seq(0 .. Outside)
<1>1. MaxBytes \in Nat /\ Outside = MaxBytes + 1
  BY TcpAssumption DEF Outside
<1> DEFINE n == Len(data)
           S == 0 .. Outside
<1>2. data \in [1 .. n -> S] /\ n \in Nat
  BY <1>1
<1>3. \A T : \A N \in Nat : \A f \in [1 .. N -> T] : f \in Seq(T)
  OBVIOUS
<1> HIDE DEF n, S
<1> QED BY <1>2, <1>3 DEF S

\* What is read is what was written, or is outside of the ring.
LEMMA RingReadTyped ==
    ASSUME NEW k, k.written \in Seq(0 .. Outside), k.base \in Nat, NEW seq \in Nat \ {0}, NEW n \in Nat,
           n > 0 => seq + n <= TailSeq(k)
    PROVE  RingRead(k, seq, n) \in Seq(0 .. Outside)
<1> DEFINE far == k.base - seq > ReadPtr(k)
           data == [i \in 1 .. n |-> IF far THEN Outside ELSE ByteAt(k, seq + i - 1)]
           L == Len(k.written)
           S == 0 .. Outside
<1>1. L \in Nat /\ TailSeq(k) = L + 1 /\ XmitSize \in Nat /\ Outside \in S
  BY TcpAssumption, OutsideIsLast DEF TailSeq
<1>2. \A p \in 1 .. L : k.written[p] \in S
  <2>1. \A T : \A q \in Seq(T) : \A p \in 1 .. Len(q) : q[p] \in T
    OBVIOUS
  <2> QED BY <2>1
<1> HIDE DEF S, far
<1>3. ASSUME NEW i \in 1 .. n
      PROVE  (IF far THEN Outside ELSE ByteAt(k, seq + i - 1)) \in S
  <2> DEFINE p == seq + i - 1
             again == p + XmitSize
  <2>1. p \in 1 .. L
    BY <1>1
  <2>2. p < k.base /\ again < TailSeq(k) => again \in 1 .. L
    BY <1>1, <2>1
  <2>3. ByteAt(k, p) = IF p < k.base /\ again < TailSeq(k) THEN k.written[again] ELSE k.written[p]
    BY DEF ByteAt
  <2> HIDE DEF p, again
  <2>4. ByteAt(k, p) \in S
    BY <1>2, <2>1, <2>2, <2>3
  <2> QED BY <1>1, <2>4 DEF p
<1>4. data \in [1 .. n -> S]
  BY <1>3
<1>5. \A T : \A N \in Nat : \A f \in [1 .. N -> T] : f \in Seq(T)
  OBVIOUS
<1>6. RingRead(k, seq, n) = data
  BY DEF RingRead, far
<1> HIDE DEF data
<1> QED BY <1>4, <1>5, <1>6 DEF S

LEMMA TransmissionKeepsSize ==
    ASSUME NEW k, NEW w, Bounded(w), HasFields(k), Sending(k, w), Receiving(k, w), Sized(k, w),
           NEW ack \in BOOLEAN, NEW count \in 0 .. MaxRetransmits - 1, NEW probe \in BOOLEAN
    PROVE  Sized(Transmit(k, ack, count, probe), w)
<1> DEFINE syn == k.synQueued /\ k.next = k.base
           n   == ToSend(k, probe)
           fin == k.finQueued /\ n > 0 /\ n = Waiting(k)
           f   == IF fin THEN 1 ELSE 0
           data == RingRead(k, k.next, n - f)
           seg == [Segment(k.next, AckNo(k), data) EXCEPT !.ack = ack \/ ~ syn, !.syn = syn, !.fin = fin]
           next == k.next + n + (IF syn THEN 1 ELSE 0)
           state == IF ~ fin THEN k.state
                    ELSE IF k.state = "ESTABLISHED" THEN "FIN_WAIT_1"
                    ELSE IF k.state = "CLOSE_WAIT" THEN "LAST_ACK" ELSE k.state
           timer == [first |-> k.next, last |-> k.next + n, count |-> count]
           timers == IF n = 0 THEN k.timers ELSE Append(k.timers, timer)
           events == (k.events \ {"WindowProbe", "ZeroWindowProbe", "Transmit"})
                     \union (IF n = 0 THEN {} ELSE {"Retransmit"})
           m == [k EXCEPT !.frame = <<seg>>, !.next = next, !.state = state,
                          !.timers = timers, !.events = events]
<1>1. Transmit(k, ack, count, probe) = Schedule(m)
  BY Zenon DEF Transmit
<1>2. /\ n \in Nat /\ (k.synQueued => n = 0)
      /\ ~ k.synQueued => k.next + n <= TailSeq(k)
  BY ToSendFacts DEF Bounded
<1>3. k.next \in Nat /\ k.base \in Nat /\ TailSeq(k) \in Nat
  BY DEF Sending, SendTypes, Position, TailSeq
<1>4. data \in Seq(0 .. Outside)
  <2>1. k.written \in Seq(0 .. Outside) /\ k.base \in Nat /\ k.next \in Nat \ {0}
    BY DEF Sized, Roomy, Sending, SendTypes, Position
  <2>2. f \in {0, 1} /\ (f = 1 => n > 0)
    OBVIOUS
  <2> HIDE DEF n, f
  <2>3. n - f \in Nat /\ (n - f > 0 => k.next + (n - f) <= TailSeq(k))
    BY <1>2, <1>3, <2>2
  <2> QED BY <2>1, <2>3, RingReadTyped
<1>5. AckNo(k) \in Nat
  BY DEF AckNo, RecvTail, Receiving
<1>6. fin \in BOOLEAN /\ syn \in BOOLEAN
  BY DEF Sending, SendTypes
<1>7. seg \in SegmentType
  <2> DEFINE acks == ack \/ ~ syn
  <2>1. acks \in BOOLEAN
    OBVIOUS
  <2> HIDE DEF syn, fin, data, acks
  <2> QED BY <1>3, <1>4, <1>5, <1>6, <2>1, SegmentTyped, FlagsTyped DEF acks
<1>8. state \in States
  BY DEF Sized, Known, States
<1>9. timers \in Seq(PacketTimer)
  <2>1. k.next + n \in Nat
    BY <1>2, <1>3
  <2>2. timer \in PacketTimer
    BY <1>3, <2>1 DEF PacketTimer
  <2> HIDE DEF timer
  <2> QED BY <2>2 DEF Sized
<1>10. events \subseteq Events
  BY DEF Sized, Known, Events
<1> HIDE DEF seg, next, state, timers, events
<1>11. /\ HasFields(m) /\ m.frame = <<seg>> /\ m.state = state /\ m.timers = timers
       /\ m.events = events /\ m.written = k.written /\ m.base = k.base /\ m.recv = k.recv
  BY Fields DEF HasFields
<1> HIDE DEF m
<1>12. Sized(m, w)
  BY <1>7, <1>8, <1>9, <1>10, <1>11 DEF Sized, Known, Roomy, Filled, IsFrame, XmitLevel, TailSeq
<1> QED BY <1>1, <1>11, <1>12, SchedulingKeepsSize

\* A first transmission, which is not a repeated one.
LEMMA FirstTransmission ==
    ASSUME NEW k, NEW w, Bounded(w), Sound(k, w), Sized(k, w), NEW ack \in BOOLEAN, NEW probe \in BOOLEAN
    PROVE  Sized(Transmit(k, ack, 0, probe), w)
<1>1. 0 \in 0 .. MaxRetransmits - 1
  BY TcpAssumption
<1> QED BY <1>1, TransmissionKeepsSize DEF Sound

LEMMA TransmitNowKeepsSize ==
    ASSUME NEW k, NEW w, Bounded(w), Sound(k, w), Sized(k, w)
    PROVE  Sized(TransmitNow(k), w)
  BY FirstTransmission, SchedulingKeepsSize DEF TransmitNow, Sound

LEMMA ProbeKeepsSize ==
    ASSUME NEW k, NEW w, Bounded(w), Sound(k, w), Sized(k, w)
    PROVE  Sized(Probe(k), w)
  BY FirstTransmission DEF Probe

-----------------------------------------------------------------------------
(* Closing.                                                                  *)

LEMMA TimeWaitKeepsSize ==
    ASSUME NEW k, NEW w, HasFields(k), Sized(k, w)
    PROVE  Sized(ChangeToTimeWait(k), w)
<1> DEFINE m == ChangeToTimeWait(k)
<1>1. /\ m.state = "TIME_WAIT" /\ m.events = {"Close"} /\ m.written = k.written /\ m.base = k.base
      /\ m.recv = k.recv /\ m.timers = k.timers /\ m.frame = k.frame
  BY Fields DEF ChangeToTimeWait, HasFields
<1> HIDE DEF m
<1>2. Known(m)
  BY <1>1 DEF Known, States, Events
<1> QED BY <1>1, <1>2, SizedKept DEF m

\* A reset empties both rings.
LEMMA ResetKeepsSize ==
    ASSUME NEW k, NEW w, Bounded(w), HasFields(k), SendTypes(k), k.recv \in Seq(Nat), Sized(k, w)
    PROVE  Sized(ResetConnection(k), w)
<1> DEFINE seg == [Segment(k.base, 0, <<>>) EXCEPT !.rst = TRUE, !.ack = FALSE]
           written == SubSeq(k.written, 1, k.base - 1)
           m == [k EXCEPT !.written = written, !.next = k.base, !.recv = <<>>,
                          !.recvOpen = FALSE, !.sendOpen = FALSE, !.frame = <<seg>>]
<1>1. ResetConnection(k) = ChangeToTimeWait(m)
  BY DEF ResetConnection
<1>2. k.base \in Nat \ {0} /\ k.base <= Len(k.written) + 1 /\ k.written \in Seq(Nat)
  BY DEF SendTypes, TailSeq
<1>3. Len(written) = k.base - 1 /\ written \in Seq(0 .. Outside)
  <2>1. Len(written) = k.base - 1
    BY <1>2
  <2>2. k.written \in Seq(0 .. Outside)
    BY DEF Sized, Roomy
  <2>3. \A T : \A q \in Seq(T) : \A n \in 0 .. Len(q) : SubSeq(q, 1, n) \in Seq(T)
    OBVIOUS
  <2>4. k.base - 1 \in 0 .. Len(k.written)
    BY <1>2
  <2> QED BY <2>1, <2>2, <2>3, <2>4
<1>4. seg \in SegmentType
  <2>1. <<>> \in Seq(0 .. Outside)
    OBVIOUS
  <2> QED BY <1>2, <2>1, SegmentTyped, FlagsTyped
<1> HIDE DEF seg, written
<1>5. /\ HasFields(m) /\ m.written = written /\ m.base = k.base /\ m.recv = <<>>
      /\ m.timers = k.timers /\ m.frame = <<seg>> /\ m.state = k.state /\ m.events = k.events
  BY Fields DEF HasFields
<1> HIDE DEF m
<1>6. Roomy(m)
  <2>1. XmitLevel(m) = 0
    BY <1>2, <1>3, <1>5 DEF XmitLevel, TailSeq
  <2> QED BY <1>3, <1>5, <2>1, TcpAssumption DEF Roomy
<1>7. Filled(m, w)
  <2>1. Len(k.recv) \in Nat /\ w.got + Len(k.recv) <= w.sent /\ w.got \in Nat /\ w.sent \in Nat
    BY DEF Sized, Filled, Bounded, IsWorld
  <2>2. w.got <= w.sent
    BY <2>1
  <2>3. Len(m.recv) = 0
    BY <1>5
  <2> QED BY <2>1, <2>2, <2>3, TcpAssumption DEF Filled
<1>8. Sized(m, w)
  BY <1>4, <1>5, <1>6, <1>7 DEF Sized, Known, IsFrame
<1> QED BY <1>1, <1>5, <1>8, TimeWaitKeepsSize

\* A FIN takes a place in the ring.
LEMMA QueueFinKeepsSize ==
    ASSUME NEW k, NEW w, HasFields(k), SendTypes(k), Sized(k, w), XmitLevel(k) < XmitSize
    PROVE  Sized(QueueFin(k), w)
<1> DEFINE written == Append(k.written, Placeholder)
           m == QueueFin(k)
<1>1. /\ m.written = written /\ m.base = k.base /\ m.recv = k.recv /\ m.timers = k.timers
      /\ m.frame = k.frame /\ m.state = k.state /\ m.events = k.events
  BY Fields DEF QueueFin, HasFields
<1>2. Len(written) = Len(k.written) + 1 /\ Len(k.written) \in Nat /\ k.base \in Nat
  BY DEF SendTypes
<1>0. written \in Seq(0 .. Outside)
  <2>1. k.written \in Seq(0 .. Outside) /\ Placeholder \in 0 .. Outside
    BY OutsideIsLast DEF Sized, Roomy, Placeholder
  <2> QED BY <2>1
<1> HIDE DEF written, m
<1>3. Roomy(m)
  BY <1>0, <1>1, <1>2, TcpAssumption DEF Roomy, XmitLevel, TailSeq
<1> QED BY <1>1, <1>3 DEF Sized, Known, Filled, m

LEMMA ShutKeepsSize ==
    ASSUME NEW k, NEW w, HasFields(k), Sized(k, w)
    PROVE  LET m == [k EXCEPT !.sendOpen = FALSE] IN
           HasFields(m) /\ Sized(m, w) /\ XmitLevel(m) = XmitLevel(k)
<1> DEFINE m == [k EXCEPT !.sendOpen = FALSE]
<1>1. /\ HasFields(m) /\ m.written = k.written /\ m.base = k.base /\ m.recv = k.recv
      /\ m.timers = k.timers /\ m.frame = k.frame /\ m.state = k.state /\ m.events = k.events
  BY Fields DEF HasFields
<1> HIDE DEF m
<1>2. Known(m) /\ XmitLevel(m) = XmitLevel(k)
  BY <1>1 DEF Sized, Known, XmitLevel, TailSeq
<1> QED BY <1>1, <1>2, SizedKept DEF m

LEMMA ShutdownSendKeepsSize ==
    ASSUME NEW k, NEW w, Bounded(w), Sound(k, w), Sized(k, w)
    PROVE  Sized(ShutdownSend(k), w)
<1>1. CASE ~ k.sendOpen
  BY <1>1 DEF ShutdownSend
<1>2. CASE k.sendOpen
  <2> DEFINE shut == [k EXCEPT !.sendOpen = FALSE]
  <2>1. ShutdownSend(k) = Schedule(IF XmitSpace(k) > 0 THEN QueueFin(shut) ELSE shut)
    BY <1>2 DEF ShutdownSend
  <2>2. HasFields(shut) /\ Sized(shut, w) /\ XmitLevel(shut) = XmitLevel(k)
    BY ShutKeepsSize DEF Sound
  <2>3. Sound(shut, w)
    BY ShutIsSound DEF Bounded, Makes
  <2> HIDE DEF shut
  <2>4. SendTypes(shut)
    BY <2>3 DEF Sound, Sending
  <2>5. XmitSpace(k) > 0 => XmitLevel(shut) < XmitSize
    <3>1. XmitLevel(k) \in Int
      BY DEF Sound, Sending, SendTypes, XmitLevel, TailSeq
    <3> QED BY <2>2, <3>1, TcpAssumption DEF XmitSpace
  <2>6. CASE XmitSpace(k) > 0
    <3>1. Sized(QueueFin(shut), w)
      BY <2>2, <2>4, <2>5, <2>6, QueueFinKeepsSize
    <3>2. HasFields(QueueFin(shut))
      BY <2>2, Fields DEF QueueFin, HasFields
    <3> QED BY <2>1, <2>6, <3>1, <3>2, SchedulingKeepsSize
  <2>7. CASE ~ (XmitSpace(k) > 0)
    BY <2>1, <2>2, <2>7, SchedulingKeepsSize
  <2> QED BY <2>6, <2>7
<1> QED BY <1>1, <1>2

LEMMA ShutdownReceiveKeepsSize ==
    ASSUME NEW k, NEW w, Bounded(w), Sound(k, w), Sized(k, w)
    PROVE  Sized(ShutdownReceive(k), w)
<1>1. CASE k.recv # <<>>
  BY <1>1, ResetKeepsSize DEF ShutdownReceive, Sound, Sending, Receiving
<1>2. CASE k.recv = <<>>
  <2> DEFINE m == [k EXCEPT !.recvOpen = FALSE]
  <2>1. /\ m.written = k.written /\ m.base = k.base /\ m.recv = k.recv
        /\ m.timers = k.timers /\ m.frame = k.frame /\ m.state = k.state /\ m.events = k.events
    BY Fields DEF Sound, HasFields
  <2>2. ShutdownReceive(k) = m
    BY <1>2 DEF ShutdownReceive
  <2> HIDE DEF m
  <2> QED BY <2>1, <2>2, SizedKept DEF Sized, Known
<1> QED BY <1>1, <1>2

LEMMA ShutdownKeepsSize ==
    ASSUME NEW k, NEW w, Bounded(w), Sound(k, w), Sized(k, w), NEW send \in BOOLEAN, NEW receive \in BOOLEAN
    PROVE  Sized(ShutdownSocket(k, send, receive), w)
<1> DEFINE half == IF receive /\ k.recvOpen THEN ShutdownReceive(k) ELSE k
<1>1. ShutdownSocket(k, send, receive) = IF send THEN ShutdownSend(half) ELSE half
  BY DEF ShutdownSocket
<1>2. Sound(half, w) /\ Sized(half, w)
  BY ShutdownReceiveIsSound, ShutdownReceiveKeepsSize DEF Bounded, Makes
<1> HIDE DEF half
<1> QED BY <1>1, <1>2, ShutdownSendKeepsSize

LEMMA CloseKeepsSize ==
    ASSUME NEW k, NEW w, Bounded(w), Sound(k, w), Sized(k, w), NEW force \in BOOLEAN
    PROVE  Sized(CloseSocket(k, force), w)
<1>1. CASE k.state \in {"TIME_WAIT", "CLOSED"}
  BY <1>1 DEF CloseSocket
<1>2. CASE k.state \notin {"TIME_WAIT", "CLOSED"} /\ force
  BY <1>2, ResetKeepsSize DEF CloseSocket, Sound, Sending, Receiving
<1>3. CASE k.state \notin {"TIME_WAIT", "CLOSED"} /\ ~ force
  BY <1>3, ShutdownKeepsSize DEF CloseSocket
<1> QED BY <1>1, <1>2, <1>3

LEMMA GivingUpKeepsSize ==
    ASSUME NEW k, NEW w, Bounded(w), Sound(k, w), Sized(k, w)
    PROVE  Sized(CloseSocket(GivenUp(k), TRUE), w)
<1> DEFINE m == GivenUp(k)
<1>1. /\ HasFields(m) /\ m.written = k.written /\ m.base = k.base /\ m.recv = k.recv
      /\ m.timers = k.timers /\ m.frame = k.frame /\ m.state = k.state /\ m.events = k.events
      /\ m.synQueued = k.synQueued /\ m.finQueued = k.finQueued /\ m.sendOpen = FALSE
      /\ m.limit = k.limit /\ m.lastAck = k.lastAck
  BY Fields DEF GivenUp, Sound, HasFields
<1> HIDE DEF m
<1>2. Sized(m, w) /\ SendTypes(m) /\ m.recv \in Seq(Nat)
  BY <1>1, SizedKept DEF Sized, Known, Sound, Sending, Receiving, SendTypes, TailSeq
<1>3. Sized(ResetConnection(m), w)
  BY <1>1, <1>2, ResetKeepsSize
<1> QED BY <1>2, <1>3 DEF CloseSocket, m

LEMMA DestroyedIsSized ==
    ASSUME NEW w, w.got \in Nat, w.sent \in Nat, w.got <= w.sent
    PROVE  Sized(Destroyed, w)
<1>1. /\ Destroyed.state = "CLOSED" /\ Destroyed.events = {} /\ Destroyed.written = <<>>
      /\ Destroyed.base = 1 /\ Destroyed.recv = <<>> /\ Destroyed.timers = <<>> /\ Destroyed.frame = <<>>
  BY DEF Destroyed, NoConnection
<1>2. Known(Destroyed) /\ IsFrame(Destroyed.frame) /\ Destroyed.timers \in Seq(PacketTimer)
  BY <1>1 DEF Known, States, IsFrame
<1>3. Roomy(Destroyed) /\ Filled(Destroyed, w)
  <2>1. Len(Destroyed.written) = 0 /\ Len(Destroyed.recv) = 0 /\ Destroyed.written \in Seq(0 .. Outside)
    BY <1>1
  <2>2. XmitLevel(Destroyed) = 0
    BY <1>1, <2>1 DEF XmitLevel, TailSeq
  <2> QED BY <2>1, <2>2, TcpAssumption DEF Roomy, Filled
<1> QED BY <1>2, <1>3 DEF Sized

LEMMA ReadsWhatWasSent ==
    ASSUME NEW k, NEW w, Bounded(w), k.recv \in Seq(Nat), Sized(k, w)
    PROVE  w.got \in Nat /\ w.sent \in Nat /\ w.got <= w.sent
  BY DEF Bounded, IsWorld, Sized, Filled

LEMMA DeletionKeepsSize ==
    ASSUME NEW k, NEW w, Bounded(w), Sound(k, w), Sized(k, w)
    PROVE  Sized(DeleteConnection(k), w)
<1> DEFINE m == [k EXCEPT !.state = "CLOSED", !.listed = FALSE]
<1>1. /\ m.written = k.written /\ m.base = k.base /\ m.recv = k.recv
      /\ m.timers = k.timers /\ m.frame = k.frame /\ m.state = "CLOSED" /\ m.events = k.events
  BY Fields DEF Sound, HasFields
<1>2. DeleteConnection(k) \in {Destroyed, m}
  BY DEF DeleteConnection
<1> HIDE DEF m
<1>3. Sized(m, w)
  BY <1>1, SizedKept DEF Sized, Known, States
<1>4. Sized(Destroyed, w)
  BY ReadsWhatWasSent, DestroyedIsSized DEF Sound, Receiving
<1> QED BY <1>2, <1>3, <1>4

\* A packet timer is retransmitted only while its count has not reached the last.
LEMMA RetransmitKeepsSize ==
    ASSUME NEW k, NEW w, Bounded(w), Sound(k, w), Sized(k, w), k.timers # <<>>
    PROVE  Sized(Retransmit(k), w)
<1> DEFINE m == Again(k)
           count == Head(k.timers).count + 1
<1>1. Retransmit(k) = IF count >= MaxRetransmits THEN CloseSocket(GivenUp(k), TRUE)
                      ELSE Transmit(m, TRUE, count, FALSE)
  BY Zenon DEF Retransmit, GivenUp, Again
<1>2. CASE count >= MaxRetransmits
  BY <1>1, <1>2, GivingUpKeepsSize
<1>3. CASE ~ (count >= MaxRetransmits)
  <2>1. Head(k.timers) \in PacketTimer
    BY DEF Sized
  <2>2. count \in 0 .. MaxRetransmits - 1
    BY <1>3, <2>1, TcpAssumption DEF PacketTimer
  <2>3. HasFields(m) /\ Sending(m, w) /\ Receiving(m, w)
    BY AgainIsSound DEF Bounded
  <2> HIDE DEF count
  <2>4. /\ m.written = k.written /\ m.base = k.base /\ m.recv = k.recv
        /\ m.timers = <<>> /\ m.frame = k.frame /\ m.state = k.state /\ m.events = k.events
    BY Fields DEF Again, Sound, HasFields
  <2> HIDE DEF m
  <2>5. Sized(m, w)
    BY <2>4 DEF Sized, Known, Roomy, Filled, XmitLevel, TailSeq
  <2>6. Sized(Transmit(m, TRUE, count, FALSE), w)
    BY <2>2, <2>3, <2>5, TransmissionKeepsSize
  <2> QED BY <1>1, <1>3, <2>6
<1> QED BY <1>2, <1>3

-----------------------------------------------------------------------------
(* Receiving.                                                                *)

LEMMA TimersLeftTyped ==
    ASSUME NEW k, k.timers \in Seq(PacketTimer), NEW ackNo
    PROVE  TimersLeft(k, ackNo) \in Seq(PacketTimer)
<1> DEFINE open == {i \in DOMAIN k.timers : AtMost(k.timers[i].last, k.limit) > ackNo}
<1>1. CASE open = {}
  BY <1>1 DEF TimersLeft
<1>2. CASE open # {}
  <2> DEFINE first == CHOOSE i \in open : \A j \in open : i <= j
  <2>1. open \subseteq DOMAIN k.timers /\ DOMAIN k.timers = 1 .. Len(k.timers) /\ Len(k.timers) \in Nat
    OBVIOUS
  <2>2. TimersLeft(k, ackNo) = SubSeq(k.timers, first, Len(k.timers))
    BY <1>2 DEF TimersLeft
  <2> HIDE DEF open
  <2>3. open \subseteq Nat
    BY <2>1
  <2>4. \E i \in open : \A j \in open : i <= j
    BY <1>2, <2>3, LeastNatural
  <2>5. first \in 1 .. Len(k.timers)
    BY <2>1, <2>4
  <2> HIDE DEF first
  <2> QED BY <2>2, <2>5
<1> QED BY <1>1, <1>2

LEMMA UpdateTimersKeepsSize ==
    ASSUME NEW k, NEW w, HasFields(k), Sized(k, w), NEW ackNo
    PROVE  LET m == UpdateTimers(k, ackNo) IN
           Sized(m, w) /\ m.written = k.written /\ m.base = k.base
<1> DEFINE left == TimersLeft(k, ackNo)
           events == IF left = <<>> THEN k.events \ {"Retransmit"} ELSE k.events \union {"Retransmit"}
           m == [k EXCEPT !.timers = left, !.events = events]
<1>1. UpdateTimers(k, ackNo) = m
  BY Zenon DEF UpdateTimers
<1>2. left \in Seq(PacketTimer) /\ events \subseteq Events
  <2>1. events \subseteq Events
    BY DEF Sized, Known, Events
  <2> QED BY <2>1, TimersLeftTyped DEF Sized
<1> HIDE DEF left, events
<1>3. /\ m.written = k.written /\ m.base = k.base /\ m.recv = k.recv
      /\ m.timers = left /\ m.frame = k.frame /\ m.state = k.state /\ m.events = events
  BY Fields DEF HasFields
<1> HIDE DEF m
<1> QED BY <1>1, <1>2, <1>3 DEF Sized, Known, Roomy, Filled, XmitLevel, TailSeq

\* A FIN that finds the ring full waits for room, which an ACK makes.
LEMMA UpdateRingKeepsSize ==
    ASSUME NEW k, NEW w, HasFields(k), SendTypes(k), Sized(k, w), NEW ackNo \in k.base .. TailSeq(k)
    PROVE  Sized(UpdateRing(k, ackNo), w)
<1>1. k.base \in Nat \ {0} /\ TailSeq(k) \in Nat /\ k.written \in Seq(Nat)
  BY DEF SendTypes, TailSeq
<1>2. CASE ackNo = k.base
  BY <1>2 DEF UpdateRing
<1>3. CASE ackNo # k.base
  <2> DEFINE state == IF k.state = "SYN_RCVD" THEN "ESTABLISHED" ELSE k.state
             m == [k EXCEPT !.base = ackNo, !.synQueued = FALSE, !.state = state]
  <2>1. UpdateRing(k, ackNo) \in {m, QueueFin(m)}
    BY <1>3, Zenon DEF UpdateRing
  <2>2. state \in States
    BY DEF Sized, Known, States
  <2> HIDE DEF state
  <2>3. /\ HasFields(m) /\ m.written = k.written /\ m.base = ackNo /\ m.recv = k.recv
        /\ m.timers = k.timers /\ m.frame = k.frame /\ m.state = state /\ m.events = k.events
        /\ m.synQueued = FALSE /\ m.finQueued = k.finQueued /\ m.sendOpen = k.sendOpen
        /\ m.limit = k.limit /\ m.lastAck = k.lastAck
    BY Fields DEF HasFields
  <2> HIDE DEF m
  <2>4. XmitLevel(m) < XmitLevel(k) /\ XmitLevel(k) \in Int /\ XmitLevel(m) \in Int
    BY <1>1, <1>3, <2>3 DEF XmitLevel, TailSeq
  <2>5. XmitLevel(m) < XmitSize
    BY <2>4, TcpAssumption DEF Sized, Roomy
  <2>6. Sized(m, w)
    <3>1. Roomy(m)
      BY <2>3, <2>4, <2>5, TcpAssumption DEF Sized, Roomy
    <3> QED BY <2>2, <2>3, <3>1 DEF Sized, Known, Filled
  <2>7. SendTypes(m)
    <3>1. ackNo \in Nat \ {0} /\ ackNo <= TailSeq(k) /\ TailSeq(m) = TailSeq(k)
      BY <1>1, <2>3 DEF TailSeq
    <3>2. m.synQueued \in BOOLEAN /\ m.finQueued \in BOOLEAN /\ m.sendOpen \in BOOLEAN
      BY <2>3 DEF SendTypes
    <3>3. m.written \in Seq(Nat) /\ m.limit \in Int /\ m.lastAck \in Int
      BY <2>3 DEF SendTypes
    <3> QED BY <2>3, <3>1, <3>2, <3>3 DEF SendTypes
  <2> QED BY <2>1, <2>3, <2>5, <2>6, <2>7, QueueFinKeepsSize
<1> QED BY <1>2, <1>3

LEMMA FinAckedKeepsSize ==
    ASSUME NEW k, NEW w, HasFields(k), Sized(k, w)
    PROVE  Sized(FinAcked(k), w)
<1>1. ASSUME NEW state \in States PROVE Sized([k EXCEPT !.state = state], w)
  <2> DEFINE m == [k EXCEPT !.state = state]
  <2>1. /\ m.written = k.written /\ m.base = k.base /\ m.recv = k.recv
        /\ m.timers = k.timers /\ m.frame = k.frame /\ m.state = state /\ m.events = k.events
    BY Fields DEF HasFields
  <2> HIDE DEF m
  <2> QED BY <2>1, SizedKept DEF Sized, Known, m
<1>2. FinAcked(k) \in {k, ChangeToTimeWait(k), [k EXCEPT !.state = "CLOSED"], [k EXCEPT !.state = "FIN_WAIT_2"]}
  BY DEF FinAcked
<1>3. "CLOSED" \in States /\ "FIN_WAIT_2" \in States
  BY DEF States
<1> QED BY <1>1, <1>2, <1>3, TimeWaitKeepsSize

LEMMA AcknowledgeKeepsSize ==
    ASSUME NEW k, NEW w, Bounded(w), Sound(k, w), Sized(k, w), k.state # "SYN_SENT",
           NEW s, s.ackNo \in Nat, s.ackNo <= w.has
    PROVE  Sized(Acknowledge(k, s), w)
<1>1. CASE ~ (s.ack /\ s.ackNo \in k.base .. TailSeq(k))
  BY <1>1 DEF Acknowledge
<1>2. CASE s.ack /\ s.ackNo \in k.base .. TailSeq(k)
  <2> DEFINE t == UpdateTimers(k, s.ackNo)
             r == UpdateRing(t, s.ackNo)
  <2>1. Acknowledge(k, s) = FinAcked(r)
    BY <1>2 DEF Acknowledge
  <2>2. Sound(t, w) /\ t.state = k.state
    BY UpdateTimersIsSound DEF Bounded, Makes
  <2>3. Sized(t, w) /\ t.written = k.written /\ t.base = k.base
    BY UpdateTimersKeepsSize DEF Sound
  <2>4. TailSeq(t) = TailSeq(k) /\ k.base \in Nat /\ TailSeq(k) \in Nat
    BY <2>3 DEF Sound, Sending, SendTypes, TailSeq
  <2> HIDE DEF t
  <2>5. Sound(r, w)
    BY <1>2, <2>2, <2>3, <2>4, UpdateRingIsSound DEF Bounded
  <2>6. Sized(r, w)
    BY <1>2, <2>2, <2>3, <2>4, UpdateRingKeepsSize DEF Sound, Sending
  <2> HIDE DEF r
  <2> QED BY <2>1, <2>5, <2>6, FinAckedKeepsSize DEF Sound
<1> QED BY <1>1, <1>2

LEMMA WindowKeepsSize ==
    ASSUME NEW k, NEW w, HasFields(k), Sized(k, w), NEW s
    PROVE  Sized(Window(k, s), w)
<1> DEFINE acked == IF s.ack THEN s.ackNo ELSE k.lastAck
           limit == acked + s.wnd
           threshold == AtLeast(k.threshold, AtMost(s.wnd \div 2, 256))
           m == [k EXCEPT !.lastAck = acked, !.limit = limit, !.threshold = threshold]
<1>1. Window(k, s) = m
  BY Zenon DEF Window
<1> HIDE DEF acked, limit, threshold
<1>2. /\ m.written = k.written /\ m.base = k.base /\ m.recv = k.recv
      /\ m.timers = k.timers /\ m.frame = k.frame /\ m.state = k.state /\ m.events = k.events
  BY Fields DEF HasFields
<1> HIDE DEF m
<1> QED BY <1>1, <1>2, SizedKept DEF Sized, Known

LEMMA AcceptFinKeepsSize ==
    ASSUME NEW k, NEW w, HasFields(k), Sized(k, w)
    PROVE  Sized(AcceptFin(k), w)
<1> DEFINE got == [k EXCEPT !.finReceived = TRUE]
           waits == [got EXCEPT !.state = "CLOSE_WAIT"]
<1>1. AcceptFin(k) \in {k, got, ChangeToTimeWait(got), waits}
  BY DEF AcceptFin
<1>2. /\ HasFields(got) /\ got.written = k.written /\ got.base = k.base /\ got.recv = k.recv
      /\ got.timers = k.timers /\ got.frame = k.frame /\ got.state = k.state /\ got.events = k.events
  BY Fields DEF HasFields
<1>3. /\ waits.written = k.written /\ waits.base = k.base /\ waits.recv = k.recv
      /\ waits.timers = k.timers /\ waits.frame = k.frame /\ waits.state = "CLOSE_WAIT"
      /\ waits.events = k.events
  BY Fields DEF HasFields
<1> HIDE DEF got, waits
<1>4. Sized(got, w)
  BY <1>2, SizedKept DEF Sized, Known
<1>5. Sized(waits, w)
  BY <1>3, SizedKept DEF Sized, Known, States
<1> QED BY <1>1, <1>2, <1>4, <1>5, TimeWaitKeepsSize

\* The ring takes no more than it has room for, and nothing but what the guest sent.
LEMMA AcceptKeepsSize ==
    ASSUME NEW k, NEW w, Bounded(w), Sound(k, w), Sized(k, w), k.state # "SYN_SENT",
           NEW s, NEW rcv, Honest(s, rcv, w),
           Taken(k, s) > 0 /\ s.data # <<>> => k.recvOpen
    PROVE  Sized(Accept(k, s), w)
<1> DEFINE n == Taken(k, s)
           taken == AtMost(n, Len(s.data))
           recv == k.recv \o SubSeq(s.data, 1, taken)
           got == [k EXCEPT !.recv = recv]
           had == Len(k.recv)
           len == Len(s.data)
<1>1. Accept(k, s) \in {got, AcceptFin(got)}
  BY Zenon DEF Accept
<1>2. /\ k.recv \in Seq(Nat) /\ had \in Nat /\ s.data \in Seq(Nat) /\ len \in Nat /\ s.seq \in Nat
      /\ w.got \in Nat /\ w.sent \in Nat
  <2>1. k.recv \in Seq(Nat) /\ had \in Nat
    BY DEF Sound, Receiving
  <2>2. s.data \in Seq(Nat) /\ len \in Nat /\ s.seq \in Nat
    BY DEF Honest
  <2>3. w.got \in Nat /\ w.sent \in Nat
    BY DEF Bounded, IsWorld
  <2> QED BY <2>1, <2>2, <2>3
<1>3. n \in Int /\ (n > 0 => s.seq = RecvTail(k)) /\ n <= RecvSize - had /\ RecvSize \in Nat
  <2>1. n \in Int /\ (n > 0 => s.seq = RecvTail(k))
    BY <1>2, TakenFacts DEF Honest
  <2>2. RecvSpace(k) = RecvSize - had /\ RecvSize - had >= 0 /\ RecvSize \in Nat
    BY <1>2, TcpAssumption DEF RecvSpace, Sized, Filled
  <2> HIDE DEF had
  <2>3. Length(s) \in Int
    BY <1>2 DEF Length, Honest
  <2> QED BY <1>2, <2>1, <2>2, <2>3 DEF Taken, AtMost
<1>4. taken \in Int /\ taken <= n /\ taken <= len
  BY <1>2, <1>3 DEF AtMost
<1> HIDE DEF n
<1>5. Len(recv) <= RecvSize /\ w.got + Len(recv) <= w.sent
  <2>1. CASE taken <= 0
    <3>1. SubSeq(s.data, 1, taken) = <<>>
      BY <1>2, <1>4, <2>1
    <3>2. recv = k.recv
      BY <1>2, <3>1, NothingAppended
    <3> HIDE DEF recv
    <3> QED BY <3>2 DEF Sized, Filled
  <2>2. CASE taken > 0
    <3>1. n > 0 /\ len > 0
      BY <1>2, <1>3, <1>4, <2>2
    <3>2. s.data # <<>>
      BY <3>1
    <3>3. k.recvOpen /\ s.seq = RecvTail(k)
      BY <1>3, <3>1, <3>2 DEF n
    <3>4. k.recvBase = w.got + 1
      BY <3>3 DEF Sound, Receiving, Reads, Early
    <3>5. s.seq + len - 1 <= w.sent
      BY <3>2 DEF Honest
    <3>6. Len(recv) = had + taken
      <4>1. taken \in Nat /\ taken <= Len(s.data)
        BY <1>4, <2>2
      <4> HIDE DEF taken
      <4>2. Continues(k.recv \o SubSeq(s.data, 1, taken), k, w, taken)
        BY <3>3, <4>1, AcceptedData DEF Bounded
      <4> QED BY <4>2 DEF Continues
    <3>7. s.seq = w.got + 1 + had
      BY <3>3, <3>4 DEF RecvTail
    <3> HIDE DEF had, len, taken, recv
    <3>8. Len(recv) <= RecvSize
      BY <1>2, <1>3, <1>4, <3>6
    <3>9. w.got + Len(recv) <= w.sent
      BY <1>2, <1>4, <3>5, <3>6, <3>7, SMTT(20)
    <3> QED BY <3>8, <3>9
  <2>3. taken <= 0 \/ taken > 0
    BY <1>4
  <2> HIDE DEF recv, taken
  <2> QED BY <2>1, <2>2, <2>3
<1> HIDE DEF recv
<1>6. /\ HasFields(got) /\ got.written = k.written /\ got.base = k.base /\ got.recv = recv
      /\ got.timers = k.timers /\ got.frame = k.frame /\ got.state = k.state /\ got.events = k.events
  BY Fields DEF Sound, HasFields
<1> HIDE DEF got
<1>7. Sized(got, w)
  BY <1>5, <1>6 DEF Sized, Known, Roomy, Filled, XmitLevel, TailSeq
<1> QED BY <1>1, <1>6, <1>7, AcceptFinKeepsSize

LEMMA ReplyKeepsSize ==
    ASSUME NEW k, NEW w, Bounded(w), Sound(k, w), Sized(k, w), NEW s
    PROVE  Sized(Reply(k, s), w)
<1>1. Reply(k, s) \in {DeleteConnection(k), Transmit(k, TRUE, 0, FALSE), k, TransmitNow(k)}
  BY DEF Reply
<1> QED BY <1>1, DeletionKeepsSize, FirstTransmission, TransmitNowKeepsSize

LEMMA OnPacketKeepsSize ==
    ASSUME NEW k, NEW w, Bounded(w), Sound(k, w), Sized(k, w), NEW s, NEW rcv, Honest(s, rcv, w),
           s.ackNo <= w.has
    PROVE  Sized(OnPacket(k, s), w)
<1> DEFINE start  == IF k.state = "SYN_SENT" THEN [k EXCEPT !.state = "SYN_RCVD", !.recvBase = s.seq + 1]
                     ELSE k
           failed == IF s.rst THEN GivenUp(k) ELSE k
           window == Window(start, s)
           acked  == Acknowledge(window, s)
           taken  == Accept(acked, s)
<1>0. IsWorld(w)
  BY DEF Bounded
<1>1. OnPacket(k, s) =
        IF Refused(k, s) THEN CloseSocket(failed, TRUE)
        ELSE IF s.rst THEN k
        ELSE IF Taken(acked, s) > 0 /\ s.data # <<>> /\ ~ acked.recvOpen THEN ResetConnection(acked)
        ELSE Reply(taken, s)
  BY Zenon DEF OnPacket, GivenUp
<1>2. Sized(CloseSocket(failed, TRUE), w)
  BY GivingUpKeepsSize, CloseKeepsSize
<1>3. ASSUME ~ Refused(k, s), ~ s.rst
      PROVE  Sound(acked, w) /\ Sized(acked, w) /\ acked.state # "SYN_SENT"
  <2>1. Sound(start, w) /\ start.state # "SYN_SENT"
    <3>1. CASE k.state = "SYN_SENT"
      BY <1>0, <1>3, <3>1, AnsweredIsSound DEF Refused, Makes
    <3>2. CASE k.state # "SYN_SENT"
      BY <3>2
    <3> QED BY <3>1, <3>2
  <2>2. Sized(start, w)
    <3> DEFINE first == s.seq + 1
               m == [k EXCEPT !.state = "SYN_RCVD", !.recvBase = first]
    <3>1. start \in {k, m}
      OBVIOUS
    <3> HIDE DEF first
    <3>2. /\ m.written = k.written /\ m.base = k.base /\ m.recv = k.recv
          /\ m.timers = k.timers /\ m.frame = k.frame /\ m.state = "SYN_RCVD" /\ m.events = k.events
      BY Fields DEF Sound, HasFields
    <3> HIDE DEF m, start
    <3> QED BY <3>1, <3>2, SizedKept DEF Sized, Known, States
  <2> HIDE DEF start
  <2>3. Sound(window, w) /\ window.state # "SYN_SENT"
    BY <1>0, <2>1, WindowIsSound DEF Makes, Honest
  <2>4. Sized(window, w)
    BY <2>1, <2>2, WindowKeepsSize DEF Sound
  <2> HIDE DEF window
  <2>5. Sound(acked, w) /\ acked.state # "SYN_SENT"
    BY <1>0, <2>3, AcknowledgmentIsSound DEF Acknowledges, Honest
  <2>6. Sized(acked, w)
    BY <2>3, <2>4, AcknowledgeKeepsSize DEF Honest
  <2> QED BY <2>5, <2>6
<1>4. ASSUME ~ Refused(k, s), ~ s.rst
      PROVE  /\ Sized(ResetConnection(acked), w)
             /\ ~ (Taken(acked, s) > 0 /\ s.data # <<>> /\ ~ acked.recvOpen) => Sized(Reply(taken, s), w)
  <2> HIDE DEF acked
  <2>1. Sound(acked, w) /\ Sized(acked, w) /\ acked.state # "SYN_SENT"
    BY <1>3, <1>4
  <2>2. Sized(ResetConnection(acked), w)
    BY <2>1, ResetKeepsSize DEF Sound, Sending, Receiving
  <2>3. ASSUME ~ (Taken(acked, s) > 0 /\ s.data # <<>> /\ ~ acked.recvOpen)
        PROVE  Sized(Reply(taken, s), w)
    <3>1. Sound(taken, w)
      BY <1>0, <2>1, <2>3, AcceptIsSound DEF Makes
    <3>2. Sized(taken, w)
      BY <2>1, <2>3, AcceptKeepsSize
    <3> HIDE DEF taken
    <3> QED BY <3>1, <3>2, ReplyKeepsSize
  <2> QED BY <2>2, <2>3
<1> HIDE DEF acked, taken, failed
<1> QED BY <1>1, <1>2, <1>4

-----------------------------------------------------------------------------
(* The steps, and the frames under way.                                      *)

UnderWay(q) == q \in Seq(SegmentType) /\ Len(q) <= MaxFrames
SizeInv ==
    /\ Sized(c, World) /\ UnderWay(toGuest) /\ UnderWay(toStack)
    /\ appSent + guest.sent <= MaxBytes

LEMMA WorldIsBounded == ASSUME StreamInv, SizeInv PROVE Bounded(World)
  BY DEF StreamInv, SizeInv, Bounded, World

LEMMA OneMore ==
    ASSUME NEW q, UnderWay(q), Len(q) < MaxFrames, NEW s \in SegmentType
    PROVE  UnderWay(Append(q, s)) /\ UnderWay(q \o <<s>>)
<1>1. q \in Seq(SegmentType) /\ Len(q) \in Nat /\ MaxFrames \in Nat
  BY TcpAssumption DEF UnderWay
<1>2. q \o <<s>> = Append(q, s)
  BY <1>1
<1>3. Append(q, s) \in Seq(SegmentType) /\ Len(Append(q, s)) = Len(q) + 1
  BY <1>1
<1> QED BY <1>1, <1>2, <1>3 DEF UnderWay

LEMMA OneLess ==
    ASSUME NEW q, UnderWay(q), q # <<>>
    PROVE  UnderWay(Tail(q)) /\ Head(q) \in SegmentType
<1>1. q \in Seq(SegmentType) /\ Len(q) \in Nat /\ MaxFrames \in Nat
  BY TcpAssumption DEF UnderWay
<1>2. Tail(q) \in Seq(SegmentType) /\ Len(Tail(q)) = Len(q) - 1 /\ Head(q) \in SegmentType
  BY <1>1
<1> QED BY <1>1, <1>2 DEF UnderWay

\* A connection that keeps its sizes, becoming c, keeps those of the frames.
LEMMA SizeStep ==
    ASSUME SizeInv, NEW m, NEW v, v = World', HasFields(m), Sized(m, v), Becomes(m),
           guest' = guest, appSent' + guest.sent <= MaxBytes,
           toStack' = toStack \/ (toStack # <<>> /\ toStack' = Tail(toStack))
    PROVE  SizeInv'
<1> DEFINE n == [m EXCEPT !.frame = <<>>]
<1>1. /\ n.written = m.written /\ n.base = m.base /\ n.recv = m.recv
      /\ n.timers = m.timers /\ n.frame = <<>> /\ n.state = m.state /\ n.events = m.events
  BY Fields DEF HasFields
<1>2. c' = n
  BY DEF Becomes
<1> HIDE DEF n
<1>3. Sized(n, v)
  BY <1>1 DEF Sized, Known, Roomy, Filled, XmitLevel, TailSeq, IsFrame
<1>4. UnderWay(toGuest')
  <2>1. UnderWay(toGuest) /\ IsFrame(m.frame)
    BY DEF SizeInv, Sized
  <2>2. CASE toGuest' = toGuest
    BY <2>1, <2>2
  <2>3. CASE Len(toGuest) < MaxFrames /\ toGuest' = toGuest \o m.frame
    <3>1. CASE m.frame = <<>>
      <4>1. toGuest \o m.frame = toGuest
        BY <2>1, <3>1 DEF UnderWay
      <4> QED BY <2>1, <2>3, <4>1
    <3>2. ASSUME NEW s \in SegmentType, m.frame = <<s>> PROVE UnderWay(toGuest')
      <4>1. toGuest' = toGuest \o <<s>>
        BY <2>3, <3>2
      <4> QED BY <2>1, <2>3, <4>1, OneMore
    <3> QED BY <2>1, <3>1, <3>2 DEF IsFrame
  <2> QED BY <2>2, <2>3 DEF Becomes
<1>5. UnderWay(toStack')
  BY OneLess DEF SizeInv
<1>6. Sized(c', World')
  BY <1>2, <1>3
<1> QED BY <1>4, <1>5, <1>6 DEF SizeInv

LEMMA QuietStep ==
    ASSUME SizeInv, NEW m, HasFields(m), Sized(m, World), Becomes(m),
           appSent' = appSent, appGot' = appGot, guest' = guest,
           toStack' = toStack \/ (toStack # <<>> /\ toStack' = Tail(toStack))
    PROVE  SizeInv'
<1>1. World' = World
  BY DEF World
<1>2. appSent' + guest.sent <= MaxBytes
  BY DEF SizeInv
<1> QED BY <1>1, <1>2, SizeStep

LEMMA LastingFields ==
    ASSUME NEW k, NEW m, NEW w, Lasting(k, m, w)
    PROVE  HasFields(m)
<1>1. HasFields(Destroyed)
  BY DEF HasFields, Destroyed, NoConnection
<1> QED BY <1>1 DEF Lasting, Sound

LEMMA OpeningKeepsSize ==
    ASSUME Orderly, StreamInv, SizeInv, Connect \/ Listen PROVE SizeInv'
<1>1. c = NoConnection
  BY Opening
<1>2. PICK m : \E ack \in BOOLEAN : Opens(m, ack)
  BY Opening
<1>3. PICK ack \in BOOLEAN : Opens(m, ack)
  BY <1>2
<1>4. Opened(m)
  BY <1>3 DEF Opens
<1>5. Bounded(World)
  BY WorldIsBounded
<1>6. Sized(m, World)
  <2>1. Len(m.written) = 1 /\ Len(m.recv) = 0
    BY <1>4 DEF Opened
  <2>0. m.written \in Seq(0 .. Outside)
    <3>1. m.written = <<Placeholder>> /\ Placeholder \in 0 .. Outside
      BY <1>4, OutsideIsLast DEF Opened, Placeholder
    <3> QED BY <3>1
  <2>2. Roomy(m)
    BY <1>4, <2>0, <2>1, TcpAssumption DEF Opened, Roomy, XmitLevel, TailSeq
  <2>3. Filled(m, World)
    <3>1. Len(c.recv) = 0 /\ World.got \in Nat
      BY <1>1, <1>5 DEF NoConnection, Bounded, IsWorld
    <3>2. World.got + Len(c.recv) <= World.sent
      BY DEF SizeInv, Sized, Filled
    <3> QED BY <2>1, <3>1, <3>2, TcpAssumption DEF Filled
  <2>4. Known(m) /\ m.timers \in Seq(PacketTimer) /\ IsFrame(m.frame)
    BY <1>4 DEF Opened, Known, States, IsFrame
  <2> QED BY <2>2, <2>3, <2>4 DEF Sized
<1>7. 0 \in 0 .. MaxRetransmits - 1
  BY TcpAssumption
<1>8. HasFields(m) /\ m.state # "none" /\ Sending(m, World) /\ Receiving(m, World)
  BY <1>4 DEF Opened
<1> DEFINE n == Transmit(m, ack, 0, FALSE)
<1>9. Sized(n, World)
  BY <1>5, <1>6, <1>7, <1>8, TransmissionKeepsSize
<1>10. HasFields(n)
  BY <1>5, <1>8, TransmissionIsSound DEF Bounded, Makes, Sound
<1>11. /\ Becomes(n) /\ appSent' = appSent /\ appGot' = appGot /\ guest' = guest
       /\ toStack' = toStack \/ (toStack # <<>> /\ toStack' = Tail(toStack))
  BY <1>3 DEF Opens
<1> HIDE DEF n
<1> QED BY <1>9, <1>10, <1>11, QuietStep

LEMMA RefusingKeepsSize ==
    ASSUME StreamInv, SizeInv, Refuse PROVE SizeInv'
<1> DEFINE s == Head(toStack)
           rst == [Segment(s.ackNo, s.seq + 1, <<>>) EXCEPT !.rst = TRUE, !.ack = s.syn]
           frame == IF s.rst THEN <<>> ELSE <<rst>>
           m == [c EXCEPT !.frame = frame]
<1>1. /\ Becomes(m) /\ toStack # <<>> /\ toStack' = Tail(toStack)
      /\ appSent' = appSent /\ appGot' = appGot /\ guest' = guest
  BY DEF Refuse, app
<1>2. s \in SegmentType
  BY <1>1, OneLess DEF SizeInv
<1>3. s.ackNo \in Nat /\ s.seq + 1 \in Nat /\ s.syn \in BOOLEAN
  BY <1>2 DEF SegmentType
<1>4. rst \in SegmentType
  <2>1. <<>> \in Seq(0 .. Outside)
    OBVIOUS
  <2> HIDE DEF s
  <2> QED BY <1>3, <2>1, SegmentTyped, FlagsTyped
<1>5. IsFrame(frame)
  <2> HIDE DEF rst
  <2> QED BY <1>4 DEF IsFrame
<1> HIDE DEF frame
<1>6. HasFields(c)
  BY ConnectionRing DEF StreamInv
<1>7. /\ HasFields(m) /\ m.written = c.written /\ m.base = c.base /\ m.recv = c.recv
      /\ m.timers = c.timers /\ m.frame = frame /\ m.state = c.state /\ m.events = c.events
  BY <1>6, Fields DEF HasFields
<1> HIDE DEF m
<1>8. Sized(m, World)
  BY <1>5, <1>7 DEF SizeInv, Sized, Known, Roomy, Filled, XmitLevel, TailSeq
<1> QED BY <1>1, <1>7, <1>8, QuietStep

LEMMA ReceivingKeepsSize ==
    ASSUME StreamInv, SizeInv, Receive PROVE SizeInv'
<1> DEFINE s == Head(toStack)
           m == OnPacket(c, s)
<1>1. /\ c.listed /\ Becomes(m) /\ toStack # <<>> /\ toStack' = Tail(toStack)
      /\ appSent' = appSent /\ appGot' = appGot /\ guest' = guest
  BY DEF Receive, app
<1>2. Sound(c, World) /\ Bounded(World)
  BY <1>1, LiveConnection, WorldIsBounded DEF StreamInv
<1>3. Honest(s, guest.rcv, World)
  BY <1>1, TailsKeep DEF StreamInv
<1>4. s.ackNo <= World.has
  <2>1. s.ackNo \in Nat /\ s.ackNo <= guest.rcv /\ guest.rcv \in Nat
    BY <1>3 DEF Honest, StreamInv, GuestTypes
  <2> HIDE DEF s
  <2> QED BY <2>1 DEF World, AtLeast
<1> HIDE DEF s
<1>5. Lasting(c, m, World)
  BY <1>2, <1>3, <1>4, OnPacketIsSound DEF StreamInv
<1>6. Sized(m, World)
  BY <1>2, <1>3, <1>4, OnPacketKeepsSize DEF SizeInv
<1> HIDE DEF m
<1> QED BY <1>1, <1>5, <1>6, LastingFields, QuietStep

LEMMA WithoutIsSized ==
    ASSUME NEW event, HasFields(c), Sized(c, World)
    PROVE  Sized(Without(event), World)
<1> DEFINE events == c.events \ {event}
           m == [c EXCEPT !.events = events]
<1>1. Without(event) = m
  BY DEF Without
<1>2. events \subseteq Events
  BY DEF Sized, Known
<1> HIDE DEF events
<1>3. /\ m.written = c.written /\ m.base = c.base /\ m.recv = c.recv
      /\ m.timers = c.timers /\ m.frame = c.frame /\ m.state = c.state /\ m.events = events
  BY Fields DEF HasFields
<1> HIDE DEF m
<1> QED BY <1>1, <1>2, <1>3, SizedKept DEF Sized, Known

LEMMA ClockKeepsSize ==
    ASSUME Orderly, StreamInv, SizeInv, ClockEvent PROVE SizeInv'
<1>1. IsWorld(World) /\ Bounded(World)
  BY WorldIsBounded DEF StreamInv
<1>2. ASSUME c.events # {} \/ c.stray
      PROVE  Sound(c, World) /\ HasFields(c) /\ (c.events # {} => Between(c))
  <2>1. Sound(c, World)
    BY <1>2, LiveConnection DEF StreamInv
  <2>2. c = NoConnection => c.events = {}
    BY DEF NoConnection
  <2> QED BY <2>1, <2>2 DEF Orderly, Sound
<1>3. ASSUME NEW event, NEW m, Fires(event, m)
      PROVE  /\ event \in c.events /\ Becomes(m) /\ Sound(c, World) /\ Between(c)
             /\ appSent' = appSent /\ appGot' = appGot /\ guest' = guest /\ toStack' = toStack
             /\ Sound(Without(event), World) /\ Sized(Without(event), World)
  <2>1. /\ event \in c.events /\ Becomes(m)
        /\ appSent' = appSent /\ appGot' = appGot /\ guest' = guest /\ toStack' = toStack
    BY <1>3 DEF Fires, app
  <2>2. Sound(c, World) /\ Between(c) /\ HasFields(c)
    BY <1>2, <2>1
  <2>3. Sound(Without(event), World)
    BY <1>1, <2>2, WithoutIsSound DEF Makes
  <2>4. Sized(Without(event), World)
    BY <2>2, WithoutIsSized DEF SizeInv
  <2> QED BY <2>1, <2>2, <2>3, <2>4
<1>4. ASSUME NEW event, NEW m, Fires(event, m), HasFields(m), Sized(m, World)
      PROVE  SizeInv'
  BY <1>3, <1>4, QuietStep
<1>5. CASE CloseEvent
  <2> DEFINE k == Without("Close")
             m == DeleteConnection(k)
  <2>1. Fires("Close", m)
    BY <1>5 DEF CloseEvent
  <2>2. Sound(k, World) /\ Sized(k, World)
    BY <1>3, <2>1
  <2> HIDE DEF k
  <2>3. Sized(m, World)
    BY <1>1, <2>2, DeletionKeepsSize
  <2>4. HasFields(m)
    BY <2>2, Fields DEF DeleteConnection, Sound, HasFields, Destroyed, NoConnection
  <2> HIDE DEF m
  <2> QED BY <1>4, <2>1, <2>3, <2>4
<1>6. CASE TransmitEvent
  <2> DEFINE k == Without("Transmit")
             m == TransmitNow(k)
  <2>1. Fires("Transmit", m)
    BY <1>6 DEF TransmitEvent
  <2>2. Sound(k, World) /\ Sized(k, World)
    BY <1>3, <2>1
  <2> HIDE DEF k
  <2>3. HasFields(m)
    BY <1>1, <2>2, TransmitNowIsSound DEF Makes, Sound
  <2>4. Sized(m, World)
    BY <1>1, <2>2, TransmitNowKeepsSize
  <2> HIDE DEF m
  <2> QED BY <1>4, <2>1, <2>3, <2>4
<1>7. CASE RetransmitEvent
  <2> DEFINE k == Without("Retransmit")
             m == Retransmit(k)
  <2>1. Fires("Retransmit", m)
    BY <1>7 DEF RetransmitEvent
  <2>2. "Retransmit" \in c.events /\ Between(c) /\ Sound(c, World) /\ Sound(k, World) /\ Sized(k, World)
    BY <1>3, <2>1
  <2>3. k.timers # <<>>
    BY <1>1, <2>2, WithoutIsSound DEF Between, InOrder, Watched
  <2> HIDE DEF k
  <2>4. HasFields(m)
    BY <1>1, <2>2, <2>3, RetransmitIsSound DEF Makes, Sound
  <2>5. Sized(m, World)
    BY <1>1, <2>2, <2>3, RetransmitKeepsSize
  <2> HIDE DEF m
  <2> QED BY <1>4, <2>1, <2>4, <2>5
<1>8. CASE ProbeEvent
  <2>1. PICK event \in {"WindowProbe", "ZeroWindowProbe"} : Fires(event, Probe(Without(event)))
    BY <1>8 DEF ProbeEvent
  <2> DEFINE k == Without(event)
             m == Probe(k)
  <2>2. Fires(event, m)
    BY <2>1
  <2>3. Sound(k, World) /\ Sized(k, World)
    BY <1>3, <2>2
  <2> HIDE DEF k
  <2>4. HasFields(m)
    BY <1>1, <2>3, ProbeIsSound DEF Makes, Sound
  <2>5. Sized(m, World)
    BY <1>1, <2>3, ProbeKeepsSize
  <2> HIDE DEF m
  <2> QED BY <1>4, <2>2, <2>4, <2>5
<1>9. CASE StrayEvent
  <2>1. /\ c.stray /\ appSent' = appSent /\ appGot' = appGot /\ guest' = guest /\ toStack' = toStack
        /\ \E stray \in BOOLEAN : Becomes(Probe([Without("WindowProbe") EXCEPT !.stray = stray]))
    BY <1>9 DEF StrayEvent, app
  <2>2. PICK stray \in BOOLEAN : Becomes(Probe([Without("WindowProbe") EXCEPT !.stray = stray]))
    BY <2>1
  <2> DEFINE n == Without("WindowProbe")
             k == [n EXCEPT !.stray = stray]
  <2>3. Makes(c, n, World) /\ Sized(n, World)
    BY <1>1, <1>2, <2>1, WithoutIsSound, WithoutIsSized DEF SizeInv
  <2> HIDE DEF n
  <2>4. /\ HasFields(k) /\ SameSend(n, k) /\ SameReceive(n, k) /\ k.sendOpen = n.sendOpen
        /\ k.state = n.state /\ k.frame = n.frame /\ k.events = n.events
    BY <2>3, Fields DEF Makes, Sound, HasFields, SameSend, SameReceive
  <2>5. Becomes(Probe(k))
    BY <2>2 DEF n
  <2> HIDE DEF k
  <2>6. Sound(k, World)
    BY <1>1, <2>3, <2>4, SoundKept DEF Makes
  <2>7. Sized(k, World)
    BY <2>3, <2>4, SizedKept DEF SameSend, SameReceive, Sized, Known
  <2>8. HasFields(Probe(k)) /\ Sized(Probe(k), World)
    BY <1>1, <2>6, <2>7, ProbeIsSound, ProbeKeepsSize DEF Makes, Sound
  <2> QED BY <2>1, <2>5, <2>8, QuietStep
<1> QED BY <1>5, <1>6, <1>7, <1>8, <1>9 DEF ClockEvent

\* The application puts no more into the ring than there is room for.
LEMMA SendingKeepsSize ==
    ASSUME StreamInv, SizeInv, Send PROVE SizeInv'
<1> PICK n \in 1 .. AtMost(XmitSpace(c), MaxBytes - appSent - guest.sent) :
        /\ Call(Schedule([c EXCEPT !.written = @ \o Bytes(appSent + 1, n)]))
        /\ appSent' = appSent + n
  BY DEF Send
<1> DEFINE more == Bytes(appSent + 1, n)
           written == c.written \o more
           k == [c EXCEPT !.written = written]
           m == Schedule(k)
           v == World'
<1>1. /\ c.held /\ Becomes(m) /\ appGot' = appGot /\ guest' = guest /\ toStack' = toStack
      /\ appSent' = appSent + n /\ n \in Nat
  BY DEF Send, Call
<1>2. IsWorld(World) /\ Sound(c, World) /\ c.written \in Seq(Nat) /\ c.base \in Nat
  BY <1>1, LiveConnection DEF StreamInv, Sound, Sending, SendTypes
<1>3. appSent \in Nat /\ appSent + 1 \in Nat /\ guest.sent \in Nat
  BY <1>2 DEF World, IsWorld
<1>4. more \in Seq(Nat) /\ Len(more) = n /\ \A i \in 1 .. n : more[i] = appSent + 1 + i - 1
  BY <1>1, <1>3, BytesFacts
<1> HIDE DEF more
<1>5. Len(written) = Len(c.written) + n /\ Len(c.written) \in Nat
  BY <1>2, <1>4, ConcatFacts
<1> HIDE DEF written
<1>6. /\ HasFields(k) /\ k.written = written /\ k.base = c.base /\ k.recv = c.recv
      /\ k.timers = c.timers /\ k.frame = c.frame /\ k.state = c.state /\ k.events = c.events
  BY <1>2, Fields DEF Sound, HasFields
<1> HIDE DEF k
<1> DEFINE had == Len(c.written)
           base == c.base
<1>7. /\ XmitSpace(c) = XmitSize - ((had + 1) - base) /\ XmitLevel(k) = (Len(written) + 1) - base
      /\ had \in Nat /\ base \in Nat /\ Len(written) = had + n
  <2>1. XmitSpace(c) = XmitSize - ((had + 1) - base)
    BY Zenon DEF XmitSpace, XmitLevel, TailSeq
  <2>2. XmitLevel(k) = (Len(written) + 1) - base
    BY <1>6, Zenon DEF XmitLevel, TailSeq
  <2> QED BY <1>2, <1>5, <2>1, <2>2
<1>8. n <= XmitSpace(c) /\ appSent + n + guest.sent <= MaxBytes /\ Roomy(k)
  <2>0. n \in 1 .. AtMost(XmitSpace(c), MaxBytes - appSent - guest.sent)
    OBVIOUS
  <2> HIDE DEF had, base
  <2>1. XmitSpace(c) \in Int /\ MaxBytes \in Nat /\ XmitSize \in Nat
    <3>1. MaxBytes \in Nat /\ XmitSize \in Nat
      BY TcpAssumption
    <3> QED BY <1>7, <3>1
  <2>2. n <= XmitSpace(c) /\ appSent + n + guest.sent <= MaxBytes
    BY <1>1, <1>3, <2>0, <2>1 DEF AtMost
  <2>3. XmitLevel(k) <= XmitSize
    <3>1. n \in Nat /\ had \in Nat /\ base \in Nat /\ XmitSize \in Nat
      BY <1>1, <1>7, <2>1
    <3>2. n <= XmitSize - ((had + 1) - base)
      BY <1>7, <2>2
    <3>3. XmitLevel(k) = ((had + n) + 1) - base
      BY <1>7
    <3> QED BY <3>1, <3>2, <3>3
  <2>4. more \in Seq(0 .. Outside)
    <3>1. ASSUME NEW i \in 1 .. Len(more) PROVE more[i] <= MaxBytes
      <4>1. i \in 1 .. n /\ more[i] = appSent + 1 + i - 1
        BY <1>4
      <4>2. i \in Nat /\ i <= n
        BY <1>1, <4>1
      <4> QED BY <1>1, <1>3, <2>1, <2>2, <4>1, <4>2, SMTT(20)
    <3> QED BY <1>4, <3>1, SmallData
  <2>5. k.written \in Seq(0 .. Outside)
    <3>1. c.written \in Seq(0 .. Outside)
      BY DEF SizeInv, Sized, Roomy
    <3>2. c.written \o more \in Seq(0 .. Outside)
      BY <2>4, <3>1
    <3> QED BY <1>6, <3>2 DEF written
  <2> QED BY <2>2, <2>3, <2>5 DEF Roomy
<1>9. v.got = World.got /\ v.sent = World.sent
  BY <1>1 DEF World
<1> HIDE DEF v
<1>10. Sized(k, v)
  BY <1>6, <1>8, <1>9 DEF SizeInv, Sized, Known, Filled
<1>11. HasFields(m) /\ Sized(m, v)
  BY <1>6, <1>10, SchedulingOnlySets, SchedulingKeepsSize
<1>12. v = World'
  BY DEF v
<1> HIDE DEF m
<1> QED BY <1>1, <1>3, <1>8, <1>11, <1>12, SizeStep

\* What it reads leaves the ring.
LEMMA ReadingKeepsSize ==
    ASSUME StreamInv, SizeInv, Recv PROVE SizeInv'
<1> PICK n \in 1 .. Len(c.recv) :
        /\ Call([c EXCEPT !.recvBase = @ + n, !.recv = SubSeq(@, n + 1, Len(@))])
        /\ appGot' = appGot + n /\ UNCHANGED appSent
  BY DEF Recv
<1> DEFINE first == c.recvBase + n
           recv == SubSeq(c.recv, n + 1, Len(c.recv))
           m == [c EXCEPT !.recvBase = first, !.recv = recv]
           v == World'
<1>1. /\ c.held /\ Becomes(m) /\ appSent' = appSent /\ guest' = guest /\ toStack' = toStack
      /\ appGot' = appGot + n
  BY DEF Call
<1>2. IsWorld(World) /\ Sound(c, World) /\ c.recv \in Seq(Nat)
  BY <1>1, LiveConnection DEF StreamInv, Sound, Receiving
<1>3. Len(recv) = Len(c.recv) - n /\ Len(c.recv) \in Nat /\ n \in Nat
  BY <1>2
<1> HIDE DEF first, recv
<1>4. /\ HasFields(m) /\ m.written = c.written /\ m.base = c.base /\ m.recv = recv
      /\ m.timers = c.timers /\ m.frame = c.frame /\ m.state = c.state /\ m.events = c.events
  BY <1>2, Fields DEF Sound, HasFields
<1> HIDE DEF m
<1>5. v.got = World.got + n /\ v.sent = World.sent
  BY <1>1 DEF World
<1> HIDE DEF v
<1>6. Filled(m, v)
  <2>1. World.got \in Nat /\ World.sent \in Nat
    BY <1>2 DEF IsWorld
  <2>2. Len(c.recv) <= RecvSize /\ World.got + Len(c.recv) <= World.sent
    BY DEF SizeInv, Sized, Filled
  <2>3. Len(m.recv) <= RecvSize /\ v.got + Len(m.recv) <= v.sent
    BY <1>3, <1>4, <1>5, <2>1, <2>2, TcpAssumption, SMTT(20)
  <2> QED BY <2>3 DEF Filled
<1>7. Sized(m, v)
  BY <1>4, <1>6 DEF SizeInv, Sized, Known, Roomy, XmitLevel, TailSeq
<1>8. v = World'
  BY DEF v
<1>9. appSent' + guest.sent <= MaxBytes
  BY <1>1 DEF SizeInv
<1> QED BY <1>1, <1>4, <1>7, <1>8, <1>9, SizeStep

LEMMA AppKeepsSize ==
    ASSUME Orderly, StreamInv, SizeInv, App \/ CheckAbandoned PROVE SizeInv'
<1>1. IsWorld(World) /\ Bounded(World) /\ Sized(c, World)
  BY WorldIsBounded DEF StreamInv, SizeInv
<1>2. ASSUME c.held \/ c.listed PROVE Sound(c, World)
  BY <1>2, LiveConnection DEF StreamInv
<1>3. CASE Shutdown
  <2>1. PICK send \in BOOLEAN, receive \in BOOLEAN :
           Call(ShutdownSocket(c, send, receive)) /\ UNCHANGED app
    BY <1>3 DEF Shutdown
  <2>2. /\ c.held /\ Becomes(ShutdownSocket(c, send, receive)) /\ appSent' = appSent /\ appGot' = appGot
        /\ guest' = guest /\ toStack' = toStack
    BY <2>1 DEF Call, app
  <2>3. /\ HasFields(ShutdownSocket(c, send, receive))
        /\ Sized(ShutdownSocket(c, send, receive), World)
    BY <1>1, <1>2, <2>2, ShutdownIsSound, ShutdownKeepsSize DEF Makes, Sound
  <2> QED BY <2>2, <2>3, QuietStep
<1>4. ASSUME NEW force \in BOOLEAN, c.held \/ c.listed
      PROVE  HasFields(CloseSocket(c, force)) /\ Sized(CloseSocket(c, force), World)
  BY <1>1, <1>2, <1>4, CloseIsSound, CloseKeepsSize DEF Makes, Sound
<1>5. CASE Close
  <2>1. PICK force \in BOOLEAN : Call(CloseSocket(c, force)) /\ UNCHANGED app
    BY <1>5 DEF Close
  <2>2. /\ c.held /\ Becomes(CloseSocket(c, force)) /\ appSent' = appSent /\ appGot' = appGot
        /\ guest' = guest /\ toStack' = toStack
    BY <2>1 DEF Call, app
  <2> QED BY <1>4, <2>2, QuietStep
<1>6. CASE Release
  <2> DEFINE released == [c EXCEPT !.held = FALSE]
             m == IF c.listed THEN released ELSE Destroyed
  <2>1. /\ c.held /\ Becomes(m) /\ appSent' = appSent /\ appGot' = appGot
        /\ guest' = guest /\ toStack' = toStack
    BY <1>6 DEF Release, Call, app
  <2>2. HasFields(released) /\ Sized(released, World)
    <3>1. Sound(c, World)
      BY <1>2, <2>1
    <3>2. /\ HasFields(released) /\ released.written = c.written /\ released.base = c.base
          /\ released.recv = c.recv /\ released.timers = c.timers /\ released.frame = c.frame
          /\ released.state = c.state /\ released.events = c.events
      BY <3>1, Fields DEF Sound, HasFields
    <3> HIDE DEF released
    <3> QED BY <1>1, <3>2, SizedKept DEF Sized, Known
  <2>3. HasFields(Destroyed) /\ Sized(Destroyed, World)
    <3>1. HasFields(Destroyed)
      BY DEF HasFields, Destroyed, NoConnection
    <3>2. c.recv \in Seq(Nat)
      BY ConnectionRing DEF StreamInv
    <3> QED BY <1>1, <3>1, <3>2, ReadsWhatWasSent, DestroyedIsSized
  <2> HIDE DEF released
  <2>4. HasFields(m) /\ Sized(m, World)
    BY <2>2, <2>3
  <2> HIDE DEF m
  <2> QED BY <2>1, <2>4, QuietStep
<1>7. CASE CheckAbandoned
  <2>1. /\ c.listed /\ Becomes(CloseSocket(c, TRUE)) /\ appSent' = appSent /\ appGot' = appGot
        /\ guest' = guest /\ toStack' = toStack
    BY <1>7 DEF CheckAbandoned, app
  <2> QED BY <1>4, <2>1, QuietStep
<1> QED BY <1>3, <1>5, <1>6, <1>7, OpeningKeepsSize, SendingKeepsSize, ReadingKeepsSize DEF App

-----------------------------------------------------------------------------
(* The guest.                                                                *)

LEMMA GuestKeepsSize ==
    ASSUME StreamInv, SizeInv, c' = c, appSent' = appSent, appGot' = appGot,
           NEW sent \in Nat, sent = guest'.sent, guest.sent <= sent, appSent + sent <= MaxBytes,
           UnderWay(toGuest'), UnderWay(toStack')
    PROVE  SizeInv'
<1> DEFINE v == World'
<1>1. v.got = World.got /\ v.sent = sent /\ World.sent = guest.sent
  BY DEF World
<1>2. c.recv \in Seq(Nat) /\ IsWorld(World)
  BY ConnectionRing DEF StreamInv
<1> HIDE DEF v
<1>3. Filled(c, v)
  <2>1. Len(c.recv) \in Nat /\ World.got \in Nat /\ World.sent \in Nat
    BY <1>2 DEF IsWorld
  <2>2. Len(c.recv) <= RecvSize /\ World.got + Len(c.recv) <= World.sent
    BY DEF SizeInv, Sized, Filled
  <2>3. v.got + Len(c.recv) <= v.sent
    BY <1>1, <2>1, <2>2
  <2> QED BY <2>2, <2>3 DEF Filled
<1>4. Sized(c, v)
  BY <1>3 DEF SizeInv, Sized
<1>5. Sized(c', World')
  BY <1>4 DEF v
<1> QED BY <1>5 DEF SizeInv

LEMMA GuestSendsTyped ==
    ASSUME SizeInv, NEW s \in SegmentType, NEW wnd \in Windows \union {0}, GuestSends(s, wnd)
    PROVE  /\ c' = c /\ appSent' = appSent /\ appGot' = appGot
           /\ UnderWay(toGuest') /\ UnderWay(toStack')
<1> DEFINE t == [s EXCEPT !.wnd = wnd]
<1>1. /\ c' = c /\ appSent' = appSent /\ appGot' = appGot /\ toGuest' = toGuest
      /\ Len(toStack) < MaxFrames /\ toStack' = Append(toStack, t)
  BY DEF GuestSends, app
<1>2. t \in SegmentType
  BY DEF SegmentType
<1> HIDE DEF t
<1>3. UnderWay(toStack')
  BY <1>1, <1>2, OneMore DEF SizeInv
<1> QED BY <1>1, <1>3 DEF SizeInv

LEMMA EmptySegment ==
    ASSUME NEW seq \in Nat, NEW ackNo \in Nat
    PROVE  Segment(seq, ackNo, <<>>) \in SegmentType
<1>1. <<>> \in Seq(0 .. Outside)
  OBVIOUS
<1> QED BY <1>1, SegmentTyped

LEMMA GuestSynKeepsSize ==
    ASSUME StreamInv, SizeInv, GuestSyn PROVE SizeInv'
<1> DEFINE plain == Segment(0, guest.rcv, <<>>)
           ack == guest.state = "accepting"
           s == [plain EXCEPT !.syn = TRUE, !.ack = ack]
<1>1. PICK wnd \in Windows : GuestSends(s, wnd)
  BY DEF GuestSyn
<1>2. guest'.sent = guest.sent /\ guest.sent \in Nat /\ guest.rcv \in Nat
  BY GuestFields DEF GuestSyn, StreamInv, GuestTypes
<1>3. plain \in SegmentType
  BY <1>2, EmptySegment
<1>4. s \in SegmentType
  <2>1. ack \in BOOLEAN
    OBVIOUS
  <2> HIDE DEF plain, ack
  <2> QED BY <1>3, <2>1 DEF SegmentType
<1> HIDE DEF s
<1>5. /\ c' = c /\ appSent' = appSent /\ appGot' = appGot
      /\ UnderWay(toGuest') /\ UnderWay(toStack')
  BY <1>1, <1>4, GuestSendsTyped
<1>6. guest.sent <= guest.sent /\ appSent + guest.sent <= MaxBytes
  BY <1>2 DEF SizeInv
<1> QED BY <1>2, <1>5, <1>6, GuestKeepsSize

LEMMA GuestAckKeepsSize ==
    ASSUME StreamInv, SizeInv, GuestAck \/ GuestReset PROVE SizeInv'
<1> DEFINE s == Segment(GuestNext, guest.rcv, <<>>)
           r == [s EXCEPT !.rst = TRUE]
<1>1. guest'.sent = guest.sent /\ guest.sent \in Nat /\ guest.rcv \in Nat
  BY GuestFields DEF GuestAck, GuestReset, StreamInv, GuestTypes
<1>2. GuestNext \in Nat
  BY <1>1 DEF GuestNext
<1>3. s \in SegmentType
  BY <1>1, <1>2, EmptySegment
<1>4. r \in SegmentType
  <2> HIDE DEF s
  <2> QED BY <1>3 DEF SegmentType
<1>5. \E t \in SegmentType : \E wnd \in Windows \union {0} : GuestSends(t, wnd)
  <2>1. CASE GuestAck
    <3>1. PICK wnd \in Windows : GuestSends(s, wnd)
      BY <2>1 DEF GuestAck
    <3> HIDE DEF s
    <3> QED BY <1>3, <3>1
  <2>2. CASE GuestReset
    <3>1. GuestSends(r, 0)
      BY <2>2 DEF GuestReset
    <3> HIDE DEF r
    <3> QED BY <1>4, <3>1
  <2> QED BY <2>1, <2>2
<1>6. /\ c' = c /\ appSent' = appSent /\ appGot' = appGot
      /\ UnderWay(toGuest') /\ UnderWay(toStack')
  BY <1>5, GuestSendsTyped
<1>7. guest.sent <= guest.sent /\ appSent + guest.sent <= MaxBytes
  BY <1>1 DEF SizeInv
<1> QED BY <1>1, <1>6, <1>7, GuestKeepsSize

\* The guest leaves the application the bytes that it has sent.
LEMMA GuestDataKeepsSize ==
    ASSUME StreamInv, SizeInv, GuestData PROVE SizeInv'
<1> DEFINE Sent(first, wnd, fin, last) ==
             /\ last >= first \/ fin
             /\ fin => last >= guest.sent
             /\ GuestSends([Segment(first, guest.rcv, Bytes(first, last - first + 1)) EXCEPT !.fin = fin], wnd)
             /\ guest' = [guest EXCEPT !.sent = AtLeast(@, last), !.closed = @ \/ fin]
<1>0. PICK first \in {guest.una, GuestNext}, wnd \in Windows, fin \in BOOLEAN :
        \E last \in first - 1 .. IF guest.closed THEN guest.sent ELSE MaxBytes - appSent :
           Sent(first, wnd, fin, last)
  BY DEF GuestData
<1>1. PICK last \in first - 1 .. IF guest.closed THEN guest.sent ELSE MaxBytes - appSent :
         Sent(first, wnd, fin, last)
  BY <1>0
<1> DEFINE n == last - first + 1
           data == Bytes(first, n)
           plain == Segment(first, guest.rcv, data)
           s == [plain EXCEPT !.fin = fin]
           sent == guest.sent
           new == AtLeast(sent, last)
<1>2. first \in Nat /\ sent \in Nat /\ guest.rcv \in Nat
  BY DEF StreamInv, GuestTypes, GuestNext
<1>3. appSent \in Nat /\ MaxBytes \in Nat /\ appSent + sent <= MaxBytes
  BY TcpAssumption DEF StreamInv, IsWorld, World, SizeInv
<1>4. last \in Int /\ n \in Nat /\ first + n = last + 1 /\ last <= MaxBytes - appSent
  <2>1. CASE guest.closed
    BY <1>2, <1>3, <2>1
  <2>2. CASE ~ guest.closed
    BY <1>2, <1>3, <2>2
  <2> QED BY <2>1, <2>2
<1>5. guest'.sent = new
  BY <1>1, GuestFields DEF StreamInv, GuestTypes
<1>6. GuestSends(s, wnd)
  BY <1>1
<1>7. new \in Nat /\ sent <= new /\ appSent + new <= MaxBytes
  BY <1>2, <1>3, <1>4 DEF AtLeast
<1> HIDE DEF n, new
<1>8. data \in Seq(0 .. Outside)
  <2>1. /\ data \in Seq(Nat) /\ Len(data) = n
        /\ \A i \in 1 .. n : data[i] = first + i - 1
    BY <1>2, <1>4, BytesFacts
  <2> HIDE DEF data
  <2>2. ASSUME NEW i \in 1 .. Len(data) PROVE data[i] <= MaxBytes
    <3>1. i \in Int /\ i <= n
      BY <1>4, <2>1
    <3>2. data[i] = first + i - 1
      BY <2>1
    <3> QED BY <1>2, <1>3, <1>4, <3>1, <3>2
  <2> QED BY <2>1, <2>2, SmallData
<1> HIDE DEF data
<1>9. plain \in SegmentType
  BY <1>2, <1>8, SegmentTyped
<1> HIDE DEF plain
<1>10. s \in SegmentType
  BY <1>9 DEF SegmentType
<1> HIDE DEF s
<1>11. /\ c' = c /\ appSent' = appSent /\ appGot' = appGot
       /\ UnderWay(toGuest') /\ UnderWay(toStack')
  BY <1>6, <1>10, GuestSendsTyped
<1> QED BY <1>5, <1>7, <1>11, GuestKeepsSize

LEMMA GuestReceiveKeepsSize ==
    ASSUME StreamInv, SizeInv, GuestReceive PROVE SizeInv'
<1>1. /\ c' = c /\ appSent' = appSent /\ appGot' = appGot /\ toStack' = toStack
      /\ toGuest # <<>> /\ toGuest' = Tail(toGuest)
  BY DEF GuestReceive, app
<1>2. guest.sent \in Nat /\ DOMAIN guest = DOMAIN NoGuest
  BY DEF StreamInv, GuestTypes
<1>3. guest'.sent = guest.sent
  <2> DEFINE s == Head(toGuest)
  <2>1. \/ guest' = [guest EXCEPT !.state = "dead"]
        \/ guest' = [guest EXCEPT !.state = "accepting", !.rcv = s.seq + 1]
        \/ guest' = [guest EXCEPT !.state = "open", !.rcv = s.seq + 1, !.una = s.ackNo]
        \/ \E n \in 0 .. NewTo(guest, s) : guest' = GuestTakes(guest, s, n)
        \/ guest' = guest
    BY DEF GuestReceive
  <2>2. ASSUME NEW n PROVE GuestTakes(guest, s, n).sent = guest.sent
    BY <1>2, GuestFields DEF GuestTakes
  <2> HIDE DEF s
  <2> QED BY <1>2, <2>1, <2>2, GuestFields
<1>4. UnderWay(toGuest') /\ UnderWay(toStack')
  BY <1>1, OneLess DEF SizeInv
<1>5. guest.sent <= guest.sent /\ appSent + guest.sent <= MaxBytes
  BY <1>2 DEF SizeInv
<1> QED BY <1>1, <1>2, <1>3, <1>4, <1>5, GuestKeepsSize

-----------------------------------------------------------------------------
LEMMA SizeInit == Init => SizeInv
<1> SUFFICES ASSUME Init PROVE SizeInv
  OBVIOUS
<1>1. /\ c = NoConnection /\ toGuest = <<>> /\ toStack = <<>> /\ appSent = 0
      /\ World.got = 0 /\ World.sent = 0 /\ guest.sent = 0
  BY DEF Init, World, NoGuest
<1>2. /\ c.state = "none" /\ c.events = {} /\ c.written = <<>> /\ c.base = 1
      /\ c.recv = <<>> /\ c.timers = <<>> /\ c.frame = <<>>
  BY <1>1 DEF NoConnection
<1>3. Known(c) /\ IsFrame(c.frame) /\ c.timers \in Seq(PacketTimer)
  BY <1>2 DEF Known, States, IsFrame
<1>4. Roomy(c) /\ Filled(c, World)
  <2>1. Len(c.written) = 0 /\ Len(c.recv) = 0 /\ c.written \in Seq(0 .. Outside)
    BY <1>2
  <2>2. XmitLevel(c) = 0
    BY <1>2, <2>1 DEF XmitLevel, TailSeq
  <2> QED BY <1>1, <2>1, <2>2, TcpAssumption DEF Roomy, Filled
<1>5. UnderWay(<<>>)
  <2>1. Len(<<>>) = 0 /\ <<>> \in Seq(SegmentType)
    OBVIOUS
  <2> QED BY <2>1, TcpAssumption DEF UnderWay
<1>6. appSent + guest.sent <= MaxBytes
  BY <1>1, TcpAssumption
<1> QED BY <1>1, <1>3, <1>4, <1>5, <1>6 DEF SizeInv, Sized

LEMMA SizeNext == Orderly /\ StreamInv /\ SizeInv /\ [Next]_vars => SizeInv'
<1> SUFFICES ASSUME Orderly, StreamInv, SizeInv, [Next]_vars PROVE SizeInv'
  OBVIOUS
<1>1. CASE Listen \/ Connect
  BY <1>1, OpeningKeepsSize
<1>2. CASE Refuse
  BY <1>2, RefusingKeepsSize
<1>3. CASE Receive
  BY <1>3, ReceivingKeepsSize
<1>4. CASE ClockEvent
  BY <1>4, ClockKeepsSize
<1>5. CASE App \/ CheckAbandoned
  BY <1>5, AppKeepsSize
<1>6. CASE Guest
  BY <1>6, GuestSynKeepsSize, GuestDataKeepsSize, GuestAckKeepsSize, GuestReceiveKeepsSize DEF Guest
<1>7. CASE UNCHANGED vars
  <2>1. World' = World
    BY <1>7 DEF vars, app, World
  <2> QED BY <1>7, <2>1 DEF vars, app, SizeInv
<1> QED BY <1>1, <1>2, <1>3, <1>4, <1>5, <1>6, <1>7 DEF Next

LEMMA SizeIsEnough == StreamInv /\ SizeInv => TypeOK
<1> SUFFICES ASSUME StreamInv, SizeInv PROVE TypeOK
  OBVIOUS
<1>1. /\ c.recv \in Seq(Nat) /\ c.frame = <<>> /\ Connection(c, World) /\ IsWorld(World)
      /\ World.app = appSent /\ World.got = appGot /\ World.sent = guest.sent
  BY ConnectionRing DEF StreamInv, World
<1>2. Sized(c, World)
  BY DEF SizeInv
<1>3. XmitLevel(c) \in 0 .. XmitSize
  <2>1. XmitLevel(c) \in Nat
    <3>1. CASE c = NoConnection \/ c = Destroyed
      <4>1. c.written = <<>> /\ c.base = 1
        <5>1. CASE c = NoConnection
          BY <5>1 DEF NoConnection
        <5>2. CASE c = Destroyed
          BY <5>2 DEF Destroyed, NoConnection
        <5> QED BY <3>1, <5>1, <5>2
      <4>2. Len(c.written) = 0
        BY <4>1
      <4> QED BY <4>1, <4>2 DEF XmitLevel, TailSeq
    <3>2. CASE Sound(c, World)
      <4>1. c.written \in Seq(Nat) /\ c.base \in Nat /\ c.base <= TailSeq(c)
        BY <3>2 DEF Sound, Sending, SendTypes
      <4> QED BY <4>1 DEF XmitLevel, TailSeq
    <3> QED BY <1>1, <3>1, <3>2 DEF Connection
  <2> QED BY <1>2, <2>1, TcpAssumption DEF Sized, Roomy
<1>4. Len(c.recv) \in 0 .. RecvSize /\ appGot \in 0 .. guest.sent
  <2>1. Len(c.recv) \in Nat /\ appGot \in Nat /\ guest.sent \in Nat
    BY <1>1 DEF IsWorld
  <2>2. Len(c.recv) <= RecvSize /\ appGot + Len(c.recv) <= guest.sent
    BY <1>1, <1>2 DEF Sized, Filled
  <2> QED BY <2>1, <2>2, TcpAssumption
<1>5. \A i \in DOMAIN c.timers : c.timers[i].count \in 0 .. MaxRetransmits - 1
  <2>1. c.timers \in Seq(PacketTimer)
    BY <1>2 DEF Sized
  <2>2. \A i \in DOMAIN c.timers : c.timers[i] \in PacketTimer
    BY <2>1
  <2> QED BY <2>2 DEF PacketTimer
<1>6. appSent + guest.sent \in 0 .. MaxBytes
  <2>1. appSent \in Nat /\ guest.sent \in Nat
    BY <1>1 DEF IsWorld
  <2> QED BY <2>1, TcpAssumption DEF SizeInv
<1>7. /\ toGuest \in Seq(SegmentType) /\ Len(toGuest) <= MaxFrames
      /\ toStack \in Seq(SegmentType) /\ Len(toStack) <= MaxFrames
  BY DEF SizeInv, UnderWay
<1> QED BY <1>1, <1>2, <1>3, <1>4, <1>5, <1>6, <1>7 DEF TypeOK, Sized, Known

\* Whatever arrives and whenever the clock fires, neither ring of the connection
\* holds more than its size, though the FIN takes a place of the one and is taken
\* from the other; the count of every packet timer stays below MaxRetransmits (a
\* segment that Transmit or a probe sends again has a timer that begins at 0), and the
\* application reads no more bytes than the guest sent (mXmitRing, mRecvRing and
\* mRetransmitCount of tcpstack.cpp).
THEOREM TypeCorrect == Spec => []TypeOK
<1>1. Init => Orderly /\ StreamInv /\ SizeInv
  BY OrderlyInit, StreamInit, SizeInit
<1>2. Orderly /\ StreamInv /\ SizeInv /\ [Next]_vars => (Orderly /\ StreamInv /\ SizeInv)'
  BY OrderlyNext, StreamNext, SizeNext
<1>3. Orderly /\ StreamInv /\ SizeInv => TypeOK
  BY SizeIsEnough
<1> QED BY <1>1, <1>2, <1>3, PTL DEF Spec
=============================================================================

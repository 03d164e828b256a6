--------------------------- MODULE TcpConnection ---------------------------
(***************************************************************************)
(* One connection of the emulated TCP stack (ATNetTcpConnection and its     *)
(* entry in ATNetTcpStack, tcpstack.cpp) between an application of the      *)
(* emulator and the TCP of the guest machine.  The connection is the record *)
(* c; operators give what a method of the code makes of it.  Sequence       *)
(* numbers count from the SYN (1 for the stack's, 0 for the guest's) and    *)
(* do not wrap.  A clock event may fire at any time after it is set; frames *)
(* to the guest may be lost.  What the handler is told is left out: the     *)
(* application acts when it likes, between two steps of the stack.          *)
(***************************************************************************)
EXTENDS Integers, Sequences, FiniteSets

CONSTANTS MaxBytes,        \* bytes both sides send together
          XmitSize, RecvSize, \* sizes of the two rings
          MSS,             \* mXmitMaxSegment
          MaxRetransmits,  \* kMaxRetransmits
          Windows,         \* the windows the guest may advertise
          MaxFrames        \* frames under way in a direction

ASSUME TcpAssumption ==
    /\ MaxBytes \in Nat /\ XmitSize \in Nat \ {0, 1} /\ RecvSize \in Nat \ {0}
    /\ MSS \in Nat \ {0} /\ MaxRetransmits \in Nat \ {0} /\ MaxFrames \in Nat \ {0}
    /\ Windows # {} /\ Windows \subseteq Nat

VARIABLES c,                \* the connection
          toGuest, toStack, \* frames under way
          appSent, appGot,  \* how many bytes the application sent and read
          guest             \* the guest's side

app  == <<appSent, appGot>>
vars == <<c, toGuest, toStack, app, guest>>

AtMost(a, b) == IF a < b THEN a ELSE b
AtLeast(a, b) == IF a < b THEN b ELSE a
Bytes(first, n) == [i \in 1 .. n |-> first + i - 1]
Placeholder == 0           \* the byte of the ring that stands for a SYN or a FIN
Outside == MaxBytes + 1    \* a byte read outside of a ring's buffer, whatever it is

States == {"none", "SYN_SENT", "SYN_RCVD", "ESTABLISHED", "FIN_WAIT_1", "CLOSING", "FIN_WAIT_2",
           "TIME_WAIT", "CLOSE_WAIT", "LAST_ACK", "CLOSED"}
Events == {"Close", "Transmit", "Retransmit", "WindowProbe", "ZeroWindowProbe"}

Segment(seq, ackNo, data) ==
    [seq |-> seq, ackNo |-> ackNo, data |-> data, wnd |-> 0,
     ack |-> TRUE, syn |-> FALSE, fin |-> FALSE, rst |-> FALSE]

\* A connection as its constructor leaves it: written[s] is the byte that was put
\* into mXmitRing for sequence number s, base the first the guest has not
\* acknowledged; listed says whether the stack has it in mConnections,
\* held whether the application has a reference to it, stray whether a window probe
\* is in the clock that the connection has forgotten.
NoConnection ==
    [state |-> "none", listed |-> FALSE, held |-> FALSE, sendOpen |-> TRUE, recvOpen |-> TRUE,
     synQueued |-> FALSE, finQueued |-> FALSE, finReceived |-> FALSE,
     written |-> <<>>, base |-> 1, next |-> 1, lastAck |-> 0, limit |-> 0, threshold |-> 0,
     recvBase |-> 0, recv |-> <<>>, timers |-> <<>>, events |-> {}, stray |-> FALSE, frame |-> <<>>]

TailSeq(k)   == Len(k.written) + 1
XmitLevel(k) == TailSeq(k) - k.base
XmitSpace(k) == XmitSize - XmitLevel(k)
RecvTail(k)  == k.recvBase + Len(k.recv)
RecvSpace(k) == RecvSize - Len(k.recv)
AckNo(k)     == RecvTail(k) + (IF k.finReceived THEN 1 ELSE 0)

-----------------------------------------------------------------------------
(* Sending.                                                                  *)

\* mXmitRing.Read of n bytes from sequence number seq.  ReadPtr is the place of base in
\* the buffer, as long as a reset has not emptied the ring.  An ACK that overtakes a
\* retransmission leaves base beyond next, and the offset of seq wraps: what is read
\* then is what lies before ReadPtr, bytes already acknowledged or those that have
\* been written over them, or if that is not in the buffer, bytes outside of it.
ReadPtr(k) == (k.base - 1) % XmitSize
ByteAt(k, seq) ==
    LET again == seq + XmitSize
    IN  IF seq < k.base /\ again < TailSeq(k) THEN k.written[again] ELSE k.written[seq]
RingRead(k, seq, n) ==
    [i \in 1 .. n |-> IF k.base - seq > ReadPtr(k) THEN Outside ELSE ByteAt(k, seq + i - 1)]

\* GetTransmitStatus.
TransmitStatus(k) ==
    LET sendLimit == IF k.synQueued THEN k.base + 1 ELSE TailSeq(k)
        available == k.limit - k.next
    IN  IF sendLimit = k.next THEN "No"
        ELSE IF available <= 0 THEN "DeferredZeroWindow"
        ELSE IF ~ k.synQueued /\ available < k.threshold THEN "Deferred"
        ELSE "Yes"

\* TryTransmitMore when it does not transmit at once.  A window probe that is set
\* while one is pending leaves the old one in the clock with nobody to remove it.
Schedule(k) ==
    LET status == TransmitStatus(k)
        still  == k.events \ {"Transmit"}
    IN  CASE status = "Yes" -> [k EXCEPT !.events = @ \union {"Transmit"}]
          [] status = "Deferred" ->
                [k EXCEPT !.stray = @ \/ "WindowProbe" \in k.events,
                          !.events = still \union {"WindowProbe"}]
          [] status = "DeferredZeroWindow" ->
                [k EXCEPT !.events = still \union {"ZeroWindowProbe"}]
          [] status = "No" -> [k EXCEPT !.events = still]

\* How much of the ring Transmit sends, its placeholder for the FIN included.
Waiting(k) == IF k.synQueued THEN 0 ELSE TailSeq(k) - k.next
ToSend(k, probe) ==
    LET space == AtLeast(k.limit - k.next, 0)
    IN  IF probe /\ space = 0 THEN AtMost(Waiting(k), 1)
        ELSE AtMost(AtMost(Waiting(k), space), MSS)

Transmit(k, ack, retransmitCount, probe) ==
    LET syn == k.synQueued /\ k.next = k.base
        n   == ToSend(k, probe)
        fin == k.finQueued /\ n > 0 /\ n = Waiting(k)
        seg == [Segment(k.next, AckNo(k), RingRead(k, k.next, n - (IF fin THEN 1 ELSE 0)))
                  EXCEPT !.ack = ack \/ ~ syn, !.syn = syn, !.fin = fin]
    IN  Schedule(
          [k EXCEPT
             !.frame  = <<seg>>,
             !.next   = @ + n + (IF syn THEN 1 ELSE 0),
             !.state  = IF ~ fin THEN @
                        ELSE IF @ = "ESTABLISHED" THEN "FIN_WAIT_1"
                        ELSE IF @ = "CLOSE_WAIT" THEN "LAST_ACK" ELSE @,
             !.timers = IF n = 0 THEN @
                        ELSE Append(@, [first |-> k.next, last |-> k.next + n, count |-> retransmitCount]),
             !.events = (@ \ {"WindowProbe", "ZeroWindowProbe", "Transmit"})
                        \union (IF n = 0 THEN {} ELSE {"Retransmit"})])

\* TryTransmitMore(true).
TransmitNow(k) == IF TransmitStatus(k) = "Yes" THEN Transmit(k, FALSE, 0, FALSE) ELSE Schedule(k)

-----------------------------------------------------------------------------
(* Closing.                                                                  *)

ChangeToTimeWait(k) == [k EXCEPT !.state = "TIME_WAIT", !.events = {"Close"}]

\* Both rings are emptied, an RST is sent and only the closing timer stays.
ResetConnection(k) ==
    ChangeToTimeWait(
      [k EXCEPT !.written = SubSeq(@, 1, k.base - 1), !.next = k.base, !.recv = <<>>,
                !.recvOpen = FALSE, !.sendOpen = FALSE,
                !.frame = <<[Segment(k.base, 0, <<>>) EXCEPT !.rst = TRUE, !.ack = FALSE]>>])

QueueFin(k) == [k EXCEPT !.finQueued = TRUE, !.written = Append(@, Placeholder)]

ShutdownReceive(k) ==
    IF k.recv # <<>> THEN ResetConnection(k) ELSE [k EXCEPT !.recvOpen = FALSE]
FinAtOnce(k) ==       \* mutant: the FIN goes into the ring full or not
    IF k.sendOpen THEN Schedule(QueueFin([k EXCEPT !.sendOpen = FALSE])) ELSE k
ShutdownSend(k) ==
    IF ~ k.sendOpen THEN k
    ELSE LET shut == [k EXCEPT !.sendOpen = FALSE]
         IN  Schedule(IF XmitSpace(k) > 0 THEN QueueFin(shut) ELSE shut)

ShutdownSocket(k, send, receive) ==
    LET half == IF receive /\ k.recvOpen THEN ShutdownReceive(k) ELSE k
    IN  IF send THEN ShutdownSend(half) ELSE half

CloseSocket(k, force) ==
    IF k.state \in {"TIME_WAIT", "CLOSED"} THEN k
    ELSE IF force THEN ResetConnection(k)
    ELSE ShutdownSocket(k, TRUE, TRUE)

\* What a destroyed connection leaves; one the application holds lives on.
Destroyed == [NoConnection EXCEPT !.state = "CLOSED", !.sendOpen = FALSE, !.recvOpen = FALSE]
DeleteConnection(k) ==
    IF k.held THEN [k EXCEPT !.state = "CLOSED", !.listed = FALSE] ELSE Destroyed

-----------------------------------------------------------------------------
(* Receiving: what OnPacket does, in the order in which it does it.          *)

Window(k, s) ==
    LET acked == IF s.ack THEN s.ackNo ELSE k.lastAck
    IN  [k EXCEPT !.lastAck = acked, !.limit = acked + s.wnd, !.threshold = AtLeast(@, AtMost(s.wnd \div 2, 256))]

\* The packet timers that an ACK leaves, cut off at the window as the code does.
TimersLeft(k, ackNo) ==
    LET open == {i \in DOMAIN k.timers : AtMost(k.timers[i].last, k.limit) > ackNo}
    IN  IF open = {} THEN <<>>
        ELSE SubSeq(k.timers, CHOOSE i \in open : \A j \in open : i <= j, Len(k.timers))

TimersOnly(k, ackNo) == [k EXCEPT !.timers = TimersLeft(k, ackNo)]   \* mutant: the event stays
UpdateTimers(k, ackNo) ==
    LET left == TimersLeft(k, ackNo)
    IN  [k EXCEPT !.timers = left,
                  !.events = IF left = <<>> THEN @ \ {"Retransmit"} ELSE @ \union {"Retransmit"}]

\* The acknowledged bytes leave the ring; a FIN that found it full goes in now.
UpdateRing(k, ackNo) ==
    IF ackNo = k.base THEN k
    ELSE LET acked == [k EXCEPT !.base = ackNo, !.synQueued = FALSE,
                                !.state = IF @ = "SYN_RCVD" THEN "ESTABLISHED" ELSE @]
         IN  IF ~ k.sendOpen /\ ~ k.finQueued THEN QueueFin(acked) ELSE acked

FinAcked(k) ==
    IF ~ (k.finQueued /\ XmitLevel(k) = 0) THEN k
    ELSE CASE k.state = "CLOSING" -> ChangeToTimeWait(k)
           [] k.state = "LAST_ACK" -> [k EXCEPT !.state = "CLOSED"]
           [] k.state = "FIN_WAIT_1" -> [k EXCEPT !.state = "FIN_WAIT_2"]
           [] OTHER -> k

Acknowledge(k, s) ==
    IF s.ack /\ s.ackNo \in k.base .. TailSeq(k)
    THEN FinAcked(UpdateRing(UpdateTimers(k, s.ackNo), s.ackNo))
    ELSE k

\* What of a segment is taken: nothing unless it begins where the ring ends.
Length(s) == Len(s.data) + (IF s.fin THEN 1 ELSE 0)
TakenAnywhere(k, s) == AtMost(Length(s), RecvSpace(k))   \* mutant: wherever it begins
Taken(k, s) == IF s.seq = RecvTail(k) THEN AtMost(Length(s), RecvSpace(k)) ELSE 0

AcceptFin(k) ==
    LET got == [k EXCEPT !.finReceived = TRUE]
    IN  CASE k.finReceived -> k
          [] ~ k.finReceived /\ k.state = "ESTABLISHED" -> [got EXCEPT !.state = "CLOSE_WAIT"]
          [] ~ k.finReceived /\ k.state = "FIN_WAIT_2" -> ChangeToTimeWait(got)
          [] OTHER -> got

Accept(k, s) ==
    LET n   == Taken(k, s)
        got == [k EXCEPT !.recv = @ \o SubSeq(s.data, 1, AtMost(n, Len(s.data)))]
    IN  IF n > Len(s.data) THEN AcceptFin(got) ELSE got

Reply(k, s) ==
    CASE k.state = "CLOSED" -> DeleteConnection(k)
      [] k.state # "CLOSED" /\ (s.syn \/ Length(s) > 0) -> Transmit(k, TRUE, 0, FALSE)
      [] OTHER -> IF "Transmit" \in k.events THEN k ELSE TransmitNow(k)

\* An RST that is not to be ignored, and a first answer that is no SYN.
ValidReset(k, s) ==
    IF k.state = "SYN_SENT" THEN s.ack /\ s.ackNo = k.next
    ELSE s.seq - k.recvBase \in 0 .. RecvSpace(k)
Refused(k, s) ==
    IF s.rst THEN ValidReset(k, s) ELSE k.state = "SYN_SENT" /\ ~ s.syn

OnPacket(k, s) ==
    LET start  == IF k.state = "SYN_SENT" THEN [k EXCEPT !.state = "SYN_RCVD", !.recvBase = s.seq + 1] ELSE k
        acked  == Acknowledge(Window(start, s), s)
        failed == IF s.rst THEN [k EXCEPT !.sendOpen = FALSE, !.finReceived = TRUE] ELSE k
    IN  IF Refused(k, s) THEN CloseSocket(failed, TRUE)
        ELSE IF s.rst THEN k
        ELSE IF Taken(acked, s) > 0 /\ s.data # <<>> /\ ~ acked.recvOpen THEN ResetConnection(acked)
        ELSE Reply(Accept(acked, s), s)

-----------------------------------------------------------------------------
(* The steps of the stack.                                                   *)

\* The connection becomes k and its frame is sent, or lost.
Becomes(k) ==
    /\ c' = [k EXCEPT !.frame = <<>>]
    /\ toGuest' = IF Len(toGuest) < MaxFrames THEN toGuest \o k.frame ELSE toGuest

Started(k) ==
    [k EXCEPT !.listed = TRUE, !.held = TRUE, !.synQueued = TRUE, !.written = <<Placeholder>>]

Connect ==
    /\ c.state = "none" /\ guest.state = "idle"
    /\ Becomes(Transmit([Started(c) EXCEPT !.state = "SYN_SENT"], FALSE, 0, FALSE))
    /\ UNCHANGED <<toStack, app, guest>>

\* A SYN that a listener takes; any other segment without a connection is refused.
Listen ==
    /\ toStack # <<>> /\ c.state = "none"
    /\ LET s == Head(toStack)
       IN  /\ s.syn
           /\ Becomes(Transmit([Started(c) EXCEPT !.state = "SYN_RCVD", !.recvBase = s.seq + 1,
                                   !.lastAck = s.seq + 1, !.limit = s.seq + 1 + s.wnd],
                               TRUE, 0, FALSE))
    /\ toStack' = Tail(toStack) /\ UNCHANGED <<app, guest>>

Refuse ==
    /\ toStack # <<>> /\ ~ c.listed
    /\ LET s   == Head(toStack)
           rst == [Segment(s.ackNo, s.seq + 1, <<>>) EXCEPT !.rst = TRUE, !.ack = s.syn]
       IN  Becomes([c EXCEPT !.frame = IF s.rst THEN <<>> ELSE <<rst>>])
    /\ toStack' = Tail(toStack) /\ UNCHANGED <<app, guest>>

Receive ==
    /\ toStack # <<>> /\ c.listed
    /\ Becomes(OnPacket(c, Head(toStack)))
    /\ toStack' = Tail(toStack) /\ UNCHANGED <<app, guest>>

\* OnClockEvent: the event fires and is forgotten, and the connection becomes k.
Fires(event, k) ==
    /\ event \in c.events /\ Becomes(k) /\ UNCHANGED <<toStack, app, guest>>
Without(event) == [c EXCEPT !.events = @ \ {event}]

CloseEvent    == Fires("Close", DeleteConnection(Without("Close")))
TransmitEvent == Fires("Transmit", TransmitNow(Without("Transmit")))

\* Back to the first packet that is not acknowledged, or to the end of it all.
Retransmit(k) ==
    LET head == Head(k.timers)
    IN  IF head.count + 1 >= MaxRetransmits
        THEN CloseSocket([k EXCEPT !.sendOpen = FALSE, !.finReceived = TRUE], TRUE)
        ELSE Transmit([k EXCEPT !.timers = <<>>,
                          !.next = IF head.first \in k.base .. TailSeq(k) - 1 THEN head.first ELSE k.base],
                      TRUE, head.count + 1, FALSE)
RetransmitEvent == Fires("Retransmit", Retransmit(Without("Retransmit")))

Probe(k) == IF TransmitStatus(k) = "No" THEN k ELSE Transmit(k, FALSE, 0, TRUE)
ProbeEvent ==
    \E event \in {"WindowProbe", "ZeroWindowProbe"} : Fires(event, Probe(Without(event)))

\* A forgotten probe fires while the object is there; the one that is known, if
\* any, is forgotten by that.
StrayEvent ==
    /\ c.stray /\ (c.listed \/ c.held)
    /\ \E stray \in IF "WindowProbe" \in c.events THEN {TRUE} ELSE BOOLEAN :
          Becomes(Probe([Without("WindowProbe") EXCEPT !.stray = stray]))
    /\ UNCHANGED <<toStack, app, guest>>

-----------------------------------------------------------------------------
(* The application.                                                          *)

Call(k) == c.held /\ c.state # "none" /\ Becomes(k) /\ UNCHANGED <<toStack, guest>>

Send ==
    /\ c.sendOpen
    /\ \E n \in 1 .. AtMost(XmitSpace(c), MaxBytes - appSent - guest.sent) :
          /\ Call(Schedule([c EXCEPT !.written = @ \o Bytes(appSent + 1, n)]))
          /\ appSent' = appSent + n
    /\ UNCHANGED appGot

Recv ==
    \E n \in 1 .. Len(c.recv) :
        /\ Call([c EXCEPT !.recvBase = @ + n, !.recv = SubSeq(@, n + 1, Len(@))])
        /\ appGot' = appGot + n /\ UNCHANGED appSent

\* Receiving can be shut in every state, so that a closed connection with data nobody
\* read goes back to TIME_WAIT (VDASSERT in ChangeToTimeWait), out of the table.
\* A half that is shut already is not shut again: such a call does nothing.
Shutdown ==
    /\ c.held /\ TRUE \in {c.sendOpen, c.recvOpen}
    /\ \E send, receive \in BOOLEAN :
          /\ TRUE \in {send, receive} /\ (send => c.sendOpen) /\ (receive => c.recvOpen)
          /\ Call(ShutdownSocket(c, send, receive)) /\ UNCHANGED app
Close ==    \* which does nothing when it is closed or about to be
    /\ c.state \notin {"TIME_WAIT", "CLOSED"}
    /\ \E force \in BOOLEAN : Call(CloseSocket(c, force)) /\ UNCHANGED app

\* The last reference outside the stack goes; CheckAbandoned follows by the clock.
Release ==
    /\ Call(IF c.listed THEN [c EXCEPT !.held = FALSE] ELSE Destroyed) /\ UNCHANGED app
CheckAbandoned ==
    /\ c.listed /\ ~ c.held /\ (c.recvOpen \/ c.sendOpen)
    /\ Becomes(CloseSocket(c, TRUE)) /\ UNCHANGED <<toStack, app, guest>>

-----------------------------------------------------------------------------
(* The guest, which is not part of the code: any TCP that acknowledges only   *)
(* what it has and may shrink its window.  It takes what it likes of what is  *)
(* new to it, and answers when it likes.                                      *)

NoGuest == [state |-> "idle", una |-> 0, sent |-> 0, closed |-> FALSE,
            rcv |-> 0, got |-> <<>>, fin |-> FALSE]
GuestNext == guest.sent + (IF guest.closed THEN 2 ELSE 1)

GuestSends(s, wnd) ==
    /\ Len(toStack) < MaxFrames /\ toStack' = Append(toStack, [s EXCEPT !.wnd = wnd])
    /\ UNCHANGED <<c, toGuest, app>>

GuestSyn ==
    /\ \/ guest.state = "idle" /\ c.state = "none"
       \/ guest.state \in {"opening", "accepting"}
    /\ \E wnd \in Windows :
          GuestSends([Segment(0, guest.rcv, <<>>) EXCEPT !.syn = TRUE, !.ack = guest.state = "accepting"], wnd)
    /\ guest' = [guest EXCEPT !.state = IF @ = "idle" THEN "opening" ELSE @]

\* Data and FIN, for the first time or again, and acknowledgements without.
GuestData ==
    /\ guest.state = "open" /\ Len(toStack) < MaxFrames
    /\ \E first \in {guest.una, GuestNext}, wnd \in Windows, fin \in BOOLEAN :
       \E last \in first - 1 .. IF guest.closed THEN guest.sent ELSE MaxBytes - appSent :
          /\ last >= first \/ fin
          /\ fin => last >= guest.sent
          /\ GuestSends([Segment(first, guest.rcv, Bytes(first, last - first + 1)) EXCEPT !.fin = fin], wnd)
          /\ guest' = [guest EXCEPT !.sent = AtLeast(@, last), !.closed = @ \/ fin]

GuestAck ==
    /\ guest.state = "open"
    /\ \E wnd \in Windows : GuestSends(Segment(GuestNext, guest.rcv, <<>>), wnd)
    /\ UNCHANGED guest

GuestReset ==
    /\ guest.state \in {"open", "dead"}
    /\ GuestSends([Segment(GuestNext, guest.rcv, <<>>) EXCEPT !.rst = TRUE], 0)
    /\ guest' = [guest EXCEPT !.state = "dead"]

\* The part of s the guest has not seen, if it begins no later than that.
NewTo(g, s) ==
    IF s.seq > g.rcv \/ g.fin THEN 0 ELSE AtLeast(Length(s) - (g.rcv - s.seq), 0)

GuestTakes(g, s, n) ==
    LET end == g.rcv - s.seq + n
    IN  [g EXCEPT !.rcv = @ + n, !.una = IF s.ack THEN AtLeast(@, s.ackNo) ELSE @,
                  !.got = @ \o SubSeq(s.data, g.rcv - s.seq + 1, AtMost(end, Len(s.data))),
                  !.fin = @ \/ (n > 0 /\ end > Len(s.data)),
                  !.state = IF @ = "accepting" /\ s.ack /\ s.ackNo > 0 THEN "open" ELSE @]

GuestReceive ==
    /\ toGuest # <<>> /\ toGuest' = Tail(toGuest) /\ UNCHANGED <<c, toStack, app>>
    /\ LET s == Head(toGuest)
       IN  \/ s.rst /\ guest' = [guest EXCEPT !.state = "dead"]
           \/ /\ s.syn /\ guest.state = "idle"
              /\ guest' = [guest EXCEPT !.state = "accepting", !.rcv = s.seq + 1]
           \/ /\ s.syn /\ guest.state = "opening" /\ s.ack
              /\ guest' = [guest EXCEPT !.state = "open", !.rcv = s.seq + 1, !.una = s.ackNo]
           \/ /\ ~ s.syn /\ ~ s.rst /\ guest.state \in {"open", "accepting"}
              /\ \E n \in 0 .. NewTo(guest, s) : guest' = GuestTakes(guest, s, n)
           \/ UNCHANGED guest    \* it is lost

-----------------------------------------------------------------------------
Init ==
    /\ c = NoConnection /\ toGuest = <<>> /\ toStack = <<>>
    /\ appSent = 0 /\ appGot = 0 /\ guest = NoGuest

ClockEvent == CloseEvent \/ TransmitEvent \/ RetransmitEvent \/ ProbeEvent \/ StrayEvent
App        == Connect \/ Send \/ Recv \/ Shutdown \/ Close \/ Release
Guest      == GuestSyn \/ GuestData \/ GuestAck \/ GuestReset \/ GuestReceive
Next == Listen \/ Refuse \/ Receive \/ ClockEvent \/ App \/ CheckAbandoned \/ Guest

Spec == Init /\ [][Next]_vars

-----------------------------------------------------------------------------
(* Properties.                                                               *)

SegmentType ==
    [seq : Nat, ackNo : Nat, data : Seq(0 .. Outside), wnd : Windows \union {0},
     ack : BOOLEAN, syn : BOOLEAN, fin : BOOLEAN, rst : BOOLEAN]

\* Types, and what bounds the connection: the rings hold no more than their size,
\* the calls of the application and the frames under way stay within theirs.
TypeOK ==
    /\ c.state \in States /\ c.events \subseteq Events
    /\ XmitLevel(c) \in 0 .. XmitSize /\ Len(c.recv) \in 0 .. RecvSize
    /\ c.frame = <<>> /\ \A i \in DOMAIN c.timers : c.timers[i].count \in 0 .. MaxRetransmits - 1
    /\ toGuest \in Seq(SegmentType) /\ Len(toGuest) <= MaxFrames
    /\ toStack \in Seq(SegmentType) /\ Len(toStack) <= MaxFrames
    /\ appSent + guest.sent \in 0 .. MaxBytes /\ appGot \in 0 .. guest.sent

\* What the guest may get as byte i of the application: that byte, or, once a ringful
\* has been acknowledged, what a read outside of the ring's buffer found.
AsSent(byte, i) == byte = i \/ (i >= XmitSize /\ byte = Outside)

\* Neither direction loses, repeats or invents a byte whatever is lost, sent again
\* or shut, but for the reads outside of the ring: the guest has a prefix of what the
\* application sent, all of it when it has the FIN, and the ring lets go of no byte
\* before the guest has it; the application has, or can read, a prefix of what the
\* guest sent, everything the stack has acknowledged while it is open, and all of it
\* when the FIN is noted.
StreamsIntact ==
    /\ \A i \in DOMAIN guest.got : AsSent(guest.got[i], i)
    /\ Len(guest.got) <= appSent
    /\ guest.fin => Len(guest.got) = appSent /\ ~ c.sendOpen
    /\ c.base <= AtLeast(guest.rcv, 1)
    /\ c.recv = Bytes(appGot + 1, Len(c.recv))
    /\ c.recvOpen =>
          /\ AtMost(guest.una - 1, guest.sent) <= appGot + Len(c.recv)
          /\ c.finReceived => guest.closed /\ appGot + Len(c.recv) = guest.sent

\* Every packet timer is watched: while a live connection has one the retransmit
\* event is pending, which never finds the list of timers empty (VDASSERT(root.mNext)).
\* A connection is in TIME_WAIT just while its closing event is pending, whatever shuts
\* or resets it again; a live one is in the stack's table, a closed one is not, and once
\* neither the table nor the application has it no event is left that it knows of.
EventsMatchState ==
    /\ "Retransmit" \in c.events => c.timers # <<>>
    /\ c.timers # <<>> /\ c.state \notin {"TIME_WAIT", "CLOSED"} => "Retransmit" \in c.events
    /\ "Close" \in c.events <=> c.state = "TIME_WAIT"
    /\ c.state = "CLOSED" => ~ c.listed
    /\ ~ c.listed => c.state \in {"none", "TIME_WAIT", "CLOSED"}
    /\ ~ c.listed /\ ~ c.held => c.events = {}

\* The comment of OnClockEvent, "retransmit starting at highest found ACK": the
\* packet timer the retransmission goes back to leaves out no byte that was sent
\* and is not acknowledged.
RetransmitsFromHighestAck ==
    "Retransmit" \in c.events => Head(c.timers).first <= c.base

\* The assertion of ATNetTcpRingBuffer::Read that what is read lies in the ring: no
\* frame carries a byte from outside of the buffer.
ReadsStayInRing == \A i \in DOMAIN toGuest : \A j \in DOMAIN toGuest[i].data : toGuest[i].data[j] # Outside

=============================================================================

--------------------------- MODULE SchedulerProofs ---------------------------
(***************************************************************************)
(* Machine-checked proofs about Scheduler, for every width of the counter, *)
(* every bound and every set of clients and nodes: its invariants, who     *)
(* moves its time, and that its list of wrapping times implements          *)
(* TimerWheel.                                                             *)
(***************************************************************************)
EXTENDS Scheduler, SequenceTheorems, NaturalsInduction, WellFoundedInduction, TLAPS

-----------------------------------------------------------------------------
(* Sequences. *)

\* Two lists of nodes put together.
LEMMA ListsConcat ==
    ASSUME NEW front \in Seq(Events), NEW back \in Seq(Events)
    PROVE  /\ front \o back \in Seq(Events)
           /\ Len(front \o back) = Len(front) + Len(back)
           /\ \A j \in 1 .. Len(front) : (front \o back)[j] = front[j]
           /\ \A j \in Len(front) + 1 .. Len(front) + Len(back) :
                (front \o back)[j] = back[j - Len(front)]
  OBVIOUS

\* Linking a node into a list at position i shifts the nodes from i on by one.
LEMMA InsertAtProperties ==
    ASSUME NEW q \in Seq(Events), NEW i \in 1 .. Len(q) + 1, NEW e \in Events
    PROVE  /\ InsertAt(q, i, e) \in Seq(Events)
           /\ Len(InsertAt(q, i, e)) = Len(q) + 1
           /\ \A j \in 1 .. Len(q) + 1 :
                InsertAt(q, i, e)[j] =
                    IF j < i THEN q[j] ELSE IF j = i THEN e ELSE q[j - 1]
<1> DEFINE front == SubSeq(q, 1, i - 1)
           back == SubSeq(q, i, Len(q))
<1>0. Len(q) \in Nat /\ i \in 1 .. Len(q) + 1
  OBVIOUS
<1>1. /\ front \in Seq(Events) /\ Len(front) = i - 1
      /\ \A j \in 1 .. i - 1 : front[j] = q[j]
  OBVIOUS
<1>2. /\ back \in Seq(Events) /\ Len(back) = Len(q) + 1 - i
      /\ \A j \in 1 .. Len(q) + 1 - i : back[j] = q[i + j - 1]
  OBVIOUS
<1>3. InsertAt(q, i, e) = (front \o <<e>>) \o back
  BY DEF InsertAt
<1> HIDE DEF front, back
<1> DEFINE upto == front \o <<e>>
<1>4. /\ upto \in Seq(Events) /\ Len(upto) = i
      /\ \A j \in 1 .. i - 1 : upto[j] = q[j]
      /\ upto[i] = e
  <2>1. <<e>> \in Seq(Events) /\ Len(<<e>>) = 1 /\ <<e>>[1] = e
    OBVIOUS
  <2>2. front \in Seq(Events) /\ Len(front) + Len(<<e>>) = i /\ Len(front) + 1 = i
    BY <1>0, <1>1, <2>1
  <2> DEFINE one == <<e>>
  <2>3. one \in Seq(Events) /\ Len(front) + Len(one) = i /\ one[1] = e
    BY <2>1, <2>2
  <2> HIDE DEF one
  <2>4. /\ front \o one \in Seq(Events) /\ Len(front \o one) = i
        /\ \A j \in 1 .. Len(front) : (front \o one)[j] = front[j]
        /\ \A j \in Len(front) + 1 .. i : (front \o one)[j] = one[j - Len(front)]
    BY <2>2, <2>3, ListsConcat
  <2>5. i \in Len(front) + 1 .. i /\ i - Len(front) = 1
    BY <1>0, <2>2
  <2> QED  BY <1>1, <2>2, <2>3, <2>4, <2>5 DEF one
<1>5. InsertAt(q, i, e) = upto \o back
  BY <1>3
<1> HIDE DEF upto
<1>6. /\ upto \o back \in Seq(Events) /\ Len(upto \o back) = Len(q) + 1
      /\ \A j \in 1 .. i : (upto \o back)[j] = upto[j]
      /\ \A j \in i + 1 .. Len(q) + 1 : (upto \o back)[j] = back[j - i]
  BY <1>0, <1>2, <1>4, ListsConcat
<1>7. ASSUME NEW j \in 1 .. Len(q) + 1
      PROVE  (upto \o back)[j] = IF j < i THEN q[j] ELSE IF j = i THEN e ELSE q[j - 1]
  <2>1. CASE j < i
    BY <1>0, <1>4, <1>6, <2>1
  <2>2. CASE j = i
    BY <1>0, <1>4, <1>6, <2>2
  <2>3. CASE j > i
    <3>1. j \in i + 1 .. Len(q) + 1 /\ j - i \in 1 .. Len(q) + 1 - i /\ i + (j - i) - 1 = j - 1
      BY <1>0, <2>3
    <3>2. (upto \o back)[j] = back[j - i] /\ back[j - i] = q[i + (j - i) - 1]
      BY <1>2, <1>6, <3>1
    <3> QED  BY <1>0, <2>3, <3>1, <3>2
  <2>4. j < i \/ j = i \/ j > i
    BY <1>0
  <2> QED  BY <2>1, <2>2, <2>3, <2>4, Zenon
<1> QED  BY <1>5, <1>6, <1>7

\* Unlinking the node at position i closes the gap.
LEMMA RemoveAtProperties ==
    ASSUME NEW q \in Seq(Events), NEW i \in 1 .. Len(q)
    PROVE  /\ RemoveAt(q, i) \in Seq(Events)
           /\ Len(RemoveAt(q, i)) = Len(q) - 1
           /\ \A j \in 1 .. Len(q) - 1 :
                RemoveAt(q, i)[j] = IF j < i THEN q[j] ELSE q[j + 1]
<1> DEFINE front == SubSeq(q, 1, i - 1)
           back == SubSeq(q, i + 1, Len(q))
<1>0. Len(q) \in Nat /\ i \in 1 .. Len(q)
  OBVIOUS
<1>1. /\ front \in Seq(Events) /\ Len(front) = i - 1
      /\ \A j \in 1 .. i - 1 : front[j] = q[j]
  OBVIOUS
<1>2. /\ back \in Seq(Events) /\ Len(back) = Len(q) - i
      /\ \A j \in 1 .. Len(q) - i : back[j] = q[i + j]
  OBVIOUS
<1>3. RemoveAt(q, i) = front \o back
  BY DEF RemoveAt
<1> HIDE DEF front, back
<1>4. /\ front \o back \in Seq(Events) /\ Len(front \o back) = Len(q) - 1
      /\ \A j \in 1 .. i - 1 : (front \o back)[j] = front[j]
      /\ \A j \in i .. Len(q) - 1 : (front \o back)[j] = back[j - (i - 1)]
  <2>1. Len(front) = i - 1 /\ Len(front) + Len(back) = Len(q) - 1 /\ Len(front) + 1 = i
    BY <1>0, <1>1, <1>2
  <2>2. front \in Seq(Events) /\ back \in Seq(Events)
    BY <1>1, <1>2
  <2>3. /\ front \o back \in Seq(Events)
        /\ Len(front \o back) = Len(front) + Len(back)
        /\ \A j \in 1 .. Len(front) : (front \o back)[j] = front[j]
        /\ \A j \in Len(front) + 1 .. Len(front) + Len(back) :
             (front \o back)[j] = back[j - Len(front)]
    BY ONLY <2>2, ListsConcat
  <2> QED  BY <2>1, <2>3, Zenon
<1>5. ASSUME NEW j \in 1 .. Len(q) - 1
      PROVE  (front \o back)[j] = IF j < i THEN q[j] ELSE q[j + 1]
  <2>1. CASE j < i
    BY <1>0, <1>1, <1>4, <2>1
  <2>2. CASE j >= i
    <3>1. /\ j \in i .. Len(q) - 1 /\ j - (i - 1) \in 1 .. Len(q) - i
          /\ i + (j - (i - 1)) = j + 1
      BY <1>0, <2>2
    <3>2. /\ (front \o back)[j] = back[j - (i - 1)]
          /\ back[j - (i - 1)] = q[i + (j - (i - 1))]
      BY <1>2, <1>4, <3>1
    <3> QED  BY <1>0, <2>2, <3>1, <3>2
  <2>3. j < i \/ j >= i
    BY <1>0
  <2> QED  BY <2>1, <2>2, <2>3, Zenon
<1> QED  BY <1>3, <1>4, <1>5

-----------------------------------------------------------------------------
(* Wrapping arithmetic. *)

LEMMA WrapType ==
    ASSUME NEW a \in Time, NEW b \in Time
    PROVE  Add(a, b) \in Time /\ Sub(a, b) \in Time /\ Neg(a) \in Time
BY WidthAssumption DEF Time, Add, Sub, Neg

\* Re-arming the clock pair for a wait of `ticks` leaves the time as it is, and
\* the counter's end is neither beyond that wait nor beyond the stop time.
LEMMA HorizonProperties ==
    ASSUME timeBase \in Time, nextEventCounter \in Time, stopTime \in Time,
           NEW ticks \in 1 .. Half - 1,
           stopTimeValid => Sub(stopTime, GetTick) < Half
    PROVE  LET h == Horizon(ticks)
           IN /\ h.counter \in Time /\ h.base \in Time
              /\ Add(h.base, h.counter) = GetTick
              /\ Neg(h.counter) <= ticks
              /\ stopTimeValid => Neg(h.counter) <= Sub(stopTime, GetTick)
              /\ h.counter = 0 => stopTimeValid /\ GetTick = stopTime
              /\ h.counter = 0 \/ h.counter > Half
<1> DEFINE now == GetTick
<1>1. now \in Time
  BY WrapType DEF GetTick
<1> HIDE DEF now
<1> DEFINE base == Add(now, ticks)
           over == Sub(base, stopTime)
<1>2. Horizon(ticks) = IF stopTimeValid /\ over \in 1 .. Half - 1
                       THEN [counter |-> Add(Neg(ticks), over), base |-> stopTime]
                       ELSE [counter |-> Neg(ticks), base |-> base]
  BY DEF Horizon, now
<1>3. CASE stopTimeValid /\ over \in 1 .. Half - 1
  <2>1. Horizon(ticks).counter = Add(Neg(ticks), over) /\ Horizon(ticks).base = stopTime
    BY <1>2, <1>3
  <2>2. stopTimeValid => Sub(stopTime, now) < Half
    BY DEF now
  <2> QED
    BY <1>1, <1>3, <2>1, <2>2, WidthAssumption DEF Time, Add, Sub, Neg, now
<1>4. CASE ~ (stopTimeValid /\ over \in 1 .. Half - 1)
  <2>1. Horizon(ticks).counter = Neg(ticks) /\ Horizon(ticks).base = base
    BY <1>2, <1>4
  <2>2. stopTimeValid => Sub(stopTime, now) < Half
    BY DEF now
  <2> QED
    BY <1>1, <1>4, <2>1, <2>2, WidthAssumption DEF Time, Add, Sub, Neg, now
<1> QED BY <1>3, <1>4

-----------------------------------------------------------------------------
(* The inductive invariant. *)

IInv ==
    /\ TypeOK
    /\ PointersOwned
    /\ Sorted
    /\ NoEventMissed
    /\ CounterReachesNoEvent
    /\ StopRespected

\* What the invariant says of the clock.
LEMMA ClockFacts ==
    ASSUME TypeOK, StopRespected
    PROVE  /\ GetTick \in Time
           /\ TicksToNext \in Time
           /\ \A e \in Events : TicksToEvent(e) \in Time
           /\ stopTimeValid => Sub(stopTime, GetTick) < Half
<1>1. GetTick \in Time /\ TicksToNext \in Time
  BY WrapType DEF TypeOK, GetTick, TicksToNext
<1>2. ASSUME NEW e \in Events PROVE TicksToEvent(e) \in Time
  <2>1. nextTime[e] \in Time
    BY DEF TypeOK
  <2> QED  BY <1>1, <2>1, WrapType DEF TicksToEvent
<1>3. Sub(stopTime, GetTick) \in Time
  BY <1>1, WrapType DEF TypeOK
<1>4. stopTimeValid => Sub(stopTime, GetTick) < Half
  BY <1>3, WidthAssumption DEF StopRespected, Time
<1> QED  BY <1>1, <1>2, <1>4

\* A call that re-arms the clock pair without touching the stop time.
LEMMA RearmEffect ==
    ASSUME TypeOK, StopRespected, NEW ticks \in 1 .. Half - 1,
           Rearm(ticks), UNCHANGED stops
    PROVE  /\ nextEventCounter' \in Time /\ timeBase' \in Time
           /\ GetTick' = GetTick
           /\ TicksToNext' <= ticks
           /\ stopTimeValid => TicksToNext' <= Sub(stopTime, GetTick)
           /\ nextEventCounter' = 0 => stopTimeValid /\ GetTick = stopTime
           /\ nextEventCounter' = 0 \/ nextEventCounter' > Half
<1>1. stopTimeValid => Sub(stopTime, GetTick) < Half
  BY ClockFacts
<1>2. timeBase \in Time /\ nextEventCounter \in Time /\ stopTime \in Time
  BY DEF TypeOK
<1>3. /\ Horizon(ticks).counter \in Time /\ Horizon(ticks).base \in Time
      /\ Add(Horizon(ticks).base, Horizon(ticks).counter) = GetTick
      /\ Neg(Horizon(ticks).counter) <= ticks
      /\ stopTimeValid => Neg(Horizon(ticks).counter) <= Sub(stopTime, GetTick)
      /\ Horizon(ticks).counter = 0 => stopTimeValid /\ GetTick = stopTime
      /\ Horizon(ticks).counter = 0 \/ Horizon(ticks).counter > Half
  BY <1>1, <1>2, HorizonProperties
<1>4. nextEventCounter' = Horizon(ticks).counter /\ timeBase' = Horizon(ticks).base
  BY DEF Rearm
<1>5. GetTick' = Add(timeBase', nextEventCounter') /\ TicksToNext' = Neg(nextEventCounter')
  BY DEF GetTick, TicksToNext
<1> QED  BY <1>3, <1>4, <1>5

\* Re-arming keeps the clock's part of the invariant, for any wait that is not
\* longer than the one to the front of the new list.
LEMMA RearmKeepsClockInvariant ==
    ASSUME TypeOK, StopRespected, NEW ticks \in 1 .. Half - 1,
           Rearm(ticks), UNCHANGED <<loop, stops>>,
           activeEvents' # <<>> => /\ TicksToEvent(activeEvents[1])' \in Time
                                   /\ ticks <= TicksToEvent(activeEvents[1])'
    PROVE  CounterReachesNoEvent' /\ StopRespected'
<1>1. /\ GetTick' = GetTick
      /\ TicksToNext' <= ticks
      /\ stopTimeValid => TicksToNext' <= Sub(stopTime, GetTick)
      /\ nextEventCounter' = 0 => stopTimeValid /\ GetTick = stopTime
      /\ nextEventCounter' = 0 \/ nextEventCounter' > Half
      /\ nextEventCounter' \in Time
  BY RearmEffect DEF stops
<1>2. StopRespected'
  BY <1>1 DEF StopRespected, stops
<1>3. activeEvents' # <<>> => TicksToNext' <= TicksToEvent(activeEvents[1])'
  <2>1. TicksToNext' \in Time
    BY <1>1, WrapType DEF TicksToNext
  <2> QED  BY <1>1, <2>1, WidthAssumption DEF Time
<1>4. \/ nextEventCounter' >= Half
      \/ loop = "advance_n" /\ stopTimeValid /\ GetTick = stopTime
  BY <1>1, WidthAssumption DEF TypeOK, StopRespected, Loops, Time
<1>5. loop' = loop /\ stopTimeValid' = stopTimeValid /\ stopTime' = stopTime
  BY DEF stops
<1> QED  BY <1>1, <1>2, <1>3, <1>4, <1>5 DEF CounterReachesNoEvent

-----------------------------------------------------------------------------
(* The steps of clients. *)

\* The due time of a node armed for `ticks` ticks from now.
LEMMA ArmedDistance ==
    ASSUME NEW now \in Time, NEW ticks \in Ticks
    PROVE  Add(now, ticks) \in Time /\ Sub(Add(now, ticks), now) = ticks
BY WidthAssumption DEF Time, Ticks, Add, Sub

LEMMA AddEventStep ==
    ASSUME IInv, NEW c \in Clients, NEW ticks \in Ticks, AddEvent(c, ticks)
    PROVE  IInv'
<1> USE DEF IInv
<1>1. PICK e \in Events, i \in 1 .. Len(activeEvents) + 1 :
        /\ Allocate(e)
        /\ IsInsertPoint(activeEvents, i, ticks)
        /\ activeEvents' = InsertAt(activeEvents, i, e)
        /\ owner' = [owner EXCEPT ![e] = c]
        /\ nextTime' = [nextTime EXCEPT ![e] = Add(GetTick, ticks)]
        /\ ptr' = [ptr EXCEPT ![c] = e]
        /\ IF i = 1 THEN Rearm(ticks) ELSE UNCHANGED clock
  BY DEF AddEvent
<1>2. ptr[c] = Null /\ UNCHANGED <<loop, phase, stops>>
  BY DEF AddEvent
<1> DEFINE n == Len(activeEvents)
<1>3. /\ activeEvents' \in Seq(Events)
      /\ Len(activeEvents') = n + 1 /\ DOMAIN activeEvents' = 1 .. n + 1
      /\ \A j \in 1 .. n + 1 :
           activeEvents'[j] = IF j < i THEN activeEvents[j]
                              ELSE IF j = i THEN e ELSE activeEvents[j - 1]
  BY <1>1, InsertAtProperties, SMTT(30) DEF TypeOK
<1>n. /\ n \in Nat /\ i \in 1 .. n + 1 /\ DOMAIN activeEvents = 1 .. n
      /\ \A j \in 1 .. n : activeEvents[j] \in Events
  BY DEF TypeOK
<1>s. \A j, k \in 1 .. n : j < k =>
        TicksToEvent(activeEvents[j]) <= TicksToEvent(activeEvents[k])
  BY DEF Sorted
<1>m. \A j \in 1 .. n :
        TicksToEvent(activeEvents[j]) \in (IF phase = "run" THEN 1 ELSE 0) .. MaxTicks
  BY DEF NoEventMissed
<1> HIDE DEF n
<1>4. /\ \A j \in 1 .. n : activeEvents[j] \in Events \ {e}
      /\ freeEvents' \in Seq(Events) /\ allocated' \in SUBSET Events
      /\ IsInjective(freeEvents') /\ e \in allocated' /\ allocated \subseteq allocated'
      /\ \A j \in 1 .. Len(freeEvents') :
           freeEvents'[j] # e /\ freeEvents'[j] \in allocated /\ owner[freeEvents'[j]] = Null
  <2>1. CASE freeEvents # <<>>
    <3>1. e = freeEvents[1] /\ freeEvents' = Tail(freeEvents) /\ allocated' = allocated
      BY <1>1, <2>1 DEF Allocate
    <3>2. /\ 1 \in 1 .. Len(freeEvents) /\ freeEvents' \in Seq(Events)
          /\ Len(freeEvents') = Len(freeEvents) - 1
          /\ \A j \in 1 .. Len(freeEvents') : freeEvents'[j] = freeEvents[j + 1]
      BY <2>1, <3>1 DEF TypeOK
    <3> QED
      <4>1. e \in allocated /\ owner[e] = Null
        BY <3>1, <3>2 DEF PointersOwned, TypeOK
      <4>2. \A j \in 1 .. n : activeEvents[j] \in Events \ {e}
        BY <1>n, <4>1, NullAssumption DEF PointersOwned
      <4>f. /\ Len(freeEvents) \in Nat /\ DOMAIN freeEvents' = 1 .. Len(freeEvents')
            /\ \A j \in 1 .. Len(freeEvents) :
                 freeEvents[j] \in allocated /\ owner[freeEvents[j]] = Null
            /\ \A j, k \in 1 .. Len(freeEvents) : freeEvents[j] = freeEvents[k] => j = k
        <5>1. Len(freeEvents) \in Nat /\ DOMAIN freeEvents = 1 .. Len(freeEvents)
          BY DEF TypeOK
        <5>2. DOMAIN freeEvents' = 1 .. Len(freeEvents')
          BY <3>2
        <5> QED  BY <5>1, <5>2 DEF PointersOwned, IsInjective
      <4>3. \A j \in 1 .. Len(freeEvents') :
              freeEvents'[j] # e /\ freeEvents'[j] \in allocated /\ owner[freeEvents'[j]] = Null
        BY <3>1, <3>2, <4>f
      <4>4. IsInjective(freeEvents')
        BY <3>2, <4>f DEF IsInjective
      <4> QED  BY <3>1, <3>2, <4>1, <4>2, <4>3, <4>4 DEF TypeOK
  <2>2. CASE freeEvents = <<>>
    <3>1. e \notin allocated /\ freeEvents' = freeEvents /\ allocated' = allocated \union {e}
      BY <1>1, <2>2 DEF Allocate
    <3>2. \A j \in 1 .. n : activeEvents[j] \in Events \ {e}
      BY <1>n, <3>1 DEF PointersOwned
    <3>3. DOMAIN freeEvents = {} /\ Len(freeEvents) = 0
      BY <2>2
    <3> QED  BY <2>2, <3>1, <3>2, <3>3 DEF TypeOK, PointersOwned
  <2> QED  BY <2>1, <2>2
<1>5. /\ GetTick \in Time /\ ticks \in 1 .. Half - 1
      /\ \A x \in Events : TicksToEvent(x) \in Time
  BY ClockFacts, WidthAssumption DEF Ticks
<1>6. GetTick' = GetTick /\ nextEventCounter' \in Time /\ timeBase' \in Time
  <2>1. CASE i = 1
    BY <1>1, <1>2, <1>5, <2>1, RearmEffect
  <2>2. CASE i # 1
    BY <1>1, <2>2 DEF clock, GetTick, TypeOK
  <2> QED  BY <2>1, <2>2
<1>7. TicksToEvent(e)' = ticks /\ \A x \in Events \ {e} : TicksToEvent(x)' = TicksToEvent(x)
  BY <1>1, <1>5, <1>6, ArmedDistance DEF TicksToEvent, TypeOK
<1>8. TypeOK'
  <2>1. nextTime' \in [Events -> Time]
    BY <1>1, <1>5, ArmedDistance DEF TypeOK
  <2> QED  BY <1>1, <1>2, <1>3, <1>4, <1>6, <2>1 DEF TypeOK, stops
<1>9. PointersOwned'
  <2>1. IsInjective(activeEvents')
    <3>1. \A j, k \in 1 .. n : activeEvents[j] = activeEvents[k] => j = k
      BY <1>n DEF PointersOwned, IsInjective
    <3>2. \A j \in 1 .. n : activeEvents[j] # e
      BY <1>4
    <3>3. ASSUME NEW j \in 1 .. n + 1, NEW k \in 1 .. n + 1, activeEvents'[j] = activeEvents'[k]
          PROVE  j = k
      BY <1>3, <1>n, <3>1, <3>2, <3>3
    <3> QED  BY <1>3, <3>3 DEF IsInjective
  <2>2. ASSUME NEW j \in DOMAIN activeEvents'
        PROVE  LET x == activeEvents'[j]
               IN x \in allocated' /\ owner'[x] \in Clients /\ ptr'[owner'[x]] = x
    <3>1. CASE j = i
      BY <1>1, <1>3, <1>4, <3>1 DEF TypeOK
    <3>2. CASE j # i
      <4>1. PICK k \in 1 .. n : activeEvents'[j] = activeEvents[k]
        <5>1. CASE j < i
          BY <1>3, <1>n, <2>2, <5>1
        <5>2. CASE j > i
          <6>1. j - 1 \in 1 .. n /\ activeEvents'[j] = activeEvents[j - 1]
            BY <1>3, <1>n, <2>2, <5>2
          <6> QED  BY <6>1
        <5> QED  BY <1>3, <1>n, <2>2, <3>2, <5>1, <5>2
      <4> DEFINE x == activeEvents[k]
      <4>2. x \in allocated /\ owner[x] \in Clients /\ ptr[owner[x]] = x /\ x \in Events /\ x # e
        BY <1>4, <1>n, <4>1 DEF PointersOwned
      <4>3. owner'[x] = owner[x] /\ owner[x] # c
        BY <1>1, <1>2, <4>2, NullAssumption DEF TypeOK
      <4> QED  BY <1>1, <1>4, <4>1, <4>2, <4>3 DEF TypeOK
    <3> QED  BY <3>1, <3>2
  <2>3. \A j \in DOMAIN freeEvents' :
          freeEvents'[j] \in allocated' /\ owner'[freeEvents'[j]] = Null
    BY <1>1, <1>4 DEF TypeOK
  <2>4. ASSUME NEW d \in Clients, ptr'[d] # Null
        PROVE  owner'[ptr'[d]] = d /\ \E j \in DOMAIN activeEvents' : activeEvents'[j] = ptr'[d]
    <3>1. CASE d = c
      BY <1>1, <1>3, <1>n, <3>1 DEF TypeOK
    <3>2. CASE d # c
      <4>1. ptr'[d] = ptr[d]
        BY <1>1, <3>2 DEF TypeOK
      <4>2. PICK k \in 1 .. n : activeEvents[k] = ptr[d] /\ owner[ptr[d]] = d
        BY <1>n, <2>4, <4>1 DEF PointersOwned
      <4>3. \E j \in 1 .. n + 1 : activeEvents'[j] = activeEvents[k]
        <5>1. CASE k < i
          BY <1>3, <1>n, <5>1
        <5>2. CASE k >= i
          <6>1. k + 1 \in 1 .. n + 1 /\ activeEvents'[k + 1] = activeEvents[k]
            BY <1>3, <1>n, <5>2
          <6> QED  BY <6>1
        <5> QED  BY <5>1, <5>2
      <4> QED  BY <1>1, <1>3, <1>4, <4>1, <4>2, <4>3 DEF TypeOK
    <3> QED  BY <3>1, <3>2
  <2> QED  BY <1>4, <2>1, <2>2, <2>3, <2>4 DEF PointersOwned, IsInjective
<1>10. /\ \A j \in 1 .. i - 1 : TicksToEvent(activeEvents[j]) <= ticks
       /\ \A j \in i .. n : ticks < TicksToEvent(activeEvents[j])
  <2>1. \A j \in 1 .. i - 1 : TicksToEvent(activeEvents[j]) <= ticks
    BY <1>1 DEF IsInsertPoint
  <2>2. ASSUME NEW j \in i .. n
        PROVE  ticks < TicksToEvent(activeEvents[j])
    <3>1. i <= n /\ ticks < TicksToEvent(activeEvents[i])
      BY <1>1, <1>n, <2>2 DEF IsInsertPoint, n
    <3>2. TicksToEvent(activeEvents[i]) <= TicksToEvent(activeEvents[j])
      <4>1. TicksToEvent(activeEvents[i]) \in Nat
        BY <1>4, <1>5, <1>n, <2>2, WidthAssumption DEF Time
      <4> QED  BY <1>n, <1>s, <2>2, <4>1
    <3>3. TicksToEvent(activeEvents[i]) \in Time /\ TicksToEvent(activeEvents[j]) \in Time
      BY <1>4, <1>5, <1>n, <2>2
    <3> QED  BY <3>1, <3>2, <3>3, WidthAssumption DEF Time, Ticks
  <2> QED  BY <2>1, <2>2
<1>11. \A j \in 1 .. n + 1 :
         TicksToEvent(activeEvents[j])' =
           IF j < i THEN TicksToEvent(activeEvents[j])
           ELSE IF j = i THEN ticks ELSE TicksToEvent(activeEvents[j - 1])
  <2> SUFFICES ASSUME NEW j \in 1 .. n + 1
               PROVE  TicksToEvent(activeEvents[j])' =
                        IF j < i THEN TicksToEvent(activeEvents[j])
                        ELSE IF j = i THEN ticks ELSE TicksToEvent(activeEvents[j - 1])
    OBVIOUS
  <2>1. CASE j < i
    BY <1>3, <1>4, <1>7, <1>n, <2>1
  <2>2. CASE j = i
    BY <1>3, <1>7, <2>2
  <2>3. CASE j > i
    BY <1>3, <1>4, <1>7, <1>n, <2>3
  <2> QED  BY <1>n, <2>1, <2>2, <2>3
<1>12. Sorted'
  <2> SUFFICES ASSUME NEW j \in 1 .. n + 1,
                      NEW k \in 1 .. n + 1, j < k
               PROVE  TicksToEvent(activeEvents[j])' <= TicksToEvent(activeEvents[k])'
    BY <1>3 DEF Sorted
  <2>1. ticks \in Nat /\ \A x \in 1 .. n : TicksToEvent(activeEvents[x]) \in Nat
    BY <1>4, <1>5, WidthAssumption DEF Time, Ticks
  <2> QED  BY <1>10, <1>11, <1>n, <1>s, <2>1, SMTT(30)
<1>13. NoEventMissed'
  <2>1. phase' = phase /\ ticks \in 1 .. MaxTicks
    BY <1>2 DEF Ticks
  <2> SUFFICES ASSUME NEW j \in 1 .. n + 1
               PROVE  TicksToEvent(activeEvents[j])' \in (IF phase = "run" THEN 1 ELSE 0) .. MaxTicks
    BY <1>3, <2>1 DEF NoEventMissed
  <2>2. ticks \in (IF phase = "run" THEN 1 ELSE 0) .. MaxTicks
    BY <2>1
  <2> QED  BY <1>11, <1>m, <1>n, <2>2
<1>14. CounterReachesNoEvent' /\ StopRespected'
  <2>1. CASE i = 1
    <3>1. activeEvents' # <<>> => TicksToEvent(activeEvents[1])' = ticks
      BY <1>3, <1>7, <2>1 DEF TypeOK
    <3>2. ticks \in Time
      BY WidthAssumption DEF Time, Ticks
    <3> QED  BY <1>1, <1>2, <1>5, <2>1, <3>1, <3>2, RearmKeepsClockInvariant
  <2>2. CASE i # 1
    <3>1. UNCHANGED clock /\ n > 0 /\ activeEvents # <<>>
      BY <1>1, <1>n, <2>2 DEF n
    <3>2. TicksToEvent(activeEvents[1])' = TicksToEvent(activeEvents[1])
      BY <1>11, <1>n, <2>2, <3>1 DEF n
    <3> QED
      BY <1>2, <1>6, <3>1, <3>2 DEF CounterReachesNoEvent, StopRespected, clock, stops, TicksToNext
  <2> QED  BY <2>1, <2>2
<1> QED  BY <1>8, <1>9, <1>12, <1>13, <1>14

\* What is left of the list when node k is unlinked.
LEMMA Unlinked ==
    ASSUME IInv, NEW k \in 1 .. Len(activeEvents)
    PROVE  LET n == Len(activeEvents)
               e == activeEvents[k]
               q == RemoveAt(activeEvents, k)
           IN /\ n \in Nat /\ e \in Events
              /\ q \in Seq(Events) /\ Len(q) = n - 1 /\ DOMAIN q = 1 .. n - 1
              /\ \A j \in 1 .. n - 1 :
                   q[j] \in Events /\ q[j] # e
                   /\ q[j] = activeEvents[IF j < k THEN j ELSE j + 1]
              /\ \A i, j \in 1 .. n - 1 : q[i] = q[j] => i = j
              /\ \A j \in 1 .. n : j # k => \E i \in 1 .. n - 1 : q[i] = activeEvents[j]
              /\ \A i, j \in 1 .. n - 1 : i < j => TicksToEvent(q[i]) <= TicksToEvent(q[j])
              /\ \A j \in 1 .. n - 1 :
                   TicksToEvent(q[j]) \in (IF phase = "run" THEN 1 ELSE 0) .. MaxTicks
              /\ \A j \in 1 .. n - 1 : k = 1 => TicksToEvent(e) <= TicksToEvent(q[j])
<1> USE DEF IInv
<1> DEFINE n == Len(activeEvents)
           e == activeEvents[k]
           q == RemoveAt(activeEvents, k)
<1>1. /\ n \in Nat /\ k \in 1 .. n /\ DOMAIN activeEvents = 1 .. n
      /\ \A j \in 1 .. n : activeEvents[j] \in Events
  BY DEF TypeOK
<1>2. /\ q \in Seq(Events) /\ Len(q) = n - 1 /\ DOMAIN q = 1 .. n - 1
      /\ \A j \in 1 .. n - 1 : q[j] = IF j < k THEN activeEvents[j] ELSE activeEvents[j + 1]
  BY RemoveAtProperties DEF TypeOK
<1>3. \A i, j \in 1 .. n : activeEvents[i] = activeEvents[j] => i = j
  BY <1>1 DEF PointersOwned, IsInjective
<1>4. /\ \A i, j \in 1 .. n : i < j => TicksToEvent(activeEvents[i]) <= TicksToEvent(activeEvents[j])
      /\ \A j \in 1 .. n :
           TicksToEvent(activeEvents[j]) \in (IF phase = "run" THEN 1 ELSE 0) .. MaxTicks
  BY DEF Sorted, NoEventMissed
<1> HIDE DEF n, e, q
<1>5. \A j \in 1 .. n - 1 :
         /\ (IF j < k THEN j ELSE j + 1) \in (1 .. n) \ {k}
         /\ q[j] = activeEvents[IF j < k THEN j ELSE j + 1]
  BY <1>1, <1>2
<1>6. \A j \in 1 .. n - 1 : q[j] \in Events /\ q[j] # e
  BY <1>1, <1>3, <1>5 DEF e
<1>7. \A i, j \in 1 .. n - 1 : q[i] = q[j] => i = j
  BY <1>1, <1>3, <1>5
<1>8. ASSUME NEW j \in 1 .. n, j # k
      PROVE  \E i \in 1 .. n - 1 : q[i] = activeEvents[j]
  <2>1. CASE j < k
    BY <1>1, <1>2, <2>1, SMTT(30)
  <2>2. CASE j > k
    <3>1. j - 1 \in 1 .. n - 1 /\ q[j - 1] = activeEvents[j]
      BY <1>1, <1>2, <2>2
    <3> QED  BY <3>1
  <2> QED  BY <1>1, <1>8, <2>1, <2>2
<1>9. \A i, j \in 1 .. n - 1 : i < j => TicksToEvent(q[i]) <= TicksToEvent(q[j])
  BY <1>1, <1>4, <1>5
<1>10. \A j \in 1 .. n - 1 :
         TicksToEvent(q[j]) \in (IF phase = "run" THEN 1 ELSE 0) .. MaxTicks
  BY <1>4, <1>5
<1>11. \A j \in 1 .. n - 1 : k = 1 => TicksToEvent(e) <= TicksToEvent(q[j])
  BY <1>1, <1>4, <1>5 DEF e
<1> QED
  BY <1>1, <1>2, <1>5, <1>6, <1>7, <1>8, <1>9, <1>10, <1>11 DEF n, e, q

\* A wait for the front of a list whose events are all ahead.
LEMMA TimeToNextRange ==
    ASSUME TypeOK, StopRespected, NEW q \in Seq(Events),
           q # <<>> => TicksToEvent(q[1]) >= 1
    PROVE  /\ TimeToNext(q) \in 1 .. Half - 1
           /\ q # <<>> => TimeToNext(q) <= TicksToEvent(q[1])
<1>1. q # <<>> => q[1] \in Events /\ TicksToEvent(q[1]) \in Nat
  BY ClockFacts, WidthAssumption DEF Time
<1> QED  BY <1>1, WidthAssumption DEF TimeToNext


\* Unlinking a node moves neither the time nor the counter's end past an event,
\* when the front of the new list is the front of what is left.
LEMMA RemovalKeepsClockInvariant ==
    ASSUME IInv, NEW k \in 1 .. Len(activeEvents),
           NEW q, q = RemoveAt(activeEvents, k),
           RearmAfterRemoval(k, activeEvents[k], q),
           UNCHANGED <<loop, phase, stops>>,
           activeEvents' # <<>> => /\ q # <<>> /\ activeEvents'[1] = q[1]
                                   /\ nextTime'[q[1]] = nextTime[q[1]]
    PROVE  /\ GetTick' = GetTick
           /\ nextEventCounter' \in Time /\ timeBase' \in Time
           /\ CounterReachesNoEvent' /\ StopRespected'
<1> USE DEF IInv
<1> DEFINE n == Len(activeEvents)
           e == activeEvents[k]
<1>1. /\ n \in Nat /\ k \in 1 .. n /\ e \in Events
      /\ q \in Seq(Events) /\ Len(q) = n - 1
      /\ \A j \in 1 .. n - 1 :
           q[j] \in Events /\ q[j] = activeEvents[IF j < k THEN j ELSE j + 1]
      /\ \A j \in 1 .. n - 1 : k = 1 => TicksToEvent(e) <= TicksToEvent(q[j])
  BY Unlinked, ZenonT(60)
<1>2. /\ TicksToEvent(e) \in Time /\ nextTime[e] \in Time /\ GetTick \in Time
      /\ phase = "run" => TicksToEvent(e) # 0
      /\ nextEventCounter \in Time /\ timeBase \in Time
  BY <1>1, ClockFacts DEF NoEventMissed, TypeOK
<1>3. q # <<>> => /\ n - 1 \in Nat \ {0} /\ q[1] \in Events /\ TicksToEvent(q[1]) \in Time
  BY <1>1, ClockFacts
<1>4. GetTick' = GetTick /\ activeEvents' # <<>> =>
        TicksToEvent(activeEvents[1])' = TicksToEvent(q[1])
  BY DEF TicksToEvent
<1> HIDE DEF n, e
<1>5. CASE k = 1 /\ nextTime[e] # GetTick
  <2>1. Rearm(TimeToNext(q))
    BY <1>5 DEF RearmAfterRemoval, e
  <2>2. TicksToEvent(e) >= 1
    BY <1>2, <1>5, WidthAssumption DEF TicksToEvent, Sub, Time
  <2>3. q # <<>> => TicksToEvent(q[1]) >= 1
    BY <1>1, <1>2, <1>3, <1>5, <2>2, WidthAssumption DEF Time
  <2>4. /\ TimeToNext(q) \in 1 .. Half - 1
        /\ q # <<>> => TimeToNext(q) <= TicksToEvent(q[1])
    BY <1>1, <2>3, TimeToNextRange
  <2>5. GetTick' = GetTick /\ nextEventCounter' \in Time /\ timeBase' \in Time
    BY <2>1, <2>4, RearmEffect
  <2>6. activeEvents' # <<>> => /\ TicksToEvent(activeEvents[1])' \in Time
                                /\ TimeToNext(q) <= TicksToEvent(activeEvents[1])'
    BY <1>3, <1>4, <2>4, <2>5
  <2> QED  BY <2>1, <2>4, <2>5, <2>6, RearmKeepsClockInvariant
<1>6. CASE ~ (k = 1 /\ nextTime[e] # GetTick)
  <2>1. UNCHANGED clock
    BY <1>6 DEF RearmAfterRemoval, e
  <2>2. GetTick' = GetTick /\ TicksToNext' = TicksToNext
    BY <2>1 DEF clock, GetTick, TicksToNext
  <2>3. StopRespected'
    BY <2>2 DEF StopRespected, stops
  <2>4. CounterReachesNoEvent'
    <3>1. CASE phase = "run"
      <4>1. k # 1
        BY <1>2, <1>6, <3>1, WidthAssumption DEF TicksToEvent, Sub, Time
      <4>2. activeEvents' # <<>> =>
              q[1] = activeEvents[1] /\ TicksToEvent(activeEvents[1])' = TicksToEvent(activeEvents[1])
        BY <1>1, <1>3, <1>4, <2>2, <4>1
      <4>3. activeEvents # <<>>
        BY <1>1 DEF n
      <4> QED  BY <2>1, <2>2, <4>2, <4>3 DEF CounterReachesNoEvent, clock, stops
    <3>2. CASE phase # "run"
      BY <3>2 DEF CounterReachesNoEvent
    <3> QED  BY <3>1, <3>2
  <2> QED  BY <1>2, <2>1, <2>2, <2>3, <2>4 DEF clock
<1> QED  BY <1>5, <1>6

\* Unlinking node k, freeing it and nulling its owner's pointer, at a standing
\* clock: common to UnsetEvent and Fire.
LEMMA FreeNode ==
    ASSUME IInv, NEW k \in 1 .. Len(activeEvents),
           activeEvents' = RemoveAt(activeEvents, k),
           owner' = [owner EXCEPT ![activeEvents[k]] = Null],
           nextTime' = [nextTime EXCEPT ![activeEvents[k]] = 0],
           freeEvents' = <<activeEvents[k]>> \o freeEvents,
           ptr' = [ptr EXCEPT ![owner[activeEvents[k]]] = Null],
           UNCHANGED allocated, GetTick' = GetTick
    PROVE  /\ activeEvents' \in Seq(Events) /\ freeEvents' \in Seq(Events)
           /\ owner' \in [Events -> Clients \union {Null}]
           /\ nextTime' \in [Events -> Time]
           /\ ptr' \in [Clients -> Events \union {Null}]
           /\ PointersOwned' /\ Sorted'
           /\ \A j \in 1 .. Len(activeEvents') :
                TicksToEvent(activeEvents[j])' \in (IF phase = "run" THEN 1 ELSE 0) .. MaxTicks
<1> USE DEF IInv
<1> DEFINE n == Len(activeEvents)
           e == activeEvents[k]
           c == owner[e]
           q == RemoveAt(activeEvents, k)
<1>3. /\ n \in Nat /\ e \in Events
      /\ q \in Seq(Events) /\ Len(q) = n - 1 /\ DOMAIN q = 1 .. n - 1
      /\ \A j \in 1 .. n - 1 :
           q[j] \in Events /\ q[j] # e /\ q[j] = activeEvents[IF j < k THEN j ELSE j + 1]
      /\ \A i, j \in 1 .. n - 1 : q[i] = q[j] => i = j
      /\ \A j \in 1 .. n : j # k => \E i \in 1 .. n - 1 : q[i] = activeEvents[j]
      /\ \A i, j \in 1 .. n - 1 : i < j => TicksToEvent(q[i]) <= TicksToEvent(q[j])
      /\ \A j \in 1 .. n - 1 :
           TicksToEvent(q[j]) \in (IF phase = "run" THEN 1 ELSE 0) .. MaxTicks
  BY Unlinked
<1>4. /\ DOMAIN activeEvents = 1 .. n /\ k \in 1 .. n /\ activeEvents' = q
  BY DEF TypeOK
<1>5. \A x \in Events \ {e} : nextTime'[x] = nextTime[x] /\ owner'[x] = owner[x]
  BY DEF TypeOK
<1>o. e \in allocated /\ c \in Clients /\ ptr[c] = e
  BY <1>4 DEF PointersOwned
<1>1. /\ owner' = [owner EXCEPT ![e] = Null] /\ nextTime' = [nextTime EXCEPT ![e] = 0]
      /\ freeEvents' = <<e>> \o freeEvents /\ ptr' = [ptr EXCEPT ![c] = Null]
      /\ owner[e] = c
  OBVIOUS
<1> HIDE DEF n, q, c, e
<1>8. \A j \in 1 .. n - 1 : TicksToEvent(activeEvents[j])' = TicksToEvent(q[j])
  BY <1>3, <1>4, <1>5 DEF TicksToEvent
<1>9. /\ activeEvents' \in Seq(Events) /\ freeEvents' \in Seq(Events)
      /\ owner' \in [Events -> Clients \union {Null}]
      /\ nextTime' \in [Events -> Time]
      /\ ptr' \in [Clients -> Events \union {Null}]
  <2>1. 0 \in Time
    BY WidthAssumption DEF Time
  <2>2. freeEvents' \in Seq(Events)
    BY <1>1, <1>3 DEF TypeOK
  <2>3. e \in Events /\ c \in Clients
    BY <1>3, <1>o
  <2> QED  BY <1>1, <1>3, <1>4, <2>1, <2>2, <2>3 DEF TypeOK
<1>10. PointersOwned'
  <2>1. IsInjective(activeEvents')
    BY <1>3, <1>4 DEF IsInjective
  <2>f. /\ Len(freeEvents) \in Nat
        /\ \A j \in 1 .. Len(freeEvents) :
             freeEvents[j] \in allocated /\ owner[freeEvents[j]] = Null
        /\ \A i, j \in 1 .. Len(freeEvents) : freeEvents[i] = freeEvents[j] => i = j
    <3>1. DOMAIN freeEvents = 1 .. Len(freeEvents) /\ Len(freeEvents) \in Nat
      BY DEF TypeOK
    <3> QED  BY <3>1 DEF PointersOwned, IsInjective
  <2>g. /\ DOMAIN freeEvents' = 1 .. Len(freeEvents) + 1
        /\ \A j \in 1 .. Len(freeEvents) + 1 :
             freeEvents'[j] = IF j = 1 THEN e ELSE freeEvents[j - 1]
        /\ \A j \in 1 .. Len(freeEvents) : freeEvents[j] \in Events
    BY <1>1, <1>3 DEF TypeOK
  <2>h. \A j \in 1 .. Len(freeEvents) : freeEvents[j] # e
    BY <2>f, <1>o, <1>1, NullAssumption
  <2>2. IsInjective(freeEvents')
    <3>1. ASSUME NEW i \in 1 .. Len(freeEvents) + 1, NEW j \in 1 .. Len(freeEvents) + 1,
                 freeEvents'[i] = freeEvents'[j]
          PROVE  i = j
      BY <2>f, <2>g, <2>h, <3>1
    <3> QED  BY <2>g, <3>1 DEF IsInjective
  <2>3. ASSUME NEW j \in DOMAIN activeEvents'
        PROVE  LET x == activeEvents'[j]
               IN x \in allocated' /\ owner'[x] \in Clients /\ ptr'[owner'[x]] = x
    <3>1. PICK i \in 1 .. n : activeEvents'[j] = activeEvents[i]
      BY <1>3, <1>4, <2>3
    <3> DEFINE x == activeEvents[i]
    <3>2. x # e /\ x \in Events
      BY <1>3, <1>4, <2>3, <3>1
    <3>3. x \in allocated /\ owner[x] \in Clients /\ ptr[owner[x]] = x
      BY <1>4, <3>1 DEF PointersOwned
    <3>4. owner[x] # c
      BY <1>o, <3>2, <3>3
    <3> QED  BY <1>1, <1>5, <3>1, <3>2, <3>3, <3>4 DEF TypeOK
  <2>4. ASSUME NEW j \in DOMAIN freeEvents'
        PROVE  freeEvents'[j] \in allocated' /\ owner'[freeEvents'[j]] = Null
    <3>1. CASE j = 1
      BY <1>1, <1>3, <1>o, <2>g, <3>1 DEF TypeOK
    <3>2. CASE j # 1
      <4>1. j - 1 \in 1 .. Len(freeEvents) /\ freeEvents'[j] = freeEvents[j - 1]
        BY <2>4, <2>f, <2>g, <3>2
      <4> QED  BY <1>5, <2>f, <2>g, <2>h, <4>1
    <3> QED  BY <3>1, <3>2
  <2>5. ASSUME NEW d \in Clients, ptr'[d] # Null
        PROVE  owner'[ptr'[d]] = d /\ \E j \in DOMAIN activeEvents' : activeEvents'[j] = ptr'[d]
    <3>1. d # c /\ ptr'[d] = ptr[d]
      BY <1>1, <2>5 DEF TypeOK
    <3>2. PICK j \in 1 .. n : activeEvents[j] = ptr[d] /\ owner[ptr[d]] = d
      BY <1>4, <2>5, <3>1 DEF PointersOwned
    <3>3. ptr[d] # e
      BY <1>1, <3>1, <3>2
    <3>4. PICK i \in 1 .. n - 1 : q[i] = ptr[d]
      <4>1. j # k
        BY <3>2, <3>3 DEF e
      <4> QED  BY <1>3, <3>2, <4>1
    <3>5. ptr[d] \in Events /\ owner'[ptr[d]] = d
      <4>1. ptr[d] \in Events
        BY <1>3, <3>4
      <4> QED  BY <1>5, <3>2, <3>3, <4>1
    <3>6. i \in DOMAIN activeEvents' /\ activeEvents'[i] = ptr[d]
      <4>1. DOMAIN q = 1 .. n - 1
        BY <1>3
      <4> QED  BY <1>4, <3>4, <4>1
    <3> QED  BY <3>1, <3>5, <3>6
  <2> QED  BY <2>1, <2>2, <2>3, <2>4, <2>5 DEF PointersOwned
<1>11. Sorted'
  BY <1>3, <1>4, <1>8 DEF Sorted
<1>12. \A j \in 1 .. Len(activeEvents') :
         TicksToEvent(activeEvents[j])' \in (IF phase = "run" THEN 1 ELSE 0) .. MaxTicks
  BY <1>3, <1>4, <1>8
<1> QED  BY <1>9, <1>10, <1>11, <1>12

LEMMA UnsetEventStep ==
    ASSUME IInv, NEW c \in Clients, UnsetEvent(c)
    PROVE  IInv'
<1> USE DEF IInv
<1>1. PICK k \in 1 .. Len(activeEvents) :
        /\ activeEvents[k] = ptr[c]
        /\ activeEvents' = RemoveAt(activeEvents, k)
        /\ owner' = [owner EXCEPT ![activeEvents[k]] = Null]
        /\ nextTime' = [nextTime EXCEPT ![activeEvents[k]] = 0]
        /\ freeEvents' = <<activeEvents[k]>> \o freeEvents
        /\ ptr' = [ptr EXCEPT ![c] = Null]
        /\ RearmAfterRemoval(k, activeEvents[k], RemoveAt(activeEvents, k))
  BY DEF UnsetEvent
<1>2. UNCHANGED <<loop, phase, allocated, stops>>
  BY DEF UnsetEvent
<1> DEFINE e == activeEvents[k]
           q == RemoveAt(activeEvents, k)
<1>3. e \in Events /\ owner[e] = c
  <2>1. e \in Events
    BY DEF TypeOK
  <2>2. ptr[c] # Null
    BY <1>1, <2>1, NullAssumption
  <2> QED  BY <1>1, <2>1, <2>2 DEF PointersOwned
<1>4. q # <<>> => q[1] \in Events \ {e}
  BY Unlinked
<1>5. activeEvents' # <<>> => q # <<>> /\ activeEvents'[1] = q[1] /\ nextTime'[q[1]] = nextTime[q[1]]
  BY <1>1, <1>3, <1>4 DEF TypeOK
<1>6. /\ GetTick' = GetTick
      /\ nextEventCounter' \in Time /\ timeBase' \in Time
      /\ CounterReachesNoEvent' /\ StopRespected'
  BY <1>1, <1>2, <1>5, RemovalKeepsClockInvariant
<1>7. /\ activeEvents' \in Seq(Events) /\ freeEvents' \in Seq(Events)
      /\ owner' \in [Events -> Clients \union {Null}]
      /\ nextTime' \in [Events -> Time]
      /\ ptr' \in [Clients -> Events \union {Null}]
      /\ PointersOwned' /\ Sorted'
      /\ \A j \in 1 .. Len(activeEvents') :
           TicksToEvent(activeEvents[j])' \in (IF phase = "run" THEN 1 ELSE 0) .. MaxTicks
  BY <1>1, <1>2, <1>3, <1>6, FreeNode
<1> HIDE DEF e, q
<1>8. TypeOK'
  BY <1>2, <1>6, <1>7 DEF TypeOK, stops
<1>9. NoEventMissed'
  BY <1>2, <1>7 DEF NoEventMissed
<1> QED  BY <1>6, <1>7, <1>8, <1>9

-----------------------------------------------------------------------------
(* The steps of ProcessNextEvent. *)

LEMMA FireStep ==
    ASSUME IInv, Fire
    PROVE  IInv'
<1> USE DEF IInv
<1> DEFINE n == Len(activeEvents)
           e == activeEvents[1]
<1>1. /\ phase = "process" /\ activeEvents # <<>>
      /\ owner' = [owner EXCEPT ![e] = Null]
      /\ nextTime' = [nextTime EXCEPT ![e] = 0]
      /\ freeEvents' = <<e>> \o freeEvents
      /\ ptr' = [ptr EXCEPT ![owner[e]] = Null]
      /\ activeEvents' = Tail(activeEvents)
      /\ phase' = "callback"
      /\ UNCHANGED <<loop, clock, allocated, stops>>
  BY DEF Fire, PtrForgotten
<1>2. 1 \in 1 .. n /\ n \in Nat
  BY <1>1 DEF TypeOK
<1>3. activeEvents' = RemoveAt(activeEvents, 1)
  <2> DEFINE t == Tail(activeEvents)
             q == RemoveAt(activeEvents, 1)
  <2>1. /\ t \in Seq(Events) /\ Len(t) = n - 1
        /\ \A j \in 1 .. n - 1 : t[j] = activeEvents[j + 1]
    BY <1>1 DEF TypeOK
  <2>2. /\ q \in Seq(Events) /\ Len(q) = n - 1
        /\ \A j \in 1 .. n - 1 : q[j] = activeEvents[j + 1]
    <3>1. /\ q \in Seq(Events) /\ Len(q) = n - 1
          /\ \A j \in 1 .. n - 1 : q[j] = IF j < 1 THEN activeEvents[j] ELSE activeEvents[j + 1]
      BY <1>2, RemoveAtProperties DEF TypeOK
    <3> QED  BY <3>1
  <2> HIDE DEF t, q
  <2>3. t = q
    BY <1>2, <2>1, <2>2
  <2> QED  BY <1>1, <2>3 DEF t, q
<1>4. GetTick' = GetTick
  BY <1>1 DEF clock, GetTick
<1>5. /\ activeEvents' \in Seq(Events) /\ freeEvents' \in Seq(Events)
      /\ owner' \in [Events -> Clients \union {Null}]
      /\ nextTime' \in [Events -> Time]
      /\ ptr' \in [Clients -> Events \union {Null}]
      /\ PointersOwned' /\ Sorted'
      /\ \A j \in 1 .. Len(activeEvents') :
           TicksToEvent(activeEvents[j])' \in (IF phase = "run" THEN 1 ELSE 0) .. MaxTicks
  BY <1>1, <1>2, <1>3, <1>4, FreeNode
<1>6. TypeOK'
  BY <1>1, <1>5 DEF TypeOK, clock, stops
<1>7. NoEventMissed'
  BY <1>1, <1>5 DEF NoEventMissed
<1>8. CounterReachesNoEvent' /\ StopRespected'
  BY <1>1, <1>4 DEF CounterReachesNoEvent, StopRespected, stops
<1> QED  BY <1>5, <1>6, <1>7, <1>8

\* Steps that change neither the clock nor the list nor the stop time.
LEMMA QueueUnchanged ==
    ASSUME UNCHANGED <<clock, queue>>
    PROVE  /\ PointersOwned <=> PointersOwned'
           /\ Sorted <=> Sorted'
           /\ GetTick' = GetTick
           /\ activeEvents' = activeEvents
           /\ \A i \in 1 .. Len(activeEvents) :
                TicksToEvent(activeEvents[i])' = TicksToEvent(activeEvents[i])
BY DEF clock, queue, PointersOwned, Sorted, GetTick, TicksToEvent

LEMMA CallbackReturnsStep ==
    ASSUME IInv, CallbackReturns
    PROVE  IInv'
<1>1. /\ phase = "callback" /\ phase' = "process"
      /\ UNCHANGED <<loop, clock, queue, stops>>
  BY DEF CallbackReturns
<1>2. TypeOK'
  BY <1>1 DEF IInv, TypeOK, clock, queue, stops
<1>3. NoEventMissed'
  BY <1>1, QueueUnchanged DEF IInv, NoEventMissed
<1>4. CounterReachesNoEvent' /\ StopRespected'
  BY <1>1, QueueUnchanged DEF IInv, CounterReachesNoEvent, StopRespected, stops
<1> QED  BY <1>1, <1>2, <1>3, <1>4, QueueUnchanged DEF IInv

LEMMA FinishProcessingStep ==
    ASSUME IInv, FinishProcessing
    PROVE  IInv'
<1> USE DEF IInv
<1> DEFINE ticks == TimeToNext(activeEvents)
<1>1. /\ phase = "process" /\ phase' = "run"
      /\ activeEvents # <<>> => TicksToEvent(activeEvents[1]) # 0
      /\ Rearm(ticks)
      /\ UNCHANGED <<loop, queue, stops>>
  BY DEF FinishProcessing
<1>2. /\ Len(activeEvents) \in Nat
      /\ \A j \in 1 .. Len(activeEvents) :
           /\ activeEvents[j] \in Events
           /\ TicksToEvent(activeEvents[j]) \in 0 .. MaxTicks
      /\ \A i, j \in 1 .. Len(activeEvents) :
           i < j => TicksToEvent(activeEvents[i]) <= TicksToEvent(activeEvents[j])
  BY <1>1 DEF TypeOK, NoEventMissed, Sorted
<1>3. activeEvents # <<>> => 1 \in 1 .. Len(activeEvents)
  BY DEF TypeOK
<1>4. \A j \in 1 .. Len(activeEvents) : TicksToEvent(activeEvents[j]) \in 1 .. MaxTicks
  <2> SUFFICES ASSUME NEW j \in 1 .. Len(activeEvents)
               PROVE  TicksToEvent(activeEvents[j]) \in 1 .. MaxTicks
    OBVIOUS
  <2>1. activeEvents # <<>>
    BY <1>2
  <2>2. TicksToEvent(activeEvents[1]) \in 1 .. MaxTicks
    BY <1>1, <1>2, <1>3, <2>1, WidthAssumption
  <2> QED  BY <1>2, <1>3, <2>1, <2>2, WidthAssumption
<1>5. ticks \in 1 .. Half - 1 /\ (activeEvents # <<>> => ticks <= TicksToEvent(activeEvents[1]))
  BY <1>3, <1>4, TimeToNextRange, WidthAssumption DEF TypeOK
<1> HIDE DEF ticks
<1>6. GetTick' = GetTick /\ nextEventCounter' \in Time /\ timeBase' \in Time
  BY <1>1, <1>5, RearmEffect
<1>7. \A j \in 1 .. Len(activeEvents) :
        TicksToEvent(activeEvents[j])' = TicksToEvent(activeEvents[j])
  BY <1>1, <1>6 DEF queue, TicksToEvent
<1>8. activeEvents' # <<>> => /\ TicksToEvent(activeEvents[1])' \in Time
                              /\ ticks <= TicksToEvent(activeEvents[1])'
  BY <1>1, <1>3, <1>4, <1>5, <1>7, WidthAssumption DEF queue, Time
<1>9. CounterReachesNoEvent' /\ StopRespected'
  BY <1>1, <1>5, <1>8, RearmKeepsClockInvariant
<1>10. TypeOK'
  BY <1>1, <1>6 DEF TypeOK, queue, stops
<1>11. PointersOwned'
  BY <1>1 DEF PointersOwned, queue
<1>12. Sorted' /\ NoEventMissed'
  <2>1. activeEvents' = activeEvents
    BY <1>1 DEF queue
  <2> QED  BY <1>1, <1>2, <1>4, <1>7, <2>1 DEF Sorted, NoEventMissed
<1> QED  BY <1>9, <1>10, <1>11, <1>12

-----------------------------------------------------------------------------
(* The steps of the loop. *)

\* Counting up by n, no further than the counter's end, brings every due time
\* that is not nearer than that exactly n ticks closer.
LEMMA TimePasses ==
    ASSUME NEW base \in Time, NEW counter \in Time,
           NEW n \in 1 .. W - 1, n <= Neg(counter)
    PROVE  LET now == Add(base, counter)
               counter2 == Add(counter, n)
               now2 == Add(base, counter2)
           IN /\ counter2 \in Time /\ now2 \in Time
              /\ counter2 = 0 => n = Neg(counter) /\ now2 = base
              /\ Neg(counter2) = Neg(counter) - n
              /\ \A t \in Time : n <= Sub(t, now) => Sub(t, now2) = Sub(t, now) - n
<1> DEFINE now == Add(base, counter)
           counter2 == Add(counter, n)
           now2 == Add(base, counter2)
<1>1. counter2 \in Time /\ counter2 = IF n = Neg(counter) THEN 0 ELSE counter + n
  BY WidthAssumption DEF Time, Add, Sub, Neg
<1>2. Neg(counter2) = Neg(counter) - n
  BY <1>1, WidthAssumption DEF Time, Sub, Neg
<1>3. now \in Time /\ now2 \in Time /\ now2 = Add(now, n)
  BY <1>1, WidthAssumption DEF Time, Add, Sub, Neg
<1>4. counter2 = 0 => n = Neg(counter) /\ now2 = base
  BY <1>1, WidthAssumption DEF Time, Add, Sub, Neg
<1> HIDE DEF now, counter2, now2
<1>5. ASSUME NEW t \in Time, n <= Sub(t, now) PROVE Sub(t, now2) = Sub(t, now) - n
  BY <1>3, <1>5, WidthAssumption DEF Time, Add, Sub
<1> QED  BY <1>1, <1>2, <1>3, <1>4, <1>5 DEF now, counter2, now2

LEMMA CountUpStep ==
    ASSUME IInv, phase = "run",
           NEW n \in 1 .. W - 1, n <= TicksToNext,
           nextEventCounter' = Add(nextEventCounter, n),
           phase' = IF nextEventCounter' = 0 THEN "process" ELSE "run",
           loop = "stopcheck" => ~ (nextEventCounter' = 0 /\ timeBase = stopTime),
           UNCHANGED <<loop, timeBase, queue, stops>>
    PROVE  IInv'
<1> USE DEF IInv
<1>1. /\ timeBase \in Time /\ nextEventCounter \in Time /\ stopTime \in Time
      /\ \A e \in Events : nextTime[e] \in Time
      /\ Len(activeEvents) \in Nat
      /\ \A i \in 1 .. Len(activeEvents) : activeEvents[i] \in Events
      /\ GetTick \in Time /\ TicksToNext \in Time
      /\ n \in Nat /\ TicksToNext \in Nat
  BY ClockFacts, WidthAssumption DEF TypeOK, Time
<1>2. /\ nextEventCounter' \in Time /\ GetTick' \in Time
      /\ nextEventCounter' = 0 => n = TicksToNext /\ GetTick' = timeBase
      /\ TicksToNext' = TicksToNext - n
      /\ \A t \in Time : n <= Sub(t, GetTick) => Sub(t, GetTick') = Sub(t, GetTick) - n
  <2>1. /\ Add(nextEventCounter, n) \in Time
        /\ Add(timeBase, Add(nextEventCounter, n)) \in Time
        /\ Add(nextEventCounter, n) = 0 =>
             n = TicksToNext /\ Add(timeBase, Add(nextEventCounter, n)) = timeBase
        /\ Neg(Add(nextEventCounter, n)) = TicksToNext - n
        /\ \A t \in Time : n <= Sub(t, GetTick) =>
             Sub(t, Add(timeBase, Add(nextEventCounter, n))) = Sub(t, GetTick) - n
    BY <1>1, TimePasses DEF TicksToNext, GetTick
  <2>2. GetTick' = Add(timeBase, Add(nextEventCounter, n))
        /\ TicksToNext' = Neg(Add(nextEventCounter, n))
    BY DEF GetTick, TicksToNext
  <2> QED  BY <2>1, <2>2
<1>3. /\ activeEvents' = activeEvents /\ nextTime' = nextTime
      /\ stopTimeValid' = stopTimeValid /\ stopTime' = stopTime /\ loop' = loop
      /\ timeBase' = timeBase
  BY DEF queue, stops
<1>4. \A i \in 1 .. Len(activeEvents) :
         TicksToEvent(activeEvents[i]) \in 1 .. MaxTicks /\ n <= TicksToEvent(activeEvents[i])
  <2> SUFFICES ASSUME NEW i \in 1 .. Len(activeEvents)
               PROVE  /\ TicksToEvent(activeEvents[i]) \in 1 .. MaxTicks
                      /\ n <= TicksToEvent(activeEvents[i])
    OBVIOUS
  <2>1. activeEvents # <<>> /\ 1 \in 1 .. Len(activeEvents)
    BY <1>1
  <2>2. /\ TicksToEvent(activeEvents[i]) \in 1 .. MaxTicks
        /\ TicksToEvent(activeEvents[1]) \in 1 .. MaxTicks
    BY <2>1 DEF NoEventMissed
  <2>3. TicksToEvent(activeEvents[1]) <= TicksToEvent(activeEvents[i])
    BY <1>1, <2>1, <2>2, WidthAssumption, SMTT(30) DEF Sorted
  <2>4. TicksToNext <= TicksToEvent(activeEvents[1])
    BY <2>1 DEF CounterReachesNoEvent
  <2> QED  BY <1>1, <2>2, <2>3, <2>4, WidthAssumption, SMTT(30)
<1>5. \A i \in 1 .. Len(activeEvents) :
         TicksToEvent(activeEvents[i])' = TicksToEvent(activeEvents[i]) - n
  <2> SUFFICES ASSUME NEW i \in 1 .. Len(activeEvents)
               PROVE  TicksToEvent(activeEvents[i])' = TicksToEvent(activeEvents[i]) - n
    OBVIOUS
  <2>1. TicksToEvent(activeEvents[i])' = Sub(nextTime[activeEvents[i]], GetTick')
    BY <1>3 DEF TicksToEvent
  <2>2. nextTime[activeEvents[i]] \in Time /\ n <= Sub(nextTime[activeEvents[i]], GetTick)
    BY <1>1, <1>4 DEF TicksToEvent
  <2> QED  BY <1>2, <2>1, <2>2 DEF TicksToEvent
<1>6. TypeOK'
  BY <1>2, <1>3 DEF TypeOK, queue
<1>7. PointersOwned'
  BY DEF PointersOwned, queue
<1>8. Sorted'
  BY <1>1, <1>3, <1>4, <1>5, WidthAssumption DEF Sorted
<1>9. phase' = "run" => n < TicksToNext /\ nextEventCounter' # 0
  <2>1. nextEventCounter' # 0 => n # TicksToNext
    BY <1>1, WidthAssumption DEF TicksToNext, Neg, Sub, Add, Time
  <2> QED  BY <1>1, <2>1
<1>10. NoEventMissed'
  <2>1. \A i \in 1 .. Len(activeEvents) : phase' = "run" => n < TicksToEvent(activeEvents[i])
    <3> SUFFICES ASSUME NEW i \in 1 .. Len(activeEvents), phase' = "run"
                 PROVE  n < TicksToEvent(activeEvents[i])
      OBVIOUS
    <3>1. activeEvents # <<>> /\ 1 \in 1 .. Len(activeEvents)
      BY <1>1
    <3>2. TicksToNext <= TicksToEvent(activeEvents[1])
      BY <3>1 DEF CounterReachesNoEvent
    <3>3. TicksToEvent(activeEvents[1]) <= TicksToEvent(activeEvents[i])
      BY <1>1, <1>4, <3>1, WidthAssumption, SMTT(30) DEF Sorted
    <3> QED  BY <1>1, <1>4, <1>9, <3>1, <3>2, <3>3, WidthAssumption, SMTT(30)
  <2> QED  BY <1>1, <1>3, <1>4, <1>5, <2>1, WidthAssumption DEF NoEventMissed
<1>11. CounterReachesNoEvent'
  <2> SUFFICES ASSUME phase' = "run"
               PROVE  /\ activeEvents' # <<>> => TicksToNext' <= TicksToEvent(activeEvents[1])'
                      /\ nextEventCounter' >= Half
                      /\ nextEventCounter' > Half
    BY DEF CounterReachesNoEvent
  <2>1. activeEvents # <<>> => 1 \in 1 .. Len(activeEvents)
    BY DEF TypeOK
  <2>2. activeEvents # <<>> => TicksToNext <= TicksToEvent(activeEvents[1])
    BY DEF CounterReachesNoEvent
  <2>3. activeEvents' # <<>> => TicksToNext' <= TicksToEvent(activeEvents[1])'
    BY <1>1, <1>2, <1>3, <1>4, <1>5, <2>1, <2>2, WidthAssumption, SMTT(30)
  <2>4. nextEventCounter > Half
    <3>1. nextEventCounter # 0
      BY <1>1 DEF TicksToNext, Neg, Sub
    <3> QED  BY <3>1 DEF CounterReachesNoEvent
  <2>5. nextEventCounter' > nextEventCounter
    BY <1>1, <1>9, WidthAssumption DEF Add, TicksToNext, Neg, Sub, Time
  <2> QED  BY <1>1, <1>2, <2>3, <2>4, <2>5, WidthAssumption DEF Time
<1>12. StopRespected'
  <2> SUFFICES ASSUME stopTimeValid
               PROVE  /\ Sub(stopTime, GetTick') <= MaxRun
                      /\ phase' = "run" => TicksToNext' <= Sub(stopTime, GetTick')
                      /\ loop = "stopcheck" => GetTick' # stopTime
                      /\ loop # "advance"
    BY <1>3 DEF StopRespected
  <2>1. /\ Sub(stopTime, GetTick) <= MaxRun /\ TicksToNext <= Sub(stopTime, GetTick)
        /\ loop # "advance" /\ Sub(stopTime, GetTick) \in Nat
    BY <1>1, WrapType, WidthAssumption DEF StopRespected, Time
  <2>2. Sub(stopTime, GetTick') = Sub(stopTime, GetTick) - n
    BY <1>1, <1>2, <2>1, WidthAssumption DEF Time
  <2>3. phase' = "run" => Sub(stopTime, GetTick') # 0
    BY <1>1, <1>9, <2>1, <2>2, WidthAssumption
  <2>4. GetTick' = stopTime => Sub(stopTime, GetTick') = 0
    BY <1>1, WidthAssumption DEF Sub, Time
  <2> QED  BY <1>1, <1>2, <2>1, <2>2, <2>3, <2>4, WidthAssumption, SMTT(30)
<1> QED  BY <1>6, <1>7, <1>8, <1>10, <1>11, <1>12

LEMMA SetStopTimeStep ==
    ASSUME IInv, NEW t \in Time, SetStopTime(t)
    PROVE  IInv'
<1>1. /\ loop # "advance" /\ phase = "run" /\ phase' = "process"
      /\ Sub(t, GetTick) <= MaxRun /\ (loop = "stopcheck" => t # GetTick)
      /\ stopTimeValid' = TRUE /\ stopTime' = t
      /\ UNCHANGED <<loop, clock, queue>>
  BY DEF SetStopTime
<1>2. TypeOK'
  BY <1>1 DEF IInv, TypeOK, clock, queue
<1>3. NoEventMissed'
  BY <1>1, QueueUnchanged, WidthAssumption DEF IInv, NoEventMissed
<1>4. CounterReachesNoEvent' /\ StopRespected'
  BY <1>1, QueueUnchanged DEF CounterReachesNoEvent, StopRespected
<1> QED  BY <1>1, <1>2, <1>3, <1>4, QueueUnchanged DEF IInv

LEMMA ClearStopTimeStep ==
    ASSUME IInv, ClearStopTime
    PROVE  IInv'
<1>1. /\ phase = "run" /\ phase' = "process"
      /\ stopTimeValid' = FALSE /\ stopTime' = stopTime
      /\ UNCHANGED <<loop, clock, queue>>
  BY DEF ClearStopTime
<1>2. TypeOK'
  BY <1>1 DEF IInv, TypeOK, clock, queue
<1>3. NoEventMissed'
  BY <1>1, QueueUnchanged, WidthAssumption DEF IInv, NoEventMissed
<1>4. CounterReachesNoEvent' /\ StopRespected'
  BY <1>1 DEF CounterReachesNoEvent, StopRespected
<1> QED  BY <1>1, <1>2, <1>3, <1>4, QueueUnchanged DEF IInv

LEMMA LoopSteps ==
    ASSUME IInv, LoopStep
    PROVE  IInv'
<1>1. nextEventCounter \in Time /\ TicksToNext \in Time /\ 1 \in 1 .. W - 1
  BY ClockFacts, WidthAssumption DEF IInv, TypeOK, Time
<1>2. ASSUME Advance PROVE IInv'
  <2>1. nextEventCounter # 0
    BY <1>2, WidthAssumption DEF IInv, CounterReachesNoEvent, Advance
  <2>2. 1 <= TicksToNext
    BY <1>1, <2>1, WidthAssumption DEF TicksToNext, Neg, Sub, Time
  <2> QED  BY <1>1, <1>2, <2>2, CountUpStep DEF Advance, CountUp
<1>3. ASSUME AdvanceStopCheck PROVE IInv'
  <2>1. nextEventCounter # 0
    BY <1>3, WidthAssumption DEF IInv, CounterReachesNoEvent, AdvanceStopCheck
  <2>2. 1 <= TicksToNext
    BY <1>1, <2>1, WidthAssumption DEF TicksToNext, Neg, Sub, Time
  <2> QED  BY <1>1, <1>3, <2>2, CountUpStep DEF AdvanceStopCheck, CountUp
<1>4. ASSUME NEW n \in 1 .. MaxRun, TrySkip(n) PROVE IInv'
  <2>1. /\ loop = "stopcheck" /\ phase = "run" /\ phase' = "run"
        /\ nextEventCounter' = Add(nextEventCounter, n) /\ nextEventCounter' >= Half
        /\ UNCHANGED <<loop, timeBase, queue, stops>>
    BY <1>4 DEF TrySkip
  <2>2. n <= TicksToNext /\ nextEventCounter' # 0 /\ n \in 1 .. W - 1
    <3>1. nextEventCounter # 0
      BY <2>1, WidthAssumption DEF IInv, CounterReachesNoEvent
    <3> QED  BY <1>1, <2>1, <3>1, WidthAssumption DEF Add, TicksToNext, Neg, Sub, Time
  <2> QED  BY <2>1, <2>2, CountUpStep
<1>5. ASSUME NEW n \in 1 .. MaxRun, AdvanceN(n) PROVE IInv'
  <2>1. n \in 1 .. W - 1 /\ n <= TicksToNext
    BY <1>5, WidthAssumption DEF AdvanceN
  <2> QED  BY <1>5, <2>1, CountUpStep DEF AdvanceN, CountUp
<1> QED
  BY <1>2, <1>3, <1>4, <1>5, SetStopTimeStep, ClearStopTimeStep DEF LoopStep

-----------------------------------------------------------------------------
LEMMA SetEventStep ==
    ASSUME IInv, NEW c \in Clients, NEW ticks \in Ticks, SetEvent(c, ticks)
    PROVE  IInv'
<1> USE DEF IInv
<1>e. PICK e : e = ptr[c]
  OBVIOUS
<1>1. PICK k \in 1 .. Len(activeEvents) :
        LET q == RemoveAt(activeEvents, k)
        IN /\ activeEvents[k] = e
           /\ \E i \in 1 .. Len(q) + 1 :
                /\ IsInsertPoint(q, i, ticks)
                /\ activeEvents' = InsertAt(q, i, e)
                /\ IF i = 1 THEN Rearm(ticks) ELSE RearmAfterRemoval(k, e, q)
           /\ nextTime' = [nextTime EXCEPT ![e] = Add(GetTick, ticks)]
  BY <1>e DEF SetEvent
<1>2. UNCHANGED <<loop, phase, freeEvents, allocated, owner, ptr, stops>>
  BY DEF SetEvent
<1> DEFINE q == RemoveAt(activeEvents, k)
           m == Len(activeEvents) - 1
           n == Len(activeEvents)
           soonest == IF phase = "run" THEN 1 ELSE 0
<1>3. PICK i \in 1 .. Len(q) + 1 :
        /\ IsInsertPoint(q, i, ticks)
        /\ activeEvents' = InsertAt(q, i, e)
        /\ IF i = 1 THEN Rearm(ticks) ELSE RearmAfterRemoval(k, e, q)
  BY <1>1
<1>u. /\ n \in Nat /\ e \in Events
      /\ q \in Seq(Events) /\ Len(q) = m /\ DOMAIN q = 1 .. m
      /\ \A j \in 1 .. m :
           q[j] \in Events /\ q[j] # e /\ q[j] = activeEvents[IF j < k THEN j ELSE j + 1]
      /\ \A x, y \in 1 .. m : q[x] = q[y] => x = y
      /\ \A j \in 1 .. n : j # k => \E x \in 1 .. m : q[x] = activeEvents[j]
      /\ \A x, y \in 1 .. m : x < y => TicksToEvent(q[x]) <= TicksToEvent(q[y])
      /\ \A j \in 1 .. m : TicksToEvent(q[j]) \in soonest .. MaxTicks
  BY <1>1, Unlinked
<1>4. n \in Nat /\ e \in Events /\ q \in Seq(Events) /\ Len(q) = m /\ DOMAIN q = 1 .. m
  BY <1>u
<1>q. \A j \in 1 .. m : q[j] \in Events /\ q[j] # e /\ q[j] = activeEvents[IF j < k THEN j ELSE j + 1]
  BY <1>u
<1>i. \A x, y \in 1 .. m : q[x] = q[y] => x = y
  BY <1>u
<1>r. \A j \in 1 .. n : j # k => \E x \in 1 .. m : q[x] = activeEvents[j]
  BY <1>u
<1>s. /\ \A x, y \in 1 .. m : x < y => TicksToEvent(q[x]) <= TicksToEvent(q[y])
      /\ \A j \in 1 .. m : TicksToEvent(q[j]) \in soonest .. MaxTicks
  BY <1>u
<1>5. /\ DOMAIN activeEvents = 1 .. n /\ n \in Nat \ {0} /\ m \in Nat /\ n = m + 1
      /\ e = ptr[c] /\ nextTime' = [nextTime EXCEPT ![e] = Add(GetTick, ticks)]
      /\ k \in 1 .. n /\ activeEvents[k] = e
  BY <1>e, <1>1 DEF TypeOK
<1>6. /\ GetTick \in Time /\ ticks \in 1 .. Half - 1 /\ ticks \in 1 .. MaxTicks
  BY ClockFacts, WidthAssumption DEF Ticks
<1>z. soonest \in {0, 1} /\ (phase = "run" => soonest = 1) /\ (phase # "run" => soonest = 0)
  OBVIOUS
<1> HIDE DEF q, m, n, soonest
<1>7. /\ activeEvents' \in Seq(Events) /\ Len(activeEvents') = n /\ i \in 1 .. m + 1
      /\ DOMAIN activeEvents' = 1 .. n
      /\ \A j \in 1 .. n :
           activeEvents'[j] = IF j < i THEN q[j] ELSE IF j = i THEN e ELSE q[j - 1]
  <2>1. /\ activeEvents' \in Seq(Events) /\ Len(activeEvents') = Len(q) + 1
        /\ \A j \in 1 .. Len(q) + 1 :
             activeEvents'[j] = IF j < i THEN q[j] ELSE IF j = i THEN e ELSE q[j - 1]
    <3>1. q \in Seq(Events) /\ e \in Events /\ i \in 1 .. Len(q) + 1
      BY <1>3, <1>4
    <3>2. activeEvents' = InsertAt(q, i, e)
      BY <1>3
    <3>3. /\ InsertAt(q, i, e) \in Seq(Events) /\ Len(InsertAt(q, i, e)) = Len(q) + 1
          /\ \A j \in 1 .. Len(q) + 1 :
               InsertAt(q, i, e)[j] = IF j < i THEN q[j] ELSE IF j = i THEN e ELSE q[j - 1]
      BY ONLY <3>1, InsertAtProperties
    <3> QED  BY <3>2, <3>3
  <2> QED  BY <1>3, <1>4, <1>5, <2>1
<1>8. nextTime'[e] = Add(GetTick, ticks) /\ \A x \in Events \ {e} : nextTime'[x] = nextTime[x]
  BY <1>4, <1>5 DEF TypeOK
<1>9. /\ GetTick' = GetTick /\ nextEventCounter' \in Time /\ timeBase' \in Time
      /\ CounterReachesNoEvent' /\ StopRespected'
  <2>1. CASE i = 1
    <3>1. Rearm(ticks)
      BY <1>3, <2>1
    <3>2. GetTick' = GetTick /\ nextEventCounter' \in Time /\ timeBase' \in Time
      BY <1>2, <1>6, <3>1, RearmEffect
    <3>3. TicksToEvent(activeEvents[1])' = ticks
      <4>1. activeEvents'[1] = e /\ nextTime'[e] = Add(GetTick, ticks)
        BY <1>5, <1>7, <1>8, <2>1
      <4> QED  BY <1>6, <3>2, <4>1, ArmedDistance DEF TicksToEvent
    <3>4. ticks \in Time
      BY <1>6, WidthAssumption DEF Time
    <3> QED  BY <1>2, <1>6, <3>1, <3>2, <3>3, <3>4, RearmKeepsClockInvariant
  <2>2. CASE i # 1
    <3>1. RearmAfterRemoval(k, activeEvents[k], q) /\ q = RemoveAt(activeEvents, k)
      BY <1>1, <1>3, <2>2 DEF q
    <3>2. q # <<>> /\ 1 \in 1 .. m
      BY <1>5, <1>7, <1>q, <2>2
    <3>3. activeEvents'[1] = q[1] /\ nextTime'[q[1]] = nextTime[q[1]]
      BY <1>5, <1>7, <1>8, <1>q, <2>2, <3>2
    <3> QED  BY <1>2, <3>1, <3>2, <3>3, RemovalKeepsClockInvariant DEF n
  <2> QED  BY <2>1, <2>2
<1>10. TicksToEvent(e)' = ticks /\ \A x \in Events \ {e} : TicksToEvent(x)' = TicksToEvent(x)
  <2>1. nextTime'[e] = Add(GetTick, ticks)
    BY <1>8
  <2>2. TicksToEvent(e)' = Sub(nextTime'[e], GetTick')
    BY DEF TicksToEvent
  <2>3. TicksToEvent(e)' = ticks
    BY <1>6, <1>9, <2>1, <2>2, ArmedDistance
  <2> QED  BY <1>8, <1>9, <2>3 DEF TicksToEvent
<1>11. TypeOK'
  <2>1. nextTime' \in [Events -> Time]
    BY <1>5, <1>6, ArmedDistance DEF TypeOK
  <2> QED  BY <1>2, <1>7, <1>9, <2>1 DEF TypeOK, stops
<1>12. PointersOwned'
  <2>1. IsInjective(activeEvents')
    <3>1. ASSUME NEW x \in 1 .. n, NEW y \in 1 .. n, activeEvents'[x] = activeEvents'[y]
          PROVE  x = y
      <4>1. \A z \in (1 .. n) \ {i} :
              /\ (IF z < i THEN z ELSE z - 1) \in 1 .. m
              /\ activeEvents'[z] = q[IF z < i THEN z ELSE z - 1]
        BY <1>5, <1>7
      <4>2. \A z \in (1 .. n) \ {i} : activeEvents'[z] # e
        BY <1>q, <4>1
      <4>3. activeEvents'[i] = e /\ i \in 1 .. n
        BY <1>5, <1>7
      <4>4. CASE x # i /\ y # i
        <5>1. (IF x < i THEN x ELSE x - 1) = (IF y < i THEN y ELSE y - 1)
          BY <1>i, <3>1, <4>1, <4>4
        <5> QED  BY <1>5, <1>7, <4>4, <5>1
      <4> QED  BY <3>1, <4>2, <4>3, <4>4
    <3> QED  BY <1>7, <3>1 DEF IsInjective
  <2>2. ASSUME NEW j \in 1 .. n
        PROVE  \E x \in 1 .. n : activeEvents'[j] = activeEvents[x]
    <3>1. CASE j = i
      BY <1>5, <1>7, <3>1
    <3>2. CASE j < i
      BY <1>5, <1>7, <1>q, <3>2, SMTT(30)
    <3>3. CASE j > i
      <4>1. j - 1 \in 1 .. m /\ activeEvents'[j] = q[j - 1]
        BY <1>5, <1>7, <3>3
      <4>2. (IF j - 1 < k THEN j - 1 ELSE j) \in 1 .. n
        BY <1>5, <3>3
      <4> QED  BY <1>q, <4>1, <4>2
    <3> QED  BY <1>5, <1>7, <3>1, <3>2, <3>3
  <2>3. ASSUME NEW j \in 1 .. n
        PROVE  \E x \in 1 .. n : activeEvents'[x] = activeEvents[j]
    <3>1. CASE j = k
      BY <1>5, <1>7, <3>1
    <3>2. CASE j # k
      <4>1. PICK y \in 1 .. m : q[y] = activeEvents[j]
        BY <1>r, <3>2
      <4>2. CASE y < i
        BY <1>5, <1>7, <4>1, <4>2
      <4>3. CASE y >= i
        <5>1. y + 1 \in 1 .. n /\ activeEvents'[y + 1] = q[y]
          BY <1>5, <1>7, <4>3
        <5> QED  BY <4>1, <5>1
      <4> QED  BY <1>5, <1>7, <4>1, <4>2, <4>3
    <3> QED  BY <3>1, <3>2
  <2>4. \A j \in DOMAIN activeEvents' :
          LET x == activeEvents'[j]
          IN x \in allocated' /\ owner'[x] \in Clients /\ ptr'[owner'[x]] = x
    <3> SUFFICES ASSUME NEW j \in 1 .. n
                 PROVE  LET x == activeEvents'[j]
                        IN x \in allocated' /\ owner'[x] \in Clients /\ ptr'[owner'[x]] = x
      BY <1>7
    <3>1. PICK x \in DOMAIN activeEvents : activeEvents'[j] = activeEvents[x]
      BY <1>5, <2>2
    <3>2. LET y == activeEvents[x]
          IN y \in allocated /\ owner[y] \in Clients /\ ptr[owner[y]] = y
      BY DEF PointersOwned
    <3> QED  BY <1>2, <3>1, <3>2
  <2>5. \A d \in Clients : ptr'[d] # Null =>
          owner'[ptr'[d]] = d /\ \E j \in DOMAIN activeEvents' : activeEvents'[j] = ptr'[d]
    <3> SUFFICES ASSUME NEW d \in Clients, ptr[d] # Null
                 PROVE  owner[ptr[d]] = d /\ \E j \in 1 .. n : activeEvents'[j] = ptr[d]
      BY <1>2, <1>7
    <3>1. owner[ptr[d]] = d /\ \E x \in 1 .. n : activeEvents[x] = ptr[d]
      BY <1>5 DEF PointersOwned
    <3> QED  BY <2>3, <3>1
  <2> QED  BY <1>2, <2>1, <2>4, <2>5 DEF PointersOwned
<1>13. /\ \A j \in 1 .. i - 1 : TicksToEvent(q[j]) <= ticks
       /\ \A j \in i .. m : ticks < TicksToEvent(q[j])
  <2>1. \A j \in 1 .. i - 1 : TicksToEvent(q[j]) <= ticks
    BY <1>3 DEF IsInsertPoint
  <2>2. ASSUME NEW j \in i .. m PROVE ticks < TicksToEvent(q[j])
    <3>1. i <= Len(q) /\ ticks < TicksToEvent(q[i])
      BY <1>3, <1>4, <1>5, <2>2 DEF IsInsertPoint
    <3>2. TicksToEvent(q[i]) \in Nat /\ TicksToEvent(q[j]) \in Nat
      BY <1>5, <1>7, <1>s, <1>z, <2>2, WidthAssumption, SMTT(30)
    <3>3. TicksToEvent(q[i]) <= TicksToEvent(q[j])
      BY <1>5, <1>7, <1>s, <2>2, <3>2
    <3> QED  BY <1>6, <3>1, <3>2, <3>3, WidthAssumption
  <2> QED  BY <2>1, <2>2
<1>14. \A j \in 1 .. n :
         TicksToEvent(activeEvents[j])' =
           IF j < i THEN TicksToEvent(q[j]) ELSE IF j = i THEN ticks ELSE TicksToEvent(q[j - 1])
  <2> SUFFICES ASSUME NEW j \in 1 .. n
               PROVE  TicksToEvent(activeEvents[j])' =
                        IF j < i THEN TicksToEvent(q[j])
                        ELSE IF j = i THEN ticks ELSE TicksToEvent(q[j - 1])
    OBVIOUS
  <2>0. TicksToEvent(activeEvents[j])' = Sub(nextTime'[activeEvents'[j]], GetTick')
    BY DEF TicksToEvent
  <2>1. CASE j = i
    <3>1. activeEvents'[j] = e /\ nextTime'[e] = Add(GetTick, ticks)
      BY <1>5, <1>7, <1>8, <2>1
    <3> QED  BY <1>6, <1>9, <2>0, <2>1, <3>1, ArmedDistance
  <2>2. CASE j < i
    <3>1. activeEvents'[j] = q[j] /\ q[j] \in Events \ {e}
      BY <1>5, <1>7, <1>q, <2>2
    <3> QED  BY <1>8, <1>9, <2>0, <2>2, <3>1 DEF TicksToEvent
  <2>3. CASE j > i
    <3>1. activeEvents'[j] = q[j - 1] /\ q[j - 1] \in Events \ {e}
      BY <1>5, <1>7, <1>q, <2>3
    <3> QED  BY <1>5, <1>7, <1>8, <1>9, <2>0, <2>3, <3>1 DEF TicksToEvent
  <2> QED  BY <1>5, <1>7, <2>1, <2>2, <2>3
<1>p. m \in Nat /\ n = m + 1 /\ i \in 1 .. n
  BY <1>5, <1>7
<1>b. ASSUME NEW j \in 1 .. n, j > i
      PROVE  j - 1 \in i .. m /\ j - 1 \in 1 .. m
             /\ TicksToEvent(activeEvents[j])' = TicksToEvent(q[j - 1])
  <2>1. j - 1 \in i .. m /\ j - 1 \in 1 .. m /\ ~ (j < i) /\ j # i
    BY <1>b, <1>p
  <2> QED  BY <1>14, <2>1
<1>15. Sorted'
  <2> SUFFICES ASSUME NEW x \in 1 .. n, NEW y \in 1 .. n, x < y
               PROVE  TicksToEvent(activeEvents[x])' <= TicksToEvent(activeEvents[y])'
    BY <1>7 DEF Sorted
  <2>1. ticks \in Nat /\ \A j \in 1 .. m : TicksToEvent(q[j]) \in Nat
    BY <1>6, <1>s, <1>z, WidthAssumption
  <2>2. CASE x < i /\ y < i
    BY <1>5, <1>7, <1>14, <1>s, <2>2
  <2>3. CASE x < i /\ y >= i
    <3>1. TicksToEvent(activeEvents[x])' <= ticks
      BY <1>5, <1>7, <1>13, <1>14, <2>3
    <3>2. ticks <= TicksToEvent(activeEvents[y])'
      <4>1. CASE y = i
        BY <1>14, <2>1, <4>1
      <4>2. CASE y > i
        <5>1. y - 1 \in i .. m /\ TicksToEvent(activeEvents[y])' = TicksToEvent(q[y - 1])
          BY <1>b, <4>2
        <5> QED  BY <1>5, <1>7, <1>13, <2>1, <5>1
      <4> QED  BY <1>5, <1>7, <2>3, <4>1, <4>2
    <3>3. /\ TicksToEvent(activeEvents[x])' \in Nat /\ TicksToEvent(activeEvents[y])' \in Nat
      BY <1>5, <1>7, <1>14, <2>1, <2>3, SMTT(30)
    <3> QED  BY <2>1, <3>1, <3>2, <3>3
  <2>4. CASE x = i
    <3>1. y - 1 \in i .. m /\ TicksToEvent(activeEvents[y])' = TicksToEvent(q[y - 1])
      BY <1>b, <1>p, <2>4
    <3>2. TicksToEvent(activeEvents[x])' = ticks /\ ticks < TicksToEvent(q[y - 1])
      BY <1>13, <1>14, <2>4, <3>1
    <3>3. y - 1 \in 1 .. m
      BY <1>p, <3>1
    <3> QED  BY <2>1, <3>1, <3>2, <3>3
  <2>5. CASE x > i
    <3>1. /\ x - 1 \in 1 .. m /\ TicksToEvent(activeEvents[x])' = TicksToEvent(q[x - 1])
          /\ y - 1 \in 1 .. m /\ TicksToEvent(activeEvents[y])' = TicksToEvent(q[y - 1])
      BY <1>b, <1>p, <2>5
    <3> QED  BY <1>s, <3>1
  <2> QED  BY <1>5, <1>7, <2>2, <2>3, <2>4, <2>5
<1>16. NoEventMissed'
  <2> SUFFICES ASSUME NEW j \in 1 .. n
               PROVE  TicksToEvent(activeEvents[j])' \in soonest .. MaxTicks
    BY <1>2, <1>7 DEF NoEventMissed, soonest
  <2>1. ticks \in soonest .. MaxTicks
    BY <1>6, <1>z
  <2>2. CASE j < i
    BY <1>5, <1>7, <1>14, <1>s, <2>2
  <2>3. CASE j = i
    BY <1>14, <2>1, <2>3
  <2>4. CASE j > i
    <3>1. j - 1 \in 1 .. m
      BY <1>5, <1>7, <2>4
    <3>2. TicksToEvent(activeEvents[j])' = TicksToEvent(q[j - 1])
      BY <1>5, <1>7, <1>14, <2>4
    <3> QED  BY <1>s, <3>1, <3>2
  <2> QED  BY <1>5, <1>7, <2>2, <2>3, <2>4
<1> QED  BY <1>9, <1>11, <1>12, <1>15, <1>16

-----------------------------------------------------------------------------
(* The theorems. *)

LEMMA IInvHoldsInitially == Init => IInv
<1> SUFFICES ASSUME Init PROVE IInv
  OBVIOUS
<1> USE DEF Init
<1>1. /\ 0 \in Time /\ StartTick \in Time /\ StartIdle \in Time
      /\ Neg(StartIdle) = W - StartIdle /\ Neg(StartIdle) > Half
  BY WidthAssumption DEF Time, Neg, Sub
<1>2. nextEventCounter \in Time /\ timeBase \in Time
  BY <1>1, WrapType
<1>3. activeEvents \in Seq(Events) /\ freeEvents \in Seq(Events)
      /\ Len(activeEvents) = 0 /\ DOMAIN activeEvents = {} /\ DOMAIN freeEvents = {}
  OBVIOUS
<1>4. TypeOK
  BY <1>1, <1>2, <1>3 DEF TypeOK
<1>5. PointersOwned
  BY <1>3 DEF PointersOwned, IsInjective
<1>6. Sorted /\ NoEventMissed
  BY <1>3 DEF Sorted, NoEventMissed
<1>7. CounterReachesNoEvent /\ StopRespected
  BY <1>1, WidthAssumption DEF CounterReachesNoEvent, StopRespected
<1> QED  BY <1>4, <1>5, <1>6, <1>7 DEF IInv

LEMMA IInvIsInductive == IInv /\ [Next]_vars => IInv'
<1> SUFFICES ASSUME IInv, [Next]_vars PROVE IInv'
  OBVIOUS
<1>1. CASE ClientStep
  BY <1>1, AddEventStep, SetEventStep, UnsetEventStep DEF ClientStep
<1>2. CASE LoopStep
  BY <1>2, LoopSteps
<1>3. CASE Fire
  BY <1>3, FireStep
<1>4. CASE CallbackReturns
  BY <1>4, CallbackReturnsStep
<1>5. CASE FinishProcessing
  BY <1>5, FinishProcessingStep
<1>6. CASE UNCHANGED vars
  <2>1. UNCHANGED <<loop, phase, clock, queue, stops>>
    BY <1>6 DEF vars
  <2>2. TypeOK'
    BY <2>1 DEF IInv, TypeOK, clock, queue, stops
  <2>3. NoEventMissed' /\ CounterReachesNoEvent' /\ StopRespected'
    <3>1. TicksToNext' = TicksToNext
      BY <2>1 DEF clock, TicksToNext
    <3>2. activeEvents # <<>> => 1 \in 1 .. Len(activeEvents)
      BY DEF IInv, TypeOK
    <3> QED
      BY <2>1, <3>1, <3>2, QueueUnchanged
      DEF IInv, NoEventMissed, CounterReachesNoEvent, StopRespected, clock, stops
  <2> QED  BY <2>1, <2>2, <2>3, QueueUnchanged DEF IInv
<1> QED  BY <1>1, <1>2, <1>3, <1>4, <1>5, <1>6 DEF Next

\* Every reachable state satisfies the inductive invariant.
THEOREM Invariance == Spec => []IInv
BY IInvHoldsInitially, IInvIsInductive, PTL DEF Spec

\* Every variable keeps its type.
THEOREM TypeCorrectness == Spec => []TypeOK
<1>1. IInv => TypeOK
  BY DEF IInv
<1> QED  BY <1>1, Invariance, PTL

\* No client holds a pointer to a fired, removed or recycled event.
THEOREM PointerSafety == Spec => []PointersOwned
<1>1. IInv => PointersOwned
  BY DEF IInv
<1> QED  BY <1>1, Invariance, PTL

\* No event is ever passed without firing, and none fires early.
THEOREM EventsOnTime == Spec => []QueueOnTime
<1>1. IInv => QueueOnTime
  BY DEF IInv, QueueOnTime
<1> QED  BY <1>1, Invariance, PTL

\* The counter's end does not pass the front event.
THEOREM HorizonSafety == Spec => []CounterReachesNoEvent
<1>1. IInv => CounterReachesNoEvent
  BY DEF IInv
<1> QED  BY <1>1, Invariance, PTL

\* Nor does it, or the clock, pass a valid stop time.
THEOREM StopSafety == Spec => []StopRespected
<1>1. IInv => StopRespected
  BY DEF IInv
<1> QED  BY <1>1, Invariance, PTL

-----------------------------------------------------------------------------
(* Time. *)

\* The tail of RemoveEvent leaves the time as it is.
LEMMA RemovalKeepsTime ==
    ASSUME IInv, NEW k \in 1 .. Len(activeEvents), UNCHANGED stops,
           RearmAfterRemoval(k, activeEvents[k], RemoveAt(activeEvents, k))
    PROVE  GetTick' = GetTick
<1> USE DEF IInv
<1> DEFINE n == Len(activeEvents)
           e == activeEvents[k]
           q == RemoveAt(activeEvents, k)
<1>1. /\ n \in Nat /\ e \in Events /\ q \in Seq(Events) /\ Len(q) = n - 1
      /\ \A j \in 1 .. n - 1 : q[j] \in Events
      /\ \A j \in 1 .. n - 1 : k = 1 => TicksToEvent(e) <= TicksToEvent(q[j])
  BY Unlinked
<1>2. TicksToEvent(e) \in Time /\ nextTime[e] \in Time /\ GetTick \in Time
  BY <1>1, ClockFacts DEF TypeOK
<1>3. q # <<>> => 1 \in 1 .. n - 1 /\ TicksToEvent(q[1]) \in Time
  BY <1>1, ClockFacts
<1> HIDE DEF n, e, q
<1>4. CASE k = 1 /\ nextTime[e] # GetTick
  <2>1. Rearm(TimeToNext(q))
    BY <1>4 DEF RearmAfterRemoval, e, q
  <2>2. TicksToEvent(e) >= 1
    BY <1>2, <1>4, WidthAssumption DEF TicksToEvent, Sub, Time
  <2>3. q # <<>> => TicksToEvent(q[1]) >= 1
    BY <1>1, <1>2, <1>3, <1>4, <2>2, WidthAssumption DEF Time
  <2> QED  BY <1>1, <2>1, <2>3, TimeToNextRange, RearmEffect
<1>5. CASE ~ (k = 1 /\ nextTime[e] # GetTick)
  BY <1>5 DEF RearmAfterRemoval, e, q, clock, GetTick
<1> QED  BY <1>4, <1>5

\* No call of a client moves the time.
LEMMA ClientsKeepTime == ASSUME IInv, ClientStep PROVE GetTick' = GetTick
<1> USE DEF IInv
<1>0. \A ticks \in Ticks : ticks \in 1 .. Half - 1
  BY WidthAssumption DEF Ticks
<1>1. ASSUME NEW c \in Clients, NEW ticks \in Ticks, AddEvent(c, ticks)
      PROVE  GetTick' = GetTick
  <2>1. (Rearm(ticks) \/ UNCHANGED clock) /\ UNCHANGED stops
    BY <1>1 DEF AddEvent
  <2> QED  BY <1>0, <2>1, RearmEffect DEF clock, GetTick
<1>2. ASSUME NEW c \in Clients, NEW ticks \in Ticks, SetEvent(c, ticks)
      PROVE  GetTick' = GetTick
  <2>1. PICK k \in 1 .. Len(activeEvents) :
          /\ \/ Rearm(ticks)
             \/ RearmAfterRemoval(k, activeEvents[k], RemoveAt(activeEvents, k))
          /\ UNCHANGED stops
    BY <1>2 DEF SetEvent
  <2> QED  BY <1>0, <2>1, RearmEffect, RemovalKeepsTime
<1>3. ASSUME NEW c \in Clients, UnsetEvent(c)
      PROVE  GetTick' = GetTick
  <2>1. PICK k \in 1 .. Len(activeEvents) :
          /\ RearmAfterRemoval(k, activeEvents[k], RemoveAt(activeEvents, k))
          /\ UNCHANGED stops
    BY <1>3 DEF UnsetEvent
  <2> QED  BY <2>1, RemovalKeepsTime
<1> QED  BY <1>1, <1>2, <1>3 DEF ClientStep

\* Nor does ProcessNextEvent.
LEMMA ProcessingKeepsTime ==
    ASSUME IInv, Fire \/ CallbackReturns \/ FinishProcessing PROVE GetTick' = GetTick
<1> USE DEF IInv
<1>1. CASE Fire
  BY <1>1 DEF Fire, clock, GetTick
<1>2. CASE CallbackReturns
  BY <1>2 DEF CallbackReturns, clock, GetTick
<1>3. CASE FinishProcessing
  <2>1. /\ phase = "process" /\ UNCHANGED stops /\ Rearm(TimeToNext(activeEvents))
        /\ activeEvents # <<>> => TicksToEvent(activeEvents[1]) # 0
    BY <1>3 DEF FinishProcessing
  <2>2. activeEvents # <<>> => 1 \in 1 .. Len(activeEvents)
    BY DEF TypeOK
  <2>3. activeEvents # <<>> => TicksToEvent(activeEvents[1]) >= 1
    BY <2>1, <2>2, WidthAssumption DEF NoEventMissed
  <2> QED  BY <2>1, <2>3, TimeToNextRange, RearmEffect DEF TypeOK
<1> QED  BY <1>1, <1>2, <1>3

\* Counting up moves the time by as much, and not past the counter's end.
LEMMA CountingUpMovesTime ==
    ASSUME IInv, NEW n \in 1 .. W - 1, n <= TicksToNext,
           nextEventCounter' = Add(nextEventCounter, n), timeBase' = timeBase
    PROVE  Sub(GetTick', GetTick) <= TicksToNext
<1>1. /\ timeBase \in Time /\ nextEventCounter \in Time /\ GetTick \in Time
      /\ n \in Nat /\ TicksToNext \in Nat
  BY ClockFacts, WidthAssumption DEF IInv, TypeOK, Time
<1>2. GetTick' = Add(timeBase, Add(nextEventCounter, n))
  BY DEF GetTick
<1>3. Sub(GetTick', GetTick) = n
  BY <1>1, <1>2, WidthAssumption DEF GetTick, TicksToNext, Time, Add, Sub, Neg
<1> QED  BY <1>1, <1>3

\* What a step of the loop does to the time.
LEMMA LoopMovesTime ==
    ASSUME IInv, LoopStep
    PROVE  /\ phase = "run" /\ UNCHANGED queue
           /\ GetTick' # GetTick => Sub(GetTick', GetTick) <= TicksToNext
<1>1. nextEventCounter \in Time /\ TicksToNext \in Time /\ 1 \in 1 .. W - 1
  BY ClockFacts, WidthAssumption DEF IInv, TypeOK, Time
<1>2. phase = "run" => nextEventCounter # 0 \/ loop = "advance_n"
  BY WidthAssumption DEF IInv, CounterReachesNoEvent
<1>3. CASE Advance \/ AdvanceStopCheck
  <2>1. 1 <= TicksToNext
    BY <1>1, <1>2, <1>3, WidthAssumption
    DEF Advance, AdvanceStopCheck, TicksToNext, Neg, Sub, Time
  <2> QED  BY <1>1, <1>3, <2>1, CountingUpMovesTime DEF Advance, AdvanceStopCheck, CountUp
<1>4. ASSUME NEW n \in 1 .. MaxRun, TrySkip(n) \/ AdvanceN(n)
      PROVE  /\ phase = "run" /\ UNCHANGED queue
             /\ Sub(GetTick', GetTick) <= TicksToNext
  <2>1. /\ phase = "run" /\ UNCHANGED queue /\ timeBase' = timeBase
        /\ nextEventCounter' = Add(nextEventCounter, n)
    BY <1>4 DEF TrySkip, AdvanceN, CountUp
  <2>2. n \in 1 .. W - 1 /\ n <= TicksToNext
    <3>1. CASE AdvanceN(n)
      BY <3>1, WidthAssumption DEF AdvanceN
    <3>2. CASE TrySkip(n)
      BY <1>1, <1>2, <3>2, WidthAssumption DEF TrySkip, Add, TicksToNext, Neg, Sub, Time
    <3> QED  BY <1>4, <3>1, <3>2
  <2> QED  BY <2>1, <2>2, CountingUpMovesTime
<1>5. CASE ClearStopTime \/ \E t \in Time : SetStopTime(t)
  BY <1>5 DEF ClearStopTime, SetStopTime, clock, GetTick
<1> QED  BY <1>3, <1>4, <1>5 DEF LoopStep

\* Scheduler time moves only in the loop, never past the counter's end, and no
\* call that re-arms the clock pair moves it.
THEOREM TimeIsTheLoops == Spec => OnlyTheLoopMovesTime
<1>1. IInv /\ [Next]_vars =>
        [GetTick' # GetTick => /\ phase = "run" /\ UNCHANGED queue
                               /\ Sub(GetTick', GetTick) <= TicksToNext]_vars
  BY ClientsKeepTime, ProcessingKeepsTime, LoopMovesTime DEF Next
<1> QED  BY <1>1, Invariance, PTL DEF Spec, OnlyTheLoopMovesTime

\* The 64-bit clock is exact while its floor is less than a turn of the 32-bit
\* counter behind, and not a cycle longer: GetTick64 finds the carry from the low
\* word alone, whatever the width of the counter.
THEOREM Clock64IsExact ==
    ASSUME NEW floor \in [high : Nat, low : Time], NEW t \in [high : Nat, low : Time]
    PROVE  Tick64Exact(floor, t)
<1> DEFINE turns == t.high - floor.high
           ahead == t.low - floor.low
<1>1. /\ W \in Nat \ {0} /\ floor.high \in Nat /\ t.high \in Nat
      /\ floor.low \in 0 .. W - 1 /\ t.low \in 0 .. W - 1
  BY WidthAssumption DEF Time
<1>2. /\ turns \in Int /\ ahead \in Int /\ ahead < W /\ 0 - W < ahead
      /\ Value64(t) - Value64(floor) = turns * W + ahead
  BY <1>1 DEF Value64
<1>3. /\ t = [high |-> floor.high + turns, low |-> t.low]
      /\ floor = [high |-> floor.high, low |-> floor.low]
  BY <1>1
<1>4. /\ t.low < floor.low <=> ahead < 0
      /\ ahead = 0 => t.low = floor.low
  BY <1>1
<1> HIDE DEF turns, ahead
<1>5. /\ turns >= 2 => turns * W >= W + W
      /\ turns <= -1 => turns * W <= 0 - W
      /\ turns = 0 => turns * W = 0
      /\ turns = 1 => turns * W = W
  BY <1>1, <1>2
<1>6. CASE turns * W + ahead \in 0 .. W - 1
  <2>1. turns = (IF ahead < 0 THEN 1 ELSE 0)
    BY <1>1, <1>2, <1>5, <1>6
  <2> QED  BY <1>2, <1>3, <1>4, <1>6, <2>1 DEF Tick64Exact, GetTick64
<1>7. CASE turns * W + ahead = W
  <2>1. turns = 1 /\ ahead = 0
    BY <1>1, <1>2, <1>5, <1>7
  <2> QED  BY <1>1, <1>2, <1>3, <1>4, <1>7, <2>1 DEF Tick64Exact, GetTick64
<1> QED  BY <1>1, <1>2, <1>6, <1>7 DEF Tick64Exact

-----------------------------------------------------------------------------
(* Lists without their gaps.                                                 *)

LEMMA LeastNatural ==
    ASSUME NEW S, S \subseteq Nat, S # {}
    PROVE  \E n \in S : \A m \in S : n <= m
<1>1. PICK n \in S : \A m \in S : ~ (<<m, n>> \in OpToRel(<, Nat))
  BY NatLessThanWellFounded, WFMin, Zenon
<1>2. ASSUME NEW m \in S PROVE ~ (m < n)
  BY <1>1, Zenon DEF OpToRel
<1>3. \A m \in S : n <= m
  BY <1>2
<1> QED BY <1>3

\* What Packed makes of the first entries of a list, for each number up to m.
PackedUpTo(f, list, m) ==
    f = [n \in 0 .. m |-> IF n = 0 THEN <<>>
                          ELSE IF list[n] = Null THEN f[n - 1] ELSE Append(f[n - 1], list[n])]

LEMMA PackedSteps ==
    ASSUME NEW list, NEW m \in Nat, NEW f, PackedUpTo(f, list, m)
    PROVE  /\ f[0] = <<>>
           /\ \A n \in 1 .. m :
                 f[n] = IF list[n] = Null THEN f[n - 1] ELSE Append(f[n - 1], list[n])
<1> DEFINE More(n) == IF list[n] = Null THEN f[n - 1] ELSE Append(f[n - 1], list[n])
<1>1. f = [n \in 0 .. m |-> IF n = 0 THEN <<>> ELSE More(n)]
  BY DEF PackedUpTo
<1> HIDE DEF More
<1>2. \A n \in 0 .. m : f[n] = IF n = 0 THEN <<>> ELSE More(n)
  BY <1>1
<1>3. 0 \in 0 .. m /\ \A n \in 1 .. m : n \in 0 .. m /\ n # 0
  OBVIOUS
<1> QED BY <1>2, <1>3 DEF More

LEMMA HavePacked ==
    ASSUME NEW list, NEW m \in Nat
    PROVE  \E f : PackedUpTo(f, list, m)
<1> DEFINE Good(k) == \E f : PackedUpTo(f, list, k)
           Bad == {k \in Nat : ~ Good(k)}
<1>1. Good(0)
  <2> DEFINE f == [n \in 0 .. 0 |-> <<>>]
  <2>1. PackedUpTo(f, list, 0)
    <3>1. \A n \in 0 .. 0 : n = 0
      OBVIOUS
    <3> QED BY <3>1 DEF PackedUpTo
  <2> HIDE DEF f
  <2> QED BY <2>1
<1>2. ASSUME NEW k \in Nat, Good(k) PROVE Good(k + 1)
  <2>1. PICK f : PackedUpTo(f, list, k)
    BY <1>2
  <2> DEFINE More(h, n) == IF list[n] = Null THEN h[n - 1] ELSE Append(h[n - 1], list[n])
             g == [n \in 0 .. k + 1 |-> IF n = 0 THEN <<>> ELSE More(f, n)]
  <2>2. f[0] = <<>> /\ \A n \in 1 .. k : f[n] = More(f, n)
    BY <2>1, PackedSteps
  <2>3. \A n \in 0 .. k : g[n] = f[n]
    <3> HIDE DEF More
    <3>1. \A n \in 0 .. k : n \in 0 .. k + 1 /\ (n = 0 \/ n \in 1 .. k)
      OBVIOUS
    <3> QED BY <2>2, <3>1
  <2>4. \A n \in 0 .. k + 1 : n # 0 => n - 1 \in 0 .. k
    OBVIOUS
  <2>5. \A n \in 0 .. k + 1 : n # 0 => More(f, n) = More(g, n)
    <3> HIDE DEF g
    <3> QED BY <2>3, <2>4
  <2>6. g = [n \in 0 .. k + 1 |-> IF n = 0 THEN <<>> ELSE More(g, n)]
    <3> HIDE DEF More
    <3> QED BY <2>5
  <2>7. PackedUpTo(g, list, k + 1)
    <3> HIDE DEF g
    <3> QED BY <2>6 DEF PackedUpTo
  <2> QED BY <2>7
<1> HIDE DEF Good
<1>3. Bad = {}
  <2>1. SUFFICES ASSUME Bad # {} PROVE FALSE
    OBVIOUS
  <2>2. PICK k \in Bad : \A j \in Bad : k <= j
    BY <2>1, LeastNatural
  <2>3. k \in Nat /\ ~ Good(k) /\ k # 0
    BY <1>1, <2>2
  <2>4. k - 1 \in Nat /\ (k - 1) + 1 = k /\ ~ (k <= k - 1)
    BY <2>3
  <2>5. Good(k - 1)
    BY <2>2, <2>4
  <2>6. Good((k - 1) + 1)
    BY <1>2, <2>4, <2>5
  <2> QED BY <2>3, <2>4, <2>6
<1>4. Good(m)
  BY <1>3
<1> QED BY <1>4 DEF Good

BeginAlike(a, b, j, S) == \A n \in 1 .. j : a[n] = b[n] /\ a[n] \in S \union {Null}

\* Lists that begin alike have the same prefixes so far, sequences without Null.
LEMMA SamePacked ==
    ASSUME NEW S, NEW a, NEW b, NEW m \in Nat, NEW k \in Nat, NEW f, NEW g,
           PackedUpTo(f, a, m), PackedUpTo(g, b, k), NEW j \in Nat, j <= m, j <= k,
           BeginAlike(a, b, j, S)
    PROVE  f[j] = g[j] /\ f[j] \in Seq(S)
<1> DEFINE Good(n) == f[n] = g[n] /\ f[n] \in Seq(S)
           Bad == {n \in 0 .. j : ~ Good(n)}
<1>0. /\ f[0] = <<>> /\ \A n \in 1 .. m : f[n] = IF a[n] = Null THEN f[n - 1] ELSE Append(f[n - 1], a[n])
      /\ g[0] = <<>> /\ \A n \in 1 .. k : g[n] = IF b[n] = Null THEN g[n - 1] ELSE Append(g[n - 1], b[n])
  BY PackedSteps
<1>1. Good(0)
  BY <1>0
<1>2. ASSUME NEW n \in 1 .. j, Good(n - 1) PROVE Good(n)
  <2>1. n \in 1 .. m /\ n \in 1 .. k
    OBVIOUS
  <2> DEFINE s == f[n - 1]
             x == a[n]
  <2>2. s \in Seq(S) /\ g[n - 1] = s /\ b[n] = x /\ x \in S \union {Null}
    BY <1>2 DEF BeginAlike
  <2>3. /\ f[n] = IF x = Null THEN s ELSE Append(s, x)
        /\ g[n] = IF x = Null THEN s ELSE Append(s, x)
    BY <1>0, <2>1, <2>2
  <2> HIDE DEF s, x
  <2>4. x # Null => Append(s, x) \in Seq(S)
    BY <2>2
  <2> QED BY <2>2, <2>3, <2>4
<1> HIDE DEF Good
<1>3. Bad = {}
  <2>1. SUFFICES ASSUME Bad # {} PROVE FALSE
    OBVIOUS
  <2>2. PICK n \in Bad : \A i \in Bad : n <= i
    <3>1. Bad \subseteq Nat
      OBVIOUS
    <3> QED BY <2>1, <3>1, LeastNatural
  <2>3. n \in 1 .. j /\ ~ Good(n)
    BY <1>1, <2>2
  <2>4. n - 1 \in 0 .. j /\ ~ (n <= n - 1)
    BY <2>3
  <2>5. Good(n - 1)
    BY <2>2, <2>4
  <2> QED BY <1>2, <2>3, <2>5
<1>4. Good(j)
  BY <1>3
<1> QED BY <1>4 DEF Good

LEMMA PackedFacts ==
    ASSUME NEW S, NEW list \in Seq(S \union {Null}), NEW f, PackedUpTo(f, list, Len(list))
    PROVE  Packed(list) = f[Len(list)] /\ Packed(list) \in Seq(S)
<1> DEFINE m == Len(list)
           E(h) == h = [n \in 0 .. m |-> IF n = 0 THEN <<>>
                        ELSE IF list[n] = Null THEN h[n - 1] ELSE Append(h[n - 1], list[n])]
           upTo == CHOOSE h : E(h)
<1>1. Packed(list) = upTo[m]
  BY DEF Packed
<1>2. E(upTo)
  <2>1. E(f)
    BY DEF PackedUpTo
  <2> QED BY <2>1
<1> HIDE DEF upTo
<1>3. PackedUpTo(upTo, list, m)
  BY <1>2 DEF PackedUpTo
<1>4. m \in Nat /\ \A n \in 1 .. m : list[n] \in S \union {Null}
  OBVIOUS
<1> HIDE DEF m
<1>5. PackedUpTo(f, list, m) /\ m <= m
  BY <1>4 DEF m
<1>6. upTo[m] = f[m] /\ upTo[m] \in Seq(S)
  <2>1. BeginAlike(list, list, m, S)
    BY <1>4 DEF BeginAlike
  <2> QED BY <1>3, <1>4, <1>5, <2>1, SamePacked
<1> QED BY <1>1, <1>6 DEF m

LEMMA PackedType ==
    ASSUME NEW S, NEW list \in Seq(S \union {Null})
    PROVE  Packed(list) \in Seq(S)
<1>1. Len(list) \in Nat
  OBVIOUS
<1>2. PICK f : PackedUpTo(f, list, Len(list))
  BY <1>1, HavePacked
<1> QED BY <1>2, PackedFacts

LEMMA PackedEmpty == Packed(<<>>) = <<>>
<1>1. <<>> \in Seq({} \union {Null}) /\ Len(<<>>) = 0
  OBVIOUS
<1>2. PICK f : PackedUpTo(f, <<>>, 0)
  BY HavePacked
<1>3. f[0] = <<>>
  BY <1>2, PackedSteps
<1>4. Packed(<<>>) = f[0]
  BY <1>1, <1>2, PackedFacts
<1> QED BY <1>3, <1>4

LEMMA PackedAppend ==
    ASSUME NEW S, NEW list \in Seq(S \union {Null}), NEW x \in S \union {Null}
    PROVE  Packed(Append(list, x)) = IF x = Null THEN Packed(list) ELSE Append(Packed(list), x)
<1> DEFINE m == Len(list)
           more == Append(list, x)
<1>1. /\ m \in Nat /\ m + 1 \in Nat /\ more \in Seq(S \union {Null}) /\ Len(more) = m + 1
      /\ more[m + 1] = x /\ \A n \in 1 .. m : more[n] = list[n] /\ list[n] \in S \union {Null}
  OBVIOUS
<1>m. Len(list) = m
  OBVIOUS
<1> HIDE DEF m, more
<1>2. PICK f : PackedUpTo(f, list, m)
  BY <1>1, HavePacked
<1>3. PICK g : PackedUpTo(g, more, m + 1)
  BY <1>1, HavePacked
<1>4. Packed(list) = f[m] /\ Packed(more) = g[m + 1]
  BY <1>1, <1>m, <1>2, <1>3, PackedFacts
<1>5. f[m] = g[m]
  <2>1. m <= m /\ m <= m + 1
    BY <1>1
  <2>2. BeginAlike(list, more, m, S)
    BY <1>1 DEF BeginAlike
  <2>3. f[m] = g[m] /\ f[m] \in Seq(S)
    BY <1>1, <1>2, <1>3, <2>1, <2>2, SamePacked
  <2> QED BY <2>3
<1>6. g[m + 1] = IF x = Null THEN g[m] ELSE Append(g[m], x)
  <2>1. m + 1 \in 1 .. m + 1 /\ (m + 1) - 1 = m
    BY <1>1
  <2>2. \A n \in 1 .. m + 1 :
            g[n] = IF more[n] = Null THEN g[n - 1] ELSE Append(g[n - 1], more[n])
    BY <1>1, <1>3, PackedSteps
  <2>3. g[m + 1] = IF more[m + 1] = Null THEN g[(m + 1) - 1] ELSE Append(g[(m + 1) - 1], more[m + 1])
    BY <2>1, <2>2
  <2> QED BY <1>1, <2>1, <2>3
<1> QED BY <1>4, <1>5, <1>6 DEF more

LEMMA ConcatOne ==
    ASSUME NEW T, NEW s \in Seq(T), NEW t \in Seq(T), NEW x \in T
    PROVE  s \o Append(t, x) = Append(s \o t, x)
<1>1. <<x>> \in Seq(T) /\ s \o t \in Seq(T)
  BY ConcatProperties
<1>2. Append(t, x) = t \o <<x>> /\ Append(s \o t, x) = (s \o t) \o <<x>>
  BY <1>1, AppendIsConcat
<1>3. (s \o t) \o <<x>> = s \o (t \o <<x>>)
  BY <1>1, ConcatAssociative
<1> QED BY <1>2, <1>3

\* Packing a list in two halves.
LEMMA PackedConcat ==
    ASSUME NEW S, NEW s \in Seq(S \union {Null}), NEW t \in Seq(S \union {Null})
    PROVE  Packed(s \o t) = Packed(s) \o Packed(t)
<1> DEFINE T == S \union {Null}
           First(n) == SubSeq(t, 1, n)
           Good(n) == Packed(s \o First(n)) = Packed(s) \o Packed(First(n))
           Bad == {n \in 0 .. Len(t) : ~ Good(n)}
<1>0. Len(t) \in Nat /\ Packed(s) \in Seq(S) /\ s \in Seq(T) /\ t \in Seq(T)
  <2>1. Packed(s) \in Seq(S)
    BY PackedType
  <2> QED BY <2>1
<1>a. \A n \in 0 .. Len(t) : First(n) \in Seq(T)
  OBVIOUS
<1>b. First(0) = <<>> /\ First(Len(t)) = t
  BY <1>0, SubSeqEmpty, SubSeqFull
<1>c. ASSUME NEW n \in 1 .. Len(t) PROVE First(n) = Append(First(n - 1), t[n]) /\ t[n] \in T
  <2>1. SubSeq(t, 1, n) = SubSeq(t, 1, n - 1) \o <<t[n]>>
    <3>1. 1 \in 1 .. Len(t) /\ n \in 1 .. Len(t)
      OBVIOUS
    <3> QED BY <1>0, <3>1, SubSeqRecursiveSecond
  <2>2. First(n - 1) \in Seq(T) /\ t[n] \in T
    <3>1. n - 1 \in 0 .. Len(t)
      OBVIOUS
    <3>2. First(n - 1) \in Seq(T)
      BY <1>a, <3>1
    <3> QED BY <3>2
  <2> QED BY <2>1, <2>2, AppendIsConcat
<1> HIDE DEF First
<1>1. Good(0)
  <2>1. s \o <<>> = s /\ Packed(s) \o <<>> = Packed(s)
    BY <1>0, ConcatEmptySeq
  <2> QED BY <1>b, <2>1, PackedEmpty
<1>2. ASSUME NEW n \in 1 .. Len(t), Good(n - 1) PROVE Good(n)
  <2> DEFINE u == First(n - 1)
             x == t[n]
  <2>1. u \in Seq(T) /\ x \in T /\ First(n) = Append(u, x) /\ s \o u \in Seq(T)
    <3>1. n - 1 \in 0 .. Len(t)
      OBVIOUS
    <3>2. u \in Seq(T)
      BY <1>a, <3>1
    <3>3. s \o u \in Seq(T)
      BY <1>0, <3>2, ConcatProperties
    <3> QED BY <1>c, <3>2, <3>3
  <2>2. Packed(s \o u) = Packed(s) \o Packed(u)
    BY <1>2
  <2> HIDE DEF u, x
  <2>3. s \o First(n) = Append(s \o u, x)
    BY <1>0, <2>1, ConcatOne
  <2>4. /\ Packed(s \o First(n)) = IF x = Null THEN Packed(s \o u) ELSE Append(Packed(s \o u), x)
        /\ Packed(First(n)) = IF x = Null THEN Packed(u) ELSE Append(Packed(u), x)
    BY <2>1, <2>3, PackedAppend
  <2>5. CASE x = Null
    BY <2>2, <2>4, <2>5
  <2>6. CASE x # Null
    <3>1. x \in S /\ Packed(u) \in Seq(S)
      BY <2>1, <2>6, PackedType
    <3>2. Packed(s) \o Append(Packed(u), x) = Append(Packed(s) \o Packed(u), x)
      BY <1>0, <3>1, ConcatOne
    <3> QED BY <2>2, <2>4, <2>6, <3>2
  <2> QED BY <2>5, <2>6
<1> HIDE DEF Good
<1>3. Bad = {}
  <2>1. SUFFICES ASSUME Bad # {} PROVE FALSE
    OBVIOUS
  <2>2. PICK n \in Bad : \A i \in Bad : n <= i
    <3>1. Bad \subseteq Nat
      OBVIOUS
    <3> QED BY <2>1, <3>1, LeastNatural
  <2>3. n \in 1 .. Len(t) /\ ~ Good(n)
    BY <1>1, <2>2
  <2>4. n - 1 \in 0 .. Len(t) /\ ~ (n <= n - 1)
    BY <2>3
  <2>5. Good(n - 1)
    BY <2>2, <2>4
  <2> QED BY <1>2, <2>3, <2>5
<1>4. Good(Len(t))
  BY <1>0, <1>3
<1> QED BY <1>4, <1>b DEF Good

LEMMA PackedOne ==
    ASSUME NEW S, NEW x \in S \union {Null}
    PROVE  Packed(<<x>>) = IF x = Null THEN <<>> ELSE <<x>>
<1>1. <<>> \in Seq(S \union {Null}) /\ Append(<<>>, x) = <<x>>
  OBVIOUS
<1> QED BY <1>1, PackedAppend, PackedEmpty

\* Removing an entry from between others that are not like it on the left.
LEMMA RemoveBetween ==
    ASSUME NEW T, NEW a \in Seq(T), NEW b \in Seq(T), NEW x \in T, \A i \in 1 .. Len(a) : a[i] # x
    PROVE  RemoveFirst((a \o <<x>>) \o b, x) = a \o b
<1> DEFINE s == (a \o <<x>>) \o b
           k == Len(a) + 1
           n == Len(s)
           I == {j \in 1 .. n : s[j] = x}
<1>1. <<x>> \in Seq(T) /\ Len(<<x>>) = 1
  OBVIOUS
<1>2. /\ a \o <<x>> \in Seq(T) /\ Len(a \o <<x>>) = k
      /\ \A i \in 1 .. k : (a \o <<x>>)[i] = IF i <= Len(a) THEN a[i] ELSE <<x>>[i - Len(a)]
  BY <1>1, ConcatProperties
<1>3. /\ s \in Seq(T) /\ n = k + Len(b)
      /\ \A i \in 1 .. k + Len(b) :
            s[i] = IF i <= k THEN (a \o <<x>>)[i] ELSE b[i - k]
  BY <1>2, ConcatProperties
<1>4. Len(a) \in Nat /\ Len(b) \in Nat /\ k \in Nat /\ k >= 1 /\ k - Len(a) = 1
  OBVIOUS
<1> HIDE DEF s, k, n
<1>5. k \in 1 .. n /\ s[k] = x
  <2>1. k \in 1 .. k /\ k \in 1 .. k + Len(b) /\ k <= k /\ ~ (k <= Len(a))
    BY <1>4 DEF k
  <2>2. s[k] = (a \o <<x>>)[k] /\ (a \o <<x>>)[k] = <<x>>[k - Len(a)]
    BY <1>2, <1>3, <2>1
  <2> QED BY <1>3, <1>4, <2>1, <2>2
<1>6. ASSUME NEW j \in 1 .. n, j < k PROVE s[j] = a[j] /\ j \in 1 .. Len(a)
  <2>1. j \in 1 .. k /\ j \in 1 .. k + Len(b) /\ j <= k /\ j <= Len(a) /\ j \in 1 .. Len(a)
    BY <1>3, <1>4, <1>6 DEF k
  <2> QED BY <1>2, <1>3, <2>1
<1>7. RemoveFirst(s, x) = IF \E j \in 1 .. n : s[j] = x
                          THEN RemoveAt(s, IF I # {} THEN Min(I) ELSE 0) ELSE s
  BY DEF RemoveFirst, SelectInSeq, n
<1>8. k \in I /\ \A j \in I : k <= j
  <2>1. k \in I
    BY <1>5
  <2>2. ASSUME NEW j \in I PROVE ~ (j < k)
    BY <1>6, <2>2
  <2>3. \A j \in I : j \in Nat
    OBVIOUS
  <2> QED BY <1>4, <2>1, <2>2, <2>3
<1>9. I \subseteq Nat
  OBVIOUS
<1> HIDE DEF I
<1>10. Min(I) = k
  <2>1. \E i \in I : \A j \in I : i <= j
    BY <1>8
  <2>2. Min(I) \in I /\ \A j \in I : Min(I) <= j
    BY <2>1 DEF Min
  <2>3. Min(I) \in Nat /\ k <= Min(I) /\ Min(I) <= k
    BY <1>8, <1>9, <2>2
  <2> QED BY <1>4, <2>3
<1>11. RemoveFirst(s, x) = SubSeq(s, 1, k - 1) \o SubSeq(s, k + 1, n)
  <2>1. I # {} /\ \E j \in 1 .. n : s[j] = x
    BY <1>5, <1>8
  <2> QED BY <1>7, <1>10, <2>1 DEF RemoveAt, n
<1>12. SubSeq(s, 1, k - 1) = a
  <2> DEFINE u == SubSeq(s, 1, k - 1)
  <2>1. \A i \in 1 .. k - 1 : s[i] \in T /\ i \in 1 .. n /\ i < k
    BY <1>3, <1>4, ElementOfSeq DEF n
  <2>2. u \in Seq(T) /\ Len(u) = Len(a) /\ \A i \in 1 .. Len(a) : u[i] = s[i]
    <3>1. k - 1 = Len(a) /\ 1 \in Int /\ k - 1 \in Int
      BY <1>4
    <3>2. /\ u \in Seq(T) /\ Len(u) = IF 1 <= k - 1 THEN (k - 1) - 1 + 1 ELSE 0
          /\ \A i \in 1 .. (k - 1) - 1 + 1 : u[i] = s[1 + i - 1]
      BY <2>1, <3>1, SubSeqProperties
    <3> HIDE DEF u
    <3> QED BY <1>4, <3>1, <3>2
  <2> HIDE DEF u
  <2>3. \A i \in 1 .. Len(a) : u[i] = a[i]
    <3>1. \A i \in 1 .. Len(a) : i \in 1 .. n /\ i < k
      BY <1>3, <1>4 DEF k
    <3> QED BY <1>6, <2>2, <3>1
  <2>4. u = a
    BY <2>2, <2>3, SeqEqual
  <2> QED BY <2>4 DEF u
<1>13. SubSeq(s, k + 1, n) = b
  <2> DEFINE u == SubSeq(s, k + 1, n)
  <2>1. \A i \in k + 1 .. n : s[i] \in T /\ i \in 1 .. k + Len(b) /\ ~ (i <= k)
    BY <1>3, <1>4, ElementOfSeq DEF n
  <2>2. u \in Seq(T) /\ Len(u) = Len(b) /\ \A i \in 1 .. Len(b) : u[i] = s[k + i]
    <3>1. n - (k + 1) + 1 = Len(b) /\ k + 1 \in Int /\ n \in Int
      BY <1>3, <1>4
    <3>2. /\ u \in Seq(T) /\ Len(u) = IF k + 1 <= n THEN n - (k + 1) + 1 ELSE 0
          /\ \A i \in 1 .. n - (k + 1) + 1 : u[i] = s[(k + 1) + i - 1]
      BY <2>1, <3>1, SubSeqProperties
    <3> HIDE DEF u
    <3>3. \A i \in 1 .. Len(b) : (k + 1) + i - 1 = k + i
      BY <1>4
    <3>4. Len(u) = Len(b)
      BY <1>3, <1>4, <3>1, <3>2
    <3> QED BY <3>1, <3>2, <3>3, <3>4
  <2> HIDE DEF u
  <2>3. \A i \in 1 .. Len(b) : u[i] = b[i]
    <3>1. \A i \in 1 .. Len(b) : k + i \in 1 .. k + Len(b) /\ ~ (k + i <= k) /\ (k + i) - k = i
      BY <1>4
    <3> QED BY <1>3, <2>2, <3>1
  <2>4. u = b
    BY <2>2, <2>3, SeqEqual
  <2> QED BY <2>4 DEF u
<1> QED BY <1>11, <1>12, <1>13 DEF s

-----------------------------------------------------------------------------
(* Who is due when.                                                          *)

\* List q with everything but the clients due in n ticks made a gap; t and o are the
\* ticks to each node's due time and its owner.
Mask(q, t, o, n) == [i \in DOMAIN q |-> IF t[q[i]] = n THEN o[q[i]] ELSE Null]
DueOf(q, t, o, n) == Packed(Mask(q, t, o, n))

OwnedBy(q, t, o, n, S) == \A i \in 1 .. Len(q) : t[q[i]] = n => o[q[i]] \in S
In(x, t, o, n) == IF t[x] = n THEN o[x] ELSE Null

LEMMA MaskFacts ==
    ASSUME NEW q \in Seq(Events), NEW t, NEW o, NEW n, NEW T, Null \in T, OwnedBy(q, t, o, n, T)
    PROVE  /\ Mask(q, t, o, n) \in Seq(T) /\ Len(Mask(q, t, o, n)) = Len(q)
           /\ \A i \in 1 .. Len(q) : Mask(q, t, o, n)[i] = In(q[i], t, o, n)
<1> DEFINE m == Mask(q, t, o, n)
<1>1. DOMAIN q = 1 .. Len(q) /\ Len(q) \in Nat
  OBVIOUS
<1>2. m = [i \in 1 .. Len(q) |-> IF t[q[i]] = n THEN o[q[i]] ELSE Null]
  BY <1>1 DEF Mask
<1>3. \A i \in 1 .. Len(q) : m[i] = IF t[q[i]] = n THEN o[q[i]] ELSE Null
  BY <1>2
<1>4. \A i \in 1 .. Len(q) : (IF t[q[i]] = n THEN o[q[i]] ELSE Null) \in T
  BY DEF OwnedBy
<1>5. m \in [1 .. Len(q) -> T]
  BY <1>2, <1>4
<1> HIDE DEF m
<1>6. m \in Seq(T)
  BY <1>1, <1>5, SeqDef
<1>7. Len(m) = Len(q)
  <2>1. DOMAIN m = 1 .. Len(q) /\ DOMAIN m = 1 .. Len(m) /\ Len(m) \in Nat
    BY <1>5, <1>6, LenProperties
  <2> QED BY <1>1, <2>1
<1> QED BY <1>3, <1>6, <1>7 DEF m, In

\* Only the owners of what is due then are due then.
LEMMA DueType ==
    ASSUME NEW q \in Seq(Events), NEW t, NEW o, NEW n, NEW S, Null \notin S, OwnedBy(q, t, o, n, S)
    PROVE  DueOf(q, t, o, n) \in Seq(S)
<1>1. Mask(q, t, o, n) \in Seq(S \union {Null})
  <2> DEFINE T == S \union {Null}
  <2>1. OwnedBy(q, t, o, n, T) /\ Null \in T
    BY DEF OwnedBy
  <2> HIDE DEF T
  <2>2. Mask(q, t, o, n) \in Seq(T)
    BY <2>1, MaskFacts
  <2> QED BY <2>2 DEF T
<1> QED BY <1>1, PackedType DEF DueOf

LEMMA DueNone ==
    ASSUME NEW q \in Seq(Events), NEW t, NEW o, NEW n, \A i \in 1 .. Len(q) : t[q[i]] # n
    PROVE  DueOf(q, t, o, n) = <<>>
<1> DEFINE d == DueOf(q, t, o, n)
<1>1. d \in Seq({})
  <2>1. OwnedBy(q, t, o, n, {}) /\ Null \notin {}
    BY DEF OwnedBy
  <2> QED BY <2>1, DueType
<1> HIDE DEF d
<1>2. d = <<>>
  <2>1. Len(d) \in Nat /\ d \in [1 .. Len(d) -> {}]
    BY <1>1, LenProperties
  <2>2. Len(d) = 0
    <3>1. CASE Len(d) # 0
      <4>1. 1 \in 1 .. Len(d)
        BY <2>1, <3>1
      <4> QED BY <2>1, <4>1
    <3> QED BY <3>1
  <2> QED BY <1>1, <2>2, EmptySeq
<1> QED BY <1>2 DEF d

\* The same clients are due then if the list, seen through the two masks, is the same.
SameMask(q, t, o, n, t2, o2, n2) ==
    \A i \in 1 .. Len(q) :
        (IF t[q[i]] = n THEN o[q[i]] ELSE Null) = (IF t2[q[i]] = n2 THEN o2[q[i]] ELSE Null)

LEMMA DueSame ==
    ASSUME NEW q \in Seq(Events), NEW t, NEW o, NEW n, NEW t2, NEW o2, NEW n2,
           SameMask(q, t, o, n, t2, o2, n2)
    PROVE  DueOf(q, t, o, n) = DueOf(q, t2, o2, n2)
<1>1. DOMAIN q = 1 .. Len(q)
  OBVIOUS
<1>2. Mask(q, t, o, n) = Mask(q, t2, o2, n2)
  BY <1>1 DEF SameMask, Mask
<1> QED BY <1>2 DEF DueOf

\* How far each node is and whose it is, and the mask that reads both.
WhoWhen(t, o) == t \in [Events -> Nat] /\ o \in [Events -> Clients \union {Null}]

LEMMA MaskOf ==
    ASSUME NEW q \in Seq(Events), NEW t, NEW o, NEW n, WhoWhen(t, o)
    PROVE  /\ Mask(q, t, o, n) \in Seq(Clients \union {Null}) /\ Len(Mask(q, t, o, n)) = Len(q)
           /\ \A i \in 1 .. Len(q) : Mask(q, t, o, n)[i] = In(q[i], t, o, n)
<1> DEFINE T == Clients \union {Null}
<1>1. OwnedBy(q, t, o, n, T)
  <2> SUFFICES ASSUME NEW i \in 1 .. Len(q) PROVE o[q[i]] \in T
    BY DEF OwnedBy
  <2>1. q[i] \in Events
    OBVIOUS
  <2> QED BY <2>1 DEF WhoWhen
<1>2. Null \in T
  OBVIOUS
<1> HIDE DEF T
<1>3. /\ Mask(q, t, o, n) \in Seq(T) /\ Len(Mask(q, t, o, n)) = Len(q)
      /\ \A i \in 1 .. Len(q) : Mask(q, t, o, n)[i] = In(q[i], t, o, n)
  BY <1>1, <1>2, MaskFacts
<1> QED BY <1>3 DEF T

\* Those due of two lists put together: of the first, then of the second.
DueInHalves(a, b, t, o, n) == DueOf(a \o b, t, o, n) = DueOf(a, t, o, n) \o DueOf(b, t, o, n)

LEMMA DueConcat ==
    ASSUME NEW a \in Seq(Events), NEW b \in Seq(Events), NEW t, NEW o, NEW n, WhoWhen(t, o)
    PROVE  DueInHalves(a, b, t, o, n)
<1> DEFINE ab == a \o b
           ma == Mask(a, t, o, n)
           mb == Mask(b, t, o, n)
           mab == Mask(ab, t, o, n)
           T == Clients \union {Null}
<1>1. /\ ab \in Seq(Events) /\ Len(ab) = Len(a) + Len(b)
      /\ \A i \in 1 .. Len(a) + Len(b) : ab[i] = IF i <= Len(a) THEN a[i] ELSE b[i - Len(a)]
  BY ConcatProperties
<1> HIDE DEF ab
<1>a. ma \in Seq(T) /\ Len(ma) = Len(a) /\ \A i \in 1 .. Len(a) : ma[i] = In(a[i], t, o, n)
  BY MaskOf
<1>b. mb \in Seq(T) /\ Len(mb) = Len(b) /\ \A i \in 1 .. Len(b) : mb[i] = In(b[i], t, o, n)
  BY MaskOf
<1>c. mab \in Seq(T) /\ Len(mab) = Len(ab) /\ \A i \in 1 .. Len(ab) : mab[i] = In(ab[i], t, o, n)
  <2>1. ab \in Seq(Events)
    BY <1>1
  <2> QED BY <2>1, MaskOf
<1> HIDE DEF ma, mb, mab, T
<1>5. mab = ma \o mb
  <2> DEFINE c == ma \o mb
  <2>1. /\ c \in Seq(T) /\ Len(c) = Len(ma) + Len(mb)
        /\ \A i \in 1 .. Len(ma) + Len(mb) : c[i] = IF i <= Len(ma) THEN ma[i] ELSE mb[i - Len(ma)]
    <3>1. ma \in Seq(T) /\ mb \in Seq(T)
      BY <1>a, <1>b
    <3> QED BY <3>1, ConcatProperties
  <2> HIDE DEF c
  <2>2. Len(a) \in Nat /\ Len(b) \in Nat
    OBVIOUS
  <2>3. ASSUME NEW i \in 1 .. Len(a) + Len(b) PROVE mab[i] = c[i]
    <3>1. CASE i <= Len(a)
      <4>1. i \in 1 .. Len(a)
        BY <2>2, <3>1
      <4> QED BY <1>1, <1>a, <1>b, <1>c, <2>1, <3>1, <4>1
    <3>2. CASE ~ (i <= Len(a))
      <4>1. i - Len(a) \in 1 .. Len(b)
        BY <2>2, <3>2
      <4> QED BY <1>1, <1>a, <1>b, <1>c, <2>1, <3>2, <4>1
    <3> QED BY <3>1, <3>2
  <2>4. mab = c
    BY <1>1, <1>a, <1>b, <1>c, <2>1, <2>3, SeqEqual
  <2> QED BY <2>4 DEF c
<1>6. ma \in Seq(Clients \union {Null}) /\ mb \in Seq(Clients \union {Null}) /\ Null \notin Clients
  BY <1>a, <1>b, <1>c, NullAssumption DEF T
<1>7. Packed(ma \o mb) = Packed(ma) \o Packed(mb)
  BY <1>6, PackedConcat
<1> QED BY <1>5, <1>7 DEF DueInHalves, DueOf, ma, mb, mab, ab

LEMMA DueOne ==
    ASSUME NEW e \in Events, NEW t, NEW o, NEW n, o[e] \in Clients
    PROVE  DueOf(<<e>>, t, o, n) = IF t[e] = n THEN <<o[e]>> ELSE <<>>
<1> DEFINE x == IF t[e] = n THEN o[e] ELSE Null
<1>1. Mask(<<e>>, t, o, n) = <<x>>
  <2>1. DOMAIN <<e>> = 1 .. 1 /\ <<e>>[1] = e
    OBVIOUS
  <2>2. Mask(<<e>>, t, o, n) = [i \in 1 .. 1 |-> x]
    <3>1. \A i \in 1 .. 1 : i = 1
      OBVIOUS
    <3> QED BY <2>1, <3>1 DEF Mask
  <2>3. <<x>> = [i \in 1 .. 1 |-> x]
    OBVIOUS
  <2> QED BY <2>2, <2>3
<1>2. x \in Clients \union {Null} /\ Null \notin Clients
  BY NullAssumption
<1>3. Packed(<<x>>) = IF x = Null THEN <<>> ELSE <<x>>
  <2> HIDE DEF x
  <2> QED BY <1>2, PackedOne
<1>4. x = Null <=> t[e] # n
  BY NullAssumption
<1> QED BY <1>1, <1>3, <1>4 DEF DueOf

\* A list cut in two before position i.
Cut(q, i, f, b) ==
    /\ f \in Seq(Events) /\ Len(f) = i - 1 /\ \A j \in 1 .. Len(f) : f[j] = q[j]
    /\ b \in Seq(Events) /\ Len(b) = Len(q) + 1 - i
    /\ \A j \in 1 .. Len(b) : b[j] = q[i + j - 1]
    /\ q = f \o b

LEMMA CutBefore ==
    ASSUME NEW q \in Seq(Events), NEW i \in 1 .. Len(q) + 1,
           NEW f, f = SubSeq(q, 1, i - 1), NEW b, b = SubSeq(q, i, Len(q))
    PROVE  Cut(q, i, f, b)
<1>1. /\ f \in Seq(Events) /\ Len(f) = i - 1 /\ \A j \in 1 .. Len(f) : f[j] = q[j]
  OBVIOUS
<1>2. /\ b \in Seq(Events) /\ Len(b) = Len(q) + 1 - i
      /\ \A j \in 1 .. Len(b) : b[j] = q[i + j - 1]
  OBVIOUS
<1>3. q = f \o b
  <2> DEFINE g == f \o b
  <2>1. /\ g \in Seq(Events) /\ Len(g) = Len(f) + Len(b)
        /\ \A j \in 1 .. Len(f) + Len(b) : g[j] = IF j <= Len(f) THEN f[j] ELSE b[j - Len(f)]
    <3>1. f \in Seq(Events) /\ b \in Seq(Events)
      BY <1>1, <1>2
    <3> QED BY <3>1, ConcatProperties
  <2> HIDE DEF g
  <2>2. i \in 1 .. Len(q) + 1 /\ Len(q) \in Nat /\ Len(g) = Len(q)
    BY <1>1, <1>2, <2>1
  <2>3. ASSUME NEW j \in 1 .. Len(q) PROVE g[j] = q[j]
    <3>1. CASE j <= Len(f)
      <4>1. j \in 1 .. Len(f) /\ j \in 1 .. Len(f) + Len(b)
        BY <1>1, <1>2, <2>2, <3>1
      <4> QED BY <1>1, <2>1, <3>1, <4>1
    <3>2. CASE ~ (j <= Len(f))
      <4>1. /\ j - Len(f) \in 1 .. Len(b) /\ j \in 1 .. Len(f) + Len(b)
            /\ i + (j - Len(f)) - 1 = j
        BY <1>1, <1>2, <2>2, <3>2
      <4>2. g[j] = b[j - Len(f)] /\ b[j - Len(f)] = q[i + (j - Len(f)) - 1]
        BY <1>2, <2>1, <3>2, <4>1
      <4> QED BY <4>1, <4>2
    <3> QED BY <3>1, <3>2
  <2>4. g = q
    BY <2>1, <2>2, <2>3, SeqEqual
  <2> QED BY <2>4 DEF g
<1> QED BY <1>1, <1>2, <1>3 DEF Cut

\* The same for three lists.
DueInParts(f, l, b, t, o, n) ==
    DueOf((f \o l) \o b, t, o, n) = (DueOf(f, t, o, n) \o DueOf(l, t, o, n)) \o DueOf(b, t, o, n)

LEMMA DueThree ==
    ASSUME NEW f \in Seq(Events), NEW l \in Seq(Events), NEW b \in Seq(Events),
           NEW t, NEW o, NEW n, WhoWhen(t, o)
    PROVE  DueInParts(f, l, b, t, o, n)
<1> DEFINE fl == f \o l
<1>1. fl \in Seq(Events)
  BY ConcatProperties
<1>2. DueOf(fl, t, o, n) = DueOf(f, t, o, n) \o DueOf(l, t, o, n)
  BY DueConcat DEF DueInHalves
<1> HIDE DEF fl
<1>3. DueOf(fl \o b, t, o, n) = DueOf(fl, t, o, n) \o DueOf(b, t, o, n)
  <2>1. DueInHalves(fl, b, t, o, n)
    BY <1>1, DueConcat
  <2> QED BY <2>1 DEF DueInHalves
<1> QED BY <1>2, <1>3 DEF fl, DueInParts

\* Every node of q has a client; two readings of distance and owner agree on q.
Owned(q, o) == \A j \in 1 .. Len(q) : o[q[j]] \in Clients
Alike(q, t, o, t2, o2) == \A j \in 1 .. Len(q) : t2[q[j]] = t[q[j]] /\ o2[q[j]] = o[q[j]]

\* Those due are read from the nodes of the list alone.
LEMMA DueAlike ==
    ASSUME NEW q \in Seq(Events), NEW t, NEW o, NEW t2, NEW o2, NEW n, Alike(q, t, o, t2, o2)
    PROVE  DueOf(q, t2, o2, n) = DueOf(q, t, o, n)
<1>1. SameMask(q, t2, o2, n, t, o, n)
  BY DEF SameMask, Alike
<1> QED BY <1>1, DueSame

\* Those due in a list without orphans are clients.
LEMMA DueClients ==
    ASSUME NEW q \in Seq(Events), NEW t, NEW o, NEW n, Owned(q, o)
    PROVE  DueOf(q, t, o, n) \in Seq(Clients)
<1>1. OwnedBy(q, t, o, n, Clients)
  BY DEF Owned, OwnedBy
<1> QED BY <1>1, NullAssumption, DueType

\* A client none of whose events is in the list is not due.
LEMMA DueOthers ==
    ASSUME NEW q \in Seq(Events), NEW t, NEW o, NEW n, NEW c, Owned(q, o),
           \A j \in 1 .. Len(q) : t[q[j]] = n => o[q[j]] # c
    PROVE  /\ DueOf(q, t, o, n) \in Seq(Clients)
           /\ \A i \in 1 .. Len(DueOf(q, t, o, n)) : DueOf(q, t, o, n)[i] # c
<1> DEFINE S == Clients \ {c}
           d == DueOf(q, t, o, n)
<1>1. OwnedBy(q, t, o, n, S) /\ Null \notin S
  BY NullAssumption DEF Owned, OwnedBy
<1>2. d \in Seq(S)
  <2> HIDE DEF S
  <2> QED BY <1>1, DueType
<1>3. d \in Seq(Clients)
  BY DueClients
<1> HIDE DEF d
<1>4. \A i \in 1 .. Len(d) : d[i] \in S
  BY <1>2
<1> QED BY <1>3, <1>4 DEF d

\* Removing who is not there changes nothing.
LEMMA RemoveNothing ==
    ASSUME NEW s, NEW c, \A i \in 1 .. Len(s) : s[i] # c
    PROVE  RemoveFirst(s, c) = s
BY DEF RemoveFirst

\* A node linked before the first that is due later joins the clients due with it as the last.
LEMMA DueInserted ==
    ASSUME NEW q \in Seq(Events), NEW i \in 1 .. Len(q) + 1, NEW e \in Events,
           NEW t, NEW o, NEW t2, NEW o2, NEW n, WhoWhen(t, o), WhoWhen(t2, o2),
           Alike(q, t, o, t2, o2), Owned(q, o), o2[e] \in Clients,
           \A j \in i .. Len(q) : t[q[j]] # t2[e]
    PROVE  DueOf(InsertAt(q, i, e), t2, o2, n) =
               IF n = t2[e] THEN Append(DueOf(q, t, o, n), o2[e]) ELSE DueOf(q, t, o, n)
<1> DEFINE c == o2[e]
<1>c. c \in Clients
  OBVIOUS
<1>i. i \in 1 .. Len(q) + 1
  OBVIOUS
<1>0. PICK f, b : f = SubSeq(q, 1, i - 1) /\ b = SubSeq(q, i, Len(q))
  OBVIOUS
<1> HIDE DEF c
<1>1. /\ f \in Seq(Events) /\ Len(f) = i - 1 /\ \A j \in 1 .. Len(f) : f[j] = q[j]
      /\ b \in Seq(Events) /\ Len(b) = Len(q) + 1 - i
      /\ \A j \in 1 .. Len(b) : b[j] = q[i + j - 1]
      /\ q = f \o b
  <2>1. Cut(q, i, f, b)
    BY <1>0, <1>i, CutBefore
  <2> QED BY <2>1 DEF Cut
<1>t. f \in Seq(Events) /\ b \in Seq(Events)
  BY <1>1
<1>2. InsertAt(q, i, e) = (f \o <<e>>) \o b
  BY <1>0 DEF InsertAt
<1>3. \A j \in 1 .. Len(f) : j \in 1 .. Len(q)
  BY <1>1
<1>4. \A j \in 1 .. Len(b) : i + j - 1 \in 1 .. Len(q) /\ i + j - 1 \in i .. Len(q)
  BY <1>1
<1>5. Alike(f, t, o, t2, o2) /\ Owned(f, o)
  BY <1>1, <1>3 DEF Alike, Owned
<1>6. Alike(b, t, o, t2, o2) /\ Owned(b, o)
  <2>1. \A j \in 1 .. Len(b) : b[j] = q[i + j - 1] /\ i + j - 1 \in 1 .. Len(q)
    BY <1>1, <1>4
  <2>2. ASSUME NEW j \in 1 .. Len(b)
        PROVE  t2[b[j]] = t[b[j]] /\ o2[b[j]] = o[b[j]] /\ o[b[j]] \in Clients
    <3> DEFINE x == i + j - 1
    <3>1. b[j] = q[x] /\ x \in 1 .. Len(q)
      BY <2>1
    <3> HIDE DEF x
    <3> QED BY <3>1 DEF Alike, Owned
  <2> QED BY <2>2 DEF Alike, Owned
<1>7. DueOf(f, t2, o2, n) = DueOf(f, t, o, n) /\ DueOf(b, t2, o2, n) = DueOf(b, t, o, n)
  BY <1>1, <1>5, <1>6, DueAlike
<1> DEFINE F == DueOf(f, t, o, n)
           B == DueOf(b, t, o, n)
           E == DueOf(<<e>>, t2, o2, n)
<1>8. F \in Seq(Clients) /\ B \in Seq(Clients)
  BY <1>1, <1>5, <1>6, DueClients
<1>9. DueOf(q, t, o, n) = F \o B
  <2>1. DueInHalves(f, b, t, o, n)
    BY <1>t, DueConcat
  <2> QED BY <1>1, <2>1 DEF DueInHalves
<1>10. DueOf(InsertAt(q, i, e), t2, o2, n) = (F \o E) \o B
  <2> DEFINE l == <<e>>
  <2>1. l \in Seq(Events) /\ f \in Seq(Events) /\ b \in Seq(Events) /\ WhoWhen(t2, o2)
    BY <1>t
  <2>l. E = DueOf(l, t2, o2, n) /\ InsertAt(q, i, e) = (f \o l) \o b
    BY <1>2
  <2> HIDE DEF l, E, F, B
  <2>2. DueInParts(f, l, b, t2, o2, n)
    BY <2>1, DueThree
  <2> QED BY <1>7, <2>l, <2>2 DEF F, B, DueInParts
<1>11. E = IF t2[e] = n THEN <<c>> ELSE <<>>
  BY <1>c, DueOne DEF c
<1> HIDE DEF F, E
<1>12. CASE n = t2[e]
  <2>1. B = <<>>
    <3>1. \A j \in 1 .. Len(b) : t[b[j]] # n
      BY <1>1, <1>4, <1>12
    <3> QED BY <1>t, <3>1, DueNone, Zenon
  <2> HIDE DEF B
  <2>2. F \o E = Append(F, c) /\ Append(F, c) \in Seq(Clients)
    BY <1>8, <1>11, <1>12, <1>c, AppendIsConcat, AppendProperties
  <2>3. (F \o E) \o B = Append(F, c) /\ F \o B = F
    BY <1>8, <2>1, <2>2, ConcatEmptySeq
  <2> QED BY <1>9, <1>10, <1>12, <2>3 DEF c
<1>13. CASE n # t2[e]
  <2>1. F \o E = F
    BY <1>8, <1>11, <1>13, ConcatEmptySeq
  <2> QED BY <1>9, <1>10, <1>13, <2>1
<1> QED BY <1>12, <1>13

\* What becomes of those due in n ticks when the node at position k is unlinked.
LeavesDue(q, k, t, o, t2, o2, n) ==
    /\ DueOf(RemoveAt(q, k), t2, o2, n) = RemoveFirst(DueOf(q, t, o, n), o[q[k]])
    /\ n = t[q[k]] => o[q[k]] \in ToSet(DueOf(q, t, o, n))
    /\ n = t[q[k]] /\ k = 1 => DueOf(RemoveAt(q, k), t2, o2, n) = Tail(DueOf(q, t, o, n))
    /\ n # t[q[k]] => DueOf(RemoveAt(q, k), t2, o2, n) = DueOf(q, t, o, n)
    /\ RemoveFirst(DueOf(q, t, o, n), o[q[k]]) \in Seq(Clients)

\* A node unlinked takes its client, which has no other, from those due with it.
LEMMA DueRemoved ==
    ASSUME NEW q \in Seq(Events), NEW k \in 1 .. Len(q),
           NEW t, NEW o, NEW t2, NEW o2, NEW n, WhoWhen(t, o), WhoWhen(t2, o2), Owned(q, o),
           Alike(RemoveAt(q, k), t, o, t2, o2),
           \A j \in 1 .. Len(q) : j # k => o[q[j]] # o[q[k]]
    PROVE  LeavesDue(q, k, t, o, t2, o2, n)
<1> DEFINE e == q[k]
           c == o[e]
<1>c. c \in Clients /\ e \in Events
  BY DEF Owned
<1>0. PICK f, b, pre : f = SubSeq(q, 1, k - 1) /\ b = SubSeq(q, k + 1, Len(q)) /\ pre = SubSeq(q, 1, k)
  OBVIOUS
<1>k. k \in 1 .. Len(q) /\ k \in 1 .. Len(q) + 1
  OBVIOUS
<1>1. f \in Seq(Events) /\ Len(f) = k - 1 /\ \A j \in 1 .. Len(f) : f[j] = q[j]
  <2>1. Cut(q, k, f, SubSeq(q, k, Len(q)))
    BY <1>0, <1>k, CutBefore
  <2> QED BY <2>1 DEF Cut
<1>2. /\ b \in Seq(Events) /\ Len(b) = Len(q) + 1 - (k + 1)
      /\ \A j \in 1 .. Len(b) : b[j] = q[(k + 1) + j - 1]
      /\ q = pre \o b
  <2> DEFINE m == k + 1
  <2>1. pre = SubSeq(q, 1, m - 1) /\ b = SubSeq(q, m, Len(q)) /\ m \in 1 .. Len(q) + 1
    BY <1>0, <1>k
  <2> HIDE DEF m
  <2>2. Cut(q, m, pre, b)
    BY <2>1, CutBefore
  <2> QED BY <2>2 DEF Cut, m
<1>3. pre = f \o <<e>>
  <2>1. 1 \in 1 .. Len(q) /\ k \in 1 .. Len(q)
    BY <1>k
  <2> QED BY <1>0, <2>1, SubSeqRecursiveSecond
<1>4. q = (f \o <<e>>) \o b
  BY <1>2, <1>3
<1>5. RemoveAt(q, k) = f \o b
  BY <1>0 DEF RemoveAt
<1>t. f \in Seq(Events) /\ b \in Seq(Events) /\ <<e>> \in Seq(Events)
  BY <1>1, <1>2, <1>c
<1>6. \A j \in 1 .. Len(f) : j \in 1 .. Len(q) /\ j # k
  BY <1>1, <1>k
<1>7. \A j \in 1 .. Len(b) : (k + 1) + j - 1 \in 1 .. Len(q) /\ (k + 1) + j - 1 # k
  BY <1>2, <1>k
<1>8. /\ Owned(f, o) /\ \A j \in 1 .. Len(f) : o[f[j]] # c
      /\ Owned(b, o) /\ \A j \in 1 .. Len(b) : o[b[j]] # c
  <2>1. ASSUME NEW j \in 1 .. Len(f) PROVE o[f[j]] \in Clients /\ o[f[j]] # c
    BY <1>1, <1>6 DEF Owned
  <2>2. ASSUME NEW j \in 1 .. Len(b) PROVE o[b[j]] \in Clients /\ o[b[j]] # c
    <3> DEFINE x == (k + 1) + j - 1
    <3>1. b[j] = q[x] /\ x \in 1 .. Len(q) /\ x # k
      BY <1>2, <1>7
    <3> HIDE DEF x
    <3> QED BY <3>1 DEF Owned
  <2> QED BY <2>1, <2>2 DEF Owned
<1> DEFINE F == DueOf(f, t, o, n)
           B == DueOf(b, t, o, n)
           E == DueOf(<<e>>, t, o, n)
           d == DueOf(q, t, o, n)
<1>9. /\ F \in Seq(Clients) /\ \A i \in 1 .. Len(F) : F[i] # c
      /\ B \in Seq(Clients) /\ \A i \in 1 .. Len(B) : B[i] # c
  <2>1. /\ F \in Seq(Clients) /\ \A i \in 1 .. Len(F) : F[i] # c
    BY <1>t, <1>8, DueOthers, Zenon
  <2>2. /\ B \in Seq(Clients) /\ \A i \in 1 .. Len(B) : B[i] # c
    BY <1>t, <1>8, DueOthers, Zenon
  <2> QED BY <2>1, <2>2
<1>10. DueOf(RemoveAt(q, k), t2, o2, n) = F \o B
  <2>1. f \o b \in Seq(Events)
    BY <1>t, ConcatProperties
  <2>2. Alike(f \o b, t, o, t2, o2)
    BY <1>5
  <2>3. DueOf(f \o b, t2, o2, n) = DueOf(f \o b, t, o, n)
    <3> DEFINE u == f \o b
    <3>1. u \in Seq(Events) /\ Alike(u, t, o, t2, o2)
      BY <2>1, <2>2
    <3> HIDE DEF u
    <3>2. DueOf(u, t2, o2, n) = DueOf(u, t, o, n)
      BY <3>1, DueAlike
    <3> QED BY <3>2 DEF u
  <2>4. DueOf(f \o b, t, o, n) = F \o B
    <3>1. DueInHalves(f, b, t, o, n)
      BY <1>t, DueConcat
    <3> QED BY <3>1 DEF DueInHalves
  <2> QED BY <1>5, <2>3, <2>4
<1>11. d = (F \o E) \o B
  <2> DEFINE l == <<e>>
  <2>1. l \in Seq(Events) /\ f \in Seq(Events) /\ b \in Seq(Events) /\ WhoWhen(t, o)
    BY <1>t
  <2>l. E = DueOf(l, t, o, n) /\ q = (f \o l) \o b
    BY <1>4
  <2> HIDE DEF l, E, F, B
  <2>2. DueInParts(f, l, b, t, o, n)
    BY <2>1, DueThree
  <2> QED BY <2>l, <2>2 DEF F, B, DueInParts
<1>12. E = IF t[e] = n THEN <<c>> ELSE <<>>
  BY <1>c, DueOne
<1>f. k = 1 => F = <<>>
  <2>1. k = 1 => \A j \in 1 .. Len(f) : t[f[j]] # n
    BY <1>1
  <2> QED BY <1>t, <2>1, DueNone, Zenon
<1>x. DueOf(RemoveAt(q, k), t2, o2, n) = F \o B /\ d = DueOf(q, t, o, n)
  BY <1>10
<1>y. F \o B \in Seq(Clients)
  BY <1>9, ConcatProperties
<1> HIDE DEF F, B, E, c, d, e
<1>13. CASE t[e] = n
  <2>1. d = (F \o <<c>>) \o B
    BY <1>11, <1>12, <1>13
  <2>2. RemoveFirst(d, c) = F \o B
    BY <1>9, <1>c, <2>1, RemoveBetween
  <2>3. c \in ToSet(d) /\ (k = 1 => Tail(d) = F \o B)
    <3> DEFINE g == F \o <<c>>
    <3>1. <<c>> \in Seq(Clients)
      BY <1>c
    <3>2. g \in Seq(Clients) /\ Len(g) = Len(F) + 1 /\ g[Len(F) + 1] = c
      BY <1>9, <1>c, ConcatProperties
    <3>3. /\ d \in Seq(Clients) /\ Len(d) = Len(g) + Len(B)
          /\ \A i \in 1 .. Len(g) + Len(B) : d[i] = IF i <= Len(g) THEN g[i] ELSE B[i - Len(g)]
      <4> HIDE DEF g
      <4>1. d = g \o B
        BY <2>1 DEF g
      <4> QED BY <1>9, <3>2, <4>1, ConcatProperties
    <3>l. Len(F) \in Nat /\ Len(B) \in Nat
      BY <1>9
    <3> HIDE DEF g
    <3>4. Len(F) + 1 \in 1 .. Len(d) /\ d[Len(F) + 1] = c /\ DOMAIN d = 1 .. Len(d)
      BY <3>2, <3>3, <3>l
    <3>5. c \in ToSet(d)
      BY <3>4 DEF ToSet
    <3>6. ASSUME k = 1 PROVE Tail(d) = F \o B
      <4>1. F = <<>> /\ <<>> \o B = B /\ Len(g) = 1
        BY <1>9, <1>f, <3>2, <3>6, ConcatEmptySeq
      <4>2. d # <<>>
        BY <3>4, <3>l
      <4>3. /\ Tail(d) \in Seq(Clients) /\ Len(Tail(d)) = Len(d) - 1
            /\ \A i \in 1 .. Len(Tail(d)) : Tail(d)[i] = d[i + 1]
        BY <3>3, <4>2, HeadTailProperties
      <4>4. \A i \in 1 .. Len(B) : Tail(d)[i] = B[i]
        <5>1. \A i \in 1 .. Len(B) : i \in 1 .. Len(Tail(d)) /\ i + 1 \in 1 .. Len(g) + Len(B)
                                     /\ ~ (i + 1 <= Len(g)) /\ (i + 1) - Len(g) = i
          BY <3>3, <3>l, <4>1, <4>3
        <5> QED BY <3>3, <4>3, <5>1
      <4>5. Len(Tail(d)) = Len(B)
        BY <3>3, <3>l, <4>1, <4>3
      <4>6. Tail(d) = B
        BY <1>9, <4>3, <4>4, <4>5, SeqEqual
      <4> QED BY <4>1, <4>6
    <3> QED BY <3>5, <3>6
  <2> QED BY <1>x, <1>y, <1>13, <2>2, <2>3 DEF c, e, LeavesDue
<1>14. CASE t[e] # n
  <2>1. d = F \o B
    BY <1>9, <1>11, <1>12, <1>14, ConcatEmptySeq
  <2>2. \A i \in 1 .. Len(d) : d[i] # c
    <3>1. \A j \in 1 .. Len(q) : t[q[j]] = n => o[q[j]] # c
      BY <1>14 DEF c, e
    <3> QED BY <3>1, DueOthers DEF d
  <2>3. RemoveFirst(d, c) = d
    BY <2>2, RemoveNothing
  <2> QED BY <1>x, <1>y, <1>14, <2>1, <2>3 DEF c, e, LeavesDue
<1> QED BY <1>13, <1>14

-----------------------------------------------------------------------------
(* The steps of the wheel.                                                   *)

Ahead == [e \in Events |-> TicksToEvent(e)]

\* The wheel, read from the list through the masks.
LEMMA DueIs ==
    ASSUME TypeOK
    PROVE  /\ Due = [n \in 0 .. MaxTicks |-> Due[n]]
           /\ \A n \in 0 .. MaxTicks : Due[n] = DueOf(activeEvents, Ahead, owner, n)
<1>1. \A i \in DOMAIN activeEvents : activeEvents[i] \in Events
  BY DEF TypeOK
<1>2. \A i \in DOMAIN activeEvents : Ahead[activeEvents[i]] = TicksToEvent(activeEvents[i])
  BY <1>1 DEF Ahead
<1>3. \A n : DueIn(activeEvents, n) = DueOf(activeEvents, Ahead, owner, n)
  BY <1>2 DEF DueIn, DueOf, Mask
<1> QED BY <1>3 DEF Due

LEMMA DueWillBe ==
    ASSUME TypeOK'
    PROVE  /\ Due' = [n \in 0 .. MaxTicks |-> Due'[n]]
           /\ \A n \in 0 .. MaxTicks : Due'[n] = DueOf(activeEvents', Ahead', owner', n)
<1>1. \A i \in DOMAIN activeEvents' : activeEvents'[i] \in Events
  BY DEF TypeOK
<1>2. \A i \in DOMAIN activeEvents' : Ahead'[activeEvents'[i]] = TicksToEvent(activeEvents[i])'
  BY <1>1 DEF Ahead, TicksToEvent
<1>3. Due' = [n \in 0 .. MaxTicks |-> DueOf(activeEvents', Ahead', owner', n)]
  BY <1>2 DEF Due, DueIn, DueOf, Mask
<1> QED BY <1>3

\* What the invariant says of the list, as the lemmas on the wheel ask for it.
LEMMA ListFacts ==
    ASSUME IInv
    PROVE  /\ activeEvents \in Seq(Events) /\ WhoWhen(Ahead, owner) /\ Owned(activeEvents, owner)
           /\ \A i, j \in 1 .. Len(activeEvents) :
                 i # j => owner[activeEvents[i]] # owner[activeEvents[j]]
           /\ \A i \in 1 .. Len(activeEvents) :
                 /\ activeEvents[i] \in Events /\ ptr[owner[activeEvents[i]]] = activeEvents[i]
                 /\ Ahead[activeEvents[i]] = TicksToEvent(activeEvents[i])
                 /\ Ahead[activeEvents[i]] \in (IF phase = "run" THEN 1 ELSE 0) .. MaxTicks
<1>0. TypeOK /\ PointersOwned /\ NoEventMissed /\ StopRespected
  BY DEF IInv
<1>1. /\ activeEvents \in Seq(Events) /\ DOMAIN activeEvents = 1 .. Len(activeEvents)
      /\ owner \in [Events -> Clients \union {Null}]
      /\ \A i \in 1 .. Len(activeEvents) : activeEvents[i] \in Events
  BY <1>0 DEF TypeOK
<1>2. WhoWhen(Ahead, owner)
  <2>1. \A e \in Events : TicksToEvent(e) \in Nat
    BY <1>0, ClockFacts, WidthAssumption DEF Time
  <2> QED BY <1>1, <2>1 DEF WhoWhen, Ahead
<1>3. \A i \in 1 .. Len(activeEvents) :
          owner[activeEvents[i]] \in Clients /\ ptr[owner[activeEvents[i]]] = activeEvents[i]
  BY <1>0, <1>1 DEF PointersOwned
<1>4. \A i, j \in 1 .. Len(activeEvents) : activeEvents[i] = activeEvents[j] => i = j
  BY <1>0, <1>1 DEF PointersOwned, IsInjective
<1>5. ASSUME NEW i \in 1 .. Len(activeEvents), NEW j \in 1 .. Len(activeEvents), i # j
      PROVE  owner[activeEvents[i]] # owner[activeEvents[j]]
  <2>1. owner[activeEvents[i]] = owner[activeEvents[j]] => activeEvents[i] = activeEvents[j]
    BY <1>3
  <2> QED BY <1>4, <1>5, <2>1
<1>6. \A i \in 1 .. Len(activeEvents) :
          /\ Ahead[activeEvents[i]] = TicksToEvent(activeEvents[i])
          /\ TicksToEvent(activeEvents[i]) \in (IF phase = "run" THEN 1 ELSE 0) .. MaxTicks
  BY <1>0, <1>1 DEF Ahead, NoEventMissed
<1>7. Owned(activeEvents, owner)
  BY <1>3 DEF Owned
<1> QED BY <1>1, <1>2, <1>3, <1>5, <1>6, <1>7

LEMMA WhoWhenNext ==
    ASSUME TypeOK', StopRespected'
    PROVE  WhoWhen(Ahead', owner')
<1>1. timeBase' \in Time /\ nextEventCounter' \in Time /\ nextTime' \in [Events -> Time]
      /\ owner' \in [Events -> Clients \union {Null}]
  BY DEF TypeOK
<1>2. GetTick' \in Time
  BY <1>1, WrapType DEF GetTick
<1>3. \A e \in Events : Sub(nextTime'[e], GetTick') \in Nat
  <2>1. ASSUME NEW e \in Events PROVE Sub(nextTime'[e], GetTick') \in Time
    BY <1>1, <1>2, WrapType
  <2> QED BY <2>1, WidthAssumption DEF Time
<1>4. Ahead' = [e \in Events |-> Sub(nextTime'[e], GetTick')]
  BY DEF Ahead, TicksToEvent
<1> QED BY <1>1, <1>3, <1>4 DEF WhoWhen

\* How the operators of the abstract specification read here.
LEMMA WheelOperators ==
    /\ \A s, c : Wheel!RemoveFirst(s, c) = RemoveFirst(s, c)
    /\ \A s : Wheel!ToSet(s) = ToSet(s)
<1>1. \A s, c : Wheel!RemoveFirst(s, c) = RemoveFirst(s, c)
  BY DEF Wheel!RemoveFirst, Wheel!RemoveAt, Wheel!SelectInSeq, Wheel!Min,
     RemoveFirst, RemoveAt, SelectInSeq, Min
<1>2. \A s : Wheel!ToSet(s) = ToSet(s)
  BY DEF Wheel!ToSet, ToSet
<1> QED BY <1>1, <1>2

Busy == phase = "callback"

\* What the wheel looks like after a client armed its event, or cancelled it.
WheelWith(c, ticks) ==
    \A n \in 0 .. MaxTicks :
        Due'[n] = IF n = ticks THEN Append(RemoveFirst(Due[n], c), c) ELSE RemoveFirst(Due[n], c)

LEMMA Schedules ==
    ASSUME TypeOK', NEW c \in Clients, NEW ticks \in Ticks, WheelWith(c, ticks),
           RemoveFirst(Due[ticks], c) \in Seq(Clients), Busy' = Busy
    PROVE  Wheel!Schedule(c, ticks)
<1> DEFINE s == RemoveFirst(Due[ticks], c)
           without == [n \in 0 .. MaxTicks |-> RemoveFirst(Due[n], c)]
<1>1. ticks \in 0 .. MaxTicks /\ Due' = [n \in 0 .. MaxTicks |-> Due'[n]]
  BY DueWillBe, WidthAssumption DEF Ticks
<1>2. Due'[ticks] = Append(s, c)
  BY <1>1 DEF WheelWith
<1>3. c \in Wheel!ToSet(Due'[ticks])
  <2>1. s \in Seq(Clients)
    OBVIOUS
  <2> HIDE DEF s
  <2>2. /\ Append(s, c) \in Seq(Clients) /\ Append(s, c)[Len(s) + 1] = c
        /\ Len(s) + 1 \in DOMAIN Append(s, c)
    BY <2>1
  <2>3. c \in ToSet(Append(s, c))
    BY <2>2 DEF ToSet
  <2> QED BY <1>2, <2>3, WheelOperators
<1>4. Wheel!WithoutClient(c) = without
  BY WheelOperators DEF Wheel!WithoutClient
<1>5. Due' = [without EXCEPT ![ticks] = Append(@, c)]
  <2>1. [without EXCEPT ![ticks] = Append(@, c)]
           = [n \in 0 .. MaxTicks |-> IF n = ticks THEN Append(s, c) ELSE RemoveFirst(Due[n], c)]
    BY <1>1
  <2>2. \A n \in 0 .. MaxTicks : Due'[n] = IF n = ticks THEN Append(s, c) ELSE RemoveFirst(Due[n], c)
    BY DEF WheelWith
  <2> HIDE DEF s
  <2>3. Due' = [n \in 0 .. MaxTicks |-> IF n = ticks THEN Append(s, c) ELSE RemoveFirst(Due[n], c)]
    BY <1>1, <2>2
  <2> QED BY <2>1, <2>3
<1> HIDE DEF without
<1> QED BY <1>3, <1>4, <1>5 DEF Wheel!Schedule, Busy
Inserted(q, i, e) ==
    /\ Len(InsertAt(q, i, e)) = Len(q) + 1
    /\ \A j \in 1 .. Len(q) + 1 :
          InsertAt(q, i, e)[j] = IF j < i THEN q[j] ELSE IF j = i THEN e ELSE q[j - 1]

LEMMA InsertedAt ==
    ASSUME NEW q \in Seq(Events), NEW i \in 1 .. Len(q) + 1, NEW e \in Events
    PROVE  Inserted(q, i, e)
BY InsertAtProperties DEF Inserted

\* A client with no event is put last among those due then.
LEMMA AddEventSchedules ==
    ASSUME IInv, NEW c \in Clients, NEW ticks \in Ticks, AddEvent(c, ticks)
    PROVE  Wheel!Schedule(c, ticks)
<1>0. TypeOK /\ IInv' /\ TypeOK' /\ StopRespected' /\ Sorted /\ StopRespected
  BY AddEventStep DEF IInv
<1>1. PICK e \in Events, i \in 1 .. Len(activeEvents) + 1 :
        /\ IsInsertPoint(activeEvents, i, ticks)
        /\ activeEvents' = InsertAt(activeEvents, i, e)
        /\ owner' = [owner EXCEPT ![e] = c]
        /\ nextTime' = [nextTime EXCEPT ![e] = Add(GetTick, ticks)]
  BY DEF AddEvent
<1>2. ptr[c] = Null /\ UNCHANGED phase
  BY DEF AddEvent
<1>3. GetTick' = GetTick /\ GetTick \in Time
  BY <1>0, ClientsKeepTime, ClockFacts DEF ClientStep
<1> DEFINE q == activeEvents
           m == Len(activeEvents)
<1>l. /\ q \in Seq(Events) /\ WhoWhen(Ahead, owner) /\ Owned(q, owner) /\ m \in Nat /\ i \in 1 .. m + 1
      /\ \A j \in 1 .. m : /\ q[j] \in Events /\ ptr[owner[q[j]]] = q[j] /\ owner[q[j]] \in Clients
                           /\ Ahead[q[j]] = TicksToEvent(q[j])
  <2>1. /\ q \in Seq(Events) /\ WhoWhen(Ahead, owner) /\ Owned(q, owner)
        /\ \A j \in 1 .. m : /\ q[j] \in Events /\ ptr[owner[q[j]]] = q[j]
                             /\ Ahead[q[j]] = TicksToEvent(q[j])
    BY ListFacts
  <2>2. \A j \in 1 .. m : owner[q[j]] \in Clients
    BY <2>1 DEF Owned
  <2> QED BY <2>1, <2>2
<1>4. \A j \in 1 .. m : q[j] # e
  <2>1. IsInjective(activeEvents') /\ activeEvents' \in Seq(Events)
    BY <1>0 DEF IInv, TypeOK, PointersOwned
  <2>2. /\ Len(activeEvents') = m + 1
        /\ \A j \in 1 .. m + 1 :
             activeEvents'[j] = IF j < i THEN q[j] ELSE IF j = i THEN e ELSE q[j - 1]
    <3>1. q \in Seq(Events) /\ i \in 1 .. Len(q) + 1 /\ activeEvents' = InsertAt(q, i, e) /\ m = Len(q)
      BY <1>1, <1>l
    <3> HIDE DEF q, m
    <3>2. Inserted(q, i, e)
      BY <3>1, InsertedAt
    <3> QED BY <3>1, <3>2 DEF Inserted
  <2>3. \A j, k \in 1 .. m + 1 : activeEvents'[j] = activeEvents'[k] => j = k
    <3>1. DOMAIN activeEvents' = 1 .. m + 1
      BY <2>1, <2>2
    <3> QED BY <2>1, <3>1 DEF IsInjective
  <2> HIDE DEF q, m
  <2>4. ASSUME NEW j \in 1 .. m, q[j] = e PROVE FALSE
    <3>1. CASE j < i
      <4>1. j \in 1 .. m + 1 /\ i \in 1 .. m + 1 /\ j # i /\ activeEvents'[j] = activeEvents'[i]
        BY <1>l, <2>2, <2>4, <3>1
      <4> QED BY <2>3, <4>1
    <3>2. CASE ~ (j < i)
      <4>1. /\ j + 1 \in 1 .. m + 1 /\ i \in 1 .. m + 1 /\ j + 1 # i /\ ~ (j + 1 < i)
            /\ (j + 1) - 1 = j
        BY <1>l, <3>2
      <4>2. activeEvents'[j + 1] = activeEvents'[i]
        BY <2>2, <2>4, <4>1
      <4> QED BY <2>3, <4>1, <4>2
    <3> QED BY <3>1, <3>2
  <2> QED BY <2>4
<1>5. Alike(q, Ahead, owner, Ahead', owner') /\ Ahead'[e] = ticks /\ owner'[e] = c
  <2>1. Ahead' = [x \in Events |-> Sub(nextTime'[x], GetTick')]
    BY DEF Ahead, TicksToEvent
  <2>2. \A x \in Events \ {e} : Ahead'[x] = Ahead[x] /\ owner'[x] = owner[x]
    BY <1>0, <1>1, <1>3, <2>1 DEF Ahead, TicksToEvent, TypeOK
  <2>3. nextTime'[e] = Add(GetTick, ticks) /\ owner'[e] = c
    BY <1>0, <1>1 DEF TypeOK
  <2>4. Ahead'[e] = ticks
    BY <1>3, <2>1, <2>3, ArmedDistance
  <2>5. \A j \in 1 .. m : Ahead'[q[j]] = Ahead[q[j]] /\ owner'[q[j]] = owner[q[j]]
    BY <1>l, <1>4, <2>2
  <2> QED BY <2>3, <2>4, <2>5 DEF Alike
<1>6. \A j \in i .. m : Ahead[q[j]] # Ahead'[e]
  <2>1. ASSUME NEW j \in i .. m PROVE Ahead[q[j]] # ticks
    <3>1. i <= m /\ ticks < TicksToEvent(q[i]) /\ i \in 1 .. m /\ j \in 1 .. m
      BY <1>1, <1>l DEF IsInsertPoint
    <3>2. TicksToEvent(q[i]) <= TicksToEvent(q[j]) \/ i = j
      BY <1>0, <3>1 DEF Sorted
    <3>3. TicksToEvent(q[i]) \in Nat /\ TicksToEvent(q[j]) \in Nat /\ ticks \in Nat
      <4>1. \A x \in Events : TicksToEvent(x) \in Nat
        BY <1>0, ClockFacts, WidthAssumption DEF Time
      <4> QED BY <1>l, <3>1, <4>1 DEF Ticks
    <3> HIDE DEF q, m
    <3>4. ticks < TicksToEvent(q[j])
      BY <3>1, <3>2, <3>3
    <3> QED BY <1>l, <3>1, <3>3, <3>4
  <2> QED BY <1>5, <2>1
<1>7. WhoWhen(Ahead', owner')
  BY <1>0, WhoWhenNext
<1> HIDE DEF q, m
<1> DEFINE t2 == Ahead'
           o2 == owner'
           t == Ahead
<1>8. /\ Alike(q, t, owner, t2, o2) /\ WhoWhen(t, owner) /\ WhoWhen(t2, o2) /\ Owned(q, owner)
      /\ t2[e] = ticks /\ o2[e] = c /\ o2[e] \in Clients /\ q \in Seq(Events) /\ e \in Events
      /\ i \in 1 .. Len(q) + 1 /\ \A j \in i .. Len(q) : t[q[j]] # t2[e]
  BY <1>5, <1>6, <1>7, <1>l DEF m, q
<1>9. ASSUME NEW n \in 0 .. MaxTicks
      PROVE  /\ Due'[n] = IF n = ticks THEN Append(Due[n], c) ELSE Due[n]
             /\ RemoveFirst(Due[n], c) = Due[n] /\ Due[n] \in Seq(Clients)
  <2>1. Due[n] = DueOf(q, t, owner, n) /\ Due'[n] = DueOf(activeEvents', t2, o2, n)
    BY <1>0, DueIs, DueWillBe DEF q
  <2> HIDE DEF t, t2, o2
  <2>2. activeEvents' = InsertAt(q, i, e)
    BY <1>1 DEF q
  <2>3. DueOf(InsertAt(q, i, e), t2, o2, n) =
               IF n = t2[e] THEN Append(DueOf(q, t, owner, n), o2[e]) ELSE DueOf(q, t, owner, n)
    BY <1>8, DueInserted
  <2>4. \A j \in 1 .. Len(q) : t[q[j]] = n => owner[q[j]] # c
    <3>1. \A j \in 1 .. Len(q) : owner[q[j]] # c
      BY <1>l, <1>2, NullAssumption DEF m, q
    <3> QED BY <3>1
  <2>5. /\ DueOf(q, t, owner, n) \in Seq(Clients)
        /\ \A j \in 1 .. Len(DueOf(q, t, owner, n)) : DueOf(q, t, owner, n)[j] # c
    BY <1>8, <2>4, DueOthers, Zenon
  <2>6. RemoveFirst(DueOf(q, t, owner, n), c) = DueOf(q, t, owner, n)
    BY <2>5, RemoveNothing
  <2> QED BY <1>8, <2>1, <2>2, <2>3, <2>5, <2>6
<1>10. WheelWith(c, ticks)
  BY <1>9 DEF WheelWith
<1>11. RemoveFirst(Due[ticks], c) \in Seq(Clients)
  <2>1. ticks \in 0 .. MaxTicks
    BY WidthAssumption DEF Ticks
  <2> QED BY <1>9, <2>1
<1>12. Busy' = Busy
  BY <1>2 DEF Busy
<1> QED BY <1>0, <1>10, <1>11, <1>12, Schedules

\* Unlinking the node of client c.
LEMMA Unlinking ==
    ASSUME IInv, NEW k \in 1 .. Len(activeEvents), NEW n, NEW t2, NEW o2, WhoWhen(t2, o2),
           Alike(RemoveAt(activeEvents, k), Ahead, owner, t2, o2)
    PROVE  LeavesDue(activeEvents, k, Ahead, owner, t2, o2, n)
<1> DEFINE t == Ahead
           q == activeEvents
<1>1. /\ q \in Seq(Events) /\ WhoWhen(t, owner) /\ Owned(q, owner) /\ k \in 1 .. Len(q)
      /\ \A j \in 1 .. Len(q) : j # k => owner[q[j]] # owner[q[k]]
  BY ListFacts
<1>2. Alike(RemoveAt(q, k), t, owner, t2, o2)
  OBVIOUS
<1> HIDE DEF t, q
<1>3. LeavesDue(q, k, t, owner, t2, o2, n)
  BY <1>1, <1>2, DueRemoved
<1> QED BY <1>3 DEF t, q

LEMMA UnsetEventCancels ==
    ASSUME IInv, NEW c \in Clients, UnsetEvent(c)
    PROVE  Wheel!Cancel(c)
<1>0. TypeOK /\ IInv' /\ TypeOK' /\ StopRespected'
  BY UnsetEventStep DEF IInv
<1>1. PICK k \in 1 .. Len(activeEvents) :
        /\ activeEvents[k] = ptr[c]
        /\ activeEvents' = RemoveAt(activeEvents, k)
        /\ owner' = [owner EXCEPT ![activeEvents[k]] = Null]
        /\ nextTime' = [nextTime EXCEPT ![activeEvents[k]] = 0]
  BY DEF UnsetEvent
<1>2. GetTick' = GetTick /\ UNCHANGED phase
  BY ClientsKeepTime DEF ClientStep, UnsetEvent
<1> DEFINE e == activeEvents[k]
           q == RemoveAt(activeEvents, k)
<1>3. e \in Events /\ owner[e] = c /\ Ahead[e] \in 0 .. MaxTicks
  <2>1. e \in Events /\ Ahead[e] \in (IF phase = "run" THEN 1 ELSE 0) .. MaxTicks
    BY ListFacts
  <2>2. ptr[c] # Null
    BY <1>1, <2>1, NullAssumption
  <2>3. owner[ptr[c]] = c
    BY <2>2 DEF IInv, PointersOwned
  <2> QED BY <1>1, <2>1, <2>3, WidthAssumption
<1>4. Alike(q, Ahead, owner, Ahead', owner')
  <2>1. Ahead' = [x \in Events |-> Sub(nextTime'[x], GetTick')]
    BY DEF Ahead, TicksToEvent
  <2>2. \A x \in Events \ {e} : Ahead'[x] = Ahead[x] /\ owner'[x] = owner[x]
    BY <1>0, <1>1, <1>2, <2>1 DEF Ahead, TicksToEvent, TypeOK
  <2>3. \A j \in 1 .. Len(q) : q[j] \in Events \ {e}
    BY Unlinked
  <2> HIDE DEF q, e
  <2> QED BY <2>2, <2>3 DEF Alike
<1>5. WhoWhen(Ahead', owner')
  BY <1>0, WhoWhenNext
<1>6. ASSUME NEW n \in 0 .. MaxTicks
      PROVE  Due'[n] = RemoveFirst(Due[n], c) /\ (n = Ahead[e] => c \in ToSet(Due[n]))
  <2> DEFINE t2 == Ahead'
             o2 == owner'
  <2>1. Due[n] = DueOf(activeEvents, Ahead, owner, n) /\ Due'[n] = DueOf(q, t2, o2, n)
    BY <1>0, <1>1, DueIs, DueWillBe
  <2>2. WhoWhen(t2, o2) /\ Alike(q, Ahead, owner, t2, o2) /\ c = owner[e]
    BY <1>3, <1>4, <1>5
  <2> HIDE DEF t2, o2
  <2>3. LeavesDue(activeEvents, k, Ahead, owner, t2, o2, n)
    BY <2>2, Unlinking
  <2> QED BY <1>3, <2>1, <2>3 DEF LeavesDue
<1>7. Wheel!Waiting(c)
  <2>1. \E n \in 0 .. MaxTicks : c \in ToSet(Due[n])
    BY <1>3, <1>6
  <2> QED BY <2>1, WheelOperators DEF Wheel!Waiting
<1>8. Due' = Wheel!WithoutClient(c)
  <2>1. Due' = [n \in 0 .. MaxTicks |-> RemoveFirst(Due[n], c)]
    BY <1>0, <1>6, DueWillBe
  <2> QED BY <2>1, WheelOperators DEF Wheel!WithoutClient
<1> QED BY <1>2, <1>7, <1>8 DEF Wheel!Cancel

LEMMA FireFires ==
    ASSUME IInv, Fire
    PROVE  Wheel!FireNow
<1>0. TypeOK /\ IInv' /\ TypeOK' /\ StopRespected'
  BY FireStep DEF IInv
<1> DEFINE e == activeEvents[1]
           q == RemoveAt(activeEvents, 1)
           c == owner[e]
<1>1. /\ phase = "process" /\ activeEvents # <<>> /\ TicksToEvent(e) = 0
      /\ owner' = [owner EXCEPT ![e] = Null]
      /\ nextTime' = [nextTime EXCEPT ![e] = 0]
      /\ activeEvents' = Tail(activeEvents)
      /\ phase' = "callback"
  BY DEF Fire
<1>2. 1 \in 1 .. Len(activeEvents)
  BY <1>0, <1>1 DEF TypeOK
<1>3. activeEvents' = q
  <2> DEFINE s == Tail(activeEvents)
  <2>1. /\ s \in Seq(Events) /\ Len(s) = Len(activeEvents) - 1
        /\ \A j \in 1 .. Len(activeEvents) - 1 : s[j] = activeEvents[j + 1]
    BY <1>0, <1>1 DEF TypeOK
  <2>2. /\ q \in Seq(Events) /\ Len(q) = Len(activeEvents) - 1
        /\ \A j \in 1 .. Len(activeEvents) - 1 : q[j] = activeEvents[j + 1]
    <3>1. /\ q \in Seq(Events) /\ Len(q) = Len(activeEvents) - 1
          /\ \A j \in 1 .. Len(activeEvents) - 1 :
               q[j] = IF j < 1 THEN activeEvents[j] ELSE activeEvents[j + 1]
      BY <1>0, <1>2, RemoveAtProperties DEF TypeOK
    <3> QED  BY <3>1
  <2> HIDE DEF s, q
  <2>3. s = q
    BY <1>2, <2>1, <2>2
  <2> QED  BY <1>1, <2>3 DEF s
<1>4. GetTick' = GetTick
  BY ProcessingKeepsTime
<1>5. e \in Events /\ Ahead[e] = 0
  BY <1>1, <1>2, ListFacts
<1>6. Alike(q, Ahead, owner, Ahead', owner')
  <2>1. Ahead' = [x \in Events |-> Sub(nextTime'[x], GetTick')]
    BY DEF Ahead, TicksToEvent
  <2>2. \A x \in Events \ {e} : Ahead'[x] = Ahead[x] /\ owner'[x] = owner[x]
    BY <1>0, <1>1, <1>4, <2>1 DEF Ahead, TicksToEvent, TypeOK
  <2>3. \A j \in 1 .. Len(q) : q[j] \in Events \ {e}
    BY <1>2, Unlinked
  <2> HIDE DEF q, e
  <2> QED BY <2>2, <2>3 DEF Alike
<1>7. WhoWhen(Ahead', owner')
  BY <1>0, WhoWhenNext
<1>8. ASSUME NEW n \in 0 .. MaxTicks
      PROVE  /\ n = 0 => c \in ToSet(Due[n]) /\ Due'[n] = Tail(Due[n])
             /\ n # 0 => Due'[n] = Due[n]
  <2> DEFINE t2 == Ahead'
             o2 == owner'
  <2>1. Due[n] = DueOf(activeEvents, Ahead, owner, n) /\ Due'[n] = DueOf(q, t2, o2, n)
    BY <1>0, <1>3, DueIs, DueWillBe
  <2>2. WhoWhen(t2, o2) /\ Alike(q, Ahead, owner, t2, o2) /\ 0 = Ahead[e]
    BY <1>5, <1>6, <1>7
  <2> HIDE DEF t2, o2
  <2>3. LeavesDue(activeEvents, 1, Ahead, owner, t2, o2, n)
    BY <1>2, <2>2, Unlinking
  <2> QED BY <2>1, <2>2, <2>3 DEF LeavesDue
<1> HIDE DEF e, q, c
<1>9. 0 \in 0 .. MaxTicks
  BY WidthAssumption
<1>10. Due[0] # <<>>
  <2>1. c \in ToSet(Due[0])
    BY <1>8, <1>9
  <2>2. ToSet(<<>>) = {}
    BY DEF ToSet
  <2> QED BY <2>1, <2>2
<1>11. Due' = [Due EXCEPT ![0] = Tail(@)]
  <2> DEFINE d == Due
             d2 == Due'
  <2>1. d2 = [n \in 0 .. MaxTicks |-> d2[n]] /\ d = [n \in 0 .. MaxTicks |-> d[n]]
    BY <1>0, DueIs, DueWillBe
  <2>2. \A n \in 0 .. MaxTicks : d2[n] = IF n = 0 THEN Tail(d[n]) ELSE d[n]
    BY <1>8
  <2> HIDE DEF d, d2
  <2>3. d2 = [d EXCEPT ![0] = Tail(@)]
    BY <1>9, <2>1, <2>2
  <2> QED BY <2>3 DEF d, d2
<1> QED BY <1>1, <1>10, <1>11 DEF Wheel!FireNow

\* SetEvent unlinks the client's node and links it anew.
LEMMA SetEventSchedules ==
    ASSUME IInv, NEW c \in Clients, NEW ticks \in Ticks, SetEvent(c, ticks)
    PROVE  Wheel!Schedule(c, ticks)
<1>0. TypeOK /\ IInv' /\ TypeOK' /\ StopRespected' /\ StopRespected
  BY SetEventStep DEF IInv
<1>1. PICK k \in 1 .. Len(activeEvents) :
        /\ activeEvents[k] = ptr[c]
        /\ \E i \in 1 .. Len(RemoveAt(activeEvents, k)) + 1 :
             /\ IsInsertPoint(RemoveAt(activeEvents, k), i, ticks)
             /\ activeEvents' = InsertAt(RemoveAt(activeEvents, k), i, activeEvents[k])
        /\ nextTime' = [nextTime EXCEPT ![activeEvents[k]] = Add(GetTick, ticks)]
  BY DEF SetEvent
<1> DEFINE e == activeEvents[k]
           q == RemoveAt(activeEvents, k)
<1>2. PICK i \in 1 .. Len(q) + 1 : IsInsertPoint(q, i, ticks) /\ activeEvents' = InsertAt(q, i, e)
  BY <1>1
<1>3. GetTick' = GetTick /\ GetTick \in Time /\ UNCHANGED <<phase, owner>>
  BY <1>0, ClientsKeepTime, ClockFacts DEF ClientStep, SetEvent
<1>4. e \in Events /\ owner[e] = c /\ nextTime' = [nextTime EXCEPT ![e] = Add(GetTick, ticks)]
  <2>1. e \in Events
    BY ListFacts
  <2>2. ptr[c] # Null
    BY <1>1, <2>1, NullAssumption
  <2>3. owner[ptr[c]] = c
    BY <2>2 DEF IInv, PointersOwned
  <2> QED BY <1>1, <2>1, <2>3
<1>5. /\ q \in Seq(Events)
      /\ \A j \in 1 .. Len(q) : q[j] \in Events \ {e}
      /\ \A x, y \in 1 .. Len(q) : x < y => TicksToEvent(q[x]) <= TicksToEvent(q[y])
  BY Unlinked
<1>6. Owned(q, owner)
  <2>1. Len(q) = Len(activeEvents) - 1 /\ \A j \in 1 .. Len(activeEvents) - 1 :
            q[j] = activeEvents[IF j < k THEN j ELSE j + 1]
    BY Unlinked
  <2>2. /\ \A j \in 1 .. Len(activeEvents) : owner[activeEvents[j]] \in Clients
        /\ Len(activeEvents) \in Nat
    <3>1. activeEvents \in Seq(Events) /\ Owned(activeEvents, owner)
      BY ListFacts
    <3> QED BY <3>1 DEF Owned
  <2> HIDE DEF q, e
  <2>3. ASSUME NEW j \in 1 .. Len(q) PROVE owner[q[j]] \in Clients
    <3> DEFINE x == IF j < k THEN j ELSE j + 1
    <3>1. x \in 1 .. Len(activeEvents) /\ q[j] = activeEvents[x]
      BY <2>1, <2>2
    <3> HIDE DEF x
    <3> QED BY <2>2, <3>1
  <2> QED BY <2>3 DEF Owned
<1> HIDE DEF q, e
<1> DEFINE t == Ahead
           t2 == Ahead'
<1>7. Alike(q, t, owner, t2, owner) /\ t2[e] = ticks
  <2>1. Ahead' = [x \in Events |-> Sub(nextTime'[x], GetTick')]
    BY DEF Ahead, TicksToEvent
  <2>2. \A x \in Events \ {e} : Ahead'[x] = Ahead[x]
    BY <1>0, <1>3, <1>4, <2>1 DEF Ahead, TicksToEvent, TypeOK
  <2>3. nextTime'[e] = Add(GetTick, ticks)
    BY <1>0, <1>4 DEF TypeOK
  <2>4. Ahead'[e] = ticks
    BY <1>3, <1>4, <2>1, <2>3, ArmedDistance
  <2> QED BY <1>5, <2>2, <2>4 DEF Alike
<1>8. \A j \in i .. Len(q) : t[q[j]] # t2[e]
  <2>1. ASSUME NEW j \in i .. Len(q) PROVE t[q[j]] # ticks
    <3>l. Len(q) \in Nat
      BY <1>5
    <3>1. i <= Len(q) /\ ticks < TicksToEvent(q[i]) /\ i \in 1 .. Len(q) /\ j \in 1 .. Len(q)
      BY <1>2, <3>l DEF IsInsertPoint
    <3>2. TicksToEvent(q[i]) <= TicksToEvent(q[j]) \/ i = j
      BY <1>5, <3>1
    <3>3. TicksToEvent(q[i]) \in Nat /\ TicksToEvent(q[j]) \in Nat /\ ticks \in Nat
      <4>1. \A x \in Events : TicksToEvent(x) \in Nat
        BY <1>0, ClockFacts, WidthAssumption DEF Time
      <4> QED BY <1>5, <3>1, <4>1 DEF Ticks
    <3>4. ticks < TicksToEvent(q[j])
      BY <3>1, <3>2, <3>3
    <3>5. t[q[j]] = TicksToEvent(q[j])
      BY <1>5, <3>1 DEF Ahead
    <3> QED BY <3>3, <3>4, <3>5
  <2> QED BY <1>7, <2>1
<1>9. WhoWhen(t2, owner) /\ WhoWhen(t, owner)
  BY <1>0, <1>3, WhoWhenNext, ListFacts
<1>10. ASSUME NEW n \in 0 .. MaxTicks
       PROVE  /\ Due'[n] = IF n = ticks THEN Append(RemoveFirst(Due[n], c), c) ELSE RemoveFirst(Due[n], c)
              /\ RemoveFirst(Due[n], c) \in Seq(Clients)
  <2>1. Due[n] = DueOf(activeEvents, t, owner, n) /\ Due'[n] = DueOf(InsertAt(q, i, e), t2, owner, n)
    BY <1>0, <1>2, <1>3, DueIs, DueWillBe
  <2>2. LeavesDue(activeEvents, k, t, owner, t, owner, n)
    <3>1. Alike(RemoveAt(activeEvents, k), Ahead, owner, Ahead, owner)
      BY DEF Alike
    <3> QED BY <1>9, <3>1, Unlinking
  <2>3. /\ DueOf(q, t, owner, n) = RemoveFirst(DueOf(activeEvents, t, owner, n), c)
        /\ RemoveFirst(DueOf(activeEvents, t, owner, n), c) \in Seq(Clients)
    BY <1>4, <2>2 DEF LeavesDue, q, e
  <2> HIDE DEF t, t2
  <2>4. /\ Alike(q, t, owner, t2, owner) /\ WhoWhen(t, owner) /\ WhoWhen(t2, owner) /\ Owned(q, owner)
        /\ owner[e] \in Clients /\ q \in Seq(Events) /\ e \in Events
        /\ i \in 1 .. Len(q) + 1 /\ \A j \in i .. Len(q) : t[q[j]] # t2[e]
    BY <1>4, <1>5, <1>6, <1>7, <1>8, <1>9
  <2>5. DueOf(InsertAt(q, i, e), t2, owner, n) =
               IF n = t2[e] THEN Append(DueOf(q, t, owner, n), owner[e]) ELSE DueOf(q, t, owner, n)
    BY <2>4, DueInserted
  <2> QED BY <1>4, <1>7, <2>1, <2>3, <2>5
<1>11. WheelWith(c, ticks)
  BY <1>10 DEF WheelWith
<1>12. RemoveFirst(Due[ticks], c) \in Seq(Clients)
  <2>1. ticks \in 0 .. MaxTicks
    BY WidthAssumption DEF Ticks
  <2> QED BY <1>10, <2>1
<1>13. Busy' = Busy
  BY <1>3 DEF Busy
<1> QED BY <1>0, <1>11, <1>12, <1>13, Schedules

-----------------------------------------------------------------------------
\* Every step of the loop counts up by some number of ticks, or only turns to processing.
CountsUp(n) ==
    /\ n \in 1 .. W - 1 /\ n <= TicksToNext
    /\ nextEventCounter' = Add(nextEventCounter, n)
    /\ UNCHANGED <<timeBase, queue>>

LEMMA LoopCounts ==
    ASSUME IInv, LoopStep
    PROVE  /\ phase = "run" /\ phase' # "callback"
           /\ UNCHANGED <<clock, queue>> \/ \E n \in 1 .. W - 1 : CountsUp(n)
<1>1. nextEventCounter \in Time /\ TicksToNext \in Time /\ 1 \in 1 .. W - 1
  BY ClockFacts, WidthAssumption DEF IInv, TypeOK, Time
<1>2. ASSUME Advance \/ AdvanceStopCheck PROVE phase = "run" /\ phase' # "callback" /\ CountsUp(1)
  <2>1. nextEventCounter # 0
    BY <1>2, WidthAssumption DEF IInv, CounterReachesNoEvent, Advance, AdvanceStopCheck
  <2>2. 1 <= TicksToNext
    BY <1>1, <2>1, WidthAssumption DEF TicksToNext, Neg, Sub, Time
  <2> QED BY <1>1, <1>2, <2>2 DEF Advance, AdvanceStopCheck, CountUp, CountsUp
<1>3. ASSUME NEW n \in 1 .. MaxRun, TrySkip(n)
      PROVE  phase = "run" /\ phase' # "callback" /\ n \in 1 .. W - 1 /\ CountsUp(n)
  <2>1. /\ loop = "stopcheck" /\ phase = "run" /\ phase' = "run"
        /\ nextEventCounter' = Add(nextEventCounter, n) /\ nextEventCounter' >= Half
        /\ UNCHANGED <<timeBase, queue>>
    BY <1>3 DEF TrySkip
  <2>2. n <= TicksToNext /\ n \in 1 .. W - 1
    <3>1. nextEventCounter # 0
      BY <2>1, WidthAssumption DEF IInv, CounterReachesNoEvent
    <3> QED  BY <1>1, <2>1, <3>1, WidthAssumption DEF Add, TicksToNext, Neg, Sub, Time
  <2> QED BY <2>1, <2>2 DEF CountsUp
<1>4. ASSUME NEW n \in 1 .. MaxRun, AdvanceN(n)
      PROVE  phase = "run" /\ phase' # "callback" /\ n \in 1 .. W - 1 /\ CountsUp(n)
  <2>1. n \in 1 .. W - 1 /\ n <= TicksToNext
    BY <1>4, WidthAssumption DEF AdvanceN
  <2> QED BY <1>4, <2>1 DEF AdvanceN, CountUp, CountsUp
<1>5. ASSUME NEW t \in Time, SetStopTime(t)
      PROVE  phase = "run" /\ phase' # "callback" /\ UNCHANGED <<clock, queue>>
  BY <1>5 DEF SetStopTime
<1>6. ASSUME ClearStopTime
      PROVE  phase = "run" /\ phase' # "callback" /\ UNCHANGED <<clock, queue>>
  BY <1>6 DEF ClearStopTime
<1> QED BY <1>1, <1>2, <1>3, <1>4, <1>5, <1>6 DEF LoopStep

\* Counting up by n brings every pending event n ticks nearer, and none was nearer than that.
LEMMA CountingUpNears ==
    ASSUME IInv, phase = "run", NEW n \in 1 .. W - 1, CountsUp(n)
    PROVE  \A i \in 1 .. Len(activeEvents) :
              /\ n <= TicksToEvent(activeEvents[i])
              /\ TicksToEvent(activeEvents[i])' = TicksToEvent(activeEvents[i]) - n
<1> USE DEF IInv
<1>1. /\ timeBase \in Time /\ nextEventCounter \in Time
      /\ \A e \in Events : nextTime[e] \in Time
      /\ Len(activeEvents) \in Nat
      /\ \A i \in 1 .. Len(activeEvents) : activeEvents[i] \in Events
      /\ GetTick \in Time /\ TicksToNext \in Nat /\ n \in Nat /\ n <= TicksToNext
  BY ClockFacts, WidthAssumption DEF TypeOK, Time, CountsUp
<1>2. \A t \in Time : n <= Sub(t, GetTick) => Sub(t, GetTick') = Sub(t, GetTick) - n
  <2>1. \A t \in Time : n <= Sub(t, GetTick) =>
           Sub(t, Add(timeBase, Add(nextEventCounter, n))) = Sub(t, GetTick) - n
    BY <1>1, TimePasses DEF TicksToNext, GetTick
  <2>2. GetTick' = Add(timeBase, Add(nextEventCounter, n))
    BY DEF GetTick, CountsUp
  <2> QED  BY <2>1, <2>2
<1>3. activeEvents' = activeEvents /\ nextTime' = nextTime
  BY DEF CountsUp, queue
<1>4. ASSUME NEW i \in 1 .. Len(activeEvents) PROVE n <= TicksToEvent(activeEvents[i])
  <2>1. activeEvents # <<>> /\ 1 \in 1 .. Len(activeEvents)
    BY <1>1
  <2>2. /\ TicksToEvent(activeEvents[i]) \in 1 .. MaxTicks
        /\ TicksToEvent(activeEvents[1]) \in 1 .. MaxTicks
    BY <2>1 DEF NoEventMissed
  <2>3. TicksToEvent(activeEvents[1]) <= TicksToEvent(activeEvents[i])
    BY <1>1, <2>1, <2>2, WidthAssumption, SMTT(30) DEF Sorted
  <2>4. TicksToNext <= TicksToEvent(activeEvents[1])
    BY <2>1 DEF CounterReachesNoEvent
  <2> QED  BY <1>1, <2>2, <2>3, <2>4, WidthAssumption, SMTT(30)
<1>5. ASSUME NEW i \in 1 .. Len(activeEvents)
      PROVE  TicksToEvent(activeEvents[i])' = TicksToEvent(activeEvents[i]) - n
  <2>1. TicksToEvent(activeEvents[i])' = Sub(nextTime[activeEvents[i]], GetTick')
    BY <1>3 DEF TicksToEvent
  <2>2. nextTime[activeEvents[i]] \in Time /\ n <= Sub(nextTime[activeEvents[i]], GetTick)
    BY <1>1, <1>4 DEF TicksToEvent
  <2> QED  BY <1>2, <2>1, <2>2 DEF TicksToEvent
<1> QED BY <1>4, <1>5

\* So the wheel turns by n, unless nothing is pending.
LEMMA CountingUpPasses ==
    ASSUME IInv, IInv', phase = "run", phase' # "callback", NEW n \in 1 .. W - 1, CountsUp(n)
    PROVE  [Wheel!WheelNext]_<<Due, Busy>>
<1>0. TypeOK /\ TypeOK'
  BY DEF IInv
<1> DEFINE q == activeEvents
           t == Ahead
           t2 == Ahead'
<1>1. /\ q \in Seq(Events) /\ Len(q) \in Nat /\ activeEvents' = q /\ owner' = owner
      /\ \A i \in 1 .. Len(q) : t[q[i]] \in 1 .. MaxTicks
  BY ListFacts DEF CountsUp, queue
<1>2. \A i \in 1 .. Len(q) : n <= t[q[i]] /\ t2[q[i]] = t[q[i]] - n
  <2>1. \A i \in 1 .. Len(q) : /\ n <= TicksToEvent(q[i])
                               /\ TicksToEvent(activeEvents[i])' = TicksToEvent(q[i]) - n
    BY CountingUpNears
  <2>2. \A i \in 1 .. Len(q) : t[q[i]] = TicksToEvent(q[i]) /\ q[i] \in Events
    BY ListFacts
  <2>3. \A i \in 1 .. Len(q) : t2[q[i]] = TicksToEvent(activeEvents[i])'
    BY <1>1, <2>2 DEF Ahead, TicksToEvent
  <2> QED BY <2>1, <2>2, <2>3
<1>3. /\ Due = [m \in 0 .. MaxTicks |-> Due[m]] /\ Due' = [m \in 0 .. MaxTicks |-> Due'[m]]
      /\ \A m \in 0 .. MaxTicks : Due[m] = DueOf(q, t, owner, m) /\ Due'[m] = DueOf(q, t2, owner, m)
  BY <1>0, <1>1, DueIs, DueWillBe
<1>n. n \in Nat /\ n >= 1 /\ MaxTicks \in Nat
  BY WidthAssumption
<1>b. Busy = FALSE /\ Busy' = FALSE
  BY DEF Busy
<1> HIDE DEF q, t, t2
<1>4. \A i \in 1 .. Len(q) : n \in 1 .. MaxTicks
  BY <1>1, <1>2, <1>n
<1>5. CASE n > MaxTicks
  <2>1. Len(q) = 0
    BY <1>1, <1>4, <1>5, <1>n
  <2>2. \A m \in 0 .. MaxTicks : DueOf(q, t, owner, m) = <<>> /\ DueOf(q, t2, owner, m) = <<>>
    <3>1. \A m : \A i \in 1 .. Len(q) : t[q[i]] # m /\ t2[q[i]] # m
      BY <2>1
    <3> QED BY <1>1, <3>1, DueNone
  <2>3. \A m \in 0 .. MaxTicks : Due[m] = Due'[m]
    BY <1>3, <2>2
  <2> DEFINE d == Due
             d2 == Due'
  <2>4. d = [m \in 0 .. MaxTicks |-> d[m]] /\ d2 = [m \in 0 .. MaxTicks |-> d2[m]]
        /\ \A m \in 0 .. MaxTicks : d[m] = d2[m]
    BY <1>3, <2>3
  <2> HIDE DEF d, d2
  <2>5. d2 = d
    BY <2>4
  <2> QED BY <1>b, <2>5 DEF d, d2
<1>6. CASE n <= MaxTicks
  <2>1. ASSUME NEW m \in 0 .. n - 1 PROVE Due[m] = <<>>
    <3>1. m \in 0 .. MaxTicks
      BY <1>6, <1>n
    <3>2. \A i \in 1 .. Len(q) : t[q[i]] # m
      BY <1>1, <1>2, <1>n
    <3> QED BY <1>1, <1>3, <3>1, <3>2, DueNone
  <2>2. ASSUME NEW m \in 0 .. MaxTicks
        PROVE  Due'[m] = IF m + n <= MaxTicks THEN Due[m + n] ELSE <<>>
    <3>1. CASE m + n <= MaxTicks
      <4> DEFINE later == m + n
      <4>1. later \in 0 .. MaxTicks
        BY <1>n, <3>1
      <4>2. SameMask(q, t2, owner, m, t, owner, later)
        <5>1. ASSUME NEW i \in 1 .. Len(q) PROVE t2[q[i]] = m <=> t[q[i]] = later
          <6> DEFINE x == t[q[i]]
          <6>1. x \in 1 .. MaxTicks /\ t2[q[i]] = x - n
            BY <1>1, <1>2
          <6> HIDE DEF x
          <6>2. x - n = m <=> x = later
            BY <1>n, <6>1
          <6> QED BY <6>1, <6>2 DEF x
        <5> HIDE DEF later
        <5> QED BY <5>1 DEF SameMask
      <4> HIDE DEF later
      <4>3. DueOf(q, t2, owner, m) = DueOf(q, t, owner, later)
        BY <1>1, <4>2, DueSame
      <4>4. Due'[m] = Due[later]
        BY <1>3, <4>1, <4>3
      <4> QED BY <3>1, <4>4 DEF later
    <3>2. CASE ~ (m + n <= MaxTicks)
      <4>1. \A i \in 1 .. Len(q) : t2[q[i]] # m
        BY <1>1, <1>2, <1>n, <3>2
      <4>2. DueOf(q, t2, owner, m) = <<>>
        BY <1>1, <4>1, DueNone
      <4> QED BY <1>3, <3>2, <4>2
    <3> QED BY <3>1, <3>2
  <2>3. Due' = [m \in 0 .. MaxTicks |-> IF m + n <= MaxTicks THEN Due[m + n] ELSE <<>>]
    BY <1>3, <2>2
  <2>4. Wheel!Pass(n)
    BY <1>b, <2>1, <2>3 DEF Wheel!Pass, Busy
  <2>5. n \in 1 .. MaxTicks + 1
    BY <1>6, <1>n
  <2> QED BY <2>4, <2>5 DEF Wheel!WheelNext
<1> QED BY <1>5, <1>6, <1>n

\* The wheel only depends on the clock and the list.
LEMMA DueUnchanged ==
    ASSUME UNCHANGED <<queue, GetTick>>
    PROVE  Due' = Due
<1>1. activeEvents' = activeEvents /\ owner' = owner /\ nextTime' = nextTime /\ GetTick' = GetTick
  BY DEF queue
<1> QED BY <1>1 DEF Due, DueIn, TicksToEvent

LEMMA WheelStep == IInv /\ [Next]_vars => [Wheel!WheelNext]_<<Due, Busy>>
<1> SUFFICES ASSUME IInv, [Next]_vars PROVE [Wheel!WheelNext]_<<Due, Busy>>
  OBVIOUS
<1>0. IInv'
  BY IInvIsInductive
<1>1. CASE ClientStep
  <2>1. \A c \in Clients, ticks \in Ticks :
            AddEvent(c, ticks) \/ SetEvent(c, ticks) => Wheel!Schedule(c, ticks)
    BY AddEventSchedules, SetEventSchedules
  <2>2. \A c \in Clients : UnsetEvent(c) => Wheel!Cancel(c)
    BY UnsetEventCancels
  <2> QED BY <1>1, <2>1, <2>2 DEF ClientStep, Ticks, Wheel!WheelNext
<1>2. CASE LoopStep
  <2>1. /\ phase = "run" /\ phase' # "callback"
        /\ UNCHANGED <<clock, queue>> \/ \E n \in 1 .. W - 1 : CountsUp(n)
    BY <1>2, LoopCounts
  <2>2. CASE UNCHANGED <<clock, queue>>
    <3>1. GetTick' = GetTick /\ UNCHANGED queue
      BY <2>2 DEF clock, GetTick
    <3> QED BY <2>1, <3>1, DueUnchanged DEF Busy
  <2>3. CASE \E n \in 1 .. W - 1 : CountsUp(n)
    BY <1>0, <2>1, <2>3, CountingUpPasses
  <2> QED BY <2>1, <2>2, <2>3
<1>3. CASE Fire
  BY <1>3, FireFires DEF Wheel!WheelNext
<1>4. CASE CallbackReturns
  <2>1. Due' = Due
    BY <1>4, ProcessingKeepsTime, DueUnchanged DEF CallbackReturns
  <2> QED BY <1>4, <2>1 DEF CallbackReturns, Wheel!CallbackDone, Wheel!WheelNext
<1>5. CASE FinishProcessing
  <2>1. Due' = Due
    BY <1>5, ProcessingKeepsTime, DueUnchanged DEF FinishProcessing
  <2> QED BY <1>5, <2>1 DEF FinishProcessing, Busy
<1>6. CASE UNCHANGED vars
  <2>1. UNCHANGED <<queue, GetTick>> /\ UNCHANGED phase
    BY <1>6 DEF vars, clock, GetTick
  <2> QED BY <2>1, DueUnchanged DEF Busy
<1> QED BY <1>1, <1>2, <1>3, <1>4, <1>5, <1>6 DEF Next

LEMMA WheelInitially == Init => Wheel!WheelInit
<1> SUFFICES ASSUME Init PROVE Wheel!WheelInit
  OBVIOUS
<1>1. TypeOK /\ activeEvents = <<>> /\ phase = "run"
  BY IInvHoldsInitially DEF IInv, Init
<1>2. \A n : DueOf(activeEvents, Ahead, owner, n) = <<>>
  <2>1. activeEvents \in Seq(Events) /\ \A n : \A i \in 1 .. Len(activeEvents) : Ahead[activeEvents[i]] # n
    BY <1>1
  <2> QED BY <2>1, DueNone
<1>3. Due = [n \in 0 .. MaxTicks |-> <<>>]
  BY <1>1, <1>2, DueIs
<1> QED BY <1>1, <1>3 DEF Wheel!WheelInit

\* Every behaviour of the scheduler is one of the timer wheel (ImplementsTimerWheel):
\* for every counter width, whatever the order of calls and loops, an event fires
\* exactly `ticks` ticks after it was added and not otherwise, events due together fire
\* in the order they were added, and no callback runs inside another.
THEOREM WheelRefinement == Spec => ImplementsTimerWheel
<1>1. [Wheel!WheelNext]_<<Due, Busy>> => [Wheel!WheelNext]_Wheel!wheelVars
  BY DEF Wheel!wheelVars, Busy
<1> QED
  BY Invariance, WheelInitially, WheelStep, <1>1, PTL DEF Spec, ImplementsTimerWheel, Wheel!Spec

=============================================================================

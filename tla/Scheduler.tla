----------------------------- MODULE Scheduler -----------------------------
(***************************************************************************)
(* ATScheduler: the timer queue and master cycle clock of the emulator     *)
(* (ATCore/source/scheduler.cpp, h/at/atcore/scheduler.h).                  *)
(*                                                                         *)
(* Events are pooled nodes of one doubly linked list, kept in the order in *)
(* which they fall due.  Time is a W-valued wrapping counter that is never *)
(* stored: it is timeBase + nextEventCounter, where nextEventCounter is a   *)
(* negative number (modulo W) that the emulated CPU counts up to 0; at 0   *)
(* ProcessNextEvent fires whatever is due and re-arms the pair.  A stop    *)
(* time pulls the pair in so that a coprocessor loop ends on it.           *)
(*                                                                         *)
(* The environment is the code around a scheduler: a loop that advances it *)
(* (three kinds exist), and clients, each holding one ATEvent pointer and  *)
(* calling the scheduler from the loop or from inside OnScheduledEvent.    *)
(***************************************************************************)
EXTENDS Integers, Sequences, SequencesExt

CONSTANTS
    W,          \* size of the time counter (2^32 in the code)
    Half,       \* 0x80000000
    MaxTicks,   \* longest event delay (AddEvent asserts ticks < 100000000)
    MaxIdle,    \* ProcessNextEvent's 100000: longest wait without an event
    MaxRun,     \* furthest stop time a coprocessor loop asks for
    StartTick,  \* first value of the clock (0xFFF00000: it wraps early)
    StartIdle,  \* ticks to the first ProcessNextEvent (1000)
    Clients,    \* callback objects, each with its own ATEvent pointer
    Events,     \* ATEvent nodes the allocator can hand out
    Null

ASSUME WidthAssumption ==
    /\ W \in Nat /\ Half \in Nat /\ W = Half + Half
    /\ MaxTicks \in Nat \ {0} /\ MaxTicks < Half
    /\ MaxIdle \in Nat \ {0} /\ MaxIdle < Half
    /\ MaxRun \in Nat \ {0} /\ MaxRun < Half
    /\ StartTick \in Nat /\ StartTick < W
    /\ StartIdle \in Nat \ {0} /\ StartIdle < Half

ASSUME NullAssumption == Null \notin Clients /\ Null \notin Events

VARIABLES
    loop,               \* which advance macro the owner of this scheduler uses
    phase,              \* "run", inside ProcessNextEvent, or in a callback
    nextEventCounter,
    timeBase,
    activeEvents,       \* the linked list, front first
    freeEvents,         \* the LIFO chain at mpFreeEvents
    allocated,          \* nodes the allocator has handed out
    owner,              \* mpCB of a node; Null models mId = 0
    nextTime,           \* mNextTime of a node (dead, so 0, while it is free)
    ptr,                \* the client's ATEvent *
    stopTimeValid,
    stopTime

clock == <<nextEventCounter, timeBase>>
queue == <<activeEvents, freeEvents, allocated, owner, nextTime, ptr>>
stops == <<stopTimeValid, stopTime>>
vars == <<loop, phase, clock, queue, stops>>

Time == 0 .. W - 1
TicksOrNone == 0 .. MaxTicks                    \* bug: AddEvent(0) is let through
Ticks == 1 .. MaxTicks                          \* AddEvent's assertion
Loops == {"advance", "stopcheck", "advance_n"}

-----------------------------------------------------------------------------
\* Unsigned arithmetic of width W, on operands already in range.
AddUnwrapped(a, b) == a + b                                     \* bug: no wrap
Add(a, b) == IF a + b < W THEN a + b ELSE a + b - W
Sub(a, b) == IF a >= b THEN a - b ELSE a - b + W
Neg(a) == Sub(0, a)

\* ATSCHEDULER_GETTIME, and the distance to a node's due time (GetTicksToEvent).
GetTick == Add(timeBase, nextEventCounter)
TicksToEvent(e) == Sub(nextTime[e], GetTick)

\* GetTick64, and with it the new mTick64Floor of UpdateTick64: a 64-bit time, here
\* as its two words, completed from the 32 bits of the present tick.
GetTick64(floor, tick) ==
    [high |-> floor.high + (IF tick < floor.low THEN 1 ELSE 0), low |-> tick]
Value64(t) == t.high * W + t.low

\* Exact while UpdateTick64 is called no more than 2^32 - 1 cycles apart, as the
\* comment in scheduler.h asks; a cycle later a whole turn of the counter is lost.
Tick64Exact(floor, t) ==
    LET behind == Value64(t) - Value64(floor)
    IN  /\ behind \in 0 .. W - 1 => GetTick64(floor, t.low) = t
        /\ behind = W => GetTick64(floor, t.low) = floor

\* ATSCHEDULER_GETTIMETONEXT.
TicksToNext == Neg(nextEventCounter)

\* Bugs for Horizon: the stop time forgotten; timeBase clamped but not the counter.
HorizonWithoutStop(ticks) == [counter |-> Neg(ticks), base |-> Add(GetTick, ticks)]
HorizonHalfClamped(ticks) ==
    LET base == Add(GetTick, ticks)
    IN IF stopTimeValid /\ Sub(base, stopTime) \in 1 .. Half - 1
       THEN [counter |-> Neg(ticks), base |-> stopTime]
       ELSE [counter |-> Neg(ticks), base |-> base]

\* Where the clock pair points when the next processing is `ticks` away:
\* the event or idle limit, or the stop time when that is not later.
Horizon(ticks) ==
    LET base == Add(GetTick, ticks)
        over == Sub(base, stopTime)
    IN IF stopTimeValid /\ over \in 1 .. Half - 1
       THEN [counter |-> Add(Neg(ticks), over), base |-> stopTime]
       ELSE [counter |-> Neg(ticks), base |-> base]

\* Bug: a new front event does not pull the counter in.
NoRearm(ticks) == UNCHANGED clock

Rearm(ticks) ==
    /\ nextEventCounter' = Horizon(ticks).counter
    /\ timeBase' = Horizon(ticks).base

\* Bug: the idle limit as a lower bound.
TimeToNextMax(q) ==
    IF q # <<>> /\ TicksToEvent(q[1]) > MaxIdle THEN TicksToEvent(q[1]) ELSE MaxIdle

\* timeToNext at the end of ProcessNextEvent, for list q (whose front is not due).
TimeToNext(q) ==
    IF q # <<>> /\ TicksToEvent(q[1]) < MaxIdle THEN TicksToEvent(q[1]) ELSE MaxIdle

\* Bug for IsInsertPoint: before the events of the same time.
IsPointBeforeEqual(q, i, ticks) ==
    /\ \A j \in 1 .. i - 1 : TicksToEvent(q[j]) < ticks
    /\ i <= Len(q) => ticks <= TicksToEvent(q[i])

\* AddEvent links the new node before the first node that is strictly later,
\* so that events due at the same time keep the order they were added in.
IsInsertPoint(q, i, ticks) ==
    /\ \A j \in 1 .. i - 1 : TicksToEvent(q[j]) <= ticks
    /\ i <= Len(q) => ticks < TicksToEvent(q[i])

-----------------------------------------------------------------------------
Init ==
    /\ loop \in Loops
    /\ phase = "run"
    /\ nextEventCounter = Neg(StartIdle)
    /\ timeBase = Add(StartTick, StartIdle)
    /\ activeEvents = <<>> /\ freeEvents = <<>> /\ allocated = {}
    /\ owner = [e \in Events |-> Null]
    /\ nextTime = [e \in Events |-> 0]
    /\ ptr = [c \in Clients |-> Null]
    /\ stopTimeValid = FALSE /\ stopTime = 0

\* Clients run from the CPU loop and from callbacks, never inside the dispatch loop.
ClientMayCall == phase \in {"run", "callback"}

\* The next node of the linear allocator.
Fresh == CHOOSE e \in Events : e \notin allocated

\* Take a node from the free chain, or from the allocator when it is empty.
Allocate(e) ==
    IF freeEvents # <<>>
    THEN e = Head(freeEvents) /\ freeEvents' = Tail(freeEvents) /\ UNCHANGED allocated
    ELSE e \notin allocated /\ e = Fresh /\ allocated' = allocated \union {e} /\ UNCHANGED freeEvents

AddEvent(c, ticks) ==
    /\ ClientMayCall
    /\ ptr[c] = Null
    /\ \E e \in Events, i \in 1 .. Len(activeEvents) + 1 :
        /\ Allocate(e)
        /\ IsInsertPoint(activeEvents, i, ticks)
        /\ activeEvents' = InsertAt(activeEvents, i, e)
        /\ owner' = [owner EXCEPT ![e] = c]
        /\ nextTime' = [nextTime EXCEPT ![e] = Add(GetTick, ticks)]
        /\ ptr' = [ptr EXCEPT ![c] = e]
        /\ IF i = 1 THEN Rearm(ticks) ELSE UNCHANGED clock
    /\ UNCHANGED <<loop, phase, stops>>

\* The tail of RemoveEvent: removing a front node that is not due re-runs
\* ProcessNextEvent.  No node behind it is due either (Sorted), so that
\* call fires nothing and only re-arms the clock.
RearmAfterRemoval(i, e, q) ==
    IF i = 1 /\ nextTime[e] # GetTick THEN Rearm(TimeToNext(q)) ELSE UNCHANGED clock

\* UnsetEvent, and RemoveEvent followed by the client nulling its pointer.
UnsetEvent(c) ==
    /\ ClientMayCall
    /\ \E i \in 1 .. Len(activeEvents) :
        LET e == ptr[c]
            q == RemoveAt(activeEvents, i)
        IN /\ activeEvents[i] = e
           /\ activeEvents' = q
           /\ owner' = [owner EXCEPT ![e] = Null]
           /\ nextTime' = [nextTime EXCEPT ![e] = 0]
           /\ freeEvents' = <<e>> \o freeEvents
           /\ ptr' = [ptr EXCEPT ![c] = Null]
           /\ RearmAfterRemoval(i, e, q)
    /\ UNCHANGED <<loop, phase, allocated, stops>>

\* SetEvent on a pointer that holds an event: RemoveEvent, then AddEvent, which
\* gets the node just freed back from the LIFO chain.  (On a null pointer
\* SetEvent is AddEvent.)
SetEvent(c, ticks) ==
    /\ ClientMayCall
    /\ \E k \in 1 .. Len(activeEvents) :
        LET e == ptr[c]
            q == RemoveAt(activeEvents, k)
        IN /\ activeEvents[k] = e
           /\ \E i \in 1 .. Len(q) + 1 :
                /\ IsInsertPoint(q, i, ticks)
                /\ activeEvents' = InsertAt(q, i, e)
                /\ IF i = 1 THEN Rearm(ticks) ELSE RearmAfterRemoval(k, e, q)
           /\ nextTime' = [nextTime EXCEPT ![e] = Add(GetTick, ticks)]
    /\ UNCHANGED <<loop, phase, freeEvents, allocated, owner, ptr, stops>>

-----------------------------------------------------------------------------
\* Bug: the client's pointer outlives its event.
PtrKept(e) == ptr
PtrForgotten(e) == [ptr EXCEPT ![owner[e]] = Null]

\* One turn of ProcessNextEvent's loop: unlink and free the front event, then
\* call its callback, which first forgets its pointer (the contract stated at
\* IATSchedulerCallback).
Fire ==
    /\ phase = "process"
    /\ activeEvents # <<>>
    /\ LET e == Head(activeEvents)
       IN /\ TicksToEvent(e) = 0
          /\ owner' = [owner EXCEPT ![e] = Null]
          /\ nextTime' = [nextTime EXCEPT ![e] = 0]
          /\ freeEvents' = <<e>> \o freeEvents
          /\ ptr' = PtrForgotten(e)
    /\ activeEvents' = Tail(activeEvents)
    /\ phase' = "callback"
    /\ UNCHANGED <<loop, clock, allocated, stops>>

CallbackReturns ==
    /\ phase = "callback"
    /\ phase' = "process"
    /\ UNCHANGED <<loop, clock, queue, stops>>

\* The rest of ProcessNextEvent, once the front event is not due.
FinishProcessing ==
    /\ phase = "process"
    /\ activeEvents # <<>> => TicksToEvent(activeEvents[1]) # 0
    /\ Rearm(TimeToNext(activeEvents))
    /\ phase' = "run"
    /\ UNCHANGED <<loop, queue, stops>>

-----------------------------------------------------------------------------
\* Count up by n, entering ProcessNextEvent when the counter reaches 0.
CountUp(n) ==
    /\ nextEventCounter' = Add(nextEventCounter, n)
    /\ phase' = IF nextEventCounter' = 0 THEN "process" ELSE "run"
    /\ UNCHANGED <<loop, timeBase, queue, stops>>

\* ATSCHEDULER_ADVANCE: the main loop, and loops that know no stop time.
Advance ==
    /\ loop = "advance" /\ phase = "run"
    /\ CountUp(1)

\* ATSCHEDULER_ADVANCE_STOPCHECK: the 6502 coprocessor loop.  At the stop time
\* it takes the increment back and the loop ends one cycle short of it.
AdvanceStopCheck ==
    /\ loop = "stopcheck" /\ phase = "run" /\ stopTimeValid
    /\ ~ (Add(nextEventCounter, 1) = 0 /\ timeBase = stopTime)
    /\ CountUp(1)

\* ATSCHEDULER_TRYSKIP: skip cycles that provably do not reach the counter's end.
TrySkip(cycles) ==
    /\ loop = "stopcheck" /\ phase = "run" /\ stopTimeValid
    /\ Add(nextEventCounter, cycles) >= Half
    /\ nextEventCounter' = Add(nextEventCounter, cycles)
    /\ UNCHANGED <<loop, phase, timeBase, queue, stops>>

\* ATSCHEDULER_ADVANCE_N as the Z80 loops use it, with at most GETTIMETONEXT.
AdvanceN(amount) ==
    /\ loop = "advance_n" /\ phase = "run" /\ stopTimeValid
    /\ amount <= TicksToNext
    /\ CountUp(amount)

\* SetStopTime as the Sync() of the coprocessor devices calls it: a 6502 drive
\* only when the new limit is ahead of its clock, a Z80 device with any limit
\* that is not behind it.
SetStopTime(t) ==
    /\ loop # "advance" /\ phase = "run"
    /\ Sub(t, GetTick) <= MaxRun
    /\ loop = "stopcheck" => t # GetTick
    /\ ~ stopTimeValid \/ stopTime # t
    /\ stopTimeValid' = TRUE
    /\ stopTime' = t
    /\ phase' = "process"
    /\ UNCHANGED <<loop, clock, queue>>

ClearStopTime ==
    /\ phase = "run"
    /\ stopTimeValid
    /\ stopTimeValid' = FALSE
    /\ phase' = "process"
    /\ UNCHANGED <<loop, clock, queue, stopTime>>

ClientStep ==
    \E c \in Clients :
        \/ \E ticks \in Ticks : AddEvent(c, ticks) \/ SetEvent(c, ticks)
        \/ UnsetEvent(c)

LoopStep ==
    \/ Advance
    \/ AdvanceStopCheck
    \/ \E n \in 1 .. MaxRun : TrySkip(n) \/ AdvanceN(n)
    \/ \E t \in Time : SetStopTime(t)
    \/ ClearStopTime

Next == ClientStep \/ LoopStep \/ Fire \/ CallbackReturns \/ FinishProcessing

Spec == Init /\ [][Next]_vars

\* ProcessNextEvent is straight-line code and callbacks return.
FairSpec ==
    /\ Spec
    /\ WF_vars(Fire) /\ WF_vars(CallbackReturns) /\ WF_vars(FinishProcessing)

-----------------------------------------------------------------------------
TypeOK ==
    /\ loop \in Loops
    /\ phase \in {"run", "process", "callback"}
    /\ nextEventCounter \in Time /\ timeBase \in Time
    /\ activeEvents \in Seq(Events) /\ freeEvents \in Seq(Events)
    /\ allocated \in SUBSET Events
    /\ owner \in [Events -> Clients \union {Null}]
    /\ nextTime \in [Events -> Time]
    /\ ptr \in [Clients -> Events \union {Null}]
    /\ stopTimeValid \in BOOLEAN /\ stopTime \in Time

\* A client's pointer is null or points at its own pending event, no pending
\* event is unreachable, and no node is pending twice or both pending and free.
\* A pointer kept after its event fired would, once the node is recycled,
\* remove some other client's event (scheduler.h, IATSchedulerCallback).
PointersOwned ==
    /\ IsInjective(activeEvents) /\ IsInjective(freeEvents)
    /\ \A i \in DOMAIN activeEvents :
        LET e == activeEvents[i]
        IN e \in allocated /\ owner[e] \in Clients /\ ptr[owner[e]] = e
    /\ \A j \in DOMAIN freeEvents :
        freeEvents[j] \in allocated /\ owner[freeEvents[j]] = Null
    /\ \A c \in Clients : ptr[c] # Null =>
        owner[ptr[c]] = c /\ \E i \in DOMAIN activeEvents : activeEvents[i] = ptr[c]

\* Whenever the CPU loop runs, every pending event is still ahead: no ordering
\* of AddEvent, RemoveEvent, stop times and wrap-around of the counter lets the
\* clock pass an event that has not fired (the assertion at the head of
\* ProcessNextEvent would see it as 2^32 ticks away).  While events are being
\* dispatched they are at most due now.
NoEventMissed ==
    \A i \in 1 .. Len(activeEvents) :
        TicksToEvent(activeEvents[i]) \in (IF phase = "run" THEN 1 ELSE 0) .. MaxTicks

\* The list is in the order of due times, whatever the value of the clock.
Sorted ==
    \A i, j \in 1 .. Len(activeEvents) :
        i < j => TicksToEvent(activeEvents[i]) <= TicksToEvent(activeEvents[j])

\* Both, which hold each other up: the clock is only armed for the front event.
QueueOnTime == NoEventMissed /\ Sorted

\* The counter the CPU loop counts up never runs past the front event, and is
\* the negative number that the VDASSERT of the advance macros demands, except
\* on the stop time of an ADVANCE_N loop.
CounterReachesNoEvent ==
    phase = "run" =>
        /\ activeEvents # <<>> => TicksToNext <= TicksToEvent(activeEvents[1])
        /\ \/ nextEventCounter >= Half
           \/ loop = "advance_n" /\ stopTimeValid /\ GetTick = stopTime
        /\ nextEventCounter = 0 \/ nextEventCounter > Half

\* A valid stop time is never behind the clock, while the loop runs the next
\* processing is not beyond it (the two VDASSERTs around the clamp), and a 6502
\* coprocessor loop ends before it.
StopRespected ==
    stopTimeValid =>
        /\ Sub(stopTime, GetTick) <= MaxRun
        /\ phase = "run" => TicksToNext <= Sub(stopTime, GetTick)
        /\ loop = "stopcheck" => GetTick # stopTime
        /\ loop # "advance"

\* Scheduler time is monotonic (scheduler.h, class comment): no call that
\* re-arms the clock pair moves the time, only the loop does, and no further
\* than the counter's end.
OnlyTheLoopMovesTime ==
    [][GetTick' # GetTick =>
          /\ phase = "run" /\ UNCHANGED queue
          /\ Sub(GetTick', GetTick) <= TicksToNext]_vars

\* The dispatch loop ends: a callback may re-arm its own event, but never for
\* the present tick, so ProcessNextEvent runs out of due events.
DispatchEnds == phase = "process" ~> phase = "run"

INSTANCE Packing

\* The clients whose events of list q fall due n ticks from now, first added first.
DueIn(q, n) ==
    Packed([i \in DOMAIN q |-> IF TicksToEvent(q[i]) = n THEN owner[q[i]] ELSE Null])

\* What the scheduler promises, without clock pair, nodes or lists.
Due == [n \in 0 .. MaxTicks |-> DueIn(activeEvents, n)]
Wheel == INSTANCE TimerWheel WITH due <- Due, busy <- phase = "callback"

\* Every behaviour of the scheduler is one of the timer wheel: each event fires
\* exactly `ticks` ticks after it was added, events due together fire in the
\* order they were added, a removed event does not fire, and no callback runs
\* inside another.
ImplementsTimerWheel == Wheel!Spec
=============================================================================

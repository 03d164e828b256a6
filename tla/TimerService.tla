---------------------------- MODULE TimerService ----------------------------
(***************************************************************************)
(* ATTimerService, macOS (timerserviceimpl_macos.cpp): callbacks after a    *)
(* delay in real time.  Requests sit in slots, a binary heap orders the     *)
(* slots by deadline, and one one-shot system timer is armed for the front  *)
(* of the heap.  When it fires, on a queue of its own, it asks the async    *)
(* dispatcher for a run on the emulation thread (see AsyncDispatcher; here  *)
(* just a flag, as all runs are queued on one token).                       *)
(*                                                                         *)
(* Request and Cancel work under a mutex and are single steps.  RunCallbacks *)
(* releases it for each callback and before it re-arms the timer.           *)
(***************************************************************************)
EXTENDS DeadlineHeap, FiniteSets

CONSTANTS
    Clients,        \* holders of one token each
    Workers,        \* clients that call from threads of their own
    Delays,         \* the delays asked for, in clock ticks
    Quantum,        \* clock ticks per deadline unit (50)
    LastRequest,    \* requests come until this time
    MaxTime,        \* when the model's clock stops: stands for any later time
    MaxRequests,    \* bounds the requests of a behaviour
    Never,          \* the timer is not armed
    Null

ASSUME TimerAssumption ==
    /\ IsFiniteSet(Clients) /\ Workers \subseteq Clients /\ Null \notin Clients
    /\ Quantum \in Nat \ {0} /\ Delays \subseteq Nat /\ MaxRequests \in Nat
    /\ LastRequest \in Nat /\ MaxTime \in Nat /\ \A d \in Delays : LastRequest + d <= MaxTime
    /\ Never \notin Nat

VARIABLES
    now,            \* VDGetCurrentTick64
    mHeap,          \* see DeadlineHeap
    mSlots,
    mFreeSlots,     \* a stack, top last
    token,          \* each client's token
    timer,          \* when the system timer fires
    armedFor,       \* history: the deadline it was last armed for
    raced,          \* history: a worker armed it while RunCallbacks was about to
    timerCallback,  \* StaticTimerCallback: "idle", or it has read the dispatcher
    runQueued,      \* the dispatcher holds a request to run RunCallbacks
    run,            \* RunCallbacks: where it is, and its locals
    life,           \* "alive", then the stages of the destructor
    requests        \* number of requests so far

data == <<mHeap, mSlots, mFreeSlots, token, requests>>
timers == <<timer, armedFor, raced>>
vars == <<now, data, timers, timerCallback, runQueued, run, life>>

NotRunning == [at |-> "idle", t |-> 0, deadline |-> 0]
NoToken == [slot |-> 0, seq |-> 0]

-----------------------------------------------------------------------------
\* InternalCancel, on the state left by what came before it in the caller.
TokenValid(slots, tok) ==
    /\ tok.slot \in DOMAIN slots
    /\ slots[tok.slot].seq = tok.seq
    /\ slots[tok.slot].heapIndex # 0

\* A slot whose callback is cancelled; and a bug: it still claims its place.
FreedInPlace(slot) == [slot EXCEPT !.callback = Null, !.seq = @ + 1]
Freed(slot) == [slot EXCEPT !.heapIndex = 0, !.callback = Null, !.seq = @ + 1]

InternalCancel(heap, slots, free, tok) ==
    IF ~ TokenValid(slots, tok) THEN [heap |-> heap, slots |-> slots, free |-> free]
    ELSE LET s == tok.slot
             freed == [slots EXCEPT ![s] = Freed(@)]
             filled == FillHole(heap, freed, slots[s].heapIndex)
         IN [heap |-> filled.heap, slots |-> filled.slots, free |-> Append(free, s)]

-----------------------------------------------------------------------------
Init ==
    /\ now = 0
    /\ mHeap = <<>> /\ mSlots = <<>> /\ mFreeSlots = <<>>
    /\ token = [c \in Clients |-> NoToken]
    /\ timer = Never /\ armedFor = 0 /\ raced = FALSE
    /\ timerCallback = "idle"
    /\ runQueued = FALSE
    /\ run = NotRunning
    /\ life = "alive"
    /\ requests = 0

\* Clients of the emulation thread call from emulation code and from callbacks.
MayCall(c) ==
    /\ life = "alive"
    /\ c \notin Workers => run.at \in {"idle", "callback"}

\* RearmTimerForTickDelay, for a delay computed at time t.
Rearm(t, deadline) ==
    /\ timer' = now + (IF deadline * Quantum > t THEN deadline * Quantum - t ELSE 0)
    /\ armedFor' = deadline

\* The slot a request gets: the last one freed, or a new one.
SlotFor == IF mFreeSlots = <<>> THEN Len(mSlots) + 1 ELSE Last(mFreeSlots)

\* The slot filled; and a bug: tokens of its earlier uses stay good.
OccupiedAgain(slot, deadline, c) == [slot EXCEPT !.deadline = deadline, !.callback = c]
Occupied(slot, deadline, c) ==
    [slot EXCEPT !.deadline = deadline, !.callback = c, !.seq = @ + 1]

NewSlot == [deadline |-> 0, seq |-> 0, heapIndex |-> 0, callback |-> Null]

\* Request: fill a slot, insert it, re-arm the timer if it became the front, and
\* only then cancel what the client's token referred to.
Request(c, delay) ==
    /\ MayCall(c) /\ now <= LastRequest /\ requests < MaxRequests
    /\ LET deadline == (now + delay) \div Quantum
           s     == SlotFor
           slots == IF mFreeSlots = <<>> THEN Append(mSlots, NewSlot) ELSE mSlots
           taken == [slots EXCEPT ![s] = Occupied(@, deadline, c)]
           put   == Insert(mHeap, taken, s)
           free  == IF mFreeSlots = <<>> THEN <<>> ELSE Front(mFreeSlots)
           left  == InternalCancel(put.heap, put.slots, free, token[c])
       IN /\ mHeap' = left.heap /\ mSlots' = left.slots /\ mFreeSlots' = left.free
          /\ token' = [token EXCEPT ![c] = [slot |-> s, seq |-> taken[s].seq]]
          /\ IF put.heap[1] = s
             THEN Rearm(now, deadline) /\ raced' = (run.at = "rearm")
             ELSE UNCHANGED timers
    /\ requests' = requests + 1
    /\ UNCHANGED <<now, timerCallback, runQueued, run, life>>

Cancel(c) ==
    /\ MayCall(c)
    /\ LET left == InternalCancel(mHeap, mSlots, mFreeSlots, token[c])
       IN mHeap' = left.heap /\ mSlots' = left.slots /\ mFreeSlots' = left.free
    /\ token' = [token EXCEPT ![c] = NoToken]
    /\ UNCHANGED <<now, timers, timerCallback, runQueued, run, life, requests>>

-----------------------------------------------------------------------------
ClockTick ==
    /\ now < MaxTime
    /\ now' = now + 1
    /\ UNCHANGED <<data, timers, timerCallback, runQueued, run, life>>

\* The system timer fires and StaticTimerCallback reads mpAsyncDispatcher, which
\* the destructor nulls before it cancels the timer and waits for the callback.
TimerFires ==
    /\ timer # Never /\ (now >= timer \/ now = MaxTime)
    /\ timerCallback = "idle" /\ life \in {"alive", "detached"}
    /\ timer' = Never /\ raced' = FALSE
    /\ timerCallback' = IF life = "alive" THEN "queueing" ELSE "idle"
    /\ UNCHANGED <<now, data, armedFor, runQueued, run, life>>

\* The rest of StaticTimerCallback.
QueueRun ==
    /\ timerCallback = "queueing"
    /\ timerCallback' = "idle"
    /\ runQueued' = TRUE
    /\ UNCHANGED <<now, data, timers, run, life>>

-----------------------------------------------------------------------------
\* The dispatcher calls RunCallbacks on the emulation thread, which is not in
\* the destructor meanwhile.
BeginRun ==
    /\ runQueued /\ run.at = "idle" /\ life \in {"alive", "destroyed"}
    /\ runQueued' = FALSE
    /\ run' = [at |-> "loop", t |-> now, deadline |-> 0]
    /\ UNCHANGED <<now, data, timers, timerCallback, life>>

FrontDeadline == mSlots[mHeap[1]].deadline
FrontDue == mHeap # <<>> /\ FrontDeadline <= run.t \div Quantum

\* Take the front of the heap under the lock, and call it without the lock.
RunFront ==
    /\ run.at = "loop" /\ FrontDue
    /\ LET s == mHeap[1]
           emptied == [mSlots EXCEPT ![s] = [@ EXCEPT !.heapIndex = 0, !.callback = Null]]
           filled == FillHole(mHeap, emptied, 1)
       IN /\ mHeap' = filled.heap /\ mSlots' = filled.slots
          /\ mFreeSlots' = Append(mFreeSlots, s)
    /\ run' = [run EXCEPT !.at = "callback"]
    /\ UNCHANGED <<now, token, requests, timers, timerCallback, runQueued, life>>

\* Bug: one callback a run, and the timer is not armed for the next.
CallbackEndsRun ==
    /\ run.at = "callback"
    /\ run' = NotRunning
    /\ UNCHANGED <<now, data, timers, timerCallback, runQueued, life>>

CallbackReturns ==
    /\ run.at = "callback"
    /\ run' = [run EXCEPT !.at = "loop"]
    /\ UNCHANGED <<now, data, timers, timerCallback, runQueued, life>>

\* Leave the loop: with the deadline of the front, read under the lock, or, when
\* the heap is empty, without one.
LeaveLoop ==
    /\ run.at = "loop" /\ ~ FrontDue
    /\ run' = IF mHeap = <<>> THEN NotRunning
              ELSE [run EXCEPT !.at = "rearm", !.deadline = FrontDeadline]
    /\ UNCHANGED <<now, data, timers, timerCallback, runQueued, life>>

\* Bug: the timer is not armed again.
LeaveUnarmed ==
    /\ run.at = "rearm"
    /\ run' = NotRunning
    /\ UNCHANGED <<now, data, timers, timerCallback, runQueued, life>>

RearmAfterRun ==
    /\ run.at = "rearm"
    /\ Rearm(run.t, run.deadline)
    /\ run' = NotRunning
    /\ UNCHANGED <<now, data, raced, timerCallback, runQueued, life>>

-----------------------------------------------------------------------------
\* The destructor, on the emulation thread: null the dispatcher pointer; cancel
\* the timer and wait for its callback; cancel the queued run.
Detach ==
    /\ life = "alive" /\ run.at = "idle"
    /\ life' = "detached"
    /\ UNCHANGED <<now, data, timers, timerCallback, runQueued, run>>

\* Bug: the timer's callback is not waited for.
StopTimerAtOnce ==
    /\ life = "detached"
    /\ life' = "stopped"
    /\ timer' = Never
    /\ UNCHANGED <<now, data, armedFor, raced, timerCallback, runQueued, run>>

StopTimer ==
    /\ life = "detached" /\ timerCallback = "idle"
    /\ life' = "stopped"
    /\ timer' = Never
    /\ UNCHANGED <<now, data, armedFor, raced, timerCallback, runQueued, run>>

CancelRun ==
    /\ life = "stopped"
    /\ life' = "destroyed"
    /\ runQueued' = FALSE
    /\ UNCHANGED <<now, data, timers, timerCallback, run>>

Next ==
    \/ \E c \in Clients : (\E delay \in Delays : Request(c, delay)) \/ Cancel(c)
    \/ ClockTick \/ TimerFires \/ QueueRun
    \/ BeginRun \/ RunFront \/ CallbackReturns \/ LeaveLoop \/ RearmAfterRun
    \/ Detach \/ StopTimer \/ CancelRun

Spec == Init /\ [][Next]_vars

\* Time passes, an armed timer fires, the dispatcher runs what is queued (see
\* EveryRequestRuns in AsyncDispatcher), and callbacks return.
FairSpec ==
    /\ Spec
    /\ WF_vars(ClockTick) /\ WF_vars(TimerFires) /\ WF_vars(QueueRun) /\ WF_vars(BeginRun)
    /\ WF_vars(RunFront) /\ WF_vars(CallbackReturns) /\ WF_vars(LeaveLoop)
    /\ WF_vars(RearmAfterRun)

-----------------------------------------------------------------------------
Deadlines == 0 .. MaxTime \div Quantum
Seqs == 0 .. 2 * MaxRequests

TypeOK ==
    /\ now \in 0 .. MaxTime
    /\ Len(mSlots) <= Cardinality(Clients) + 1
    /\ \A i \in DOMAIN mSlots :
        mSlots[i] \in [deadline : Deadlines, seq : Seqs, heapIndex : 0 .. Len(mHeap),
                       callback : Clients \union {Null}]
    /\ mHeap \in Seq(DOMAIN mSlots) /\ mFreeSlots \in Seq(DOMAIN mSlots)
    /\ token \in [Clients -> [slot : 0 .. Len(mSlots), seq : Seqs]]
    /\ timer \in Nat \union {Never} /\ armedFor \in Deadlines /\ raced \in BOOLEAN
    /\ timerCallback \in {"idle", "queueing"} /\ runQueued \in BOOLEAN
    /\ run \in [at : {"idle", "loop", "callback", "rearm"}, t : 0 .. MaxTime, deadline : Deadlines]
    /\ life \in {"alive", "detached", "stopped", "destroyed"}

\* A waiting callback is the last its client requested, and the client's token
\* still leads to it, however often slots were recycled; and a token that has
\* run out leads to nothing: Cancel cancels exactly the client's own callback.
TokensLeadToSlots ==
    /\ \A i \in DOMAIN mSlots :
        mSlots[i].heapIndex # 0 =>
            token[mSlots[i].callback] = [slot |-> i, seq |-> mSlots[i].seq]
    /\ \A c \in Clients :
        TokenValid(mSlots, token[c]) => mSlots[token[c].slot].callback = c

\* While something waits, the timer is armed for a deadline that is not later
\* than the first, or is going to be: a run that has not read the heap for the
\* last time is under way or on its way.
TimelyIf(excused) ==
    mHeap # <<>> /\ life = "alive" =>
        \/ timer # Never /\ (armedFor <= FrontDeadline \/ excused)
        \/ timerCallback = "queueing" \/ runQueued \/ run.at \in {"loop", "callback"}
        \/ run.at = "rearm" /\ (run.deadline <= FrontDeadline \/ excused)

\* Every callback is called at the time asked for, approximately (timerservice.h).
ArmedInTime == TimelyIf(FALSE)

\* What holds of the code: the timer is armed in time unless a worker's request
\* fell between the last two steps of a run, and armed in any case.
ArmedForFront == TimelyIf(raced)

\* Once the destructor has returned nothing is left that would call into the
\* object, whichever of its two threads was about to.
NothingAfterDestruction ==
    life = "destroyed" =>
        timer = Never /\ timerCallback = "idle" /\ ~ runQueued /\ run.at = "idle"

Waiting(c) == \E i \in DOMAIN mSlots : mSlots[i].callback = c

\* Every request is called, replaced or cancelled, unless the service goes away.
EveryRequestIsCalled ==
    \A c \in Clients : Waiting(c) ~> (~ Waiting(c) \/ life # "alive")
=============================================================================

----------------------------- MODULE TimerWheel -----------------------------
(***************************************************************************)
(* What ATScheduler promises its clients, free of wrapping counters, nodes *)
(* and linked lists: due[n] is the queue of clients whose event falls due  *)
(* n ticks from now.                                                       *)
(***************************************************************************)
EXTENDS Naturals, Sequences, SequencesExt

CONSTANTS Clients, MaxTicks

VARIABLES
    due,    \* [0 .. MaxTicks -> Seq(Clients)]
    busy    \* a client's callback is running

wheelVars == <<due, busy>>

Waiting(c) == \E n \in 0 .. MaxTicks : c \in ToSet(due[n])

WithoutClient(c) == [n \in 0 .. MaxTicks |-> RemoveFirst(due[n], c)]

WheelInit ==
    /\ due = [n \in 0 .. MaxTicks |-> <<>>]
    /\ busy = FALSE

\* Arm client c's event, replacing the one that is pending.  The present tick
\* cannot be asked for.  (The first conjunct follows from the second; it lets
\* TLC discard wrong choices of c and n without building the wheel.)
Schedule(c, n) ==
    /\ c \in ToSet(due'[n])
    /\ due' = [WithoutClient(c) EXCEPT ![n] = Append(@, c)]
    /\ UNCHANGED busy

Cancel(c) ==
    /\ Waiting(c)
    /\ due' = WithoutClient(c)
    /\ UNCHANGED busy

\* Events due now fire one at a time, first added first.
FireNow ==
    /\ ~ busy
    /\ due[0] # <<>>
    /\ due' = [due EXCEPT ![0] = Tail(@)]
    /\ busy' = TRUE

CallbackDone ==
    /\ busy
    /\ busy' = FALSE
    /\ UNCHANGED due

\* Time passes, by several ticks only if no event falls due before the last.
Pass(ticks) ==
    /\ ~ busy
    /\ \A n \in 0 .. ticks - 1 : due[n] = <<>>
    /\ due' = [n \in 0 .. MaxTicks |-> IF n + ticks <= MaxTicks THEN due[n + ticks] ELSE <<>>]
    /\ UNCHANGED busy

WheelNext ==
    \/ \E c \in Clients : Cancel(c) \/ \E n \in 1 .. MaxTicks : Schedule(c, n)
    \/ FireNow
    \/ CallbackDone
    \/ \E ticks \in 1 .. MaxTicks + 1 : Pass(ticks)

Spec == WheelInit /\ [][WheelNext]_wheelVars
=============================================================================

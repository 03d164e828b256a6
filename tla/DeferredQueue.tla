---------------------------- MODULE DeferredQueue ----------------------------
(***************************************************************************)
(* What the deferred events promise: requests wait in line, at most one per *)
(* event, and are answered from the front; a request may be withdrawn.      *)
(***************************************************************************)
EXTENDS Sequences, SequencesExt

CONSTANT Events

VARIABLE queue

Init == queue = <<>>

Request(e) ==
    /\ ~ Contains(queue, e)
    /\ queue' = Append(queue, e)

Answer ==
    /\ queue # <<>>
    /\ queue' = Tail(queue)

Withdraw(e) ==
    /\ Contains(queue, e)
    /\ queue' = RemoveFirst(queue, e)

Next == Answer \/ \E e \in Events : Request(e) \/ Withdraw(e)

Spec == Init /\ [][Next]_queue
=============================================================================

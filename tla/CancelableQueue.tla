--------------------------- MODULE CancelableQueue ---------------------------
(***************************************************************************)
(* What a dispatcher promises the holder of a token: requests run first     *)
(* come, first served; a new request on a token replaces the one before if  *)
(* that has not run yet; and cancelling touches nobody else's request.      *)
(***************************************************************************)
EXTENDS Sequences, SequencesExt

CONSTANTS
    Clients,
    Tokenless       \* clients that pass no token and so cannot cancel

VARIABLE waiting    \* the clients whose requests have not run, first come first

Without(c) == IF c \in Tokenless THEN waiting ELSE RemoveFirst(waiting, c)

Init == waiting = <<>>

Request(c) == waiting' = Append(Without(c), c)
Withdraw(c) == waiting' = Without(c)

Run ==
    /\ waiting # <<>>
    /\ waiting' = Tail(waiting)

Next == Run \/ \E c \in Clients : Request(c) \/ Withdraw(c)

Spec == Init /\ [][Next]_waiting
=============================================================================

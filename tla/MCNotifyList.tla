---------------------------- MODULE MCNotifyList ----------------------------
(* Two listeners, up to four entries, passes nested twice. *)
EXTENDS NotifyList, TLC

CONSTANTS a, b

MCListeners == {a, b}
MCTags == 1 .. 4
=============================================================================

-------------------------- MODULE MCDeferredEvents --------------------------
(* Three events of one manager. *)
EXTENDS DeferredEvents, TLC

CONSTANTS e1, e2, e3

MCEvents == {e1, e2, e3}
=============================================================================

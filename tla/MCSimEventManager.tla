-------------------------- MODULE MCSimEventManager --------------------------
(* Two global callbacks, three holders of event callbacks, two events.  With *)
(* two generations the byte wraps as often as it can.                        *)
EXTENDS SimEventManager, TLC

CONSTANTS g1, g2, c1, c2, c3

MCGlobals == {g1, g2}
MCClients == {c1, c2, c3}
MCEvents == {1, 2}
=============================================================================

---------------------------- MODULE MCScheduler ----------------------------
(* Three clients with one node each, and all three kinds of loop, on a clock *)
(* of eight ticks that starts near its end, so that delays wrap.            *)
EXTENDS Scheduler, TLC

CONSTANTS c1, c2, c3, e1, e2, e3

MCClients == {c1, c2, c3}
MCEvents == {e1, e2, e3}

\* The 64-bit clock, over three turns of the 32-bit one.
Times64 == [high : 0 .. 2, low : Time]
ASSUME Clock64 == \A floor, t \in Times64 : Tick64Exact(floor, t)
=============================================================================

--------------------------- MODULE MCTimerService ---------------------------
(* A client on the emulation thread and a worker; two clock ticks to a unit  *)
(* of deadlines, delays of a part of a unit and of two units.  The heap is   *)
(* checked apart, on larger instances than the three requests make.          *)
EXTENDS TimerService, MCDeadlineHeap, TLC

CONSTANTS m1, w1

MCClients == {m1, w1}
MCWorkers == {w1}
MCDelays == {1, 4}
=============================================================================

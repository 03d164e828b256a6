-------------------------- MODULE MCAsyncDispatcher --------------------------
(* Two clients on the dispatching thread, one without a token, two workers. *)
EXTENDS AsyncDispatcher, TLC

CONSTANTS m1, m2, w1, w2

MCClients == {m1, m2, w1, w2}
MCMainClients == {m1, m2}
MCTokenless == {m2}
=============================================================================

---------------------------- MODULE MC_IdeChannel ----------------------------
(* Model-checking instance of IdeChannel: the threads are model values.   *)
EXTENDS IdeChannel

CONSTANTS w1, w2, w3, idle, null

MCWorkers2 == {w1, w2}
MCWorkers3 == {w1, w2, w3}
=============================================================================

---------------------------- MODULE MCHandshake ----------------------------
(* Instances of Handshake for TLC.                                         *)
EXTENDS Handshake

\* Two prestart hooks, so that the second can fail after the first ran.
MCNHooks == [l \in HookLists |-> IF l = "prestart" THEN 2 ELSE 1]

MCAllFaults == FaultKinds
MCInitDies == {"initDies"}
=============================================================================

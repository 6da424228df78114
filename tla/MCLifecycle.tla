---------------------------- MODULE MCLifecycle ----------------------------
(* Instances of Lifecycle for TLC: who issues which commands.              *)
EXTENDS Lifecycle

CONSTANTS c1, c2, r1, r2, s1, s2, k1, d1, d2, f1, p1

MCProcs == {c1, c2, r1, r2, s1, s2, k1, d1, d2, f1, p1}

MCCommand == [p \in Procs |->
    CASE p \in {c1, c2} -> "create"
      [] p \in {r1, r2} -> "run"
      [] p \in {s1, s2} -> "start"
      [] p = k1         -> "kill"
      [] p \in {d1, d2} -> "delete"
      [] p = f1         -> "forceDelete"
      [] p = p1         -> "prune"]

\* Creates, starts and a kill race on one id.
Racing == [issues |-> {c1, c2, s1, s2, k1}, serial |-> FALSE,
           faults |-> {"createFails", "initDies"}]

\* Two foreground runs race with a create and a kill.
Runs == [issues |-> {r1, r2, c1, k1}, serial |-> FALSE,
         faults |-> {"createFails", "initDies"}]

\* One command at a time, any of which may be killed at any step.
OneByOne == [issues |-> {c1, c2, s1, d1, f1, p1}, serial |-> TRUE,
             faults |-> {"createFails", "commandDies"}]

\* Two deletes of one stopped container, beside a create of the same id.
TwoDeletes == [issues |-> {c1, c2, k1, d1, d2}, serial |-> FALSE, faults |-> {}]

MCCallers == {Racing, Runs, OneByOne}
MCTwoDeletes == {TwoDeletes}
=============================================================================

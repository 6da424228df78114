------------------------------ MODULE MCStore ------------------------------
(* Instances of Store for TLC: who does what on the id's files.            *)
EXTENDS Store

CONSTANTS c1, c2, c3, v1, v2, l1, l2, d1, d2

MCOp == [p \in Procs |->
    CASE p \in {c1, c2, c3} -> "create"
      [] p \in {v1, v2}     -> "save"
      [] p \in {l1, l2}     -> "load"
      [] p \in {d1, d2}     -> "delete"]

\* A creating record is the shortest (no pid, no cgroup path); two saves write
\* records of different lengths (the pids' digits).
MCSize == [f \in Files |-> IF f \in {c1, c2, c3} THEN 1 ELSE IF f = v1 THEN 2 ELSE 3]
=============================================================================

----------------------------- MODULE MCCgroups -----------------------------
(* Instances of Cgroups for TLC: which containers on which hosts.          *)
EXTENDS Cgroups

CONSTANTS a1, a2, b1, n1, x1

\* a2 is created after a1 under the same id, b1 beside them; n1 lies below a's
\* cgroup and x1 names the root.
MCId == [c \in Conts |-> CASE c \in {a1, a2} -> "a" [] c = b1 -> "b" [] c = n1 -> "n"
                           [] OTHER -> "x"]
MCCgroupsPath == [c \in Conts |->
    CASE c = n1 -> <<"lightpod", "a", "n">>
      [] c = x1 -> <<"lightpod", "..">>
      [] OTHER  -> <<>>]

Spec0 == [k \in Keys |-> Unset]
MCAsks == [c \in Conts |->
    CASE c = a1 -> [Spec0 EXCEPT !["limit"] = 4, !["swap"] = 6, !["pids"] = 8]
      [] c = a2 -> [Spec0 EXCEPT !["limit"] = 3, !["quota"] = 5, !["period"] = 20,
                                 !["shares"] = 1024]
      [] c = b1 -> [Spec0 EXCEPT !["cpus"] = 1, !["mems"] = 0, !["quota"] = -1]
      [] c = n1 -> [Spec0 EXCEPT !["pids"] = 2, !["reservation"] = 1]
      [] OTHER  -> [Spec0 EXCEPT !["limit"] = 1]]

\* Two ids whose specs name one cgroup.
MCOnePath == [c \in Conts |-> <<"shared">>]

\* The same with a combined limit that leaves no swap.
MCAsksNoSwap == [c \in Conts |-> [Spec0 EXCEPT !["limit"] = 4, !["swap"] = 4]]

\* One host lacks cpuset; the roots of two hold processes, so that only what is
\* enabled already can be had; and one has everything on cgroup v1.
MCHosts == {
    [controllers |-> {"memory", "cpu", "pids"}, enabled |-> {"memory"}, busy |-> FALSE],
    [controllers |-> {"memory", "cpu", "cpuset"}, enabled |-> {"memory", "cpu", "cpuset"},
     busy |-> TRUE],
    [controllers |-> Controllers, enabled |-> {"memory", "cpu"}, busy |-> TRUE],
    [controllers |-> {}, enabled |-> {}, busy |-> FALSE]}
=============================================================================

---------------------------- MODULE MCSupervisor ----------------------------
(* Instances of Supervisor for TLC.                                        *)
EXTENDS Supervisor

\* Workloads that handle TERM or USR1 only, with well-behaved hooks, with hooks
\* that hang but have a timeout, and with hooks that leave a child behind.
World(lists, timeout, hangs, lingers, handles) ==
    [hooks |-> lists, timeout |-> timeout, hangs |-> hangs, lingers |-> lingers,
     handles |-> handles]

MCWorlds ==
    {World({}, FALSE, FALSE, FALSE, {"USR1"}),
     World(HookPoints, FALSE, FALSE, FALSE, {"TERM"}),
     World(HookPoints, TRUE, TRUE, FALSE, {"TERM"}),
     World(HookPoints, TRUE, FALSE, TRUE, {})}
=============================================================================

--------------------------- MODULE CreateContract ---------------------------
(***************************************************************************)
(* What create and start promise to a caller, seen from outside: a record  *)
(* goes absent -> creating -> created -> running or back to absent; it is  *)
(* created only once the container is fully configured; and the user's     *)
(* command runs only after a start has released the container.             *)
(* Container.Create's comment: "Splitting it from start is what lets a CNI *)
(* plugin, a GPU hook or an orchestrator act on a fully configured         *)
(* container before the workload gets to run."                             *)
(***************************************************************************)

VARIABLES
    status,    \* "absent", "creating", "created" or "running"
    ready,     \* identity, limits, hooks and root filesystem are all in place
    released,  \* a start has met the parked init
    running    \* the user's command is running

cvars == <<status, ready, released, running>>

CInit == /\ status = "absent" /\ ready = FALSE
         /\ released = FALSE /\ running = FALSE

Begin     == status = "absent" /\ status' = "creating"
             /\ UNCHANGED <<ready, released, running>>

\* Setup goes on until it is complete; a failed create undoes it.
Configure == status = "creating" /\ ready' \in BOOLEAN
             /\ UNCHANGED <<status, released, running>>

Publish   == status = "creating" /\ ready /\ status' = "created"
             /\ UNCHANGED <<ready, released, running>>

Withdraw  == status = "creating" /\ status' = "absent"
             /\ UNCHANGED <<ready, released, running>>

Release   == status = "created" /\ ~released /\ released' = TRUE
             /\ UNCHANGED <<status, ready, running>>

MarkRunning == status = "created" /\ released /\ status' = "running"
               /\ UNCHANGED <<ready, released, running>>

Launch    == released /\ ready /\ running' = TRUE
             /\ UNCHANGED <<status, ready, released>>

Finish    == running' = FALSE /\ UNCHANGED <<status, ready, released>>

CNext == \/ Begin \/ Configure \/ Publish \/ Withdraw
         \/ Release \/ MarkRunning \/ Launch \/ Finish

CSpec == CInit /\ [][CNext]_cvars
=============================================================================

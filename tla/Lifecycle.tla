----------------------------- MODULE Lifecycle -----------------------------
(***************************************************************************)
(* Commands on one container id.  Every lightpod command is a process of   *)
(* its own; they meet only in the state directory (state.json, start.fifo),*)
(* in the cgroup directory and in the container's init process.  There is  *)
(* no daemon, so any command may run beside any other and may be killed    *)
(* between any two of its steps.                                           *)
(*                                                                         *)
(* A step here is one access to what the commands share.  The handshake of *)
(* create with its init is Handshake.tla; of it this module keeps the      *)
(* budget, the parking at the FIFO and the cleanup of a failed create.     *)
(* Reads and writes of state.json are atomic here; Store.tla has the files.*)
(*                                                                         *)
(* The operators named Mutant... are not part of the model (README.md).    *)
(***************************************************************************)
EXTENDS Naturals, FiniteSets

CONSTANTS
    Procs,     \* the commands that may be issued; a creator also names its init
    Command,   \* which command each of them is
    Callers,   \* how the id may be used: a set of callers (CallerType)
    NoPid      \* the pid 0 of a record without a process

Kinds == {"create", "run", "start", "kill", "delete", "forceDelete", "prune"}

FaultKinds == {"createFails",  \* a step of create reports an error
               "commandDies",  \* a command is killed
               "initDies"}     \* init is killed by something else than lightpod

ASSUME CommandAssumption == Command \in [Procs -> Kinds]

\* A caller issues some commands, one at a time or not, while certain faults
\* may happen.
CallerType == [issues : SUBSET Procs, serial : BOOLEAN, faults : SUBSET FaultKinds]

ASSUME CallersAssumption == Callers \subseteq CallerType
ASSUME NoPidAssumption == NoPid \notin Procs

VARIABLES
    caller,   \* the member of Callers this behaviour is about
    rec,      \* the record in state.json: status, pid, cgroup path set or not
    fifo,     \* the start.fifo in the directory, named by its maker, or NoPid
    cgDir,    \* the container's cgroup directory exists
    pc,       \* where each command is
    loc,      \* the record each command has loaded
    opened,   \* the FIFO each start has open
    init,     \* the init process of each creator
    initFifo, \* the FIFO each init will open
    ready     \* the procReady message of each init has been sent

vars == <<caller, rec, fifo, cgDir, pc, loc, opened, init, initFifo, ready>>

disk     == <<rec, fifo, cgDir>>
local    == <<loc, opened>>
procs    == <<init, initFifo, ready>>

Statuses == {"absent", "creating", "created", "running", "stopped"}

\* A record names a process and a cgroup once its container is created, and
\* Load forgets the process that is gone.
Records ==
    {r \in [status : Statuses, pid : Procs \cup {NoPid}, cg : BOOLEAN] :
        /\ r.pid # NoPid <=> r.status \in {"created", "running"}
        /\ r.pid # NoPid => r.cg}
Absent == [status |-> "absent", pid |-> NoPid, cg |-> FALSE]

Creators == {p \in Procs : Command[p] \in {"create", "run"}}

Ended == {"done", "dead"}
PCs == Ended \cup
    {"idle", "mkfifo", "spawn", "budget", "await", "saveCreated", "abort",
     "rmCgroup", "rmRecord", "load", "open", "opening", "saveRunning", "wait",
     "loadStopped", "saveStopped", "loadDelete", "signal", "killInit"}
InProgress(p) == pc[p] \notin Ended \cup {"idle"}

Live == {"setup", "budgeted", "parked", "released", "user"}

InitStates == Live \cup {"none", "exited", "gone"}

\* kill(pid, 0) succeeds for a zombie too: init has exited and its parent, the
\* command that created it, is still there and has not waited for it.
ProcessAlive(q) ==
    q \in Procs /\ (init[q] \in Live \/ (init[q] = "exited" /\ pc[q] \notin Ended))

\* The processes in the container's cgroup.
Members == {q \in Procs : init[q] \in Live \ {"setup"}}

MutantLoadTrustsRecord == rec

\* Store.Load reconciles a created or running record with its process.
Loaded ==
    IF rec.status \in {"created", "running"} /\ ~ProcessAlive(rec.pid)
    THEN [rec EXCEPT !.status = "stopped", !.pid = NoPid]
    ELSE rec

Init ==
    /\ caller \in Callers
    /\ rec = Absent /\ fifo = NoPid /\ cgDir = FALSE
    /\ pc = [p \in Procs |-> "idle"]
    /\ loc = [p \in Procs |-> Absent]
    /\ opened = [p \in Procs |-> NoPid]
    /\ init = [p \in Procs |-> "none"]
    /\ initFifo = [p \in Procs |-> NoPid]
    /\ ready = [p \in Procs |-> FALSE]

Goto(p, l) == pc' = [pc EXCEPT ![p] = l]

\* A command of one of these kinds is issued.
Begins(p, kinds) ==
    /\ pc[p] = "idle" /\ p \in caller.issues /\ Command[p] \in kinds
    /\ caller.serial => \A q \in Procs : ~InProgress(q)

----------------------------------------------------------------------------
(* create, and the first half of run: Container.Create *)

MutantClaimUnchecked(p) ==
    /\ Begins(p, {"create", "run"})
    /\ rec' = [Absent EXCEPT !.status = "creating"]
    /\ Goto(p, "mkfifo")
    /\ UNCHANGED <<fifo, cgDir, local, procs>>

\* Store.Create: check and write under the store lock.
Claim(p) ==
    /\ Begins(p, {"create", "run"})
    /\ IF Loaded.status = "absent"
       THEN rec' = [Absent EXCEPT !.status = "creating"] /\ Goto(p, "mkfifo")
       ELSE UNCHANGED rec /\ Goto(p, "done")
    /\ UNCHANGED <<fifo, cgDir, local, procs>>

\* mkfifo takes an existing FIFO as it is and fails without its directory,
\* which is there exactly as long as the record is.
Mkfifo(p) ==
    /\ pc[p] = "mkfifo"
    /\ IF rec = Absent
       THEN UNCHANGED fifo /\ Goto(p, "rmRecord")
       ELSE fifo' = (IF fifo = NoPid THEN p ELSE fifo) /\ Goto(p, "spawn")
    /\ UNCHANGED <<rec, cgDir, local, procs>>

\* Open the FIFO by path and clone init with it.
Spawn(p) ==
    /\ pc[p] = "spawn"
    /\ IF fifo = NoPid
       THEN UNCHANGED <<init, initFifo>> /\ Goto(p, "rmRecord")
       ELSE /\ init' = [init EXCEPT ![p] = "setup"]
            /\ initFifo' = [initFifo EXCEPT ![p] = fifo]
            /\ Goto(p, "budget")
    /\ UNCHANGED <<disk, local, ready>>

MutantCgroupNotKept(p) ==
    /\ pc[p] = "budget"
    /\ cgDir' = TRUE
    /\ init' = [init EXCEPT ![p] = IF @ = "setup" THEN "budgeted" ELSE @]
    /\ Goto(p, "await")
    /\ UNCHANGED <<rec, fifo, local, initFifo, ready>>

\* NewCgroupManager and Apply; from here the handle has a cgroup to clean up.
Budget(p) ==
    /\ pc[p] = "budget"
    /\ cgDir' = TRUE
    /\ init' = [init EXCEPT ![p] = IF @ = "setup" THEN "budgeted" ELSE @]
    /\ loc' = [loc EXCEPT ![p].cg = TRUE]
    /\ Goto(p, "await")
    /\ UNCHANGED <<rec, fifo, opened, initFifo, ready>>

\* await(syncProcReady): the message counts even if its sender is gone since.
AwaitReady(p) ==
    /\ pc[p] = "await" /\ ready[p]
    /\ Goto(p, "saveCreated")
    /\ UNCHANGED <<disk, local, procs>>

MutantPidNotSaved(p) ==
    /\ pc[p] = "saveCreated"
    /\ rec' = [status |-> "created", pid |-> NoPid, cg |-> TRUE]
    /\ Goto(p, IF Command[p] = "run" THEN "load" ELSE "done")
    /\ UNCHANGED <<fifo, cgDir, local, procs>>

\* Save does not take the store lock and makes the directory if need be.
SaveCreated(p) ==
    /\ pc[p] = "saveCreated"
    /\ rec' = [status |-> "created", pid |-> p, cg |-> TRUE]
    /\ Goto(p, IF Command[p] = "run" THEN "load" ELSE "done")
    /\ UNCHANGED <<fifo, cgDir, local, procs>>

CreateFails(p) ==
    /\ "createFails" \in caller.faults
    /\ \/ pc[p] \in {"mkfifo", "spawn"} /\ Goto(p, "rmRecord")
       \/ pc[p] \in {"budget", "await", "saveCreated"} /\ Goto(p, "abort")
    /\ UNCHANGED <<disk, local, procs>>

MutantAbortKillsNobody(p) ==
    /\ pc[p] = "abort"
    /\ Goto(p, "rmCgroup")
    /\ UNCHANGED <<disk, local, procs>>

\* cmd.Process.Kill and Wait.
Abort(p) ==
    /\ pc[p] = "abort"
    /\ init' = [init EXCEPT ![p] = "gone"]
    /\ Goto(p, "rmCgroup")
    /\ UNCHANGED <<disk, local, initFifo, ready>>

\* CgroupManager.Cleanup, by a failed create and by delete: rmdir, which fails
\* on a cgroup with live members.
RemoveCgroup(p) ==
    /\ pc[p] = "rmCgroup"
    /\ cgDir' = (cgDir /\ (~loc[p].cg \/ Members # {}))
    /\ Goto(p, "rmRecord")
    /\ UNCHANGED <<rec, fifo, local, procs>>

\* Store.Delete, by a failed create and by delete.  The lock is held, but what
\* the directory holds by now is not looked at.
RemoveRecord(p) ==
    /\ pc[p] = "rmRecord"
    /\ rec' = Absent /\ fifo' = NoPid
    /\ Goto(p, "done")
    /\ UNCHANGED <<cgDir, local, procs>>

----------------------------------------------------------------------------
(* start, and the second half of run: Container.Start, Container.Run *)

LoadToStart(p) ==
    /\ Begins(p, {"start"}) \/ pc[p] = "load"
    /\ IF Loaded.status = "created"
       THEN loc' = [loc EXCEPT ![p] = Loaded] /\ Goto(p, "open")
       ELSE UNCHANGED loc /\ Goto(p, "done")
    /\ UNCHANGED <<disk, opened, procs>>

\* Open the FIFO by path for reading.  It returns at once only while an init
\* has the same FIFO open for writing.
OpenFifo(p) ==
    /\ pc[p] = "open"
    /\ opened' = [opened EXCEPT ![p] = fifo]
    /\ Goto(p, IF fifo = NoPid THEN "done"
               ELSE IF \E q \in Procs : init[q] = "released" /\ initFifo[q] = fifo
               THEN "saveRunning" ELSE "opening")
    /\ UNCHANGED <<disk, loc, procs>>

\* The two ends of a FIFO meet: every init that waits to open it for writing
\* and every start that waits to open it for reading wakes up.
Meet(q) ==
    LET readers == {p \in Procs : pc[p] = "opening" /\ opened[p] = initFifo[q]}
        writers == {w \in Procs : init[w] = "parked" /\ initFifo[w] = initFifo[q]} IN
    /\ init[q] = "parked" /\ readers # {}
    /\ init' = [w \in Procs |-> IF w \in writers THEN "released" ELSE init[w]]
    /\ pc' = [p \in Procs |-> IF p \in readers THEN "saveRunning" ELSE pc[p]]
    /\ UNCHANGED <<disk, local, initFifo, ready>>

\* The record saved is the one loaded before the wait.
SaveRunning(p) ==
    /\ pc[p] = "saveRunning"
    /\ rec' = [loc[p] EXCEPT !.status = "running"]
    /\ Goto(p, IF Command[p] = "run" THEN "wait" ELSE "done")
    /\ UNCHANGED <<fifo, cgDir, local, procs>>

\* cmd.Wait, then the record is loaded and saved as stopped.
WaitWorkload(p) ==
    /\ pc[p] = "wait" /\ init[p] = "exited"
    /\ init' = [init EXCEPT ![p] = "gone"]
    /\ Goto(p, "loadStopped")
    /\ UNCHANGED <<disk, local, initFifo, ready>>

LoadStopped(p) ==
    /\ pc[p] = "loadStopped"
    /\ loc' = [loc EXCEPT ![p] = Loaded]
    /\ Goto(p, IF Loaded = Absent THEN "loadDelete" ELSE "saveStopped")
    /\ UNCHANGED <<disk, opened, procs>>

SaveStopped(p) ==
    /\ pc[p] = "saveStopped"
    /\ rec' = [loc[p] EXCEPT !.status = "stopped", !.pid = NoPid]
    /\ Goto(p, "loadDelete")
    /\ UNCHANGED <<fifo, cgDir, local, procs>>

----------------------------------------------------------------------------
(* kill, delete, prune *)

LoadToKill(p) ==
    /\ Begins(p, {"kill"})
    /\ IF Loaded.status \in {"absent", "stopped"}
       THEN UNCHANGED loc /\ Goto(p, "done")
       ELSE loc' = [loc EXCEPT ![p] = Loaded] /\ Goto(p, "signal")
    /\ UNCHANGED <<disk, opened, procs>>

\* SIGKILL to the pid that was loaded; pid 0 is the caller's process group.
Exit(q) == [init EXCEPT ![q] = IF @ \in Live THEN "exited" ELSE @]

Signal(p) ==
    /\ pc[p] = "signal"
    /\ IF loc[p].pid = NoPid
       THEN UNCHANGED init /\ Goto(p, "dead")
       ELSE init' = Exit(loc[p].pid) /\ Goto(p, "done")
    /\ UNCHANGED <<disk, local, initFifo, ready>>

Forced(p) == Command[p] \in {"forceDelete", "run"}

MayDelete(p, r) == r.status = "stopped" \/ Forced(p)

LoadToDelete(p) ==
    /\ Begins(p, {"delete", "forceDelete"}) \/ pc[p] = "loadDelete"
    /\ IF Loaded # Absent /\ MayDelete(p, Loaded)
       THEN /\ loc' = [loc EXCEPT ![p] = Loaded]
            /\ Goto(p, IF Loaded.status # "stopped" /\ Loaded.pid # NoPid
                       THEN "killInit" ELSE "rmCgroup")
       ELSE UNCHANGED loc /\ Goto(p, "done")
    /\ UNCHANGED <<disk, opened, procs>>

MutantForceWithoutKill(p) ==
    /\ pc[p] = "killInit"
    /\ Goto(p, "rmCgroup")
    /\ UNCHANGED <<disk, local, procs>>

\* SIGKILL, then waitForExit; SIGKILL works within its five seconds.
KillInit(p) ==
    /\ pc[p] = "killInit"
    /\ init' = Exit(loc[p].pid)
    /\ Goto(p, "rmCgroup")
    /\ UNCHANGED <<disk, local, initFifo, ready>>

\* prune lists the records and deletes, without force, the stopped ones.
ListToPrune(p) ==
    /\ Begins(p, {"prune"})
    /\ Goto(p, IF Loaded.status = "stopped" THEN "loadDelete" ELSE "done")
    /\ UNCHANGED <<disk, local, procs>>

----------------------------------------------------------------------------
(* init, and the environment *)

\* Setup finishes with the creator's help and init parks at its FIFO.
Park(q) ==
    /\ init[q] = "budgeted" /\ pc[q] = "await"
    /\ init' = [init EXCEPT ![q] = "parked"]
    /\ ready' = [ready EXCEPT ![q] = TRUE]
    /\ UNCHANGED <<disk, pc, local, initFifo>>

\* During setup init sees the closed socket of a dead creator and exits.
Orphaned(q) ==
    /\ init[q] \in {"setup", "budgeted"} /\ pc[q] = "dead"
    /\ init' = Exit(q)
    /\ UNCHANGED <<disk, pc, local, initFifo, ready>>

\* Close the FIFO and exec the user's command.
ExecUser(q) ==
    /\ init[q] = "released"
    /\ init' = [init EXCEPT ![q] = "user"]
    /\ UNCHANGED <<disk, pc, local, initFifo, ready>>

InitExits(q) ==
    /\ init[q] = "user" \/ ("initDies" \in caller.faults /\ init[q] \in Live)
    /\ init' = Exit(q)
    /\ UNCHANGED <<disk, pc, local, initFifo, ready>>

CommandDies(p) ==
    /\ "commandDies" \in caller.faults /\ InProgress(p)
    /\ Goto(p, "dead")
    /\ UNCHANGED <<disk, local, procs>>

----------------------------------------------------------------------------
CommandStep(p) ==
    \/ Mkfifo(p) \/ Spawn(p) \/ Budget(p) \/ AwaitReady(p) \/ SaveCreated(p)
    \/ Abort(p) \/ RemoveCgroup(p) \/ RemoveRecord(p)
    \/ pc[p] # "idle" /\ (LoadToStart(p) \/ LoadToDelete(p))
    \/ OpenFifo(p) \/ SaveRunning(p)
    \/ WaitWorkload(p) \/ LoadStopped(p) \/ SaveStopped(p)
    \/ Signal(p) \/ KillInit(p)

Issue(p) ==
    \/ Claim(p) \/ LoadToKill(p) \/ ListToPrune(p)
    \/ pc[p] = "idle" /\ (LoadToStart(p) \/ LoadToDelete(p))

InitStep(q) == Park(q) \/ Orphaned(q) \/ ExecUser(q) \/ Meet(q)

Next ==
    /\ \E p \in Procs :
        \/ Issue(p) \/ CommandStep(p) \/ CreateFails(p)
        \/ InitStep(p) \/ InitExits(p) \/ CommandDies(p)
    /\ UNCHANGED caller

Spec == Init /\ [][Next]_vars

\* A command that has been issued runs on, and so does init; whether a command
\* is issued, a fault happens or the workload ends is up to the environment.
FairSpec ==
    /\ Spec
    /\ \A p \in Procs : /\ WF_vars(CommandStep(p) /\ UNCHANGED caller)
                         /\ WF_vars(InitStep(p) /\ UNCHANGED caller)

----------------------------------------------------------------------------
(* Properties *)

\* Every variable has its type; the record and each command's copy of it are
\* well formed.
TypeOK ==
    /\ caller \in Callers
    /\ rec \in Records /\ fifo \in Procs \cup {NoPid} /\ cgDir \in BOOLEAN
    /\ pc \in [Procs -> PCs]
    /\ loc \in [Procs -> Records] /\ opened \in [Procs -> Procs \cup {NoPid}]
    /\ init \in [Procs -> InitStates]
    /\ initFifo \in [Procs -> Procs \cup {NoPid}] /\ ready \in [Procs -> BOOLEAN]

Started == {"released", "user"}

\* No container without a record: a parked or started init is the process of
\* the record, unless the command that made it is still at work on it or died
\* before it saved the record; and an init orphaned that way stays parked, its
\* user's command never runs.
LiveIsRecorded ==
    \A q \in Procs : init[q] \in Started \cup {"parked"} =>
        \/ rec.pid = q
        \/ pc[q] \in {"await", "saveCreated", "abort"}
        \/ pc[q] = "dead" /\ init[q] = "parked"

\* Two containers never run under one id.
OneWorkload ==
    \A q, r \in Procs : init[q] \in Started /\ init[r] \in Started => q = r

\* "Start releases a created container": the FIFO that start will open is the
\* one the recorded init is parked at.
CreatedIsStartable ==
    rec.status = "created" /\ init[rec.pid] = "parked" =>
        fifo # NoPid /\ initFifo[rec.pid] = fifo

\* An id stands for one container: its workload, its record and its FIFO are of
\* one create, however many have tried.
IdIsExclusive == OneWorkload /\ CreatedIsStartable

\* When no command is at work, none was killed and the id is free, nothing of a
\* container is left: no FIFO, no cgroup and no process.
NothingLeftBehind ==
    rec = Absent /\ "commandDies" \notin caller.faults
                 /\ (\A p \in Procs : ~InProgress(p)) =>
        fifo = NoPid /\ ~cgDir /\ \A q \in Procs : init[q] \notin Live

\* "Delete removes a stopped container": a record goes only when its init has
\* ended, or when it never named one.
RemovedWhenStopped ==
    [][rec # Absent /\ rec' = Absent =>
         rec.pid = NoPid \/ init[rec.pid] \notin Live]_vars

\* "withLock serialises writers": an id comes back only by a create's claim.
ReappearsByClaim ==
    [][rec = Absent /\ rec' # Absent => rec'.status = "creating"]_vars

\* "Kill sends a signal to the container's init process" and to no other, so
\* never to pid 0, the caller's own process group.
KillHitsInit == \A p \in Procs : pc[p] = "signal" => loc[p].pid # NoPid

\* Both: the record follows the container, from the claim to its end.
RecordFollowsContainer == RemovedWhenStopped /\ ReappearsByClaim

\* Of a caller that issues one command at a time, every command ends, but for a
\* run whose workload goes on.
CommandsEnd ==
    caller.serial /\ (\E p \in Procs : InProgress(p))
        ~> \A p \in Procs : ~InProgress(p) \/ pc[p] = "wait"

\* "Opening the FIFO for reading is what unblocks it": a start that opens the
\* FIFO comes back.
StartsEnd == \A p \in Procs : pc[p] = "opening" ~> pc[p] # "opening"

\* "One crash wedges a container that restarts under a fixed name": a prune
\* issued when no command is at work and no init lives takes the record on.
PruneTakesDeadRecords ==
    [][\A p \in Procs :
         /\ Command[p] = "prune" /\ pc[p] = "idle" /\ pc'[p] # "idle"
         /\ rec # Absent
         /\ \A q \in Procs : ~InProgress(q) /\ init[q] \notin Live
         => pc'[p] = "loadDelete"]_vars
=============================================================================

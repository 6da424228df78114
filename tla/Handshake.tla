----------------------------- MODULE Handshake -----------------------------
(***************************************************************************)
(* Creation of one container: the `lightpod create` process (Container.    *)
(* Create) and the container's init process (InitStage1, InitStage2) drive *)
(* each other through a socket pair and a config pipe, and `lightpod       *)
(* start` (Container.Start) releases the parked init through a FIFO.       *)
(*                                                                         *)
(*   creator  claim -> ... -> awaitNsReady -> maps, cgroup, limits ->      *)
(*            awaitHookPoint -> host hooks -> awaitProcReady -> save       *)
(*   init     stage 1 -> re-exec -> stage 2 -> mounts -> hook point ->     *)
(*            createContainer hooks -> pivot -> FIFO -> user's command     *)
(*                                                                         *)
(* One container id, one creator, one starter; Lifecycle.tla covers        *)
(* several commands on one id.  The cgroup is enabled (no --cgroup=none).  *)
(*                                                                         *)
(* The operators named Mutant... are not part of the model.  Each is the   *)
(* definition that follows it with a plausible bug; README.md says which   *)
(* property finds which.                                                   *)
(***************************************************************************)
EXTENDS Naturals, Sequences

CONSTANTS
    ConfigSize,   \* length of the encoded initConfig, in pipe-buffer units
    PipeCap,      \* capacity of the config pipe, in the same units
    NHooks,       \* number of hooks in each list of the spec
    Faults        \* which environment faults may happen, a subset of FaultKinds

HookLists == {"prestart", "createRuntime", "createContainer", "startContainer"}

FaultKinds == {"stepFails",    \* a system call or a hook reports an error
               "initDies",     \* init is killed from outside (OOM, SIGKILL)
               "creatorDies"}  \* `lightpod create` is killed (Ctrl-C, OOM)

ASSUME SizesAssumption == ConfigSize \in Nat \ {0} /\ PipeCap \in Nat \ {0}
ASSUME HooksAssumption == NHooks \in [HookLists -> Nat]
ASSUME FaultsAssumption == Faults \subseteq FaultKinds

VARIABLES
    cpc,       \* where the creator is in Container.Create
    ipc,       \* where init is, from stage 1 to the user's command
    spc,       \* where the starter is in Container.Start
    toInit,    \* sync messages on their way to init
    toCreator, \* sync messages on their way to the creator
    written,   \* config units the creator has put into the pipe
    drained,   \* config units stage 2 has taken out of the pipe
    maps,      \* uid_map and gid_map of init are written
    cgroup,    \* the cgroup directory: "none", "dir", "joined", "limited"
    rootfs,    \* init's root: "host", "mounted" (no pivot yet), "pivoted"
    hooksRun,  \* how many hooks of each list have succeeded
    killed,    \* the creator has sent SIGKILL to init
    byte,      \* init has written its byte to the FIFO
    record,    \* status in the container's state.json, or "absent"
    fifo       \* start.fifo exists in the container's directory

vars == <<cpc, ipc, spc, toInit, toCreator, written, drained, maps, cgroup,
          rootfs, hooksRun, killed, byte, record, fifo>>

channels == <<toInit, toCreator>>
pipe     == <<written, drained>>
disk     == <<record, fifo>>
identity == <<maps, cgroup>>
inside   == <<rootfs, byte>>

----------------------------------------------------------------------------
(* Locations *)

Claiming   == {"claim", "mkfifo", "pipes", "spawn"}
Talking    == {"config", "awaitNsReady", "idMaps", "newCgroup", "join",
               "limits", "sendMapsReady", "awaitHookPoint", "prestart",
               "createRuntime", "sendHooksDone", "awaitProcReady"}
Awaiting   == {"awaitNsReady", "awaitHookPoint", "awaitProcReady"}
CleaningUp == {"kill", "wait", "rmCgroup", "rmRecord"}
Returned   == {"created", "failed", "dead"}
CreatorPCs == Claiming \cup Talking \cup {"save"} \cup CleaningUp \cup Returned

Stage1  == {"sendNsReady", "awaitMapsReady", "reexec"}
Setup   == {"readConfig", "mounts", "sendHookPoint", "awaitHooksDone",
            "createContainer", "pivot", "sendProcReady"}
Parked  == {"openFifo"}
Started == {"writeFifo", "startContainer", "exec", "user"}
Gone    == {"none", "exited", "lost"}
InitPCs == Stage1 \cup Setup \cup {"sendError"} \cup Parked \cup Started \cup Gone

StarterPCs == {"idle", "opening", "reading", "saving", "done"}

InitAlive == ipc \notin Gone

\* The creator's end of the socket pair is open until Create returns or dies.
\* Its copy of the child's end is open just as long (`defer childSock.Close()`),
\* so the creator itself never reads EOF and its own writes never fail.
CreatorEndOpen == cpc \notin Returned

SyncMessages == {"nsReady", "mapsReady", "hookPoint", "hooksDone",
                 "procReady", "error"}

Init ==
    /\ cpc = "claim" /\ ipc = "none" /\ spc = "idle"
    /\ toInit = <<>> /\ toCreator = <<>>
    /\ written = 0 /\ drained = 0
    /\ maps = FALSE /\ cgroup = "none"
    /\ rootfs = "host" /\ hooksRun = [l \in HookLists |-> 0]
    /\ killed = FALSE /\ byte = FALSE
    /\ record = "absent" /\ fifo = FALSE

----------------------------------------------------------------------------
(* The creator: Container.Create *)

MayFail == "stepFails" \in Faults

\* An error return after cmd.Start runs the deferred kill and wait first (the
\* deferred calls run last-in first-out), then the cgroup and store cleanup; an
\* error before it runs the cleanup only.
MutantErrorSkipsKill == "rmCgroup"
OnError == IF cpc \in Claiming THEN "rmCgroup" ELSE "kill"

\* A step with no effect the model keeps, other than its error return.
CreatorStepFails ==
    /\ MayFail
    /\ cpc \in {"mkfifo", "pipes", "spawn", "idMaps", "newCgroup", "join",
                "limits", "save"}
    /\ cpc' = OnError
    /\ UNCHANGED <<ipc, spc, channels, pipe, identity, inside, hooksRun,
                   killed, disk>>

\* store.Create: take the id, status creating.
Claim ==
    /\ cpc = "claim" /\ record = "absent"
    /\ record' = "creating"
    /\ cpc' = "mkfifo"
    /\ UNCHANGED <<ipc, spc, channels, pipe, identity, inside, hooksRun,
                   killed, fifo>>

Mkfifo ==
    /\ cpc = "mkfifo"
    /\ fifo' = TRUE
    /\ cpc' = "pipes"
    /\ UNCHANGED <<ipc, spc, channels, pipe, identity, inside, hooksRun,
                   killed, record>>

\* Open the FIFO with O_PATH, make the config pipe and the socket pair, and
\* work out the clone flags.
MakePipes ==
    /\ cpc = "pipes"
    /\ cpc' = "spawn"
    /\ UNCHANGED <<ipc, spc, channels, pipe, identity, inside, hooksRun,
                   killed, disk>>

\* cmd.Start: clone init into its namespaces, running InitStage1.
Spawn ==
    /\ cpc = "spawn"
    /\ ipc' = "sendNsReady"
    /\ cpc' = "config"
    /\ UNCHANGED <<spc, channels, pipe, identity, inside, hooksRun, killed,
                   disk>>

\* Encode(cfg) blocks while the pipe is full.  It cannot fail with EPIPE: the
\* creator holds the pipe's read end too until it returns.
WriteConfig ==
    /\ cpc = "config"
    /\ written < ConfigSize
    /\ written - drained < PipeCap
    /\ written' = written + 1
    /\ cpc' = IF written' = ConfigSize THEN "awaitNsReady" ELSE "config"
    /\ UNCHANGED <<ipc, spc, channels, drained, identity, inside, hooksRun,
                   killed, disk>>

\* await(expect) blocks for a message and takes it; anything but the expected
\* step is an error.
CreatorAwait(at, expect, next) ==
    /\ cpc = at
    /\ toCreator # <<>>
    /\ toCreator' = Tail(toCreator)
    /\ cpc' = IF Head(toCreator) = expect THEN next ELSE OnError
    /\ UNCHANGED <<ipc, spc, toInit, pipe, identity, inside, hooksRun, killed,
                   disk>>

CreatorSend(at, m, next) ==
    /\ cpc = at
    /\ toInit' = Append(toInit, m)
    /\ cpc' = next
    /\ UNCHANGED <<ipc, spc, toCreator, pipe, identity, inside, hooksRun,
                   killed, disk>>

AwaitNsReady   == CreatorAwait("awaitNsReady", "nsReady", "idMaps")
MutantHookPointNotAwaited ==
    CreatorSend("sendMapsReady", "mapsReady", "prestart")
SendMapsReady  == CreatorSend("sendMapsReady", "mapsReady", "awaitHookPoint")
AwaitHookPoint == CreatorAwait("awaitHookPoint", "hookPoint", "prestart")
MutantSavedBeforeProcReady ==
    CreatorSend("sendHooksDone", "hooksDone", "save")
SendHooksDone  == CreatorSend("sendHooksDone", "hooksDone", "awaitProcReady")
AwaitProcReady == CreatorAwait("awaitProcReady", "procReady", "save")

WriteIDMaps ==
    /\ cpc = "idMaps"
    /\ maps' = TRUE
    /\ cpc' = "newCgroup"
    /\ UNCHANGED <<ipc, spc, channels, pipe, cgroup, inside, hooksRun, killed,
                   disk>>

\* NewCgroupManager makes the directory, Apply moves init into it and
\* SetResources writes the limits.
CgroupStep(at, from, to, next) ==
    /\ cpc = at /\ cgroup = from
    /\ cgroup' = to
    /\ cpc' = next
    /\ UNCHANGED <<ipc, spc, channels, pipe, maps, inside, hooksRun, killed,
                   disk>>

NewCgroup    == CgroupStep("newCgroup", "none", "dir", "join")
ApplyCgroup  == CgroupStep("join", "dir", "joined", "limits")
SetResources == CgroupStep("limits", "joined", "limited", "sendMapsReady")

MutantHooksOffByOne(list) == hooksRun[list] <= NHooks[list]
HooksLeft(list) == hooksRun[list] < NHooks[list]

\* runHooks runs one list, one hook after another, and stops at the first
\* error, which the creator passes on to init before it returns it.
CreatorHook(list, next) ==
    /\ cpc = list
    /\ \/ /\ HooksLeft(list)
          /\ hooksRun' = [hooksRun EXCEPT ![list] = @ + 1]
          /\ UNCHANGED <<cpc, toInit>>
       \/ /\ ~HooksLeft(list)
          /\ cpc' = next
          /\ UNCHANGED <<toInit, hooksRun>>
       \/ /\ MayFail /\ HooksLeft(list)
          /\ toInit' = Append(toInit, "error")
          /\ cpc' = OnError
          /\ UNCHANGED hooksRun
    /\ UNCHANGED <<ipc, spc, toCreator, pipe, identity, inside, killed, disk>>

Prestart      == CreatorHook("prestart", "createRuntime")
CreateRuntime == CreatorHook("createRuntime", "sendHooksDone")

SaveCreated ==
    /\ cpc = "save"
    /\ record' = "created"
    /\ cpc' = "created"
    /\ UNCHANGED <<ipc, spc, channels, pipe, identity, inside, hooksRun,
                   killed, fifo>>

\* The deferred calls of a failed Create.
KillInit ==
    /\ cpc = "kill"
    /\ killed' = TRUE
    /\ cpc' = "wait"
    /\ UNCHANGED <<ipc, spc, channels, pipe, identity, inside, hooksRun, disk>>

WaitInit ==
    /\ cpc = "wait"
    /\ ~InitAlive
    /\ cpc' = "rmCgroup"
    /\ UNCHANGED <<ipc, spc, channels, pipe, identity, inside, hooksRun,
                   killed, disk>>

\* rmdir of a cgroup that still holds a live process fails; the error is
\* dropped.  With no manager yet there is nothing to remove.
RemoveCgroup ==
    /\ cpc = "rmCgroup"
    /\ cgroup' = IF cgroup \in {"joined", "limited"} /\ InitAlive
                 THEN cgroup ELSE "none"
    /\ cpc' = "rmRecord"
    /\ UNCHANGED <<ipc, spc, channels, pipe, maps, inside, hooksRun, killed,
                   disk>>

RemoveRecord ==
    /\ cpc = "rmRecord"
    /\ record' = "absent"
    /\ fifo' = FALSE
    /\ cpc' = "failed"
    /\ UNCHANGED <<ipc, spc, channels, pipe, identity, inside, hooksRun,
                   killed>>

Creator ==
    \/ CreatorStepFails
    \/ Claim \/ Mkfifo \/ MakePipes \/ Spawn \/ WriteConfig
    \/ AwaitNsReady \/ WriteIDMaps \/ NewCgroup \/ ApplyCgroup \/ SetResources
    \/ SendMapsReady \/ AwaitHookPoint \/ Prestart \/ CreateRuntime
    \/ SendHooksDone \/ AwaitProcReady \/ SaveCreated
    \/ KillInit \/ WaitInit \/ RemoveCgroup \/ RemoveRecord

\* SIGKILL, or a signal `create` does not handle: its descriptors close and
\* nothing is cleaned up.
CreatorDies ==
    /\ "creatorDies" \in Faults
    /\ cpc \notin Returned
    /\ cpc' = "dead"
    /\ UNCHANGED <<ipc, spc, channels, pipe, identity, inside, hooksRun,
                   killed, disk>>

----------------------------------------------------------------------------
(* Init: InitStage1, InitStage2, initSetup, execUserProcess *)

\* An error of stage 2 is first sent to the creator, and stage 1 does so only
\* for a failed re-exec; its other errors just end the process.
Report == "sendError"
Silent == "exited"

\* send(m) fails once the creator's end is closed.
InitSend(at, m, next, onError) ==
    /\ ipc = at
    /\ IF CreatorEndOpen
       THEN toCreator' = Append(toCreator, m) /\ ipc' = next
       ELSE ipc' = onError /\ UNCHANGED toCreator
    /\ UNCHANGED <<cpc, spc, toInit, pipe, identity, inside, hooksRun, killed,
                   disk>>

\* await(expect) on init's side: a message, or EOF once the creator's end is
\* closed and the queue is empty.
InitAwait(at, expect, next, onError) ==
    /\ ipc = at
    /\ \/ /\ toInit # <<>>
          /\ toInit' = Tail(toInit)
          /\ ipc' = IF Head(toInit) = expect THEN next ELSE onError
       \/ /\ toInit = <<>> /\ ~CreatorEndOpen
          /\ ipc' = onError
          /\ UNCHANGED toInit
    /\ UNCHANGED <<cpc, spc, toCreator, pipe, identity, inside, hooksRun,
                   killed, disk>>

SendNsReady    == InitSend("sendNsReady", "nsReady", "awaitMapsReady", Silent)
AwaitMapsReady == InitAwait("awaitMapsReady", "mapsReady", "reexec", Silent)
SendHookPoint  == InitSend("sendHookPoint", "hookPoint", "awaitHooksDone", Report)
MutantHookErrorIgnored ==
    InitAwait("awaitHooksDone", "hooksDone", "createContainer", "createContainer")
AwaitHooksDone == InitAwait("awaitHooksDone", "hooksDone", "createContainer", Report)
SendProcReady  == InitSend("sendProcReady", "procReady", "openFifo", Report)

\* A fallible step of init: the re-exec, joinNamespaces to prepareRootfs,
\* finalizeRootfs, and after sync.Close (so unheard) execUserProcess.
InitStepFails ==
    /\ MayFail
    /\ \/ ipc \in {"reexec", "mounts", "pivot"} /\ ipc' = Report
       \/ ipc = "exec" /\ ipc' = Silent
    /\ UNCHANGED <<cpc, spc, channels, pipe, identity, inside, hooksRun,
                   killed, disk>>

InitGoto(at, next) ==
    /\ ipc = at
    /\ ipc' = next
    /\ UNCHANGED <<cpc, spc, channels, pipe, identity, inside, hooksRun,
                   killed, disk>>

\* execve replaces stage 1: whatever its decoder had read ahead is lost.
Reexec == InitGoto("reexec", "readConfig")

\* Decode blocks until the whole object has come through the pipe.
ReadConfig ==
    /\ ipc = "readConfig"
    /\ drained < written
    /\ drained' = written
    /\ ipc' = IF drained' = ConfigSize THEN "mounts" ELSE "readConfig"
    /\ UNCHANGED <<cpc, spc, channels, written, identity, inside, hooksRun,
                   killed, disk>>

\* joinNamespaces, the hostname and prepareRootfs; finalizeRootfs pivots.
RootfsStep(at, to, next) ==
    /\ ipc = at
    /\ rootfs' = to
    /\ ipc' = next
    /\ UNCHANGED <<cpc, spc, channels, pipe, identity, byte, hooksRun, killed,
                   disk>>

PrepareRootfs  == RootfsStep("mounts", "mounted", "sendHookPoint")
FinalizeRootfs == RootfsStep("pivot", "pivoted", "sendProcReady")

\* A hook list run by init, inside the container's namespaces.
InitHook(list, next, onError) ==
    /\ ipc = list
    /\ \/ /\ HooksLeft(list)
          /\ hooksRun' = [hooksRun EXCEPT ![list] = @ + 1]
          /\ UNCHANGED ipc
       \/ /\ ~HooksLeft(list)
          /\ ipc' = next
          /\ UNCHANGED hooksRun
       \/ /\ MayFail /\ HooksLeft(list)
          /\ ipc' = onError
          /\ UNCHANGED hooksRun
    /\ UNCHANGED <<cpc, spc, channels, pipe, identity, inside, killed, disk>>

CreateContainer == InitHook("createContainer", "pivot", Report)
StartContainer  == InitHook("startContainer", "exec", Silent)

MutantErrorNotSent == InitGoto("sendError", "exited")

\* sync.sendError, then the process exits.
SendError ==
    /\ ipc = "sendError"
    /\ toCreator' = IF CreatorEndOpen THEN Append(toCreator, "error") ELSE toCreator
    /\ ipc' = "exited"
    /\ UNCHANGED <<cpc, spc, toInit, pipe, identity, inside, hooksRun, killed,
                   disk>>

\* The write that tells the starter, after the FIFO's two ends have met.
WriteFifo ==
    /\ ipc = "writeFifo"
    /\ byte' = TRUE
    /\ ipc' = "startContainer"
    /\ UNCHANGED <<cpc, spc, channels, pipe, identity, rootfs, hooksRun,
                   killed, disk>>

Exec      == InitGoto("exec", "user")

InitProcess ==
    \/ SendNsReady \/ AwaitMapsReady \/ Reexec \/ ReadConfig \/ PrepareRootfs
    \/ SendHookPoint \/ AwaitHooksDone \/ CreateContainer \/ FinalizeRootfs
    \/ SendProcReady \/ WriteFifo \/ StartContainer \/ Exec
    \/ InitStepFails \/ SendError

\* The user's command returns.
UserExits == InitGoto("user", "exited")

\* The kernel delivers the creator's SIGKILL.
InitKilled ==
    /\ killed /\ InitAlive
    /\ InitGoto(ipc, "exited")

\* Anything else that ends init without a word: the OOM killer acting on the
\* limits just set, an operator's kill -9, a panic of the runtime.  "lost" is
\* "exited" with the cause remembered.
InitDies ==
    /\ "initDies" \in Faults /\ InitAlive
    /\ InitGoto(ipc, "lost")

----------------------------------------------------------------------------
(* The starter: Container.Start *)

\* Load reconciles a created record whose init is gone to stopped, and Start
\* then refuses it.
LoadCreated ==
    /\ spc = "idle"
    /\ record = "created" /\ InitAlive
    /\ spc' = "opening"
    /\ UNCHANGED <<cpc, ipc, channels, pipe, identity, inside, hooksRun,
                   killed, disk>>

\* open(O_RDONLY) and open(O_WRONLY) of one FIFO block until both are there.
Rendezvous ==
    /\ spc = "opening" /\ fifo
    /\ ipc = "openFifo"
    /\ spc' = "reading"
    /\ ipc' = "writeFifo"
    /\ UNCHANGED <<cpc, channels, pipe, identity, inside, hooksRun, killed,
                   disk>>

\* The read returns the byte, or EOF if init went without writing it; Start
\* ignores which.
ReadFifo ==
    /\ spc = "reading"
    /\ byte \/ ~InitAlive
    /\ spc' = "saving"
    /\ UNCHANGED <<cpc, ipc, channels, pipe, identity, inside, hooksRun,
                   killed, disk>>

SaveRunning ==
    /\ spc = "saving"
    /\ record' = "running"
    /\ spc' = "done"
    /\ UNCHANGED <<cpc, ipc, channels, pipe, identity, inside, hooksRun,
                   killed, fifo>>

Starter == Rendezvous \/ ReadFifo \/ SaveRunning

----------------------------------------------------------------------------

Next ==
    \/ Creator \/ CreatorDies
    \/ InitProcess \/ UserExits \/ InitKilled \/ InitDies
    \/ LoadCreated \/ Starter

Spec == Init /\ [][Next]_vars

\* Each process runs when it can; hooks and system calls return.  Faults, the
\* end of the user's command and the decision to start are left to the
\* environment.
FairSpec ==
    /\ Spec
    /\ WF_vars(Creator) /\ WF_vars(InitProcess) /\ WF_vars(InitKilled)
    /\ WF_vars(Starter)

----------------------------------------------------------------------------
(* Properties *)

\* Every variable has its type; in particular no hook list runs past its end
\* and no more config is taken from the pipe than was put in (the pipe's
\* capacity included).
StateOK ==
    /\ cpc \in CreatorPCs /\ ipc \in InitPCs /\ spc \in StarterPCs
    /\ written \in 0..ConfigSize /\ drained \in 0..written
    /\ written - drained <= PipeCap
    /\ maps \in BOOLEAN /\ cgroup \in {"none", "dir", "joined", "limited"}
    /\ rootfs \in {"host", "mounted", "pivoted"}
    /\ hooksRun \in [HookLists -> Nat]
    /\ \A l \in HookLists : hooksRun[l] <= NHooks[l]
    /\ killed \in BOOLEAN /\ byte \in BOOLEAN
    /\ record \in {"absent", "creating", "created", "running"}
    /\ fifo \in BOOLEAN

ChannelsOK == toInit \in Seq(SyncMessages) /\ toCreator \in Seq(SyncMessages)

TypeOK == StateOK /\ ChannelsOK

\* The handshake is in lock step: the two directions together never hold more
\* than one message, and nothing is queued for stage 1 when it re-execs (the
\* message would be lost in the decoder's buffer).
LockStep ==
    /\ Len(toInit) + Len(toCreator) <= 1
    /\ ipc = "reexec" => toInit = <<>>

\* "Give it an identity and a budget while it waits": whatever stage 2 runs,
\* init's id maps are written, it is in its cgroup and the limits are set, and
\* the config it decodes is complete.
BudgetBeforeSetup ==
    ipc \in Setup \cup Parked \cup Started =>
        /\ maps /\ cgroup = "limited" /\ written = ConfigSize

\* "Mounts are in place, pivot hasn't happened": while a prestart or
\* createRuntime hook of the creator runs, init (if it lives) waits with its
\* mounts made and its root not yet pivoted.
HookWindow ==
    cpc \in {"prestart", "createRuntime"} /\ InitAlive =>
        ipc = "awaitHooksDone" /\ rootfs = "mounted"

AllRan(lists) == \A l \in lists : hooksRun[l] = NHooks[l]

\* "A failing hook aborts creation": init pivots only when every prestart,
\* createRuntime and createContainer hook has succeeded, in that order, and
\* the user's command runs only when every startContainer hook has too.
HooksInOrder ==
    /\ hooksRun["createRuntime"] > 0 => AllRan({"prestart"})
    /\ hooksRun["createContainer"] > 0 => AllRan({"prestart", "createRuntime"})
    /\ rootfs = "pivoted" => AllRan(HookLists \ {"startContainer"})
    /\ ipc = "user" => AllRan(HookLists)

\* The hooks of the host and of the container run where the runtime spec puts
\* them: each list in its window, the lists in order, and none after a failure.
HooksInPlace == HookWindow /\ HooksInOrder

\* A create that returns an error leaves nothing: no record, no FIFO, no
\* cgroup directory and no init, whichever step failed and wherever init was
\* ("a device retrying the same container for weeks shouldn't pile up empty
\* directories").
FailureLeavesNothing ==
    cpc = "failed" => record = "absent" /\ ~fifo /\ cgroup = "none" /\ ~InitAlive

\* The workload is past the FIFO only if a start has read a created record.
NoWorkloadBeforeStart ==
    ipc \in Started => spc \in {"reading", "saving", "done"}
                       /\ record \in {"created", "running"}

\* The handshake implements the contract of create and start.
Ready == /\ maps /\ cgroup = "limited" /\ rootfs = "pivoted"
         /\ AllRan(HookLists \ {"startContainer"})

Contract == INSTANCE CreateContract WITH
    status   <- record,
    ready    <- Ready,
    released <- spc \in {"reading", "saving", "done"},
    running  <- ipc = "user"

\* Every step of create, init and start is a step of the contract or none.
ImplementsContract == Contract!CSpec

\* Create and start come back, unless init was lost: then create may be left in
\* an await, and nowhere else, and start at the FIFO.  An init whose creator died
\* does not linger in setup: it sees the closed socket and exits, or it had
\* already finished and is parked at the FIFO.
NobodyWaitsForever ==
    /\ <>(cpc \in Returned \/ (ipc = "lost" /\ cpc \in Awaiting))
    /\ spc = "opening" ~> spc = "done" \/ ipc = "lost"
    /\ cpc = "dead" ~> ipc \in Gone \cup Parked \cup Started

\* "EOF is fatal - the pipe only closes if the other side died": a creator
\* waiting for a step of a dead init gets out of the wait.
DeadInitNoticed ==
    cpc = "awaitHookPoint" /\ ~InitAlive ~> cpc # "awaitHookPoint"

\* "Config stays unread in the pipe" while stage 1 asks for its maps: handing
\* the config over never blocks the creator.
ConfigHandedOver == cpc = "config" ~> cpc # "config"
=============================================================================

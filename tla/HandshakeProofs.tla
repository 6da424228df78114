--------------------------- MODULE HandshakeProofs ---------------------------
(***************************************************************************)
(* Proofs about Handshake for every config size, pipe capacity, number of  *)
(* hooks and choice of faults.                                             *)
(*                                                                         *)
(* The safety properties are not inductive: what init may do next depends  *)
(* on which message is under way and where the creator is.  IInv says      *)
(* which pairs of locations and which channel contents go together         *)
(* (Control), and what has been done by then (Identity, Hooks, Disk).      *)
(***************************************************************************)
EXTENDS Handshake, TLAPS

\* What each side may be doing and what is under way, by init's location.
NoMessage == toInit = <<>> /\ toCreator = <<>>
ToCreator(m) == toInit = <<>> /\ toCreator = <<m>>
ToInit(m) == toInit = <<m>> /\ toCreator = <<>>

Budgeting == {"idMaps", "newCgroup", "join", "limits", "sendMapsReady"}
Hosting   == {"prestart", "createRuntime", "sendHooksDone"}
Aborting  == {"kill", "wait"}

\* Before stage 1 reports, and while it waits for its maps.
ControlStage1 ==
    /\ cpc \in Claiming => ipc = "none"
    /\ ipc = "none" => cpc \in Claiming \cup {"rmCgroup", "rmRecord", "failed", "dead"}
                       /\ NoMessage
    /\ ipc = "sendNsReady" => cpc \in {"config", "awaitNsReady", "dead"} /\ NoMessage
    /\ ipc = "awaitMapsReady" =>
          \/ ToCreator("nsReady") /\ cpc \in {"config", "awaitNsReady", "dead"}
          \/ NoMessage /\ cpc \in Budgeting \cup Aborting \cup {"dead"}
          \/ ToInit("mapsReady") /\ cpc \in {"awaitHookPoint", "dead"}

\* Stage 2, up to and including the hook point.
ControlSetup ==
    /\ ipc \in {"reexec", "readConfig", "mounts", "sendHookPoint"} =>
          NoMessage /\ cpc \in {"awaitHookPoint", "dead"}
    /\ ipc = "awaitHooksDone" =>
          \/ ToCreator("hookPoint") /\ cpc \in {"awaitHookPoint", "dead"}
          \/ NoMessage /\ cpc \in Hosting \cup {"dead"}
          \/ ToInit("hooksDone") /\ cpc \in {"awaitProcReady", "dead"}
          \/ ToInit("error") /\ cpc \in Aborting \cup {"dead"}
    /\ ipc \in {"createContainer", "pivot", "sendProcReady"} =>
          NoMessage /\ cpc \in {"awaitProcReady", "dead"}
    /\ ipc = "sendError" =>
          \/ NoMessage /\ cpc \in {"awaitHookPoint", "awaitProcReady", "dead"} \cup Aborting
          \/ ToCreator("hookPoint") /\ cpc = "dead"

\* Parked, started, and gone: a dead init leaves its last message behind.
ControlEnd ==
    /\ ipc \in Parked \cup Started =>
          \/ ToCreator("procReady") /\ cpc \in {"awaitProcReady", "dead"}
          \/ NoMessage /\ cpc \in {"save", "created", "dead"} \cup Aborting
    /\ ipc \in {"exited", "lost"} =>
          \/ NoMessage /\ cpc \notin Claiming
          \/ ToCreator("nsReady") /\ cpc \in {"config", "awaitNsReady", "dead"}
          \/ ToCreator("hookPoint") /\ cpc \in {"awaitHookPoint", "dead"}
          \/ ToCreator("procReady") /\ cpc \in {"awaitProcReady", "dead"}
          \/ ToCreator("error") /\ cpc \in {"awaitHookPoint", "awaitProcReady", "failed", "dead"}
                                            \cup CleaningUp
          \/ ToInit("mapsReady") /\ cpc \in {"awaitHookPoint", "dead"}
          \/ ToInit("hooksDone") /\ cpc \in {"awaitProcReady", "dead"}
          \/ ToInit("error") /\ cpc \in CleaningUp \cup {"failed", "dead"}

Control == ControlStage1 /\ ControlSetup /\ ControlEnd

\* Maps, cgroup and config, by the creator's location, and for init from the
\* moment the mapsReady message is under way.
Configured == maps /\ cgroup = "limited" /\ written = ConfigSize

Identity ==
    /\ cpc \in Claiming \cup {"config", "awaitNsReady", "idMaps", "newCgroup"} => cgroup = "none"
    /\ cpc = "join" => cgroup = "dir"
    /\ cpc = "limits" => cgroup = "joined"
    /\ cpc \in {"newCgroup", "join", "limits"} => maps
    /\ cpc \in {"awaitNsReady", "idMaps", "newCgroup", "join", "limits"} => written = ConfigSize
    /\ cpc \in {"sendMapsReady", "awaitHookPoint", "awaitProcReady", "save", "created"} \cup Hosting
          => Configured
    /\ ipc \in {"reexec", "sendError"} \cup Setup \cup Parked \cup Started => Configured
    /\ ipc = "awaitMapsReady" /\ toInit # <<>> => Configured
    /\ cpc \in {"rmRecord", "failed"} => cgroup = "none"
    /\ cpc \in {"rmCgroup", "rmRecord", "failed"} => ~InitAlive

\* Hook lists and the root filesystem, by both locations.
HostHooks == {"prestart", "createRuntime"}
SetupHooks == HookLists \ {"startContainer"}
Pivoted == rootfs = "pivoted" /\ AllRan(SetupHooks)

Hooks ==
    /\ hooksRun["createRuntime"] > 0 => AllRan({"prestart"})
    /\ hooksRun["createContainer"] > 0 => AllRan(HostHooks)
    /\ rootfs = "pivoted" => AllRan(SetupHooks)
    /\ cpc = "createRuntime" => AllRan({"prestart"})
    /\ cpc \in {"sendHooksDone", "awaitProcReady"} => AllRan(HostHooks)
    /\ ipc = "awaitHooksDone" /\ toInit = <<"hooksDone">> => AllRan(HostHooks)
    /\ ipc = "createContainer" => AllRan(HostHooks)
    /\ ipc = "pivot" => AllRan(SetupHooks)
    /\ ipc \in {"sendHookPoint", "awaitHooksDone", "createContainer", "pivot"} => rootfs = "mounted"
    /\ ipc \in {"sendProcReady"} \cup Parked \cup Started => Pivoted
    /\ ipc \in {"exec", "user"} => AllRan({"startContainer"})
    /\ cpc = "awaitProcReady" /\ toCreator = <<"procReady">> => Pivoted
    /\ cpc \in {"save", "created"} => Pivoted

\* The record, by the creator's and the starter's locations.
Disk ==
    /\ cpc = "claim" => record = "absent"
    /\ cpc \in (Claiming \ {"claim"}) \cup Talking \cup {"save"} \cup CleaningUp => record = "creating"
    /\ cpc = "created" => record \in {"created", "running"}
    /\ cpc = "failed" => record = "absent" /\ ~fifo
    /\ cpc = "dead" => record = "creating" \/ (record = "absent" /\ ipc = "none")
    /\ spc # "idle" => cpc = "created"
    /\ spc \in {"opening", "reading", "saving"} => record = "created"
    /\ spc = "done" => record = "running"
    /\ ipc \in Started => spc \in {"reading", "saving", "done"}

IInv == StateOK /\ Control /\ Identity /\ Hooks /\ Disk
----------------------------------------------------------------------------
(* Proofs *)

USE SizesAssumption, HooksAssumption, FaultsAssumption
USE DEF channels, pipe, disk, identity, inside

\* The sync socket holds one message at most: a send on the empty channel makes
\* <<m>> of it, and an await of that message empties it again (sync.go:50-81).
LEMMA OneMessage ==
    ASSUME NEW m
    PROVE  /\ Append(<<>>, m) = <<m>> /\ Tail(<<m>>) = <<>> /\ Head(<<m>>) = m
           /\ Len(<<m>>) = 1 /\ <<m>> # <<>>
OBVIOUS

\* Before Container.Create has done anything, IInv holds.
LEMMA InitInductive == Init => IInv
<1> SUFFICES ASSUME Init PROVE IInv
    OBVIOUS
<1> USE DEF Init, CreatorPCs, InitPCs, StarterPCs, Claiming, Talking, CleaningUp,
            Returned, Stage1, Setup, Parked, Started, Gone
<1>1. StateOK
  <2>1. maps \in BOOLEAN /\ killed \in BOOLEAN /\ byte \in BOOLEAN /\ fifo \in BOOLEAN
    OBVIOUS
  <2>2. hooksRun \in [HookLists -> Nat] /\ \A l \in HookLists : hooksRun[l] <= NHooks[l]
    OBVIOUS
  <2> QED
    BY <2>1, <2>2 DEF StateOK
<1>2. Control
  <2>1. ControlStage1
      BY DEF ControlStage1, NoMessage
  <2>2. ControlSetup
      BY DEF ControlSetup
  <2>3. ControlEnd
      BY DEF ControlEnd
  <2> QED
      BY <2>1, <2>2, <2>3 DEF Control
<1>3. Identity
    BY DEF Identity, InitAlive, Hosting
<1>4. Hooks
    BY DEF Hooks, HookLists
<1>5. Disk
    BY DEF Disk
<1> QED
    BY <1>1, <1>2, <1>3, <1>4, <1>5 DEF IInv

\* Every step of the creator (container.go:118-292), of init (init.go:25-156),
\* of the starter (container.go:296-318) and every fault preserves IInv.
LEMMA StepInductive == IInv /\ [Next]_vars => IInv'
<1> SUFFICES ASSUME IInv, [Next]_vars PROVE IInv'
    OBVIOUS
<1> USE DEF IInv, CreatorPCs, InitPCs, StarterPCs, Claiming, Talking, CleaningUp,
            Returned, Stage1, Setup, Parked, Started, Gone, Budgeting, Hosting,
            Aborting, InitAlive, OnError, CreatorEndOpen,
            Report, Silent, HostHooks, SetupHooks, HooksLeft,
            Control, ControlStage1, ControlSetup, ControlEnd, NoMessage, ToCreator, ToInit
<1>1. CASE CreatorStepFails
    BY <1>1 DEF CreatorStepFails, StateOK, Identity, Configured, Hooks, HookLists,
         Pivoted, AllRan, Disk
<1>2. CASE Claim
    BY <1>2 DEF Claim, StateOK, Identity, Configured, Hooks, HookLists, Pivoted,
         AllRan, Disk
<1>3. CASE Mkfifo
    BY <1>3 DEF Mkfifo, StateOK, Identity, Configured, Hooks, HookLists, Pivoted,
         AllRan, Disk
<1>4. CASE MakePipes
    BY <1>4 DEF MakePipes, StateOK, Identity, Configured, Hooks, HookLists, Pivoted,
         AllRan, Disk
<1>5. CASE Spawn
    BY <1>5 DEF Spawn, StateOK, Identity, Configured, Hooks, HookLists, Pivoted,
         AllRan, Disk
<1>6. CASE WriteConfig
    BY <1>6 DEF WriteConfig, StateOK, Identity, Configured, Hooks, HookLists,
         Pivoted, AllRan, Disk
<1>7. CASE AwaitNsReady
  <2>1. StateOK'
    BY <1>7 DEF AwaitNsReady, CreatorAwait, StateOK
  <2>2. Control'
    BY <1>7, OneMessage DEF AwaitNsReady, CreatorAwait, StateOK
  <2>3. Identity'
    BY <1>7, OneMessage DEF AwaitNsReady, CreatorAwait, Identity, Configured, StateOK
  <2>4. Hooks'
    BY <1>7, OneMessage DEF AwaitNsReady, CreatorAwait, Hooks, HookLists, Pivoted,
         AllRan, StateOK
  <2>5. Disk'
    BY <1>7, OneMessage DEF AwaitNsReady, CreatorAwait, Disk, StateOK
  <2> QED
    BY <2>1, <2>2, <2>3, <2>4, <2>5
<1>8. CASE WriteIDMaps
    BY <1>8 DEF WriteIDMaps, StateOK, Identity, Configured, Hooks, HookLists,
         Pivoted, AllRan, Disk
<1>9. CASE NewCgroup
    BY <1>9 DEF NewCgroup, CgroupStep, StateOK, Identity, Configured, Hooks,
         HookLists, Pivoted, AllRan, Disk
<1>10. CASE ApplyCgroup
    BY <1>10 DEF ApplyCgroup, CgroupStep, StateOK, Identity, Configured, Hooks,
         HookLists, Pivoted, AllRan, Disk
<1>11. CASE SetResources
    BY <1>11 DEF SetResources, CgroupStep, StateOK, Identity, Configured, Hooks,
         HookLists, Pivoted, AllRan, Disk
<1>12. CASE SendMapsReady
  <2>1. StateOK'
    BY <1>12 DEF SendMapsReady, CreatorSend, StateOK
  <2>2. Control'
    BY <1>12, OneMessage DEF SendMapsReady, CreatorSend, StateOK
  <2>3. Identity'
    BY <1>12, OneMessage DEF SendMapsReady, CreatorSend, Identity, Configured, StateOK
  <2>4. Hooks'
    BY <1>12, OneMessage DEF SendMapsReady, CreatorSend, Hooks, HookLists, Pivoted,
         AllRan, StateOK
  <2>5. Disk'
    BY <1>12, OneMessage DEF SendMapsReady, CreatorSend, Disk, StateOK
  <2> QED
    BY <2>1, <2>2, <2>3, <2>4, <2>5
<1>13. CASE AwaitHookPoint
  <2>1. StateOK'
    BY <1>13 DEF AwaitHookPoint, CreatorAwait, StateOK
  <2>2. Control'
    BY <1>13, OneMessage DEF AwaitHookPoint, CreatorAwait, StateOK
  <2>3. Identity'
    BY <1>13, OneMessage DEF AwaitHookPoint, CreatorAwait, Identity, Configured, StateOK
  <2>4. Hooks'
    BY <1>13, OneMessage DEF AwaitHookPoint, CreatorAwait, Hooks, HookLists,
         Pivoted, AllRan, StateOK
  <2>5. Disk'
    BY <1>13, OneMessage DEF AwaitHookPoint, CreatorAwait, Disk, StateOK
  <2> QED
    BY <2>1, <2>2, <2>3, <2>4, <2>5
<1>14. CASE Prestart
  <2>1. StateOK'
    BY <1>14 DEF Prestart, CreatorHook, StateOK, HookLists
  <2>2. Control'
    BY <1>14, OneMessage DEF Prestart, CreatorHook, StateOK
  <2>3. Identity'
    BY <1>14, OneMessage DEF Prestart, CreatorHook, Identity, Configured, StateOK
  <2>4. Hooks'
    BY <1>14, OneMessage DEF Prestart, CreatorHook, Hooks, HookLists, Pivoted,
         AllRan, StateOK
  <2>5. Disk'
    BY <1>14, OneMessage DEF Prestart, CreatorHook, Disk, StateOK
  <2> QED
    BY <2>1, <2>2, <2>3, <2>4, <2>5
<1>15. CASE CreateRuntime
  <2>1. StateOK'
    BY <1>15 DEF CreateRuntime, CreatorHook, StateOK, HookLists
  <2>2. Control'
    BY <1>15, OneMessage DEF CreateRuntime, CreatorHook, StateOK
  <2>3. Identity'
    BY <1>15, OneMessage DEF CreateRuntime, CreatorHook, Identity, Configured, StateOK
  <2>4. Hooks'
    BY <1>15, OneMessage DEF CreateRuntime, CreatorHook, Hooks, HookLists, Pivoted,
         AllRan, StateOK
  <2>5. Disk'
    BY <1>15, OneMessage DEF CreateRuntime, CreatorHook, Disk, StateOK
  <2> QED
    BY <2>1, <2>2, <2>3, <2>4, <2>5
<1>16. CASE SendHooksDone
  <2>1. StateOK'
    BY <1>16 DEF SendHooksDone, CreatorSend, StateOK
  <2>2. Control'
    BY <1>16, OneMessage DEF SendHooksDone, CreatorSend, StateOK
  <2>3. Identity'
    BY <1>16, OneMessage DEF SendHooksDone, CreatorSend, Identity, Configured, StateOK
  <2>4. Hooks'
    BY <1>16, OneMessage DEF SendHooksDone, CreatorSend, Hooks, HookLists, Pivoted,
         AllRan, StateOK
  <2>5. Disk'
    BY <1>16, OneMessage DEF SendHooksDone, CreatorSend, Disk, StateOK
  <2> QED
    BY <2>1, <2>2, <2>3, <2>4, <2>5
<1>17. CASE AwaitProcReady
  <2>1. StateOK'
    BY <1>17 DEF AwaitProcReady, CreatorAwait, StateOK
  <2>2. Control'
    BY <1>17, OneMessage DEF AwaitProcReady, CreatorAwait, StateOK
  <2>3. Identity'
    BY <1>17, OneMessage DEF AwaitProcReady, CreatorAwait, Identity, Configured, StateOK
  <2>4. Hooks'
    BY <1>17, OneMessage DEF AwaitProcReady, CreatorAwait, Hooks, HookLists,
         Pivoted, AllRan, StateOK
  <2>5. Disk'
    BY <1>17, OneMessage DEF AwaitProcReady, CreatorAwait, Disk, StateOK
  <2> QED
    BY <2>1, <2>2, <2>3, <2>4, <2>5
<1>18. CASE SaveCreated
    BY <1>18 DEF SaveCreated, StateOK, Identity, Configured, Hooks, HookLists,
         Pivoted, AllRan, Disk
<1>19. CASE KillInit
    BY <1>19 DEF KillInit, StateOK, Identity, Configured, Hooks, HookLists, Pivoted,
         AllRan, Disk
<1>20. CASE WaitInit
    BY <1>20 DEF WaitInit, StateOK, Identity, Configured, Hooks, HookLists, Pivoted,
         AllRan, Disk
<1>21. CASE RemoveCgroup
    BY <1>21 DEF RemoveCgroup, StateOK, Identity, Configured, Hooks, HookLists,
         Pivoted, AllRan, Disk
<1>22. CASE RemoveRecord
  <2>1. StateOK'
    <3>1. fifo' \in BOOLEAN
      BY <1>22 DEF RemoveRecord
    <3> QED
      BY <1>22, <3>1 DEF RemoveRecord, StateOK
  <2>2. Control'
    BY <1>22 DEF RemoveRecord, StateOK
  <2>3. Identity'
    BY <1>22 DEF RemoveRecord, Identity, Configured, StateOK
  <2>4. Hooks'
    BY <1>22 DEF RemoveRecord, Hooks, HookLists, Pivoted, AllRan, StateOK
  <2>5. Disk'
    BY <1>22 DEF RemoveRecord, Disk, StateOK
  <2> QED
    BY <2>1, <2>2, <2>3, <2>4, <2>5
<1>23. CASE CreatorDies
    BY <1>23 DEF CreatorDies, StateOK, Identity, Configured, Hooks, HookLists,
         Pivoted, AllRan, Disk
<1>24. CASE SendNsReady
  <2>1. StateOK'
    BY <1>24 DEF SendNsReady, InitSend, StateOK
  <2>2. Control'
    BY <1>24, OneMessage DEF SendNsReady, InitSend, StateOK
  <2>3. Identity'
    BY <1>24, OneMessage DEF SendNsReady, InitSend, Identity, Configured, StateOK
  <2>4. Hooks'
    BY <1>24, OneMessage DEF SendNsReady, InitSend, Hooks, HookLists, Pivoted,
         AllRan, StateOK
  <2>5. Disk'
    BY <1>24, OneMessage DEF SendNsReady, InitSend, Disk, StateOK
  <2> QED
    BY <2>1, <2>2, <2>3, <2>4, <2>5
<1>25. CASE AwaitMapsReady
  <2>1. StateOK'
    BY <1>25 DEF AwaitMapsReady, InitAwait, StateOK
  <2>2. Control'
    BY <1>25, OneMessage DEF AwaitMapsReady, InitAwait, StateOK
  <2>3. Identity'
    BY <1>25, OneMessage DEF AwaitMapsReady, InitAwait, Identity, Configured, StateOK
  <2>4. Hooks'
    BY <1>25, OneMessage DEF AwaitMapsReady, InitAwait, Hooks, HookLists, Pivoted,
         AllRan, StateOK
  <2>5. Disk'
    BY <1>25, OneMessage DEF AwaitMapsReady, InitAwait, Disk, StateOK
  <2> QED
    BY <2>1, <2>2, <2>3, <2>4, <2>5
<1>26. CASE Reexec
    BY <1>26 DEF Reexec, InitGoto, StateOK, Identity, Configured, Hooks, HookLists,
         Pivoted, AllRan, Disk
<1>27. CASE ReadConfig
    BY <1>27 DEF ReadConfig, StateOK, Identity, Configured, Hooks, HookLists,
         Pivoted, AllRan, Disk
<1>28. CASE PrepareRootfs
    BY <1>28 DEF PrepareRootfs, RootfsStep, StateOK, Identity, Configured, Hooks,
         HookLists, Pivoted, AllRan, Disk
<1>29. CASE SendHookPoint
  <2>1. StateOK'
    BY <1>29 DEF SendHookPoint, InitSend, StateOK
  <2>2. Control'
    BY <1>29, OneMessage DEF SendHookPoint, InitSend, StateOK
  <2>3. Identity'
    BY <1>29, OneMessage DEF SendHookPoint, InitSend, Identity, Configured, StateOK
  <2>4. Hooks'
    BY <1>29, OneMessage DEF SendHookPoint, InitSend, Hooks, HookLists, Pivoted,
         AllRan, StateOK
  <2>5. Disk'
    BY <1>29, OneMessage DEF SendHookPoint, InitSend, Disk, StateOK
  <2> QED
    BY <2>1, <2>2, <2>3, <2>4, <2>5
<1>30. CASE AwaitHooksDone
  <2>1. StateOK'
    BY <1>30 DEF AwaitHooksDone, InitAwait, StateOK
  <2>2. Control'
    BY <1>30, OneMessage DEF AwaitHooksDone, InitAwait, StateOK
  <2>3. Identity'
    BY <1>30, OneMessage DEF AwaitHooksDone, InitAwait, Identity, Configured, StateOK
  <2>4. Hooks'
    BY <1>30, OneMessage DEF AwaitHooksDone, InitAwait, Hooks, HookLists, Pivoted,
         AllRan, StateOK
  <2>5. Disk'
    BY <1>30, OneMessage DEF AwaitHooksDone, InitAwait, Disk, StateOK
  <2> QED
    BY <2>1, <2>2, <2>3, <2>4, <2>5
<1>31. CASE CreateContainer
  <2>1. StateOK'
    BY <1>31 DEF CreateContainer, InitHook, StateOK, HookLists
  <2>2. Control'
    BY <1>31 DEF CreateContainer, InitHook, StateOK
  <2>3. Identity'
    BY <1>31 DEF CreateContainer, InitHook, Identity, Configured, StateOK
  <2>4. Hooks'
    BY <1>31 DEF CreateContainer, InitHook, Hooks, HookLists, Pivoted, AllRan, StateOK
  <2>5. Disk'
    BY <1>31 DEF CreateContainer, InitHook, Disk, StateOK
  <2> QED
    BY <2>1, <2>2, <2>3, <2>4, <2>5
<1>32. CASE FinalizeRootfs
    BY <1>32 DEF FinalizeRootfs, RootfsStep, StateOK, Identity, Configured, Hooks,
         HookLists, Pivoted, AllRan, Disk
<1>33. CASE SendProcReady
  <2>1. StateOK'
    BY <1>33 DEF SendProcReady, InitSend, StateOK
  <2>2. Control'
    BY <1>33, OneMessage DEF SendProcReady, InitSend, StateOK
  <2>3. Identity'
    BY <1>33, OneMessage DEF SendProcReady, InitSend, Identity, Configured, StateOK
  <2>4. Hooks'
    BY <1>33, OneMessage DEF SendProcReady, InitSend, Hooks, HookLists, Pivoted,
         AllRan, StateOK
  <2>5. Disk'
    BY <1>33, OneMessage DEF SendProcReady, InitSend, Disk, StateOK
  <2> QED
    BY <2>1, <2>2, <2>3, <2>4, <2>5
<1>34. CASE WriteFifo
    BY <1>34 DEF WriteFifo, StateOK, Identity, Configured, Hooks, HookLists,
         Pivoted, AllRan, Disk
<1>35. CASE StartContainer
    BY <1>35 DEF StartContainer, InitHook, StateOK, Identity, Configured, Hooks,
         HookLists, Pivoted, AllRan, Disk
<1>36. CASE Exec
    BY <1>36 DEF Exec, InitGoto, StateOK, Identity, Configured, Hooks, HookLists,
         Pivoted, AllRan, Disk
<1>37. CASE InitStepFails
    BY <1>37 DEF InitStepFails, StateOK, Identity, Configured, Hooks, HookLists,
         Pivoted, AllRan, Disk
<1>38. CASE SendError
  <2>1. StateOK'
    BY <1>38 DEF SendError, StateOK
  <2>2. Control'
    BY <1>38, OneMessage DEF SendError, StateOK
  <2>3. Identity'
    BY <1>38, OneMessage DEF SendError, Identity, Configured, StateOK
  <2>4. Hooks'
    <3>1. CreatorEndOpen => toCreator = <<>>
      BY <1>38 DEF SendError
    <3>2. cpc = "awaitProcReady" => toCreator' = <<"error">>
      BY <1>38, <3>1, OneMessage DEF SendError
    <3> QED
      BY <1>38, <3>2 DEF SendError, Hooks, HookLists, Pivoted, AllRan, StateOK
  <2>5. Disk'
    BY <1>38, OneMessage DEF SendError, Disk, StateOK
  <2> QED
    BY <2>1, <2>2, <2>3, <2>4, <2>5
<1>39. CASE UserExits
    BY <1>39 DEF UserExits, InitGoto, StateOK, Identity, Configured, Hooks,
         HookLists, Pivoted, AllRan, Disk
<1>40. CASE InitKilled
    BY <1>40 DEF InitKilled, InitGoto, StateOK, Identity, Configured, Hooks,
         HookLists, Pivoted, AllRan, Disk
<1>41. CASE InitDies
    BY <1>41 DEF InitDies, InitGoto, StateOK, Identity, Configured, Hooks,
         HookLists, Pivoted, AllRan, Disk
<1>42. CASE LoadCreated
    BY <1>42 DEF LoadCreated, StateOK, Identity, Configured, Hooks, HookLists,
         Pivoted, AllRan, Disk
<1>43. CASE Rendezvous
    BY <1>43 DEF Rendezvous, StateOK, Identity, Configured, Hooks, HookLists,
         Pivoted, AllRan, Disk
<1>44. CASE ReadFifo
    BY <1>44 DEF ReadFifo, StateOK, Identity, Configured, Hooks, HookLists, Pivoted,
         AllRan, Disk
<1>45. CASE SaveRunning
    BY <1>45 DEF SaveRunning, StateOK, Identity, Configured, Hooks, HookLists,
         Pivoted, AllRan, Disk
<1>46. CASE UNCHANGED vars
  BY <1>46 DEF vars, StateOK, Identity, Configured, Hooks, Pivoted, AllRan, Disk
<1> QED
  BY <1>1, <1>2, <1>3, <1>4, <1>5, <1>6, <1>7, <1>8, <1>9, <1>10,
     <1>11, <1>12, <1>13, <1>14, <1>15, <1>16, <1>17, <1>18, <1>19, <1>20,
     <1>21, <1>22, <1>23, <1>24, <1>25, <1>26, <1>27, <1>28, <1>29, <1>30,
     <1>31, <1>32, <1>33, <1>34, <1>35, <1>36, <1>37, <1>38, <1>39, <1>40,
     <1>41, <1>42, <1>43, <1>44, <1>45, <1>46
  DEF Next, Creator, InitProcess, Starter

\* Wherever creator, init and starter are, what is under way on the socket and
\* what has been set up by then are as IInv says.
THEOREM Invariance == Spec => []IInv
<1>1. Init => IInv
    BY InitInductive
<1>2. IInv /\ [Next]_vars => IInv'
    BY StepInductive
<1> QED
    BY <1>1, <1>2, PTL DEF Spec

\* Each direction of the socket holds what Control lists, so it is a sequence
\* of the messages of sync.go:12-26.
LEMMA ChannelTypes == IInv => ChannelsOK
<1> SUFFICES ASSUME IInv PROVE ChannelsOK
    OBVIOUS
<1> DEFINE M == {"nsReady", "mapsReady", "hookPoint", "hooksDone", "procReady", "error"}
<1>1. toInit \in {<<>>, <<"mapsReady">>, <<"hooksDone">>, <<"error">>}
    BY DEF IInv, StateOK, InitPCs, Stage1, Setup, Parked, Started, Gone, Control,
           ControlStage1, ControlSetup, ControlEnd, NoMessage, ToCreator, ToInit
<1>2. toCreator \in {<<>>, <<"nsReady">>, <<"hookPoint">>, <<"procReady">>, <<"error">>}
    BY DEF IInv, StateOK, InitPCs, Stage1, Setup, Parked, Started, Gone, Control,
           ControlStage1, ControlSetup, ControlEnd, NoMessage, ToCreator, ToInit
<1>3. \A m \in M : <<m>> \in Seq(M)
    OBVIOUS
<1>4. <<>> \in Seq(M)
    OBVIOUS
<1>5. toInit \in Seq(M) /\ toCreator \in Seq(M)
    BY <1>1, <1>2, <1>3, <1>4
<1> QED
    BY <1>5 DEF ChannelsOK, SyncMessages

\* Every variable has its type: the config pipe never holds more than its
\* capacity and runHooks never runs past the end of a list (hooks.go:21-37).
THEOREM TypeCorrect == Spec => []TypeOK
<1>1. IInv => TypeOK
    BY ChannelTypes DEF IInv, TypeOK
<1> QED
    BY <1>1, Invariance, PTL

\* The socket holds one message at most, and none when stage 1 re-execs and
\* drops its decoder's buffer (init.go:34-44), for every config and hook list.
THEOREM HandshakeInLockStep == Spec => []LockStep
<1>1. IInv => LockStep
  <2> SUFFICES ASSUME IInv PROVE LockStep
      OBVIOUS
  <2>1. \/ toInit = <<>> /\ toCreator = <<>>
        \/ \E m \in SyncMessages : toInit = <<>> /\ toCreator = <<m>>
        \/ \E m \in SyncMessages : toInit = <<m>> /\ toCreator = <<>>
      BY DEF IInv, StateOK, InitPCs, Stage1, Setup, Parked, Started, Gone, Control,
             ControlStage1, ControlSetup, ControlEnd, NoMessage, ToCreator, ToInit,
             SyncMessages
  <2>2. Len(toInit) + Len(toCreator) <= 1
    <3>1. CASE toInit = <<>> /\ toCreator = <<>>
        BY <3>1
    <3>2. ASSUME NEW m, toInit = <<>>, toCreator = <<m>>
          PROVE  Len(toInit) + Len(toCreator) <= 1
        BY <3>2
    <3>3. ASSUME NEW m, toInit = <<m>>, toCreator = <<>>
          PROVE  Len(toInit) + Len(toCreator) <= 1
        BY <3>3
    <3> QED
        BY <2>1, <3>1, <3>2, <3>3
  <2>3. ipc = "reexec" => toInit = <<>>
      BY DEF IInv, Control, ControlSetup, NoMessage
  <2> QED
      BY <2>2, <2>3 DEF LockStep
<1> QED
    BY <1>1, Invariance, PTL

\* Whatever stage 2 runs, id maps, cgroup and limits are in place and the
\* config is complete (container.go:218-238).
THEOREM BudgetComesFirst == Spec => []BudgetBeforeSetup
<1>1. IInv => BudgetBeforeSetup
    BY DEF BudgetBeforeSetup, IInv, Identity, Configured
<1> QED
    BY <1>1, Invariance, PTL

\* The creator's hooks see an init with its mounts made and its root not yet
\* pivoted (container.go:242-267).
THEOREM HooksSeeMounts == Spec => []HookWindow
<1>1. IInv => HookWindow
    BY DEF HookWindow, IInv, StateOK, InitPCs, Stage1, Setup, Parked, Started, Gone,
           InitAlive, Control, ControlStage1, ControlSetup, ControlEnd, Hooks, Budgeting,
           Hosting, Aborting
<1> QED
    BY <1>1, Invariance, PTL

\* No pivot and no user command without every hook before it, in the order of
\* the lists (hooks.go:15-37, container.go:256-267, init.go:99-153).
THEOREM HooksComeInOrder == Spec => []HooksInOrder
<1>1. IInv => HooksInOrder
  <2> SUFFICES ASSUME IInv PROVE HooksInOrder
      OBVIOUS
  <2>1. ipc = "user" => Pivoted /\ AllRan({"startContainer"})
      BY DEF IInv, Hooks, Started
  <2> QED
      BY <2>1 DEF HooksInOrder, IInv, Hooks, HostHooks, SetupHooks, Pivoted, AllRan
<1> QED
    BY <1>1, Invariance, PTL

\* Both at once: what the runtime spec promises a hook (hooks.go:15-37).
THEOREM HooksStayInPlace == Spec => []HooksInPlace
    BY HooksSeeMounts, HooksComeInOrder, PTL DEF HooksInPlace

\* A failed create leaves no record, FIFO, cgroup or init behind, whichever step
\* failed (container.go:130-139, 192-197).
THEOREM FailureIsClean == Spec => []FailureLeavesNothing
<1>1. IInv => FailureLeavesNothing
    BY DEF FailureLeavesNothing, IInv, Identity, Disk
<1> QED
    BY <1>1, Invariance, PTL

\* Nothing of the workload runs before a start of a created record has opened
\* the FIFO (init.go:129-140, container.go:301-312).
THEOREM StartComesFirst == Spec => []NoWorkloadBeforeStart
<1>1. IInv => NoWorkloadBeforeStart
    BY DEF NoWorkloadBeforeStart, IInv, Disk
<1> QED
    BY <1>1, Invariance, PTL

\* Every behaviour of create, init and start is one that CreateContract allows:
\* Init maps to its initial state, and each step to a step of it or to none.
THEOREM HandshakeImplementsContract == Spec => ImplementsContract
<1> DEFINE released == spc \in {"reading", "saving", "done"}
           running  == ipc = "user"
<1>1. Init => Contract!CInit
    BY DEF Init, Contract!CInit, Ready, AllRan
<1>2. IInv /\ [Next]_vars => [Contract!CNext]_(Contract!cvars)
  <2> SUFFICES ASSUME IInv, [Next]_vars
               PROVE  [Contract!CNext]_(Contract!cvars)
      OBVIOUS
  <2>1. ASSUME UNCHANGED <<record, Ready, released, running>>
        PROVE  UNCHANGED Contract!cvars
      BY <2>1 DEF Contract!cvars
  <2>2. ASSUME record = "creating", UNCHANGED <<record, released, running>>
        PROVE  Contract!CNext
      BY <2>2 DEF Contract!CNext, Contract!Configure, Ready
  <2>3. ASSUME UNCHANGED <<maps, cgroup, rootfs>>,
               UNCHANGED hooksRun \/ (ipc = "startContainer" /\ StartContainer)
        PROVE  UNCHANGED Ready
      BY <2>3 DEF Ready, AllRan, StartContainer, InitHook, HooksLeft, HookLists,
                   IInv, StateOK
  <2>4. CASE UNCHANGED vars
    <3>1. UNCHANGED <<record, released, running, maps, cgroup, rootfs, hooksRun>>
        BY <2>4 DEF vars
    <3> QED
        BY <3>1, <2>1, <2>3
  <2>5. CASE Claim
    <3>1. UNCHANGED <<released, running, maps, cgroup, rootfs, hooksRun>>
        BY <2>5 DEF Claim
    <3>2. UNCHANGED Ready
        BY <3>1, <2>3
    <3> QED
        BY <2>5, <3>1, <3>2 DEF Claim, Contract!CNext, Contract!Begin
  <2>6. CASE SaveCreated
    <3>1. UNCHANGED <<released, running, maps, cgroup, rootfs, hooksRun>>
        BY <2>6 DEF SaveCreated
    <3>2. Ready /\ record = "creating"
        BY <2>6 DEF SaveCreated, IInv, Identity, Configured, Hooks, Pivoted, SetupHooks,
                    Ready, Disk
    <3>3. UNCHANGED Ready
        BY <3>1, <2>3
    <3> QED
        BY <2>6, <3>1, <3>2, <3>3 DEF SaveCreated, Contract!CNext, Contract!Publish
  <2>7. CASE RemoveRecord
    <3>1. UNCHANGED <<released, running, maps, cgroup, rootfs, hooksRun>>
        BY <2>7 DEF RemoveRecord
    <3>2. UNCHANGED Ready
        BY <3>1, <2>3
    <3>3. record = "creating"
        BY <2>7 DEF RemoveRecord, IInv, Disk, CleaningUp
    <3> QED
        BY <2>7, <3>1, <3>2, <3>3 DEF RemoveRecord, Contract!CNext, Contract!Withdraw
  <2>8. CASE \/ CreatorStepFails \/ Mkfifo \/ MakePipes \/ Spawn \/ WriteConfig
             \/ AwaitNsReady \/ WriteIDMaps \/ NewCgroup \/ ApplyCgroup \/ SetResources
             \/ SendMapsReady \/ AwaitHookPoint \/ Prestart \/ CreateRuntime
             \/ SendHooksDone \/ AwaitProcReady \/ KillInit \/ WaitInit \/ RemoveCgroup
    <3>1. cpc \in (Claiming \ {"claim"}) \cup Talking \cup {"save"} \cup CleaningUp
        BY <2>8
        DEF CreatorStepFails, Mkfifo, MakePipes, Spawn, WriteConfig, AwaitNsReady,
            WriteIDMaps, NewCgroup, ApplyCgroup, SetResources, SendMapsReady,
            AwaitHookPoint, Prestart, CreateRuntime, SendHooksDone, AwaitProcReady,
            KillInit, WaitInit, RemoveCgroup, CreatorAwait, CreatorSend, CgroupStep,
            CreatorHook, Claiming, Talking, CleaningUp
    <3>2. record = "creating"
        BY <3>1 DEF IInv, Disk
    <3>3. cpc = "spawn" => ipc = "none"
        BY DEF IInv, Control, ControlStage1, Claiming
    <3>4. UNCHANGED <<record, released, running>>
        BY <2>8, <3>3
        DEF CreatorStepFails, Mkfifo, MakePipes, Spawn, WriteConfig, AwaitNsReady,
            WriteIDMaps, NewCgroup, ApplyCgroup, SetResources, SendMapsReady,
            AwaitHookPoint, Prestart, CreateRuntime, SendHooksDone, AwaitProcReady,
            KillInit, WaitInit, RemoveCgroup, CreatorAwait, CreatorSend, CgroupStep,
            CreatorHook
    <3> QED
        BY <2>2, <3>2, <3>4
  <2>9. CASE CreatorDies
    <3>1. UNCHANGED <<record, released, running, maps, cgroup, rootfs, hooksRun>>
        BY <2>9 DEF CreatorDies
    <3> QED
        BY <3>1, <2>1, <2>3
  <2>10. CASE \/ SendNsReady \/ AwaitMapsReady \/ Reexec \/ ReadConfig \/ PrepareRootfs
              \/ SendHookPoint \/ AwaitHooksDone \/ CreateContainer \/ FinalizeRootfs
              \/ SendProcReady \/ SendError
    <3>1. ipc \in Stage1 \cup Setup \cup {"sendError"}
        BY <2>10
        DEF SendNsReady, AwaitMapsReady, Reexec, ReadConfig, PrepareRootfs, SendHookPoint,
            AwaitHooksDone, CreateContainer, FinalizeRootfs, SendProcReady, SendError,
            InitSend, InitAwait, InitGoto, RootfsStep, InitHook, Stage1, Setup
    <3>2. record = "creating"
        BY <3>1 DEF IInv, Disk, Control, ControlStage1, ControlSetup, Stage1, Setup,
                    Claiming, Talking, CleaningUp, Budgeting, Hosting, Aborting
    <3>3. UNCHANGED <<record, released, running>>
        BY <2>10
        DEF SendNsReady, AwaitMapsReady, Reexec, ReadConfig, PrepareRootfs, SendHookPoint,
            AwaitHooksDone, CreateContainer, FinalizeRootfs, SendProcReady, SendError,
            InitSend, InitAwait, InitGoto, RootfsStep, InitHook, Report, Silent
    <3> QED
        BY <2>2, <3>2, <3>3
  <2>11. CASE WriteFifo \/ StartContainer \/ InitStepFails
    <3>1. UNCHANGED <<record, released, running, maps, cgroup, rootfs>>
        BY <2>11 DEF WriteFifo, StartContainer, InitStepFails, InitHook, Report, Silent
    <3>2. UNCHANGED hooksRun \/ (ipc = "startContainer" /\ StartContainer)
        BY <2>11 DEF WriteFifo, StartContainer, InitStepFails, InitHook
    <3> QED
        BY <3>1, <3>2, <2>1, <2>3
  <2>12. CASE Exec
    <3>1. UNCHANGED <<record, released, maps, cgroup, rootfs, hooksRun>> /\ running'
        BY <2>12 DEF Exec, InitGoto
    <3>2. Ready /\ released
        BY <2>12 DEF Exec, InitGoto, IInv, Identity, Configured, Hooks, Pivoted,
                     SetupHooks, Ready, Disk, Started
    <3>3. UNCHANGED Ready
        BY <3>1, <2>3
    <3> QED
        BY <3>1, <3>2, <3>3 DEF Contract!CNext, Contract!Launch
  <2>13. CASE UserExits \/ InitKilled \/ InitDies
    <3>1. UNCHANGED <<record, released, maps, cgroup, rootfs, hooksRun>> /\ ~running'
        BY <2>13 DEF UserExits, InitKilled, InitDies, InitGoto
    <3>2. UNCHANGED Ready
        BY <3>1, <2>3
    <3> QED
        BY <3>1, <3>2 DEF Contract!CNext, Contract!Finish
  <2>14. CASE LoadCreated \/ ReadFifo
    <3>1. UNCHANGED <<record, released, running, maps, cgroup, rootfs, hooksRun>>
        BY <2>14 DEF LoadCreated, ReadFifo
    <3> QED
        BY <3>1, <2>1, <2>3
  <2>15. CASE Rendezvous
    <3>1. UNCHANGED <<record, running, maps, cgroup, rootfs, hooksRun>>
        BY <2>15 DEF Rendezvous
    <3>2. ~released /\ released' /\ record = "created"
        BY <2>15 DEF Rendezvous, IInv, Disk
    <3>3. UNCHANGED Ready
        BY <3>1, <2>3
    <3> QED
        BY <3>1, <3>2, <3>3 DEF Contract!CNext, Contract!Release
  <2>16. CASE SaveRunning
    <3>1. UNCHANGED <<released, running, maps, cgroup, rootfs, hooksRun>>
        BY <2>16 DEF SaveRunning
    <3>2. released /\ record = "created" /\ record' = "running"
        BY <2>16 DEF SaveRunning, IInv, Disk
    <3>3. UNCHANGED Ready
        BY <3>1, <2>3
    <3> QED
        BY <3>1, <3>2, <3>3 DEF Contract!CNext, Contract!MarkRunning
  <2> QED
      BY <2>4, <2>5, <2>6, <2>7, <2>8, <2>9, <2>10, <2>11, <2>12, <2>13, <2>14, <2>15,
         <2>16
      DEF Next, Creator, InitProcess, Starter
<1> QED
    BY <1>1, <1>2, Invariance, PTL DEF Spec, ImplementsContract, Contract!CSpec
=============================================================================

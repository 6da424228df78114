------------------------------ MODULE BundleProofs ------------------------------
(***************************************************************************)
(* For every set of commands that race on one id, whatever becomes of its  *)
(* bundle and root filesystem: the generated bundle goes away with the     *)
(* container, and a container runs with its own flags.                     *)
(***************************************************************************)
EXTENDS Bundles, TLAPS

\* Where only a creator can be, and where only the other commands.
Creating == {"loadGiven", "mkdir", "open", "write", "gpu", "reopen", "rewrite", "new", "claim",
             "setup", "cleanup", "startOwn", "wait"}
Loading == {"loadRecord", "loadSpec", "handle"}

\* The plain types.
Typed ==
    /\ file \in [Bundle -> Files] /\ dir \in BOOLEAN /\ rootfs \in BOOLEAN
    /\ rec \in Records
    /\ pc \in [Procs -> PCs]
    /\ spec \in [Procs -> SUBSET Procs] /\ adopted \in [Procs -> BOOLEAN]
    /\ loc \in [Procs -> Records] /\ init \in [Procs -> InitStates]

\* A record that is there names a creator and is in the id's directory, which
\* also has the generated bundle.
Recorded ==
    /\ rec.status = "absent" => rec = Absent
    /\ rec.status # "absent" => rec.owner \in Creators
    /\ file["generated"] # Missing \/ rec # Absent => dir

\* Only a whole file carries flags, and only a file that is there is open.
Written ==
    /\ \A b \in Bundle : file[b].carries # {} => file[b].state = "whole"
    /\ \A p \in writers : /\ p \in Creators /\ pc[p] \in {"write", "rewrite"}
                          /\ file[Place(p)] # Missing

\* A command is where its kind, its bundle and its --gpu lead it.
Placed(p) ==
    /\ pc[p] \in Creating => p \in Creators
    /\ pc[p] \in Loading => p \notin Creators
    /\ pc[p] = "loadGiven" => Place(p) = "given"
    /\ pc[p] \in {"mkdir", "open", "write"} => Place(p) = "generated"
    /\ pc[p] = "gpu" => Command[p].gpu # "no"
    /\ pc[p] \in {"reopen", "rewrite"} => Command[p].gpu = "hook"

\* The commands whose flags may get into the given bundle.
Hooks == {q \in Creators : Command[q].gpu = "hook" /\ Place(q) = "given" /\ pc[q] # "idle"}

\* The flags a creator has: its own, and those an earlier run has left in the
\* given bundle.
Flagged(p) ==
    \/ Command[p].gpu = "shim"
    \/ Place(p) = "generated" /\ spec[p] = {p}
    \/ Place(p) = "given" /\ p \in spec[p] /\ spec[p] \subseteq {p} \cup Hooks

Resolved == {"open", "write", "gpu", "reopen", "rewrite", "new", "claim", "setup"}

FlagsHeld ==
    /\ file["given"].carries \subseteq Hooks
    /\ \A p \in Creators : pc[p] \in Resolved \/ init[p] # "none" => Flagged(p)

\* The creators that account for a directory without a record: on their way to
\* the claim, or unable to get there.
Unclaimed == {"open", "write", "gpu", "reopen", "rewrite", "new", "claim"}

Accounts(q) ==
    \/ pc[q] \in Unclaimed /\ Place(q) = "generated"
    \/ pc[q] = "noRootfs"
    \/ pc[q] = "refused" /\ Command[q].gpu = "shim"

DirAccounted == dir => rec # Absent \/ \E q \in Creators : Accounts(q)

IInv ==
    /\ caller \in Callers /\ Typed /\ Recorded /\ Written
    /\ \A p \in Procs : Placed(p)
    /\ FlagsHeld /\ DirAccounted

----------------------------------------------------------------------------
(* The operators *)

\* A command's bundle, its --gpu and its kind are among those there are.
LEMMA CommandTyped ==
  ASSUME NEW p \in Procs
  PROVE  /\ Place(p) \in Bundle
         /\ Command[p].gpu \in {"no", "shim", "hook"}
         /\ Command[p].kind \in {"run", "create", "start", "kill", "delete", "forceDelete"}
  BY CommandAssumption DEF CommandType, Place

\* The command that moves, and the others.
LEMMA Moves ==
  ASSUME Typed, NEW p \in Procs, NEW l \in PCs, Goto(p, l)
  PROVE  /\ pc' \in [Procs -> PCs] /\ pc'[p] = l
         /\ \A q \in Procs : q # p => pc'[q] = pc[q]
  BY DEF Typed, Goto

\* Load answers with the record, or with a stopped one if init is gone: a record
\* loaded as created or running has a live init.
LEMMA LoadedTyped ==
  ASSUME Typed, Recorded
  PROVE  /\ Loaded \in Records /\ (Loaded.status = "absent" <=> rec = Absent)
         /\ rec = Absent => rec.status = "absent"
         /\ Absent \in Records
         /\ Loaded.status \in {"created", "running"} =>
               /\ Loaded = rec /\ rec.owner \in Procs
               /\ init[rec.owner] \in Live
         /\ Loaded.owner = rec.owner
<1>1. Absent \in Records /\ (rec = Absent => rec.status = "absent")
  BY DEF Absent, Records, Statuses, Bundle
<1>2. CASE rec.status \in {"created", "running"} /\ init[rec.owner] \notin Live
  BY <1>1, <1>2 DEF Loaded, Typed, Records, Statuses
<1>3. CASE ~(rec.status \in {"created", "running"} /\ init[rec.owner] \notin Live)
  BY <1>1, <1>3 DEF Loaded, Typed, Records, Recorded, Creators
<1> QED
  BY <1>2, <1>3

\* What Create and Start write is a record.
LEMMA RecordTyped ==
  ASSUME NEW p \in Creators, NEW s \in {"creating", "created"}
  PROVE  /\ Record(p, s) \in Records /\ Record(p, s).status = s
         /\ Record(p, s).owner = p /\ Record(p, s) # Absent
  BY CommandTyped DEF Record, Records, Statuses, Absent, Creators

\* A bundle's file is a file, whatever has been written to it.
LEMMA FilesTyped ==
  ASSUME Typed, NEW b \in Bundle
  PROVE  /\ file[b] \in Files /\ file[b].carries \subseteq Procs
         /\ Blank("empty") \in Files /\ Blank("mixed") \in Files /\ Missing \in Files
         /\ \A S \in SUBSET Procs : Whole(S) \in Files
         /\ Blank("empty") # Missing /\ Blank("mixed") # Missing
         /\ \A S \in SUBSET Procs : Whole(S) # Missing
         /\ file[b].state = "whole" => file[b] # Missing
  BY DEF Typed, Files, FileStates, Blank, Missing, Whole

\* A signal ends processes that there are, and makes none.
LEMMA KillTyped ==
  ASSUME Typed, Recorded
  PROVE  /\ KillOwner \in [Procs -> InitStates]
         /\ \A q \in Procs : KillOwner[q] # "none" => init[q] # "none"
  BY LoadedTyped DEF KillOwner, Typed, InitStates, Live

----------------------------------------------------------------------------
(* The types *)

\* The initial states satisfy the invariant.
LEMMA InitInductive == Init => IInv
<1> SUFFICES ASSUME Init PROVE IInv
  OBVIOUS
<1>1. Typed
  BY DEF Init, Typed, Bundle, Files, FileStates, Whole, Missing, Absent, Records, Statuses, PCs,
         InitStates
<1>2. Recorded /\ Written
  BY DEF Init, Recorded, Written, Bundle, Whole, Missing, Absent
<1>3. \A p \in Procs : Placed(p)
  BY DEF Init, Placed, Creating, Loading
<1>4. FlagsHeld /\ DirAccounted
  <2>1. file["given"].carries = {}
    BY DEF Init, Whole, Bundle
  <2>2. \A p \in Procs : pc[p] = "idle" /\ init[p] = "none"
    BY DEF Init
  <2>3. ~dir
    BY DEF Init
  <2> QED
    BY <2>1, <2>2, <2>3 DEF FlagsHeld, DirAccounted, Resolved, Creators
<1> QED
  BY <1>1, <1>2, <1>3, <1>4 DEF Init, IInv

\* To issue a command only sets its place.
LEMMA IssueTyped == ASSUME IInv, NEW p \in Procs, Issue(p) PROVE Typed'
  BY Moves, CommandTyped DEF IInv, Issue, Typed, PCs, handle, configs

\* Types, for each step of a command.
LEMMA StepTyped == ASSUME IInv, NEW p \in Procs, Step(p) PROVE Typed'
<1>1. CASE LoadGiven(p)
  BY <1>1 DEF LoadGiven, IInv, Typed, Goto, AfterResolve, PCs, Ended, Files, Bundle, configs
<1>2. CASE MakeBundleDir(p)
  BY <1>2 DEF MakeBundleDir, IInv, Typed, Goto, PCs, configs
<1>3. CASE OpenConfig(p)
  <2>1. file' \in [Bundle -> Files]
    BY <1>3, CommandTyped, FilesTyped DEF OpenConfig, IInv, Typed, configs
  <2> QED
    BY <1>3, <2>1 DEF OpenConfig, IInv, Typed, Goto, PCs, Ended, handle
<1>4. CASE WriteConfig(p)
  BY <1>4, CommandTyped DEF WriteConfig, IInv, Typed, Goto, AfterResolve, PCs, Files, FileStates, Blank, Whole, handle
<1>5. CASE ApplyGPU(p)
  <2>1. spec' \in [Procs -> SUBSET Procs]
    BY <1>5, CommandTyped, FilesTyped DEF ApplyGPU, IInv, Typed
  <2> QED
    BY <1>5, <2>1 DEF ApplyGPU, IInv, Typed, Goto, PCs, Ended, configs
<1>6. CASE NewHandle(p)
  BY <1>6 DEF NewHandle, IInv, Typed, Goto, PCs, Ended, configs, handle
<1>7. CASE Claim(p)
  <2>1. p \in Creators
    BY <1>7 DEF Claim, IInv, Placed, Creating
  <2>2. rec' \in Records
    BY <1>7, <2>1, RecordTyped DEF Claim, IInv, Typed
  <2> QED
    BY <1>7, <2>2 DEF Claim, IInv, Typed, Goto, PCs, Ended, configs, handle
<1>8. CASE Setup(p)
  <2>1. p \in Creators
    BY <1>8 DEF Setup, IInv, Placed, Creating
  <2>2. rec' \in Records
    BY <1>8, <2>1, RecordTyped DEF Setup, IInv, Typed
  <2>3. init' \in [Procs -> InitStates]
    BY <1>8 DEF Setup, IInv, Typed, InitStates, Live
  <2> QED
    BY <1>8, <2>2, <2>3 DEF Setup, IInv, Typed, Goto, PCs, Ended, configs, handle
<1>9. CASE RemoveDir(p)
  BY <1>9, LoadedTyped DEF RemoveDir, IInv, Typed, Goto, PCs, Ended, Files, FileStates, Missing, handle
<1>10. ASSUME Release(p, "done") \/ Release(p, "wait"), UNCHANGED <<configs, dir, rootfs, handle>>
       PROVE  Typed'
  BY <1>10, LoadedTyped DEF Release, IInv, Typed, Goto, PCs, Ended, Records, Statuses, InitStates, Live, configs, handle
<1>11. CASE Wait(p)
  BY <1>11 DEF Wait, IInv, Typed, Goto, PCs, Records, Statuses, configs, handle
<1>12. CASE LoadRecord(p)
  BY <1>12, LoadedTyped DEF LoadRecord, IInv, Typed, Goto, PCs, Ended, configs
<1>13. CASE LoadSpec(p)
  <2>1. loc[p].bundle \in Bundle
    BY DEF IInv, Typed, Records
  <2>2. spec' \in [Procs -> SUBSET Procs]
    BY <1>13, <2>1, FilesTyped DEF LoadSpec, IInv, Typed
  <2> QED
    BY <1>13, <2>2 DEF LoadSpec, IInv, Typed, Goto, PCs, configs
<1>14. CASE Kill(p)
  BY <1>14, KillTyped DEF Kill, IInv, Typed, Goto, PCs, Ended, configs, handle
<1>15. CASE Delete(p)
  BY <1>15, KillTyped DEF Delete, IInv, Typed, Goto, PCs, Ended, configs, handle
<1> QED
  BY <1>1, <1>2, <1>3, <1>4, <1>5, <1>6, <1>7, <1>8, <1>9, <1>10, <1>11, <1>12, <1>13, <1>14, <1>15
  DEF Step, StartOwn, Start

\* The moves of the world.
World == (\E q \in Procs : InitEnds(q)) \/ BundleGone \/ RootfsGone

\* Types, for the end of an init and for what the owner of the files does.
LEMMA WorldTyped == ASSUME IInv, World PROVE Typed'
<1>1. ASSUME NEW q \in Procs, InitEnds(q) PROVE Typed'
  BY <1>1 DEF InitEnds, IInv, Typed, InitStates, configs, handle
<1>2. CASE BundleGone
  BY <1>2, FilesTyped DEF BundleGone, IInv, Typed, handle
<1>3. CASE RootfsGone
  BY <1>3 DEF RootfsGone, IInv, Typed, configs, handle
<1> QED
  BY <1>1, <1>2, <1>3 DEF World

----------------------------------------------------------------------------
(* The record, the files and the places *)

\* Most steps leave the record, the directory and the files alone.
LEMMA RecordedFrame ==
  ASSUME IInv, rec' = rec, dir' = dir, file'["generated"] # Missing => file["generated"] # Missing
  PROVE  Recorded'
  BY DEF IInv, Recorded

\* A record is written with its directory, and goes with it.
LEMMA RecordedStep == ASSUME IInv, NEW p \in Procs, Issue(p) \/ Step(p) PROVE Recorded'
<1>1. CASE Issue(p) \/ LoadGiven(p) \/ ApplyGPU(p) \/ NewHandle(p) \/ LoadRecord(p) \/ LoadSpec(p)
           \/ Kill(p) \/ Delete(p)
  BY <1>1, RecordedFrame
  DEF Issue, LoadGiven, ApplyGPU, NewHandle, LoadRecord, LoadSpec, Kill, Delete, configs
<1>2. CASE MakeBundleDir(p)
  BY <1>2 DEF MakeBundleDir, configs, IInv, Recorded
<1>3. CASE OpenConfig(p)
  <2>1. file'["generated"] # Missing => dir
    BY <1>3, CommandTyped DEF OpenConfig, configs, IInv, Typed, Recorded, Bundle
  <2> QED
    BY <1>3, <2>1 DEF OpenConfig, IInv, Recorded
<1>4. CASE WriteConfig(p)
  <2>1. p \in writers => file[Place(p)] # Missing
    BY DEF IInv, Written
  <2>2. file'["generated"] # Missing => dir
    BY <1>4, <2>1, CommandTyped DEF WriteConfig, IInv, Typed, Recorded, Bundle
  <2> QED
    BY <1>4, <2>2 DEF WriteConfig, IInv, Recorded
<1>5. CASE Claim(p) \/ Setup(p)
  <2>1. p \in Creators
    BY <1>5 DEF Claim, Setup, IInv, Placed, Creating
  <2> QED
    BY <1>5, <2>1, RecordTyped DEF Claim, Setup, configs, IInv, Recorded
<1>6. CASE RemoveDir(p)
  BY <1>6 DEF RemoveDir, IInv, Typed, Recorded, Bundle, Absent
<1>7. ASSUME Release(p, "done") \/ Release(p, "wait"), UNCHANGED <<configs, dir, rootfs, handle>>
      PROVE  Recorded'
  BY <1>7, LoadedTyped DEF Release, configs, IInv, Typed, Records, Recorded, Absent
<1>8. CASE Wait(p)
  BY <1>8 DEF Wait, configs, IInv, Typed, Records, Recorded, Absent
<1> QED
  BY <1>1, <1>2, <1>3, <1>4, <1>5, <1>6, <1>7, <1>8 DEF Step, StartOwn, Start

\* A command that is not at a write stays out of the writers.
LEMMA WrittenFrame ==
  ASSUME IInv, UNCHANGED configs,
         \A q \in Procs : pc[q] \in {"write", "rewrite"} => pc'[q] = pc[q]
  PROVE  Written'
  BY DEF IInv, Written, configs, Creators

\* A file is whole when its writer closes it, and a writer's file is there.
LEMMA WrittenStep == ASSUME IInv, NEW p \in Procs, Issue(p) \/ Step(p) PROVE Written'
<1>1. CASE ~(OpenConfig(p) \/ WriteConfig(p) \/ RemoveDir(p))
  <2>1. UNCHANGED configs
    BY <1>1 DEF Issue, Step, LoadGiven, MakeBundleDir, ApplyGPU, NewHandle, Claim, Setup, StartOwn,
                Wait, LoadRecord, LoadSpec, Start, Kill, Delete
  <2>2. \A q \in Procs : pc[q] \in {"write", "rewrite"} => pc'[q] = pc[q]
    BY <1>1 DEF IInv, Typed, Goto, Issue, Step, LoadGiven, MakeBundleDir, ApplyGPU, NewHandle, Claim,
                Setup, StartOwn, Wait, LoadRecord, LoadSpec, Start, Kill, Delete, Release
  <2> QED
    BY <2>1, <2>2, WrittenFrame
<1>2. CASE OpenConfig(p)
  <2>1. p \in Creators /\ (pc[p] = "open" \/ pc[p] = "reopen")
    BY <1>2 DEF OpenConfig, IInv, Placed, Creating
  <2>2. \A q \in Procs : pc[q] \in {"write", "rewrite"} => pc'[q] = pc[q]
    BY <1>2 DEF OpenConfig, Goto, IInv, Typed
  <2>3. CASE UNCHANGED configs
    BY <2>2, <2>3, WrittenFrame
  <2>4. CASE ~UNCHANGED configs
    <3>1. /\ file' = [file EXCEPT ![Place(p)] = Blank("empty")]
          /\ writers' = writers \cup {p} /\ pc'[p] \in {"write", "rewrite"}
      BY <1>2, <2>4 DEF OpenConfig, configs, Goto, IInv, Typed
    <3>2. \A q \in writers : q \in Creators /\ pc'[q] \in {"write", "rewrite"}
      BY <2>2 DEF IInv, Written, Creators
    <3>3. \A q \in writers' : file'[Place(q)] # Missing
      BY <3>1, CommandTyped, FilesTyped, <2>1 DEF IInv, Typed, Written, Creators
    <3>4. \A b \in Bundle : file'[b].carries # {} => file'[b].state = "whole"
      BY <3>1 DEF Blank, IInv, Typed, Written
    <3> QED
      BY <2>1, <3>1, <3>2, <3>3, <3>4 DEF Written
  <2> QED
    BY <2>3, <2>4
<1>3. CASE WriteConfig(p)
  <2>1. writers' = writers \ {p} /\ \A q \in Procs : q # p => pc'[q] = pc[q]
    BY <1>3 DEF WriteConfig, Goto, IInv, Typed
  <2>2. \A b \in Bundle : file[b] # Missing => file'[b] # Missing
    BY <1>3, CommandTyped, FilesTyped DEF WriteConfig, IInv, Typed
  <2>3. \A b \in Bundle : file'[b].carries # {} => file'[b].state = "whole"
    BY <1>3, CommandTyped DEF WriteConfig, Blank, Whole, IInv, Typed, Written
  <2> QED
    BY <2>1, <2>2, <2>3, CommandTyped DEF IInv, Written, Creators
<1>4. CASE RemoveDir(p)
  <2>1. \A q \in writers' : q \in writers /\ Place(q) = "given"
    BY <1>4 DEF RemoveDir
  <2>2. \A q \in writers' : pc'[q] = pc[q]
    BY <1>4, <2>1 DEF RemoveDir, Goto, IInv, Typed, Written, Creators
  <2>3. file' = [file EXCEPT !["generated"] = Missing]
    BY <1>4 DEF RemoveDir
  <2> QED
    BY <2>1, <2>2, <2>3 DEF IInv, Typed, Written, Bundle, Missing
<1> QED
  BY <1>1, <1>2, <1>3, <1>4

\* The owner of the given bundle touches neither record nor directory.
LEMMA WorldKeeps == ASSUME IInv, World PROVE Recorded' /\ Written'
<1>1. CASE UNCHANGED <<configs, dir, rec, pc>>
  BY <1>1, RecordedFrame, WrittenFrame DEF configs
<1>2. CASE BundleGone
  <2>1. /\ file' = [file EXCEPT !["given"] = Missing] /\ UNCHANGED <<dir, rec, pc>>
        /\ writers' = {q \in writers : Place(q) = "generated"}
    BY <1>2 DEF BundleGone
  <2> QED
    BY <2>1 DEF IInv, Typed, Recorded, Written, Bundle, Missing
<1> QED
  BY <1>1, <1>2 DEF World, InitEnds, RootfsGone, handle

\* Every command goes on along its own line.
LEMMA PlacedStep == ASSUME IInv, NEW p \in Procs, Issue(p) \/ Step(p) PROVE \A q \in Procs : Placed(q)'
<1>1. \A q \in Procs : q # p => pc'[q] = pc[q]
  BY DEF IInv, Typed, Goto, Issue, Step, LoadGiven, MakeBundleDir, OpenConfig, WriteConfig, ApplyGPU,
         NewHandle, Claim, Setup, RemoveDir, StartOwn, Wait, LoadRecord, LoadSpec, Start, Kill, Delete,
         Release
<1>2. Placed(p)'
  <2>1. CASE Issue(p)
    BY <2>1, CommandTyped DEF Issue, Goto, IInv, Typed, Placed, Creating, Loading, Bundle
  <2>2. CASE LoadGiven(p) \/ MakeBundleDir(p) \/ WriteConfig(p)
    BY <2>2 DEF LoadGiven, MakeBundleDir, WriteConfig, AfterResolve, Goto, IInv, Typed, Placed,
                Creating, Loading
  <2>3. CASE OpenConfig(p) \/ ApplyGPU(p)
    BY <2>3 DEF OpenConfig, ApplyGPU, Goto, IInv, Typed, Placed, Creating, Loading
  <2>4. CASE NewHandle(p) \/ Claim(p) \/ Setup(p) \/ RemoveDir(p) \/ Wait(p) \/ StartOwn(p)
    BY <2>4 DEF NewHandle, Claim, Setup, RemoveDir, Wait, StartOwn, Release, Goto, IInv, Typed, Placed,
                Creating, Loading
  <2>5. CASE LoadRecord(p) \/ LoadSpec(p) \/ Start(p) \/ Kill(p) \/ Delete(p)
    BY <2>5 DEF LoadRecord, LoadSpec, Start, Kill, Delete, Release, Goto, IInv, Typed, Placed,
                Creating, Loading
  <2> QED
    BY <2>1, <2>2, <2>3, <2>4, <2>5 DEF Step
<1> QED
  BY <1>1, <1>2 DEF IInv, Placed

----------------------------------------------------------------------------
(* The flags *)

\* A command that has been issued stays so.
LEMMA HooksGrow ==
  ASSUME IInv, NEW p \in Procs, Issue(p) \/ Step(p)
  PROVE  Hooks \subseteq Hooks' /\ pc'[p] # "idle" /\ \A q \in Procs : q # p => pc'[q] = pc[q]
<1>1. /\ pc'[p] # "idle"
      /\ \A q \in Procs : q # p => pc'[q] = pc[q]
  BY DEF IInv, Typed, Goto, Issue, Step, LoadGiven, MakeBundleDir, OpenConfig, WriteConfig, ApplyGPU,
         NewHandle, Claim, Setup, RemoveDir, StartOwn, Wait, LoadRecord, LoadSpec, Start, Kill, Delete,
         Release, AfterResolve
<1> QED
  BY <1>1 DEF Hooks, Creators

\* A step that leaves the spec of a creator alone leaves its flags as they are.
LEMMA FlaggedKept ==
  ASSUME NEW q \in Procs, Flagged(q), spec'[q] = spec[q], Hooks \subseteq Hooks'
  PROVE  Flagged(q)'
  BY DEF Flagged, Place

\* What a creator that has resolved its bundle, or has an init, holds.
LEMMA FlagsFrame ==
  ASSUME IInv, NEW p \in Procs, Issue(p) \/ Step(p),
         file'["given"].carries \subseteq Hooks',
         \A q \in Creators : q # p => spec'[q] = spec[q] /\ (init'[q] # "none" => init[q] # "none"),
         p \in Creators /\ (pc'[p] \in Resolved \/ init'[p] # "none") => Flagged(p)'
  PROVE  FlagsHeld'
<1>1. ASSUME NEW q \in Creators, q # p, pc'[q] \in Resolved \/ init'[q] # "none" PROVE Flagged(q)'
  BY <1>1, HooksGrow, FlaggedKept DEF IInv, FlagsHeld, Creators
<1> QED
  BY <1>1 DEF FlagsHeld, Creators

\* A creator gets its flags when it resolves its bundle, and keeps them.
LEMMA FlagsStep == ASSUME IInv, NEW p \in Procs, Issue(p) \/ Step(p) PROVE FlagsHeld'
<1>1. Hooks \subseteq Hooks' /\ file["given"].carries \subseteq Hooks
  BY HooksGrow DEF IInv, FlagsHeld
<1>2. p \in Creators /\ (pc[p] \in Resolved \/ init[p] # "none") => Flagged(p)
  BY DEF IInv, FlagsHeld
<1>3. CASE Issue(p)
  <2>1. UNCHANGED <<file, spec, init>> /\ pc'[p] \notin Resolved
    BY <1>3 DEF Issue, Goto, IInv, Typed, configs, handle, Resolved
  <2> QED
    BY <1>1, <1>2, <1>3, <2>1, FlaggedKept, FlagsFrame
<1>4. CASE LoadGiven(p)
  <2>1. /\ p \in Creators /\ Place(p) = "given"
        /\ UNCHANGED <<file, init>> /\ \A q \in Procs : q # p => spec'[q] = spec[q]
    BY <1>4 DEF LoadGiven, IInv, Typed, Placed, Creating, configs
  <2>2. CASE file["given"].state = "whole"
    <3>1. spec'[p] = file["given"].carries \cup {p}
      BY <1>4, <2>2 DEF LoadGiven, IInv, Typed
    <3>2. Flagged(p)'
      BY <1>1, <2>1, <3>1 DEF Flagged, Place
    <3> QED
      BY <1>1, <1>4, <2>1, <3>2, FlagsFrame DEF Step, Creators
  <2>3. CASE file["given"].state # "whole"
    <3>1. UNCHANGED spec /\ pc'[p] \notin Resolved
      BY <1>4, <2>3 DEF LoadGiven, Goto, IInv, Typed, Resolved
    <3> QED
      BY <1>1, <1>2, <1>4, <2>1, <3>1, FlaggedKept, FlagsFrame DEF Step, Creators
  <2> QED
    BY <2>2, <2>3
<1>5. CASE MakeBundleDir(p)
  <2>1. /\ p \in Creators /\ Place(p) = "generated" /\ UNCHANGED <<file, init>>
        /\ spec'[p] = {p} /\ \A q \in Procs : q # p => spec'[q] = spec[q]
    BY <1>5 DEF MakeBundleDir, IInv, Typed, Placed, Creating, configs
  <2>2. Flagged(p)'
    BY <2>1 DEF Flagged, Place
  <2> QED
    BY <1>1, <1>5, <2>1, <2>2, FlagsFrame DEF Step, Creators
<1>6. CASE OpenConfig(p)
  <2>1. UNCHANGED <<spec, init>> /\ pc[p] \in Resolved /\ file'["given"].carries \subseteq Hooks
    BY <1>1, <1>6, CommandTyped DEF OpenConfig, configs, handle, Resolved, Blank, IInv, Typed, Bundle
  <2> QED
    BY <1>1, <1>2, <1>6, <2>1, FlaggedKept, FlagsFrame DEF Step
<1>7. CASE WriteConfig(p)
  <2>1. UNCHANGED <<spec, init>> /\ pc[p] \in Resolved /\ p \in Creators
    BY <1>7 DEF WriteConfig, handle, Resolved, IInv, Placed, Creating
  <2>2. CASE Place(p) = "generated"
    <3>1. file'["given"] = file["given"]
      BY <1>7, <2>2 DEF WriteConfig, IInv, Typed, Bundle
    <3> QED
      BY <1>1, <1>2, <1>7, <2>1, <3>1, FlaggedKept, FlagsFrame DEF Step
  <2>3. CASE Place(p) = "given"
    <3>1. Command[p].gpu = "hook"
      BY <1>7, <2>3 DEF WriteConfig, IInv, Placed
    <3>2. spec[p] \subseteq {p} \cup Hooks
      BY <1>2, <2>1, <2>3, <3>1 DEF Flagged
    <3>3. p \in Hooks'
      BY <2>1, <2>3, <3>1, <1>7, HooksGrow DEF Hooks, Step, Place, Creators
    <3>4. file'["given"].carries \subseteq spec[p] \/ file'["given"].carries = file["given"].carries
      BY <1>7, <2>3 DEF WriteConfig, Whole, Blank, IInv, Typed, Bundle
    <3> QED
      BY <1>1, <1>2, <1>7, <2>1, <3>2, <3>3, <3>4, FlaggedKept, FlagsFrame DEF Step
  <2> QED
    BY <2>2, <2>3, CommandTyped DEF Bundle
<1>8. CASE ApplyGPU(p)
  <2>1. /\ p \in Creators /\ pc[p] \in Resolved
        /\ UNCHANGED <<file, init>> /\ \A q \in Procs : q # p => spec'[q] = spec[q]
        /\ Command[p].gpu = "hook" => UNCHANGED spec
    BY <1>8 DEF ApplyGPU, IInv, Typed, Placed, Creating, configs, Resolved
  <2>2. Command[p].gpu \in {"hook", "shim"}
    BY <1>8, CommandTyped DEF ApplyGPU, IInv, Placed
  <2>3. CASE Command[p].gpu = "hook"
    BY <1>1, <1>2, <1>8, <2>1, <2>3, FlaggedKept, FlagsFrame DEF Step, Creators
  <2>4. CASE Command[p].gpu = "shim"
    <3>1. Flagged(p)'
      BY <2>4 DEF Flagged
    <3> QED
      BY <1>1, <1>8, <2>1, <3>1, FlagsFrame DEF Step, Creators
  <2> QED
    BY <2>2, <2>3, <2>4
<1>9. CASE NewHandle(p) \/ Claim(p) \/ RemoveDir(p) \/ Wait(p) \/ LoadRecord(p)
           \/ Kill(p) \/ Delete(p)
  <2>1. UNCHANGED spec /\ (pc'[p] \in Resolved => pc[p] \in Resolved)
    BY <1>9 DEF NewHandle, Claim, RemoveDir, Wait, LoadRecord, Kill, Delete, handle, Goto, IInv, Typed,
                Resolved
  <2>2. \A q \in Procs : init'[q] # "none" => init[q] # "none"
    BY <1>9, KillTyped DEF NewHandle, Claim, RemoveDir, Wait, LoadRecord, Kill, Delete, handle, IInv
  <2>3. file'["given"] = file["given"]
    BY <1>9 DEF NewHandle, Claim, RemoveDir, Wait, LoadRecord, Kill, Delete, configs, IInv, Typed, Bundle
  <2> QED
    BY <1>1, <1>2, <1>9, <2>1, <2>2, <2>3, FlaggedKept, FlagsFrame DEF Step, Creators
<1>10. CASE Setup(p)
  <2>1. UNCHANGED <<spec, file>> /\ pc[p] \in Resolved /\ \A q \in Procs : q # p => init'[q] = init[q]
    BY <1>10 DEF Setup, handle, configs, IInv, Typed, Resolved
  <2> QED
    BY <1>1, <1>2, <1>10, <2>1, FlaggedKept, FlagsFrame DEF Step, Creators
<1>11. CASE StartOwn(p) \/ Start(p)
  <2>1. UNCHANGED <<spec, file>> /\ pc'[p] \notin Resolved
    BY <1>11 DEF StartOwn, Start, Release, Goto, handle, configs, IInv, Typed, Resolved
  <2>2. \A q \in Procs : init'[q] # "none" => init[q] # "none"
    BY <1>11, LoadedTyped DEF StartOwn, Start, Release, Live, IInv, Typed
  <2> QED
    BY <1>1, <1>2, <1>11, <2>1, <2>2, FlaggedKept, FlagsFrame DEF Step, Creators
<1>12. CASE LoadSpec(p)
  <2>1. /\ p \notin Creators /\ UNCHANGED <<file, init>>
        /\ \A q \in Procs : q # p => spec'[q] = spec[q]
    BY <1>12 DEF LoadSpec, configs, IInv, Typed, Placed, Loading
  <2> QED
    BY <1>1, <1>12, <2>1, FlagsFrame DEF Step, Creators
<1> QED
  BY <1>3, <1>4, <1>5, <1>6, <1>7, <1>8, <1>9, <1>10, <1>11, <1>12 DEF Step

----------------------------------------------------------------------------
(* The directory *)

\* Who makes the directory accounts for it until there is a record, and who takes
\* the record takes the directory.
LEMMA DirStep == ASSUME IInv, NEW p \in Procs, Issue(p) \/ Step(p) PROVE DirAccounted'
<1>1. \A q \in Procs : q # p => pc'[q] = pc[q]
  BY HooksGrow
<1>2. \A q \in Creators : q # p /\ Accounts(q) => Accounts(q)'
  BY <1>1 DEF Accounts, Creators, Place
<1>3. ASSUME dir' => dir, rec # Absent => rec' # Absent, dir' /\ rec = Absent /\ p \in Creators /\ Accounts(p) =>
                     rec' # Absent \/ Accounts(p)'
      PROVE  DirAccounted'
  BY <1>2, <1>3 DEF IInv, DirAccounted
<1>4. CASE Issue(p) \/ LoadGiven(p) \/ LoadRecord(p) \/ LoadSpec(p) \/ Kill(p) \/ Delete(p)
  <2>1. UNCHANGED <<dir, rec>> /\ ~Accounts(p)
    BY <1>4 DEF Issue, LoadGiven, LoadRecord, LoadSpec, Kill, Delete, configs, Accounts, Unclaimed
  <2> QED
    BY <1>3, <2>1
<1>5. CASE MakeBundleDir(p)
  <2>1. p \in Creators /\ Place(p) = "generated" /\ pc'[p] = "open"
    BY <1>5 DEF MakeBundleDir, IInv, Typed, Goto, Placed, Creating
  <2> QED
    BY <2>1 DEF DirAccounted, Accounts, Unclaimed, Place
<1>6. CASE OpenConfig(p)
  <2>1. UNCHANGED <<dir, rec>> /\ pc[p] \in {"open", "reopen"}
    BY <1>6 DEF OpenConfig
  <2>2. dir /\ Place(p) = "generated" => pc'[p] \in {"write", "rewrite"}
    BY <1>6 DEF OpenConfig, IInv, Typed, Goto
  <2> QED
    BY <1>3, <2>1, <2>2 DEF Accounts, Unclaimed, Place
<1>7. CASE WriteConfig(p)
  <2>1. UNCHANGED <<dir, rec>> /\ pc[p] \in {"write", "rewrite"} /\ pc'[p] \in {"new", "gpu"}
    BY <1>7 DEF WriteConfig, AfterResolve, IInv, Typed, Goto
  <2> QED
    BY <1>3, <2>1 DEF Accounts, Unclaimed, Place
<1>8. CASE ApplyGPU(p)
  <2>1. /\ UNCHANGED <<dir, rec>> /\ pc[p] = "gpu"
        /\ pc'[p] \in {"reopen", "new"} \/ (pc'[p] = "refused" /\ Command[p].gpu = "shim")
    BY <1>8, CommandTyped DEF ApplyGPU, IInv, Typed, Goto, Placed
  <2> QED
    BY <1>3, <2>1 DEF Accounts, Unclaimed, Place
<1>9. CASE NewHandle(p)
  <2>1. /\ UNCHANGED <<dir, rec>>
        /\ pc[p] = "new" => pc'[p] \in {"noRootfs", "claim"}
        /\ pc[p] \in {"new", "handle"}
    BY <1>9 DEF NewHandle, IInv, Typed, Goto
  <2> QED
    BY <1>3, <2>1 DEF Accounts, Unclaimed, Place
<1>10. CASE Claim(p)
  <2>1. rec' # Absent
    <3>1. p \in Creators
      BY <1>10 DEF Claim, IInv, Placed, Creating
    <3> QED
      BY <1>10, <3>1, RecordTyped, LoadedTyped DEF Claim, IInv
  <2> QED
    BY <2>1 DEF DirAccounted
<1>11. CASE Setup(p)
  <2>1. p \in Creators /\ ~Accounts(p)
    BY <1>11 DEF Setup, IInv, Placed, Creating, Accounts, Unclaimed
  <2>2. rec' # Absent \/ UNCHANGED <<dir, rec>>
    BY <1>11, <2>1, RecordTyped DEF Setup
  <2> QED
    BY <1>3, <2>1, <2>2 DEF DirAccounted
<1>12. CASE RemoveDir(p)
  BY <1>12 DEF RemoveDir, DirAccounted
<1>13. CASE StartOwn(p) \/ Start(p) \/ Wait(p)
  <2>1. ~Accounts(p) /\ UNCHANGED dir
    BY <1>13 DEF StartOwn, Start, Wait, Accounts, Unclaimed
  <2>2. rec # Absent => rec' # Absent
    BY <1>13, LoadedTyped DEF StartOwn, Start, Wait, Release, IInv, Typed, Records, Absent
  <2> QED
    BY <1>3, <2>1, <2>2
<1> QED
  BY <1>4, <1>5, <1>6, <1>7, <1>8, <1>9, <1>10, <1>11, <1>12, <1>13 DEF Step

\* The world changes no spec, and takes flags out of a file only.
LEMMA WorldHolds ==
  ASSUME IInv, World PROVE (\A q \in Procs : Placed(q)') /\ FlagsHeld' /\ DirAccounted'
<1>1. UNCHANGED <<pc, spec, dir, rec>>
  BY DEF World, InitEnds, BundleGone, RootfsGone, handle
<1>2. file'["given"].carries \subseteq file["given"].carries
  BY DEF World, InitEnds, BundleGone, RootfsGone, configs, Missing, IInv, Typed, Bundle
<1>3. \A q \in Procs : init'[q] # "none" => init[q] # "none"
  BY DEF World, InitEnds, BundleGone, RootfsGone, IInv, Typed
<1>4. \A q \in Procs : Placed(q)'
  BY <1>1 DEF IInv, Placed, Place, Creators
<1>5. Hooks' = Hooks /\ \A q \in Procs : Flagged(q) => Flagged(q)'
  BY <1>1 DEF Hooks, Flagged, Creators, Place
<1>6. FlagsHeld'
  BY <1>1, <1>2, <1>3, <1>5 DEF IInv, FlagsHeld, Creators
<1>7. DirAccounted'
  BY <1>1 DEF IInv, DirAccounted, Accounts, Creators, Place
<1> QED
  BY <1>4, <1>6, <1>7

----------------------------------------------------------------------------
(* The theorems *)

\* Every step preserves the invariant.
LEMMA StepInductive == IInv /\ [Next]_vars => IInv'
<1> SUFFICES ASSUME IInv, [Next]_vars PROVE IInv'
  OBVIOUS
<1>1. ASSUME NEW p \in Procs, Issue(p) \/ Step(p), UNCHANGED caller PROVE IInv'
  BY <1>1, IssueTyped, StepTyped, RecordedStep, WrittenStep, PlacedStep, FlagsStep, DirStep DEF IInv
<1>2. CASE World /\ UNCHANGED caller
  BY <1>2, WorldTyped, WorldKeeps, WorldHolds DEF IInv
<1>3. CASE UNCHANGED vars
  BY <1>3 DEF vars, IInv, Typed, Recorded, Written, Placed, FlagsHeld, Flagged, Hooks, DirAccounted,
              Accounts, Place, Creators
<1> QED
  BY <1>1, <1>2, <1>3 DEF Next, World

\* The invariant, for every set of commands: where each may be, what the record
\* and the files say of it, whose flags it has, and who accounts for the directory.
THEOREM Invariance == Spec => []IInv
<1>1. Init => IInv
  BY InitInductive
<1> QED
  BY <1>1, StepInductive, PTL DEF Spec

\* Every variable has its type, the record of a live id names its creator, and
\* the generated bundle is in the id's directory and nowhere else.
THEOREM TypeCorrect == Spec => []TypeOK
<1>1. ASSUME IInv PROVE TypeOK
  <2>1. rec.status = "absent" <=> rec.owner \notin Creators
    BY <1>1, NobodyAssumption DEF IInv, Recorded, Absent, Creators
  <2> QED
    BY <1>1, <2>1 DEF IInv, Typed, Recorded, Written, TypeOK
<1> QED
  BY <1>1, Invariance, PTL

\* "It goes away with the container": when no command is at work and the id is
\* free, no generated bundle is left, unless its creator found it cannot be run.
THEOREM BundleIsRemoved == Spec => []BundleGoesAway
<1>1. ASSUME IInv PROVE BundleGoesAway
  <2> SUFFICES ASSUME Quiet, rec = Absent, dir
               PROVE  \E q \in Creators : pc[q] = "noRootfs"
                                          \/ (pc[q] = "refused" /\ Command[q].gpu = "shim")
    BY DEF BundleGoesAway
  <2>1. PICK q \in Creators : Accounts(q)
    BY <1>1 DEF IInv, DirAccounted
  <2>2. pc[q] \notin Unclaimed
    BY DEF Quiet, Ended, Unclaimed, Creators
  <2> QED
    BY <2>1, <2>2 DEF Accounts
<1> QED
  BY <1>1, Invariance, PTL

\* A container runs with the flags of its own command line and no other's, unless
\* the shim reads the spec back, or an earlier run saved its flags in the bundle.
THEOREM OwnFlagsOnly == Spec => []RunsAsAsked
<1>1. ASSUME IInv PROVE RunsAsAsked
  <2> SUFFICES ASSUME NEW p \in Creators, init[p] \in Live
               PROVE  \/ spec[p] = {p} \/ Command[p].gpu = "shim"
                      \/ Place(p) = "given" /\ \E q \in Creators \ {p} :
                            Command[q].gpu = "hook" /\ Place(q) = "given" /\ pc[q] # "idle"
    BY DEF RunsAsAsked
  <2>1. Flagged(p)
    BY <1>1 DEF IInv, FlagsHeld, Live
  <2>2. ASSUME Place(p) = "given", p \in spec[p], spec[p] \subseteq {p} \cup Hooks, spec[p] # {p}
        PROVE  \E q \in Creators \ {p} :
                  Command[q].gpu = "hook" /\ Place(q) = "given" /\ pc[q] # "idle"
    <3>1. PICK q \in spec[p] : q # p
      BY <2>2
    <3> QED
      BY <2>2, <3>1 DEF Hooks
  <2> QED
    BY <2>1, <2>2 DEF Flagged
<1> QED
  BY <1>1, Invariance, PTL
=============================================================================

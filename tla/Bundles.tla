------------------------------- MODULE Bundles -------------------------------
(***************************************************************************)
(* Where a container's spec comes from and where it is kept.  A creator    *)
(* (run, create) reads the bundle it is given or generates one from        *)
(* --rootfs inside the directory of the id, before it claims the id; --gpu *)
(* has the bundle edited and read again.  Every later command (start,      *)
(* kill, delete) is a process of its own and reads the spec back from the  *)
(* recorded bundle, or adopts the container without one.                   *)
(*                                                                         *)
(* A spec is abstracted to the command lines whose flags it carries.       *)
(* config.json is written in place (truncate, then write), and nothing     *)
(* locks it.  Records and processes are those of Lifecycle.tla, with the   *)
(* handshake, the FIFO and the signal each taken as one step.              *)
(***************************************************************************)
EXTENDS Naturals, FiniteSets

CONSTANTS
    Procs,      \* the commands that may be issued
    Command,    \* what each of them is (CommandType)
    Callers,    \* who issues which of them, and what else may happen
    Nobody      \* the owner in a record that is not there

Bundle == {"given", "generated"}   \* the two places of a bundle

CommandType == [kind : {"run", "create", "start", "kill", "delete", "forceDelete"},
                from : Bundle,                  \* a creator's --bundle or --rootfs
                gpu  : {"no", "shim", "hook"}]  \* its --gpu and LIGHTPOD_GPU_MODE

AccidentKinds == {"bundleGone",   \* somebody removes the given bundle
                  "rootfsGone",   \* somebody removes the root filesystem
                  "createFails",  \* a create fails after its claim
                  "initDies"}     \* init is killed from outside

ASSUME CommandAssumption ==
    /\ Command \in [Procs -> CommandType]
    /\ \A p \in Procs : Command[p].kind = "create" => Command[p].gpu = "no"
ASSUME CallersAssumption ==
    Callers \subseteq [issues : SUBSET Procs, accidents : SUBSET AccidentKinds]
ASSUME NobodyAssumption == Nobody \notin Procs

Creators == {p \in Procs : Command[p].kind \in {"run", "create"}}

VARIABLES
    caller,   \* the member of Callers this behaviour is about
    file,     \* config.json of each bundle: its state and whose flags it carries
    dir,      \* the id's directory exists, with the generated bundle's below it
    writers,  \* the creators that have the config.json now there open
    rootfs,   \* the root filesystem is there
    rec,      \* the record: status, owner (whose init it names), bundle
    pc,       \* where each command is
    spec,     \* the flags in the spec of each command's handle
    adopted,  \* the command's handle has no spec
    loc,      \* the record each command has loaded
    init      \* the init process of each creator

vars == <<caller, file, dir, writers, rootfs, rec, pc, spec, adopted, loc, init>>

configs == <<file, writers>>
handle  == <<spec, adopted, loc>>

FileStates == {"none", "empty", "mixed", "whole"}
Files == [state : FileStates, carries : SUBSET Procs]
Missing == [state |-> "none", carries |-> {}]
Blank(s) == [state |-> s, carries |-> {}]
Whole(flags) == [state |-> "whole", carries |-> flags]

Statuses == {"absent", "creating", "created", "running", "stopped"}
Records == [status : Statuses, owner : Procs \cup {Nobody}, bundle : Bundle]
Absent == [status |-> "absent", owner |-> Nobody, bundle |-> "given"]

\* How a command ends: well; with an error before it took effect, because the
\* root filesystem was missing, or because of its own failed setup; by a nil
\* dereference; or by its own signal, sent to the pid 0 of a record in creating.
Ended == {"done", "refused", "noRootfs", "failed", "panicked", "signalled"}
PCs == Ended \cup {"idle", "loadGiven", "mkdir", "open", "write", "gpu", "reopen",
    "rewrite", "new", "claim", "setup", "cleanup", "startOwn", "wait",
    "loadRecord", "loadSpec", "handle", "act", "remove"}

Live == {"parked", "user"}
InitStates == Live \cup {"none", "ended"}

\* Store.Load reconciles the record with its process.
Loaded == IF rec.status \in {"created", "running"} /\ init[rec.owner] \notin Live
          THEN [rec EXCEPT !.status = "stopped"] ELSE rec

Init ==
    /\ caller \in Callers
    /\ file = [b \in Bundle |-> IF b = "given" THEN Whole({}) ELSE Missing]
    /\ dir = FALSE /\ writers = {} /\ rootfs = TRUE /\ rec = Absent
    /\ pc = [p \in Procs |-> "idle"]
    /\ spec = [p \in Procs |-> {}] /\ adopted = [p \in Procs |-> FALSE]
    /\ loc = [p \in Procs |-> Absent]
    /\ init = [p \in Procs |-> "none"]

Goto(p, l) == pc' = [pc EXCEPT ![p] = l]
Place(p) == Command[p].from

----------------------------------------------------------------------------
(* resolveBundle and applyGPU *)

Issue(p) ==
    /\ pc[p] = "idle" /\ p \in caller.issues
    /\ Goto(p, IF p \notin Creators THEN "loadRecord"
               ELSE IF Place(p) = "given" THEN "loadGiven" ELSE "mkdir")
    /\ UNCHANGED <<configs, dir, rootfs, rec, handle, init>>

AfterResolve(p) == IF Command[p].gpu = "no" THEN "new" ELSE "gpu"

\* --bundle: oci.Load and applyRunFlags, which change the spec in memory only.
LoadGiven(p) ==
    /\ pc[p] = "loadGiven"
    /\ IF file["given"].state = "whole"
       THEN /\ spec' = [spec EXCEPT ![p] = file["given"].carries \cup {p}]
            /\ Goto(p, AfterResolve(p))
       ELSE Goto(p, "refused") /\ UNCHANGED spec
    /\ UNCHANGED <<configs, dir, rootfs, rec, adopted, loc, init>>

\* --rootfs: the defaults and the flags, in a bundle below the id's directory.
MakeBundleDir(p) ==
    /\ pc[p] = "mkdir"
    /\ dir' = TRUE
    /\ spec' = [spec EXCEPT ![p] = {p}]
    /\ Goto(p, "open")
    /\ UNCHANGED <<configs, rootfs, rec, adopted, loc, init>>

\* oci.Save is os.WriteFile: truncate or create, then write.
OpenConfig(p) ==
    LET there == IF Place(p) = "given" THEN file["given"] # Missing ELSE dir IN
    /\ pc[p] \in {"open", "reopen"}
    /\ IF there
       THEN /\ file' = [file EXCEPT ![Place(p)] = Blank("empty")]
            /\ writers' = writers \cup {p}
            /\ Goto(p, IF pc[p] = "open" THEN "write" ELSE "rewrite")
       ELSE Goto(p, "refused") /\ UNCHANGED configs
    /\ UNCHANGED <<dir, rootfs, rec, handle, init>>

\* Two writers that truncated the file before either wrote leave the one's
\* bytes, with the tail of the other's if those are longer.  A file that was
\* removed since takes the bytes with it.
WriteConfig(p) ==
    /\ pc[p] \in {"write", "rewrite"}
    /\ IF p \in writers
       THEN \E new \in {Whole(spec[p])} \cup
                (IF file[Place(p)].state = "empty" THEN {} ELSE {Blank("mixed")}) :
                   file' = [file EXCEPT ![Place(p)] = new]
       ELSE UNCHANGED file
    /\ writers' = writers \ {p}
    /\ Goto(p, IF pc[p] = "write" THEN AfterResolve(p) ELSE "new")
    /\ UNCHANGED <<dir, rootfs, rec, handle, init>>

\* The shim edits config.json where it lies, and what is there then is the
\* spec; or the hook goes into the spec, which is saved over the bundle.
ApplyGPU(p) ==
    /\ pc[p] = "gpu"
    /\ IF Command[p].gpu = "hook"
       THEN Goto(p, "reopen") /\ UNCHANGED spec
       ELSE IF file[Place(p)].state = "whole"
       THEN spec' = [spec EXCEPT ![p] = file[Place(p)].carries] /\ Goto(p, "new")
       ELSE Goto(p, "refused") /\ UNCHANGED spec
    /\ UNCHANGED <<configs, dir, rootfs, rec, adopted, loc, init>>

----------------------------------------------------------------------------
(* The creator's container: runtime.New, Create, Run *)

MutantBundleReadBack(p) ==
    /\ pc[p] \in {"new", "handle"}
    /\ spec' = [spec EXCEPT ![p] = IF pc[p] = "new" /\ Command[p].gpu = "no" /\ Place(p) = "generated"
                                  THEN file["generated"].carries ELSE @]
    /\ Goto(p, IF ~rootfs THEN "noRootfs" ELSE IF pc[p] = "new" THEN "claim" ELSE "act")
    /\ UNCHANGED <<configs, dir, rootfs, rec, adopted, loc, init>>

\* New finds the root filesystem, for a creator and for a later command.
NewHandle(p) ==
    /\ pc[p] \in {"new", "handle"}
    /\ Goto(p, IF ~rootfs THEN "noRootfs" ELSE IF pc[p] = "new" THEN "claim" ELSE "act")
    /\ UNCHANGED <<configs, dir, rootfs, rec, handle, init>>

Record(p, s) == [status |-> s, owner |-> p, bundle |-> Place(p)]

Claim(p) ==
    /\ pc[p] = "claim"
    /\ IF Loaded.status = "absent"
       THEN rec' = Record(p, "creating") /\ dir' = TRUE /\ Goto(p, "setup")
       ELSE Goto(p, "refused") /\ UNCHANGED <<rec, dir>>
    /\ UNCHANGED <<configs, rootfs, handle, init>>

MutantSaveNoMkdir(p) ==
    /\ pc[p] = "setup"
    /\ rec' = Record(p, "created")
    /\ init' = [init EXCEPT ![p] = "parked"]
    /\ Goto(p, IF Command[p].kind = "run" THEN "startOwn" ELSE "done")
    /\ UNCHANGED <<configs, dir, rootfs, handle>>

\* The rest of Create: init is parked and its record saved, or setup fails.
Setup(p) ==
    /\ pc[p] = "setup"
    /\ \/ /\ rec' = Record(p, "created") /\ dir' = TRUE
          /\ init' = [init EXCEPT ![p] = "parked"]
          /\ Goto(p, IF Command[p].kind = "run" THEN "startOwn" ELSE "done")
       \/ /\ "createFails" \in caller.accidents
          /\ Goto(p, "cleanup")
          /\ UNCHANGED <<rec, dir, init>>
    /\ UNCHANGED <<configs, rootfs, handle>>

MutantRecordOnlyRemoved(p) ==
    /\ pc[p] \in {"cleanup", "remove"}
    /\ rec' = Absent
    /\ Goto(p, IF pc[p] = "cleanup" THEN "failed" ELSE "done")
    /\ UNCHANGED <<configs, dir, rootfs, handle, init>>

\* Store.Delete, by a failed create and by delete: the whole directory goes.
RemoveDir(p) ==
    /\ pc[p] \in {"cleanup", "remove"}
    /\ rec' = Absent /\ dir' = FALSE
    /\ file' = [file EXCEPT !["generated"] = Missing]
    /\ writers' = {q \in writers : Place(q) = "given"}
    /\ Goto(p, IF pc[p] = "cleanup" THEN "failed" ELSE "done")
    /\ UNCHANGED <<rootfs, handle, init>>

\* Container.Start after its Load: release init, save, run the poststart hooks
\* of the handle's spec.
Release(p, next) ==
    IF Loaded.status = "created"
    THEN /\ init' = [init EXCEPT ![rec.owner] = "user"]
         /\ rec' = [rec EXCEPT !.status = "running"]
         /\ Goto(p, IF adopted[p] THEN "panicked" ELSE next)
    ELSE Goto(p, "refused") /\ UNCHANGED <<rec, init>>

StartOwn(p) ==
    /\ pc[p] = "startOwn"
    /\ Release(p, "wait")
    /\ UNCHANGED <<configs, dir, rootfs, handle>>

\* Run waits for its child and saves the record as stopped; its forced delete
\* follows, with the handle it has.
Wait(p) ==
    /\ pc[p] = "wait" /\ init[p] = "ended"
    /\ rec' = IF rec = Absent THEN rec ELSE [rec EXCEPT !.status = "stopped"]
    /\ Goto(p, "act")
    /\ UNCHANGED <<configs, dir, rootfs, handle, init>>

----------------------------------------------------------------------------
(* loadContainer, and what the later commands do with the handle *)

LoadRecord(p) ==
    /\ pc[p] = "loadRecord"
    /\ IF Loaded.status = "absent"
       THEN Goto(p, "refused") /\ UNCHANGED loc
       ELSE Goto(p, "loadSpec") /\ loc' = [loc EXCEPT ![p] = Loaded]
    /\ UNCHANGED <<configs, dir, rootfs, rec, spec, adopted, init>>

MutantBundleRequired(p) ==
    /\ pc[p] = "loadSpec"
    /\ LET config == file[loc[p].bundle] IN
       IF config.state = "whole"
       THEN spec' = [spec EXCEPT ![p] = config.carries] /\ Goto(p, "handle")
       ELSE Goto(p, "refused") /\ UNCHANGED spec
    /\ UNCHANGED <<configs, dir, rootfs, rec, adopted, loc, init>>

\* Any error of oci.Load makes it Adopt.
LoadSpec(p) ==
    LET config == file[loc[p].bundle] IN
    /\ pc[p] = "loadSpec"
    /\ IF config.state = "whole"
       THEN /\ spec' = [spec EXCEPT ![p] = config.carries] /\ UNCHANGED adopted
            /\ Goto(p, "handle")
       ELSE /\ adopted' = [adopted EXCEPT ![p] = TRUE] /\ UNCHANGED spec
            /\ Goto(p, "act")
    /\ UNCHANGED <<configs, dir, rootfs, rec, loc, init>>

Start(p) ==
    /\ pc[p] = "act" /\ Command[p].kind = "start"
    /\ Release(p, "done")
    /\ UNCHANGED <<configs, dir, rootfs, handle>>

\* The init the record names, if it names one.
KillOwner == IF Loaded.status \in {"created", "running"}
             THEN [init EXCEPT ![rec.owner] = "ended"] ELSE init

\* A signal that ends the workload.
Kill(p) ==
    /\ pc[p] = "act" /\ Command[p].kind = "kill"
    /\ IF Loaded.status \in {"absent", "stopped"}
       THEN Goto(p, "refused") /\ UNCHANGED init
       ELSE /\ Goto(p, IF Loaded.status = "creating" THEN "signalled" ELSE "done")
            /\ init' = KillOwner
    /\ UNCHANGED <<configs, dir, rootfs, rec, handle>>

\* Container.Delete: load, refuse or kill; the directory goes in a step of its
\* own, after the cgroup and the poststop hooks of the handle's spec, if any.
Delete(p) ==
    /\ pc[p] = "act" /\ Command[p].kind \in {"run", "delete", "forceDelete"}
    /\ IF Loaded.status = "absent" \/ (Loaded.status # "stopped" /\ Command[p].kind = "delete")
       THEN Goto(p, "refused") /\ UNCHANGED init
       ELSE Goto(p, "remove") /\ init' = KillOwner
    /\ UNCHANGED <<configs, dir, rootfs, rec, handle>>

----------------------------------------------------------------------------
(* The world *)

InitEnds(q) ==
    /\ init[q] = "user" \/ (init[q] = "parked" /\ "initDies" \in caller.accidents)
    /\ init' = [init EXCEPT ![q] = "ended"]
    /\ UNCHANGED <<configs, dir, rootfs, rec, pc, handle>>

BundleGone ==
    /\ "bundleGone" \in caller.accidents /\ file["given"] # Missing
    /\ file' = [file EXCEPT !["given"] = Missing]
    /\ writers' = {q \in writers : Place(q) = "generated"}
    /\ UNCHANGED <<dir, rootfs, rec, pc, handle, init>>

RootfsGone ==
    /\ "rootfsGone" \in caller.accidents /\ rootfs
    /\ rootfs' = FALSE
    /\ UNCHANGED <<configs, dir, rec, pc, handle, init>>

Step(p) ==
    \/ LoadGiven(p) \/ MakeBundleDir(p) \/ OpenConfig(p) \/ WriteConfig(p) \/ ApplyGPU(p)
    \/ NewHandle(p) \/ Claim(p) \/ Setup(p) \/ RemoveDir(p) \/ StartOwn(p) \/ Wait(p)
    \/ LoadRecord(p) \/ LoadSpec(p) \/ Start(p) \/ Kill(p) \/ Delete(p)

Next ==
    /\ \/ \E p \in Procs : Issue(p) \/ Step(p) \/ InitEnds(p)
       \/ BundleGone \/ RootfsGone
    /\ UNCHANGED caller

Spec == Init /\ [][Next]_vars

\* A command that has been issued runs on.
FairSpec == Spec /\ \A p \in Procs : WF_vars(Step(p) /\ UNCHANGED caller)

----------------------------------------------------------------------------
(* Properties *)

\* Every variable has its type, the record of a live id names its creator, and
\* the generated bundle is in the id's directory and nowhere else.
TypeOK ==
    /\ caller \in Callers
    /\ file \in [Bundle -> Files] /\ dir \in BOOLEAN /\ rootfs \in BOOLEAN
    /\ \A b \in Bundle : file[b].carries # {} => file[b].state = "whole"
    /\ rec \in Records /\ (rec.status = "absent" <=> rec.owner \notin Creators)
    /\ file["generated"] # Missing \/ rec # Absent => dir
    /\ writers \subseteq {p \in Creators : pc[p] \in {"write", "rewrite"}
                                      /\ file[Place(p)] # Missing}
    /\ pc \in [Procs -> PCs]
    /\ spec \in [Procs -> SUBSET Procs] /\ adopted \in [Procs -> BOOLEAN]
    /\ loc \in [Procs -> Records] /\ init \in [Procs -> InitStates]

Teardowns == {p \in Procs : Command[p].kind \in {"kill", "delete", "forceDelete"}}

\* What a teardown that has found a container is to bring about.
Due(d) ==
    /\ pc[d] = "loadSpec"
    /\ loc[d].status \in CASE Command[d].kind = "kill"        -> {"created", "running"}
                           [] Command[d].kind = "delete"      -> {"stopped"}
                           [] Command[d].kind = "forceDelete" -> Statuses

Happened(d) ==
    \/ rec.owner # loc[d].owner
    \/ /\ Command[d].kind = "kill"
       /\ loc[d].owner \in {q \in Creators : init[q] = "ended"}

\* "A deleted bundle shouldn't make the container undeletable": whatever becomes
\* of the bundle, a kill ends the workload and a delete removes the record, as
\* long as the root filesystem is there.
TeardownWorks ==
    \A d \in Teardowns : Due(d) ~> Happened(d) \/ ~rootfs

Quiet == \A p \in Procs : pc[p] \in Ended \cup {"idle"}

\* "It goes away with the container": when no command is at work and the id is
\* free, no generated bundle is left, unless a creator wrote one and then found
\* that it cannot be run.
BundleGoesAway ==
    Quiet /\ rec = Absent /\ dir =>
        \E q \in Creators :
            \/ pc[q] = "noRootfs"
            \/ pc[q] = "refused" /\ Command[q].gpu = "shim"

\* Two spellings of one flag set are never mixed up: a container runs with the
\* flags of its own command line and no other's, unless the shim reads the spec
\* back from a file, or an earlier run has saved its flags in the given bundle.
RunsAsAsked ==
    \A p \in Creators : init[p] \in Live =>
        \/ spec[p] = {p}
        \/ Command[p].gpu = "shim"
        \/ Place(p) = "given" /\ \E q \in Creators \ {p} :
               Command[q].gpu = "hook" /\ Place(q) = "given" /\ pc[q] # "idle"

\* "Any running container's real config is on disk rather than inferred from the
\* command line that started it."
RealConfigOnDisk ==
    rec.status = "running" /\ init[rec.owner] = "user" /\ rec.bundle = "generated" =>
        file["generated"] = Whole(spec[rec.owner])

\* "Workload is already running - failing now would misreport a container that's
\* up and fine": a start that has released the workload succeeds.
StartNotMisreported == \A p \in Procs : pc[p] # "panicked"

\* "We never rewrite a bundle we were given."
GivenBundleKept == file["given"] \in {Whole({}), Missing}

\* "The toolkit rewrote it, so the version in memory is stale", but for the flags.
FlagsKept == \A p \in Creators : init[p] \in Live => p \in spec[p]

\* "Teardown shouldn't depend on state outside the store."
TeardownNeedsNothing == \A d \in Teardowns : Due(d) ~> Happened(d)
=============================================================================

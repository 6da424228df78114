----------------------------- MODULE RootfsSetup -----------------------------
(***************************************************************************)
(* prepareRootfs and finalizeRootfs: stage 2 of several containers, each   *)
(* in its mount namespace, builds a root filesystem out of one directory,  *)
(* which they may share (`run --rootfs`), and pivots into it.              *)
(*                                                                         *)
(* A namespace is the sequence of its mounts: a path leads to the last     *)
(* mount at it or above it.  Paths are as secureJoin returns them, from    *)
(* the container's root, without symbolic links.  A step is the body of a  *)
(* loop or a part of a function up to its next system call that another    *)
(* container could get between.                                            *)
(*                                                                         *)
(* The names of the specification and of what Namespaces has as well begin *)
(* with Rootfs or differ: IsolationProofs speaks of both.                  *)
(*                                                                         *)
(* The operators named Mutant... are not part of the model (README.md).    *)
(***************************************************************************)
EXTENDS Naturals, SequencesExt

CONSTANTS
    Inits, \* the containers made from the directory
    RootfsSpecs, \* the specs they may have, a set of functions, see RootfsSpecType
    Machines, \* the hosts to look at, see MachineType
    Disks  \* what the directory may hold: [path -> kind]

\* The paths that matter.
Top     == <<>>
Proc    == <<"proc">>
Kcore   == <<"proc", "kcore">>
Sys     == <<"proc", "sys">>
Key     == <<"proc", "sys", "key">>
Dev     == <<"dev">>
Node    == <<"dev", "node">>   \* stands for oci.DefaultDevices and linux.devices
Link    == <<"dev", "link">>   \* stands for devSymlinks
Data    == <<"data">>
OldRoot == <<".oldroot">>
Places   == {Top, Proc, Kcore, Sys, Key, Dev, Node, Link, Data, OldRoot}

Kinds == {"dir", "file", "device", "link"}

\* The sources of a spec's mounts; those of the host are bound.
FromHost == {"hostProc", "hostDir", "hostFile"}
Sources  == FromHost \cup {"proc", "tmpfs"}

RootfsSpecType == [rootless : BOOLEAN,
                   mounts : Seq([at : Places, fs : Sources, ro : BOOLEAN]),
                   sysctl : BOOLEAN, masked : Seq(Places), readonly : Seq(Places),
                   readonlyRoot : BOOLEAN,
                   propagation : {"none", "private", "slave", "unbindable", "shared", "unknown"},
                   wrong : {"nothing", "source", "device", "sysctl", "cwd"}]

\* Whether a device is missing, whether the directory has the host's /proc
\* mounted, and whether the host's mounts have options a user namespace may
\* not clear (nosuid, nodev), which the spec does not repeat.
MachineType == [lacksNode : BOOLEAN, procThere : BOOLEAN, locked : BOOLEAN]

Preparing  == {"private", "bind", "propagation", "mounts", "devices", "links", "sysctl",
               "masks", "readonly"}
Finalizing == {"mkOldroot", "pivot", "detach", "rmOldroot", "remount", "cwd"}

ASSUME InitsAssumption == "host" \notin Inits
ASSUME RootfsSpecsAssumption == RootfsSpecs \subseteq [Inits -> RootfsSpecType]
ASSUME MachinesAssumption == Machines \subseteq MachineType
ASSUME DisksAssumption ==
    \A d \in Disks : /\ DOMAIN d \subseteq Places /\ \A p \in DOMAIN d : d[p] \in Kinds
                     /\ Top \in DOMAIN d /\ d[Top] = "dir"

VARIABLES
    specs, machine,
    step,        \* the next step of each init, or "done", "failed", "killed"
    next,        \* where its loop is
    mounts,      \* the mounts of its namespace, from its root on
    peer,        \* how these are tied to the host's: "shared", "slave" or "private"
    disk,        \* the directory on the host
    tmp,         \* the files in a container's tmpfs mounts and binds of the host's directories
    tuned,       \* whose /proc/sys was written: inits, "host"
    hostSees,    \* inits whose mounts came up on the host
    hostMounted  \* the host has mounted something at Data in the meantime

rootfsVars == <<specs, machine, step, next, mounts, peer, disk, tmp, tuned, hostSees, hostMounted>>

----------------------------------------------------------------------------
(* The kernel's view of a namespace *)

Mount(at, fs, ro) == [at |-> at, fs |-> fs, ro |-> ro]

\* The mounts at a path and above it, and the one it leads to.
Over(ms, p) == {k \in DOMAIN ms : IsPrefix(ms[k].at, p)}
Covering(ms, p) == ms[Max(Over(ms, p))]

\* An unmount leaves the mount in the sequence, where no path leads to.
Nowhere == <<"nowhere">>
Detached == Mount(Nowhere, "none", TRUE)
Without(ms, p) == [k \in DOMAIN ms |-> IF ms[k].at = p THEN Detached ELSE ms[k]]
WithoutHost(ms) == [k \in DOMAIN ms |-> IF ms[k].fs = "host" THEN Detached ELSE ms[k]]

Procfs == [p \in {Proc, Kcore, Sys, Key} |-> IF p \in {Kcore, Key} THEN "file" ELSE "dir"]

\* The host's directories are taken to be empty and to be shared with nobody.
Private == {"tmpfs", "hostDir"}

Content(i, fs) ==
    CASE fs = "rootfs" -> disk
      [] fs \in Private -> tmp[i]
      [] fs \in {"proc", "hostProc"} -> Procfs
      [] OTHER -> <<>>

\* What Stat says of a path.
Kind(i, p) ==
    LET m == Covering(mounts[i], p)
        c == Content(i, m.fs) IN
    CASE p \in DOMAIN c -> c[p]
      [] p \notin DOMAIN c /\ m.at # p -> "none"
      [] OTHER -> IF m.fs \in {"hostFile", "maskFile"} THEN "file"
                  ELSE IF m.fs = "device" THEN "device" ELSE "dir"

Above(p) == {q \in Places : IsPrefix(q, p)}
Missing(i, p) == {q \in Above(p) : Kind(i, q) = "none"}

MutantMkdirNotAll(i, p) == Kind(i, p) = "none" /\ Missing(i, p) = {p}

\* A file can be made where there is one, or on a mount that takes new ones.
TakesFiles(i, p) ==
    Covering(mounts[i], p).fs \in Private \cup {"rootfs"} /\ ~Covering(mounts[i], p).ro
MayMake(i, p) == Kind(i, p) = "none" => TakesFiles(i, p)

\* os.MkdirAll
MayMkdir(i, p) ==
    /\ \A q \in Above(p) : Kind(i, q) \in {"dir", "none"}
    /\ Missing(i, p) # {} => TakesFiles(i, p)

\* New files of a kind, put onto those that are there; a file that is missing.
Fresh(paths, kind) == [p \in paths |-> kind]
Onto(new, old) == [p \in DOMAIN new \cup DOMAIN old |-> IF p \in DOMAIN new THEN new[p] ELSE old[p]]
MkdirFiles(i, p) == Fresh(Missing(i, p), "dir")
Absent(i, p) == {q \in {p} : Kind(i, q) = "none"}

\* New files come into being on the mount that the path leads to.
Put(i, p, files) ==
    IF Covering(mounts[i], p).fs \in Private
    THEN tmp' = [tmp EXCEPT ![i] = Onto(files, @)] /\ UNCHANGED disk
    ELSE disk' = Onto(files, disk) /\ UNCHANGED tmp

\* A bind of a path onto itself, with the visible mounts below it or without.
Below(ms, p) ==
    [k \in DOMAIN ms |->
        IF IsStrictPrefix(p, ms[k].at) /\ k = Max(Over(ms, ms[k].at)) THEN ms[k] ELSE Detached]
SelfBind(ms, p, ro, below) == Append(ms, Mount(p, Covering(ms, p).fs, ro)) \o below

\* A remount may not clear the options of a mount that came from the host.
MayRemount(i, fs) == ~(specs[i].rootless /\ machine.locked /\ fs \in FromHost \cup {"rootfs"})

\* A mount that init makes comes up on the host as long as they are peers.
Attach(i, ms) ==
    /\ mounts' = [mounts EXCEPT ![i] = ms]
    /\ hostSees' = hostSees \cup IF peer[i] = "shared" THEN {i} ELSE {}

----------------------------------------------------------------------------

\* The namespace is a copy of the host's; that of a user namespace is a slave.
RootfsInit ==
    /\ specs \in RootfsSpecs /\ machine \in Machines
    /\ step = [i \in Inits |-> "private"] /\ next = [i \in Inits |-> 1]
    /\ mounts = [i \in Inits |-> <<>>]
    /\ peer = [i \in Inits |-> IF specs[i].rootless THEN "slave" ELSE "shared"]
    /\ disk \in Disks /\ tmp = [i \in Inits |-> <<>>]
    /\ tuned = {} /\ hostSees = {} /\ hostMounted = FALSE

Goto(i, to) == step' = [step EXCEPT ![i] = to] /\ next' = [next EXCEPT ![i] = 1]

\* Every error is returned at once, and init exits.
StepTo(i, at, ok, then) == step[i] = at /\ Goto(i, IF ok THEN then ELSE "failed")

\* A step of a loop over a list, whose end is a step of its own.
Again(i, at, ok) ==
    /\ step[i] = at
    /\ IF ok THEN next' = [next EXCEPT ![i] = @ + 1] /\ UNCHANGED step ELSE Goto(i, "failed")
AtEnd(i, at, list, then) ==
    /\ next[i] > Len(list)
    /\ StepTo(i, at, TRUE, then)
    /\ UNCHANGED <<mounts, disk, tmp, hostSees>>

Fixed == <<specs, machine, peer, tuned, hostMounted>>

----------------------------------------------------------------------------
(* prepareRootfs *)

MutantPrivateNotRecursive(i) ==
    /\ StepTo(i, "private", TRUE, "bind")
    /\ UNCHANGED <<Fixed, mounts, disk, tmp, hostSees>>

MakeMountsPrivate(i) ==
    /\ StepTo(i, "private", TRUE, "bind")
    /\ peer' = [peer EXCEPT ![i] = "private"]
    /\ UNCHANGED <<specs, machine, mounts, disk, tmp, tuned, hostSees, hostMounted>>

\* The recursive bind brings what the host has mounted in the directory.
BindRootfs(i) ==
    /\ StepTo(i, "bind", TRUE, "propagation")
    /\ Attach(i, <<Mount(Top, "rootfs", FALSE)>>
                 \o (IF machine.procThere THEN <<Mount(Proc, "hostProc", FALSE)>> ELSE <<>>)
                 \o (IF hostMounted THEN <<Mount(Data, "hostDir", FALSE)>> ELSE <<>>))
    /\ UNCHANGED <<Fixed, disk, tmp>>

\* A mount without peers has no master to become the slave of.
SetPropagation(i) ==
    /\ StepTo(i, "propagation", specs[i].propagation \notin {"shared", "unknown"}, "mounts")
    /\ peer' = [peer EXCEPT ![i] = IF specs[i].propagation = "slave" /\ @ = "shared" THEN "slave"
                                   ELSE IF specs[i].propagation \in {"private", "unbindable"} THEN "private"
                                   ELSE @]
    /\ UNCHANGED <<specs, machine, mounts, disk, tmp, tuned, hostSees, hostMounted>>

\* The flags a spec's mount ends up with: a bind is remounted read-only.
ReadonlyMount(m) == m.ro

\* Mount points are made as needed, a file for a file; then the mount follows.
MountOne(i) ==
    /\ next[i] <= Len(specs[i].mounts)
    /\ LET m == specs[i].mounts[next[i]]
           dir == IF m.fs = "hostFile" THEN Front(m.at) ELSE m.at
           made == /\ specs[i].wrong # "source" \/ m.fs \notin FromHost
                   /\ MayMkdir(i, dir)
                   /\ m.fs = "hostFile" => Kind(i, m.at) # "dir" /\ MayMake(i, m.at)
           files == Onto(MkdirFiles(i, dir),
                         Fresh({p \in Absent(i, m.at) : m.fs = "hostFile"}, "file"))
           onTmpfs == Covering(mounts[i], m.at).fs \in Private
           inTmp == IF onTmpfs THEN Onto(files, tmp[i]) ELSE tmp[i]
           emptied == IF m.fs \in Private THEN {p \in Places : IsStrictPrefix(m.at, p)} ELSE {} IN
       /\ Again(i, "mounts", made /\ (m.ro /\ m.fs \in FromHost => MayRemount(i, m.fs)))
       /\ IF made
          THEN /\ Attach(i, Append(mounts[i], Mount(m.at, m.fs, ReadonlyMount(m))))
               /\ tmp' = [tmp EXCEPT ![i] = Restrict(inTmp, (DOMAIN inTmp) \ emptied)]
               /\ disk' = IF onTmpfs THEN disk ELSE Onto(files, disk)
          ELSE UNCHANGED <<mounts, hostSees, disk, tmp>>
    /\ UNCHANGED Fixed
MountsDone(i) == AtEnd(i, "mounts", specs[i].mounts, "devices") /\ UNCHANGED Fixed

\* mknod takes whatever is there already for the device.
MknodDevice(i) ==
    LET known == specs[i].wrong # "device"
        made == MayMkdir(i, Dev) /\ MayMake(i, Node)
        new == Fresh({p \in Absent(i, Node) : known}, "device") IN
    /\ ~specs[i].rootless
    /\ StepTo(i, "devices", made /\ known, "links")
    /\ IF made THEN Put(i, Node, Onto(MkdirFiles(i, Dev), new))
               ELSE UNCHANGED <<disk, tmp>>
    /\ UNCHANGED <<Fixed, mounts, hostSees>>

MutantStatOfTarget(i) ==
    LET dir == MkdirFiles(i, Dev)
        ok == MayMkdir(i, Dev) IN
    /\ specs[i].rootless
    /\ StepTo(i, "devices", ok, "links")
    /\ IF ~ok THEN UNCHANGED <<mounts, hostSees, disk, tmp>>
       ELSE IF Kind(i, Node) = "none" THEN Put(i, Node, dir) /\ UNCHANGED <<mounts, hostSees>>
       ELSE Put(i, Node, dir) /\ Attach(i, Append(mounts[i], Mount(Node, "device", FALSE)))
    /\ UNCHANGED Fixed

\* Without mknod the host's node is bound, if the host has it.
BindDevice(i) ==
    LET dir == MkdirFiles(i, Dev)
        new == Fresh(Absent(i, Node), "file")
        ok == MayMkdir(i, Dev) /\ (machine.lacksNode \/ (Kind(i, Node) # "dir" /\ MayMake(i, Node))) IN
    /\ specs[i].rootless
    /\ StepTo(i, "devices", ok, "links")
    /\ IF ~ok THEN UNCHANGED <<mounts, hostSees, disk, tmp>>
       ELSE IF machine.lacksNode THEN Put(i, Node, dir) /\ UNCHANGED <<mounts, hostSees>>
       ELSE Put(i, Node, Onto(dir, new)) /\ Attach(i, Append(mounts[i], Mount(Node, "device", FALSE)))
    /\ UNCHANGED Fixed

CreateDevSymlinks(i) ==
    /\ StepTo(i, "links", MayMake(i, Link), "sysctl")
    /\ IF MayMake(i, Link) THEN Put(i, Link, Fresh(Absent(i, Link), "link")) ELSE UNCHANGED <<disk, tmp>>
    /\ UNCHANGED <<Fixed, mounts, hostSees>>

\* A write through the host's procfs is a write to the host.  In a directory
\* that is no procfs os.WriteFile makes the file.
ApplySysctls(i) ==
    LET m == Covering(mounts[i], Key)
        there == \/ Kind(i, Key) = "file"
                 \/ Kind(i, Key) = "none" /\ Kind(i, Sys) = "dir" /\ TakesFiles(i, Key)
        ok == /\ specs[i].wrong # "sysctl" /\ there /\ ~m.ro
              /\ m.fs = "hostProc" => ~specs[i].rootless IN
    /\ StepTo(i, "sysctl", specs[i].sysctl => ok, "masks")
    /\ tuned' = tuned \cup IF specs[i].sysctl /\ ok
                           THEN {IF m.fs = "hostProc" THEN "host" ELSE i} ELSE {}
    /\ IF specs[i].sysctl /\ ok THEN Put(i, Key, Fresh(Absent(i, Key), "file"))
                                ELSE UNCHANGED <<disk, tmp>>
    /\ UNCHANGED <<specs, machine, peer, hostMounted, mounts, hostSees>>

\* A tmpfs over a directory, /dev/null over a file, nothing over nothing.
MaskPath(i) ==
    /\ next[i] <= Len(specs[i].masked)
    /\ Again(i, "masks", TRUE)
    /\ LET p == specs[i].masked[next[i]] IN
       CASE Kind(i, p) = "none" -> UNCHANGED <<mounts, hostSees>>
         [] Kind(i, p) = "dir" -> Attach(i, Append(mounts[i], Mount(p, "maskDir", TRUE)))
         [] OTHER -> Attach(i, Append(mounts[i], Mount(p, "maskFile", FALSE)))
    /\ UNCHANGED <<Fixed, disk, tmp>>
MasksDone(i) == AtEnd(i, "masks", specs[i].masked, "readonly") /\ UNCHANGED Fixed

MutantBindNotRecursive(i) ==
    /\ next[i] <= Len(specs[i].readonly)
    /\ LET p == specs[i].readonly[next[i]] IN
       /\ Again(i, "readonly", TRUE)
       /\ IF Kind(i, p) = "none" THEN UNCHANGED <<mounts, hostSees>>
          ELSE Attach(i, SelfBind(mounts[i], p, TRUE, <<>>))
    /\ UNCHANGED <<Fixed, disk, tmp>>

\* The mount of the directory itself, the first one, can be unbindable.
Bindable(i, p) == ~(specs[i].propagation = "unbindable" /\ Max(Over(mounts[i], p)) = 1)

\* The remount that follows the bind reaches the mount at the path, not those
\* below it.
ReadonlyPath(i) ==
    /\ next[i] <= Len(specs[i].readonly)
    /\ LET p == specs[i].readonly[next[i]]
           ok == MayRemount(i, Covering(mounts[i], p).fs)
           there == Kind(i, p) # "none" IN
       /\ Again(i, "readonly", there => Bindable(i, p) /\ ok)
       /\ IF there /\ Bindable(i, p) THEN Attach(i, SelfBind(mounts[i], p, ok, Below(mounts[i], p)))
          ELSE UNCHANGED <<mounts, hostSees>>
    /\ UNCHANGED <<Fixed, disk, tmp>>
Prepared(i) == AtEnd(i, "readonly", specs[i].readonly, "mkOldroot") /\ UNCHANGED Fixed

----------------------------------------------------------------------------
(* finalizeRootfs *)

MakeOldroot(i) ==
    /\ StepTo(i, "mkOldroot", MayMkdir(i, OldRoot), "pivot")
    /\ IF MayMkdir(i, OldRoot) THEN Put(i, OldRoot, MkdirFiles(i, OldRoot)) ELSE UNCHANGED <<disk, tmp>>
    /\ UNCHANGED <<Fixed, mounts, hostSees>>

PivotRoot(i) ==
    LET ok == Kind(i, OldRoot) = "dir" /\ peer[i] # "shared" IN
    /\ StepTo(i, "pivot", ok, "detach")
    /\ IF ok THEN Attach(i, Append(mounts[i], Mount(OldRoot, "host", FALSE)))
             ELSE UNCHANGED <<mounts, hostSees>>
    /\ UNCHANGED <<Fixed, disk, tmp>>

MutantOldrootNotDetached(i) ==
    /\ StepTo(i, "detach", TRUE, "rmOldroot")
    /\ UNCHANGED <<Fixed, mounts, hostSees, disk, tmp>>

\* What a spec or a mask has put at .oldroot stays.
DetachOldroot(i) ==
    LET ok == Covering(mounts[i], OldRoot).fs = "host" IN
    /\ StepTo(i, "detach", ok, "rmOldroot")
    /\ mounts' = [mounts EXCEPT ![i] = WithoutHost(@)]
    /\ UNCHANGED <<Fixed, hostSees, disk, tmp>>

\* rmdir fails on a mount point, but takes down what other namespaces have
\* mounted on the directory.
RemoveOldroot(i) ==
    LET root == Covering(mounts[i], OldRoot)
        ok == root.at # OldRoot /\ Kind(i, OldRoot) = "dir" /\ TakesFiles(i, OldRoot)
        Left(files) == Restrict(files, (DOMAIN files) \ {OldRoot})
        \* Of those whose root is the directory.
        Taken(j) == IF mounts[j] # <<>> /\ Covering(mounts[j], Top).fs = "rootfs"
                    THEN Without(mounts[j], OldRoot) ELSE mounts[j] IN
    /\ StepTo(i, "rmOldroot", ok, "remount")
    /\ CASE ~ok -> UNCHANGED <<disk, tmp, mounts>>
         [] ok /\ root.fs = "rootfs" -> /\ disk' = Left(disk) /\ UNCHANGED tmp
                                        /\ mounts' = [j \in Inits |-> Taken(j)]
         [] OTHER -> tmp' = [tmp EXCEPT ![i] = Left(@)] /\ UNCHANGED <<disk, mounts>>
    /\ UNCHANGED <<Fixed, hostSees>>

\* The root is what init has pivoted into: the last mount at it.
RemountRoot(i) ==
    LET ok == MayRemount(i, Covering(mounts[i], Top).fs)
        root == Max(Over(mounts[i], Top)) IN
    /\ StepTo(i, "remount", specs[i].readonlyRoot => ok, "cwd")
    /\ IF specs[i].readonlyRoot /\ ok THEN mounts' = [mounts EXCEPT ![i][root].ro = TRUE]
                                      ELSE UNCHANGED mounts
    /\ UNCHANGED <<Fixed, hostSees, disk, tmp>>

Chdir(i) ==
    /\ StepTo(i, "cwd", specs[i].wrong # "cwd", "done")
    /\ UNCHANGED <<Fixed, mounts, hostSees, disk, tmp>>

----------------------------------------------------------------------------

\* The creator kills init, or somebody else does; its namespace goes with it.
Killed(i) ==
    /\ step[i] \in Preparing \cup Finalizing
    /\ Goto(i, "killed")
    /\ UNCHANGED <<Fixed, mounts, hostSees, disk, tmp>>

\* The host mounts something on a directory in the rootfs.
HostMounts ==
    /\ ~hostMounted /\ hostMounted' = TRUE
    /\ mounts' = [i \in Inits |-> IF mounts[i] # <<>> /\ peer[i] # "private"
                                  THEN Append(mounts[i], Mount(Data, "hostDir", FALSE))
                                  ELSE mounts[i]]
    /\ UNCHANGED <<specs, machine, step, next, peer, disk, tmp, tuned, hostSees>>

PrepareRootfs(i) ==
    \/ MakeMountsPrivate(i) \/ BindRootfs(i) \/ SetPropagation(i) \/ MountOne(i) \/ MountsDone(i)
    \/ MknodDevice(i) \/ BindDevice(i) \/ CreateDevSymlinks(i) \/ ApplySysctls(i)
    \/ MaskPath(i) \/ MasksDone(i) \/ ReadonlyPath(i) \/ Prepared(i)

FinalizeRootfs(i) ==
    \/ MakeOldroot(i) \/ PivotRoot(i) \/ DetachOldroot(i) \/ RemoveOldroot(i)
    \/ RemountRoot(i) \/ Chdir(i)

RootfsNext == HostMounts \/ \E i \in Inits : PrepareRootfs(i) \/ FinalizeRootfs(i) \/ Killed(i)

RootfsSpec == RootfsInit /\ [][RootfsNext]_rootfsVars

----------------------------------------------------------------------------
(* Properties *)

Done(i) == step[i] = "done"

\* Every variable has its type, no namespace has a mount before the bind, and
\* the old root is mounted only between the pivot and its detach.
RootfsTypeOK ==
    /\ specs \in [Inits -> RootfsSpecType] /\ machine \in MachineType
    /\ step \in [Inits -> Preparing \cup Finalizing \cup {"done", "failed", "killed"}]
    /\ next \in [Inits -> Nat \ {0}]
    /\ \A i \in Inits :
          /\ \A k \in DOMAIN mounts[i] : mounts[i][k].at \in Places \cup {Nowhere} /\ mounts[i][k].ro \in BOOLEAN
          /\ step[i] \notin {"private", "bind", "killed"} => mounts[i] # <<>> /\ mounts[i][1].at = Top
          /\ (\E k \in DOMAIN mounts[i] : mounts[i][k].fs = "host") => step[i] \in {"detach", "killed"}
          /\ DOMAIN tmp[i] \subseteq Places /\ \A p \in DOMAIN tmp[i] : tmp[i][p] \in Kinds
    /\ peer \in [Inits -> {"shared", "slave", "private"}]
    /\ DOMAIN disk \subseteq Places /\ \A p \in DOMAIN disk : disk[p] \in Kinds
    /\ tuned \subseteq Inits \cup {"host"} /\ hostSees \subseteq Inits /\ hostMounted \in BOOLEAN

\* A spec that has the host's procfs at /proc, or nothing there to cover it.
ProcSource(i) ==
    IF Over(specs[i].mounts, Key) # {} THEN Covering(specs[i].mounts, Key).fs
    ELSE IF machine.procThere THEN "hostProc" ELSE "none"

\* "Anything mounted before this propagates back to the host", and "writing
\* through the host's reconfigures the host": no mount comes up on the host, and
\* a sysctl is written there only for a spec that leaves the host's procfs in place.
HostUndisturbed ==
    /\ hostSees = {}
    /\ "host" \in tuned => \E i \in Inits : ProcSource(i) = "hostProc"

Masked(i, p) == Covering(mounts[i], p).fs \in {"maskDir", "maskFile"}

\* A container that is set up sees no masked path, although the read-only
\* binds come after the masks and cover what they are made of.
MasksHold ==
    \A i \in Inits : Done(i) =>
        \A p \in ToSet(specs[i].masked) : Kind(i, p) = "none" \/ Masked(i, p)

\* Whether the mount that a path leads to is the one the spec has put there last,
\* and not a device that is bound.
Uncovered(i, k) ==
    LET at == specs[i].mounts[k].at IN
    /\ \A l \in DOMAIN specs[i].mounts : l > k => ~IsPrefix(specs[i].mounts[l].at, at)
    /\ ~(specs[i].rootless /\ at = Node)

\* What is to be read-only is: paths, binds and the root.
ReadonlyHolds ==
    \A i \in Inits : Done(i) =>
        /\ \A p \in ToSet(specs[i].readonly) :
              Kind(i, p) = "none" \/ Masked(i, p) \/ Covering(mounts[i], p).ro
        /\ \A k \in DOMAIN specs[i].mounts :
              LET m == specs[i].mounts[k] IN
              m.ro /\ Uncovered(i, k) => Masked(i, m.at) \/ Covering(mounts[i], m.at).ro
        /\ specs[i].readonlyRoot => Covering(mounts[i], Top).ro

\* The protection asked for is what the container sees in the end.
ProtectionHolds == MasksHold /\ ReadonlyHolds

\* A container that is set up has its devices, if its /dev is its own.
DevicesThere ==
    \A i \in Inits :
        /\ Done(i)
        /\ \E k \in DOMAIN specs[i].mounts : specs[i].mounts[k].at = Dev /\ specs[i].mounts[k].fs = "tmpfs"
        /\ ~(specs[i].rootless /\ machine.lacksNode)
        => Kind(i, Node) = "device"

\* A spec that makes sense, on a host that permits it.
Permitted(i) ==
    /\ specs[i].wrong = "nothing" /\ specs[i].propagation \notin {"shared", "unknown"}
    /\ specs[i].sysctl => \/ ProcSource(i) = "proc"
                          \/ ProcSource(i) = "hostProc" /\ ~specs[i].rootless
    /\ specs[i].propagation = "unbindable" =>
          \A p \in ToSet(specs[i].readonly) : Over(specs[i].mounts, p) # {}
    /\ specs[i].rootless /\ machine.locked =>
          /\ ~specs[i].readonlyRoot /\ ToSet(specs[i].readonly) \subseteq {Sys} /\ ProcSource(i) # "hostProc"
          /\ \A k \in DOMAIN specs[i].mounts : ~(specs[i].mounts[k].ro /\ specs[i].mounts[k].fs \in FromHost)

\* Init is refused for a cause, or because another init has removed the
\* .oldroot that they share.
RefusedForCause ==
    \A i \in Inits : step[i] = "failed" =>
        \/ ~Permitted(i)
        \/ \E j \in Inits \ {i} : step[j] \in {"remount", "cwd", "done", "failed", "killed"}

\* "Use rslave if the container should see host mounts appear" (fs.go).
SlaveSeesHostMounts ==
    [][\A i \in Inits : Done(i) /\ specs[i].propagation = "slave" /\ hostMounted' /\ ~hostMounted
           => Covering(mounts'[i], Data).fs = "hostDir"]_rootfsVars

\* A container that is set up has its devices, whoever used the directory before.
DevicesAlwaysThere ==
    \A i \in Inits : Done(i) /\ ~(specs[i].rootless /\ machine.lacksNode) => Kind(i, Node) = "device"

\* Containers may be set up from one directory at a time.
SharingIsSafe == \A i \in Inits : step[i] = "failed" => ~Permitted(i)

\* Whatever lies below a read-only path is read-only.
ReadonlyBelow ==
    \A i \in Inits : Done(i) =>
        \A p \in ToSet(specs[i].readonly), k \in DOMAIN mounts[i] :
            LET m == mounts[i][k] IN
            IsPrefix(p, m.at) /\ Covering(mounts[i], m.at) = m => m.ro \/ Masked(i, m.at)
=============================================================================

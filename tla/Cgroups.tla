------------------------------- MODULE Cgroups -------------------------------
(***************************************************************************)
(* CgroupManager: several containers are put into one cgroup v2 tree and   *)
(* given their limits, file by file, while others come and go.  A step is  *)
(* one write, mkdir or rmdir in the tree; the tree's own rules (what may   *)
(* be enabled, joined or removed) are the kernel's.                        *)
(*                                                                         *)
(* A cgroup is its path, a sequence of names that begins with Root, the    *)
(* hierarchy's root or the user's delegated subtree.  Ids are not reused   *)
(* while in use (Lifecycle.tla).  Unlimited is the interface files' "max". *)
(*                                                                         *)
(* The operators named Mutant... are not part of the model (README.md).    *)
(***************************************************************************)
EXTENDS Integers, SequencesExt

CONSTANTS
    Conts,       \* the containers that are created
    Id,          \* the id of each
    CgroupsPath, \* the spec's cgroupsPath as a sequence of names, <<>> if unset
    Asks,        \* the spec's resources: [Keys -> Int \cup {Unset}]
    Hosts,       \* the hosts to look at, see HostType
    Faults,      \* what may go wrong, a subset of FaultKinds
    Unlimited, Unset

Root == <<"root">>
Controllers == {"memory", "cpu", "cpuset", "pids", "io"}
Keys == {"limit", "reservation", "swap", "quota", "period", "shares", "cpus", "mems", "pids"}
FaultKinds == {"creatorDies", \* create is killed
               "linger"}      \* processes of the container outlive its init

\* What the root cgroup offers, what of it is enabled for its children, and
\* whether it holds processes and is not the hierarchy's root.
HostType == [controllers : SUBSET Controllers, enabled : SUBSET Controllers,
             busy : BOOLEAN]

----------------------------------------------------------------------------
(* Translation of the spec *)

\* filepath.Join cleans the path lexically.
Clean(path) ==
    FoldLeft(LAMBDA done, part :
                 IF part # ".." THEN Append(done, part)
                 ELSE IF done = <<>> THEN done ELSE Front(done),
             <<>>, path)

ContainerCgroupPath(c) ==
    Clean(Root \o IF CgroupsPath[c] = <<>> THEN <<"lightpod", Id[c]>>
                  ELSE CgroupsPath[c])

MutantRootAccepted(c) == IsPrefix(Root, ContainerCgroupPath(c))

\* The path must be below the root and not the root itself.
Accepted(c) == IsStrictPrefix(Root, ContainerCgroupPath(c))

FormatLimit(v) == IF v <= 0 THEN Unlimited ELSE v

\* cpu.shares to cpu.weight, without the two ends of the 64 bits: a share of 1
\* wraps around below zero, and products of shares above 2^64 \div 9999 wrap.
SharesToWeight(shares) ==
    LET weight == 1 + ((shares - 2) * 9999) \div 262142 IN
    IF shares = 1 \/ weight > 10000 THEN 10000 ELSE weight

Section(c, keys) == \E k \in keys : Asks[c][k] # Unset

\* checkControllers asks for a controller per section of the spec.
Needed(c) ==
    (IF Section(c, {"limit", "reservation", "swap"}) THEN {"memory"} ELSE {}) \cup
    (IF Section(c, {"quota", "period", "shares", "cpus", "mems"}) THEN {"cpu"} ELSE {}) \cup
    (IF Section(c, {"pids"}) THEN {"pids"} ELSE {})

\* The files in the order in which SetResources writes them.
FileOrder == <<"memory.max", "memory.low", "memory.swap.max", "cpu.max",
               "cpu.weight", "cpuset.cpus", "cpuset.mems", "pids.max">>
Files == ToSet(FileOrder)
Precedes(f, g) ==
    \E i, j \in DOMAIN FileOrder : i < j /\ FileOrder[i] = f /\ FileOrder[j] = g
ControllerOf(f) ==
    CASE f \in {"memory.max", "memory.low", "memory.swap.max"} -> "memory"
      [] f \in {"cpu.max", "cpu.weight"} -> "cpu"
      [] f \in {"cpuset.cpus", "cpuset.mems"} -> "cpuset"
      [] f = "pids.max" -> "pids"

\* The spec's swap counts memory and swap together, the file swap alone.
SwapMax(r) ==
    IF r["swap"] = Unset \/ r["limit"] = Unset THEN Unset
    ELSE FormatLimit(IF r["swap"] <= 0 THEN r["swap"] ELSE r["swap"] - r["limit"])

\* The time that the quota is given for, in microseconds.
Period(r) == IF r["period"] # Unset /\ r["period"] > 0 THEN r["period"] ELSE 100000

\* What SetResources writes to a file, Unset if nothing.
ValueFor(r, f) ==
    LET given(k, v) == IF r[k] = Unset THEN Unset ELSE v IN
    CASE f = "memory.max"      -> given("limit", FormatLimit(r["limit"]))
      [] f = "memory.low"      -> given("reservation", FormatLimit(r["reservation"]))
      [] f = "memory.swap.max" -> SwapMax(r)
      [] f = "cpu.max"         -> given("quota", <<FormatLimit(r["quota"]), Period(r)>>)
      [] f = "cpu.weight"      -> IF r["shares"] = Unset \/ r["shares"] <= 0
                                  THEN Unset ELSE SharesToWeight(r["shares"])
      [] f = "cpuset.cpus"     -> r["cpus"]
      [] f = "cpuset.mems"     -> r["mems"]
      [] f = "pids.max"        -> given("pids", FormatLimit(r["pids"]))

Writes(c) == {f \in Files : ValueFor(Asks[c], f) # Unset}

\* What a file may hold: cpu.max has two fields.
ValuesOf(f) ==
    {Unlimited} \cup IF f = "cpu.max" THEN (Int \cup {Unlimited}) \X Int ELSE Int

----------------------------------------------------------------------------

Leaf == [c \in Conts |-> ContainerCgroupPath(c)]

\* The cgroups the containers' paths go through.
Dirs == {Root} \cup UNION {{SubSeq(Leaf[c], 1, i) : i \in 1..Len(Leaf[c])} : c \in Conts}

ASSUME HostsAssumption == Hosts \subseteq HostType /\ \A h \in Hosts : h.enabled \subseteq h.controllers
ASSUME ValuesAssumption ==
    Unlimited \notin Int /\ Unset \notin {Unlimited} \cup Int \cup (({Unlimited} \cup Int) \X Int)
ASSUME AsksAssumption == Asks \in [Conts -> [Keys -> Int \cup {Unset}]]
ASSUME FaultsAssumption == Faults \subseteq FaultKinds
\* filepath.Join returns a path, whatever it is given.
ASSUME LeafAssumption == \A c \in Conts : Leaf[c] \in Seq(STRING)

VARIABLES
    host,    \* the host it all happens on
    dirs,    \* the cgroups that exist
    subtree, \* cgroup.subtree_control of each
    value,   \* the interface files of each, Unlimited if never written
    member,  \* the cgroup each container's processes are in, <<>> if in none
    pc,      \* where each create is, and the container after it
    level,   \* how far down enableControllers has come, the length of a path
    todo     \* the files SetResources has yet to write

vars == <<host, dirs, subtree, value, member, pc, level, todo>>
tree == <<dirs, subtree, value>>

Ended == {"failed", "stopped", "dead"}
Creating == {"enable", "newLeaf", "check", "apply", "write"}
PCs == Ended \cup Creating \cup {"idle", "abort", "rmLeaf", "running", "cleanup"}

InProgress(c) == pc[c] \notin Ended \cup {"idle"}

NoLimits == [f \in Files |-> Unlimited]

Init ==
    /\ host \in Hosts
    /\ dirs = {Root}
    /\ subtree = [d \in Dirs |-> IF d = Root THEN host.enabled ELSE {}]
    /\ value = [d \in Dirs |-> NoLimits]
    /\ member = [c \in Conts |-> <<>>]
    /\ pc = [c \in Conts |-> "idle"]
    /\ level = [c \in Conts |-> Len(Root)]
    /\ todo = [c \in Conts |-> {}]

Goto(c, l) == pc' = [pc EXCEPT ![c] = l]

(* The kernel's rules *)

Available(d) == IF d = Root THEN host.controllers ELSE subtree[Front(d)]

Holds(d) == d # Root /\ \E c \in Conts : member[c] = d

\* Controllers that are enabled already are no matter; new ones must be
\* available and the cgroup without processes, and it is all or nothing.
AfterEnable(d, wanted) ==
    IF /\ wanted \ subtree[d] \subseteq Available(d)
       /\ ~Holds(d) /\ ~(d = Root /\ host.busy)
    THEN subtree[d] \cup wanted ELSE subtree[d]

\* No processes where controllers are enabled for children, but for the root.
MayJoin(d) == d \in dirs /\ (d = Root \/ subtree[d] = {})

Ancestors(d) == {SubSeq(d, 1, i) : i \in Len(Root)..Len(d)}

MkdirAll(d) == dirs' = dirs \cup Ancestors(d)

\* rmdir leaves a cgroup with processes or children alone, and one that is
\* made again is as new.
Rmdir(d) ==
    IF d = Root \/ (\E c \in Conts : member[c] = d) \/ \E e \in dirs : IsStrictPrefix(d, e)
    THEN UNCHANGED tree
    ELSE /\ dirs' = dirs \ {d}
         /\ subtree' = [subtree EXCEPT ![d] = {}]
         /\ value' = [value EXCEPT ![d] = NoLimits]

----------------------------------------------------------------------------
(* NewCgroupManager *)

Begin(c) ==
    /\ pc[c] = "idle"
    /\ \A q \in Conts \ {c} : Id[q] = Id[c] => ~InProgress(q)
    /\ Goto(c, IF Accepted(c) THEN "enable" ELSE "failed")
    /\ UNCHANGED <<host, tree, member, level, todo>>

MutantLeafEnabledToo(c) ==
    /\ pc[c] = "enable"
    /\ LET d == SubSeq(Leaf[c], 1, level[c]) IN
       /\ MkdirAll(d)
       /\ subtree' = [subtree EXCEPT ![d] = AfterEnable(d, host.controllers)]
    /\ level' = [level EXCEPT ![c] = @ + 1]
    /\ Goto(c, IF level[c] >= Len(Leaf[c]) THEN "newLeaf" ELSE "enable")
    /\ UNCHANGED <<host, value, member, todo>>

\* enableControllers makes each level above the leaf and writes what the root
\* has to offer to its subtree_control; the write may fail.  Whoever removes the
\* level before the write might as well do so after it.
EnableLevel(c) ==
    /\ pc[c] = "enable"
    /\ LET d == SubSeq(Leaf[c], 1, level[c]) IN
       IF level[c] < Len(Leaf[c]) /\ host.controllers # {}
       THEN /\ MkdirAll(d)
            /\ subtree' = [subtree EXCEPT ![d] = AfterEnable(d, host.controllers)]
            /\ level' = [level EXCEPT ![c] = @ + 1]
            /\ UNCHANGED pc
       ELSE Goto(c, "newLeaf") /\ UNCHANGED <<dirs, subtree, level>>
    /\ UNCHANGED <<host, value, member, todo>>

\* The loop's position goes with the call.
NewLeaf(c) ==
    /\ pc[c] = "newLeaf"
    /\ MkdirAll(Leaf[c])
    /\ level' = [level EXCEPT ![c] = Len(Root)]
    /\ Goto(c, "check")
    /\ UNCHANGED <<host, subtree, value, member, todo>>

MutantLeafKept(c) ==
    /\ pc[c] = "check"
    /\ Goto(c, IF Leaf[c] \in dirs /\ Needed(c) \subseteq Available(Leaf[c])
               THEN "apply" ELSE "failed")
    /\ UNCHANGED <<host, tree, member, level, todo>>

CheckControllers(c) ==
    /\ pc[c] = "check"
    /\ Goto(c, IF Needed(c) = {} \/ (/\ Leaf[c] \in dirs
                                     /\ Needed(c) \subseteq Available(Leaf[c]))
               THEN "apply" ELSE "rmLeaf")
    /\ UNCHANGED <<host, tree, member, level, todo>>

----------------------------------------------------------------------------
(* Apply, SetResources, Cleanup *)

Apply(c) ==
    /\ pc[c] = "apply"
    /\ IF MayJoin(Leaf[c])
       THEN /\ member' = [member EXCEPT ![c] = Leaf[c]]
            /\ todo' = [todo EXCEPT ![c] = Writes(c)]
            /\ Goto(c, "write")
       ELSE Goto(c, "abort") /\ UNCHANGED <<member, todo>>
    /\ UNCHANGED <<host, tree, level>>

\* The next of the files in their order.
IsNext(f, files) == f \in files /\ ~\E g \in files : Precedes(g, f)

MutantWriteErrorIgnored(c) ==
    /\ pc[c] = "write"
    /\ \E f \in todo[c] :
          /\ IsNext(f, todo[c])
          /\ value' = IF ControllerOf(f) \in Available(Leaf[c])
                      THEN [value EXCEPT ![Leaf[c]][f] = ValueFor(Asks[c], f)] ELSE value
          /\ todo' = [todo EXCEPT ![c] = @ \ {f}]
    /\ UNCHANGED <<host, dirs, subtree, member, pc, level>>

\* A file is there if its controller is; the first error ends SetResources.
WriteFile(c) ==
    /\ pc[c] = "write"
    /\ \E f \in todo[c] :
          /\ IsNext(f, todo[c])
          /\ IF Leaf[c] \in dirs /\ ControllerOf(f) \in Available(Leaf[c])
             THEN /\ value' = [value EXCEPT ![Leaf[c]][f] = ValueFor(Asks[c], f)]
                  /\ todo' = [todo EXCEPT ![c] = @ \ {f}]
                  /\ UNCHANGED pc
             ELSE Goto(c, "abort") /\ UNCHANGED <<value, todo>>
    /\ UNCHANGED <<host, dirs, subtree, member, level>>

\* All is written: init goes on with the rest of setup and its workload.
Release(c) ==
    /\ pc[c] = "write" /\ todo[c] = {}
    /\ Goto(c, "running")
    /\ UNCHANGED <<host, tree, member, level, todo>>

\* A failed create kills init and waits for it, then cleans up.
Abort(c) ==
    /\ pc[c] = "abort"
    /\ member' = [member EXCEPT ![c] = <<>>]
    /\ todo' = [todo EXCEPT ![c] = {}]
    /\ Goto(c, "rmLeaf")
    /\ UNCHANGED <<host, tree, level>>

\* Removes the leaf, and with the last of them the directory they are in.
MutantCleanupTidiesUp(c) ==
    /\ \/ pc[c] = "rmLeaf" /\ Goto(c, "failed")
       \/ pc[c] = "cleanup" /\ Goto(c, "stopped")
    /\ IF Len(Leaf[c]) < 3 \/ (\E e \in dirs \ {Leaf[c]} : IsStrictPrefix(Front(Leaf[c]), e))
          \/ \E d \in Conts : member[d] = Leaf[c]
       THEN Rmdir(Leaf[c])
       ELSE /\ dirs' = dirs \ {Leaf[c], Front(Leaf[c])}
            /\ subtree' = [d \in Dirs |-> IF d \in dirs' THEN subtree[d] ELSE {}]
            /\ value' = [d \in Dirs |-> IF d \in dirs' THEN value[d] ELSE NoLimits]
    /\ UNCHANGED <<host, member, level, todo>>

\* The leaf alone is removed; that it cannot be is reported and no error.
Cleanup(c) ==
    /\ \/ pc[c] = "rmLeaf" /\ Goto(c, "failed")
       \/ pc[c] = "cleanup" /\ Goto(c, "stopped")
    /\ Rmdir(Leaf[c])
    /\ UNCHANGED <<host, member, level, todo>>

----------------------------------------------------------------------------
(* The environment *)

\* The container ends and is deleted.  Without a pid namespace of its own its
\* processes may stay when init goes.
Stop(c) ==
    /\ pc[c] = "running"
    /\ Goto(c, "cleanup")
    /\ \/ member' = [member EXCEPT ![c] = <<>>]
       \/ "linger" \in Faults /\ UNCHANGED member
    /\ UNCHANGED <<host, tree, level, todo>>

\* Processes that stayed, and the init of a create that was killed, go later.
Vanish(c) ==
    /\ pc[c] \in {"cleanup", "stopped", "dead"} /\ member[c] # <<>>
    /\ member' = [member EXCEPT ![c] = <<>>]
    /\ UNCHANGED <<host, tree, pc, level, todo>>

CreatorDies(c) ==
    /\ "creatorDies" \in Faults /\ pc[c] \in Creating \cup {"abort", "rmLeaf"}
    /\ Goto(c, "dead")
    /\ level' = [level EXCEPT ![c] = Len(Root)]
    /\ todo' = [todo EXCEPT ![c] = {}]
    /\ UNCHANGED <<host, tree, member>>

Next == \E c \in Conts :
    \/ Begin(c) \/ EnableLevel(c) \/ NewLeaf(c) \/ CheckControllers(c)
    \/ Apply(c) \/ WriteFile(c) \/ Release(c) \/ Abort(c) \/ Cleanup(c)
    \/ Stop(c) \/ Vanish(c) \/ CreatorDies(c)

Spec == Init /\ [][Next]_vars

----------------------------------------------------------------------------
(* Properties *)

\* Every variable has its type; a container's processes are in a cgroup that
\* exists, its own, and enableControllers stops above the leaf.
TypeOK ==
    /\ host \in Hosts
    /\ dirs \subseteq Dirs /\ Root \in dirs
    /\ subtree \in [Dirs -> SUBSET Controllers]
    /\ \A d \in Dirs : DOMAIN value[d] = Files /\ \A f \in Files : value[d][f] \in ValuesOf(f)
    /\ \A c \in Conts : member[c] # <<>> => member[c] = Leaf[c] /\ Leaf[c] \in dirs
    /\ pc \in [Conts -> PCs]
    /\ \A c \in Conts : level[c] \in Len(Root)..Len(Leaf[c]) \/ ~Accepted(c)
    /\ \A c \in Conts : /\ todo[c] \subseteq Writes(c)
                       /\ \A f \in todo[c], g \in Writes(c) : Precedes(f, g) => g \in todo[c]

\* The limit that is in force is one the spec allows.
AtMost(v, limit) == limit \notin {Unset} => limit <= 0 \/ (v # Unlimited /\ v <= limit)

\* A container that runs is in its cgroup, with the limits of its spec.
LimitsOf(c) ==
    LET r == Asks[c]
        v == value[Leaf[c]] IN
    pc[c] = "running" =>
        /\ member[c] = Leaf[c]
        /\ AtMost(v["memory.max"], r["limit"])
        /\ r["quota"] # Unset /\ r["quota"] > 0 => v["cpu.max"] = <<r["quota"], Period(r)>>
        /\ AtMost(v["pids.max"], r["pids"])
        /\ r["cpus"] # Unset => v["cpuset.cpus"] = r["cpus"]
        /\ r["mems"] # Unset => v["cpuset.mems"] = r["mems"]
        /\ Unset \notin {r["limit"], r["swap"]} /\ r["limit"] > 0 /\ r["swap"] > r["limit"] =>
               v["memory.swap.max"] # Unlimited
               /\ v["memory.max"] + v["memory.swap.max"] <= r["swap"]

\* "A container asked to stay under 64MB that silently got no limit is worse
\* than one that refused to start": while a container runs, and whatever other
\* containers come and go, its processes are in its cgroup, every limit of its
\* spec is in force there, and memory and swap together stay below the spec's
\* combined value (if that leaves swap at all).
LimitsHold == \A c \in Conts : LimitsOf(c)

\* "Limits written at the root apply to everything on the host": nothing is
\* ever written to the root's files and no container lives there.
RootUntouched == value[Root] = NoLimits /\ \A c \in Conts : member[c] # Root

Related(c, d) == IsStrictPrefix(Leaf[c], Leaf[d]) \/ IsStrictPrefix(Leaf[d], Leaf[c])

\* The controllers the host can pass on: a root with processes takes nothing new,
\* and one controller that is missing at a level makes the whole write fail.
Offered == IF host.busy /\ host.enabled # host.controllers THEN {} ELSE host.controllers

\* What a create may be refused for.
HasCause(c) ==
    \/ ~Accepted(c)
    \/ ~(Needed(c) \cup {ControllerOf(f) : f \in Writes(c)} \subseteq Offered)
    \/ \E d \in Conts : Accepted(d) /\ Related(c, d) /\ pc[d] # "idle"

\* A create is refused only for its path, for a controller that the host does
\* not have or cannot pass on, or for a container that has begun above or below
\* it: what others enable, make and remove beside it does not get in its way.
RefusedForCause == \A c \in Conts : pc[c] = "failed" => HasCause(c)

\* "A device retrying the same container for weeks shouldn't pile up empty
\* directories": a create that fails leaves its cgroup only to processes in it
\* or to a cgroup below it.
FailureLeavesNoCgroup ==
    [][\A c \in Conts : pc[c] # "failed" /\ pc'[c] = "failed" =>
         \/ Leaf[c] \notin dirs' \/ ~Accepted(c)
         \/ \E d \in Conts \ {c} : member[d] = Leaf[c]
         \/ \E e \in dirs' : IsStrictPrefix(Leaf[c], e)]_vars

\* "v2 counts swap on its own, so subtract memory back out of the spec's
\* combined value": memory and swap together stay below that value also when it
\* leaves no swap.
SwapHolds ==
    \A c \in Conts : pc[c] = "running" =>
        LET r == Asks[c]
            v == value[Leaf[c]] IN
        Unset \notin {r["limit"], r["swap"]} /\ r["limit"] > 0 /\ r["swap"] >= r["limit"] =>
            v["memory.swap.max"] # Unlimited /\ v["memory.max"] + v["memory.swap.max"] <= r["swap"]

\* "A leftover empty directory costs nothing": a container that runs has no
\* limit its spec does not ask for.
OnlyAsked ==
    \A c \in Conts : pc[c] = "running" =>
        \A f \in Files : ValueFor(Asks[c], f) = Unset => value[Leaf[c]][f] = Unlimited
=============================================================================

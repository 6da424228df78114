---------------------------- MODULE IsolationProofs ----------------------------
(***************************************************************************)
(* What keeps a container and its host apart, in two parts.                *)
(*                                                                         *)
(* Namespaces, for every spec, caller and set of namespace files: if the   *)
(* goroutine is not moved once it joins, init mounts only in the           *)
(* namespaces its spec asks for, as their root and with the caller's ids   *)
(* alone, and a sound spec is not refused.                                 *)
(*                                                                         *)
(* RootfsSetup, for any number of inits that build their root filesystems  *)
(* out of one directory, and every spec, host and content of it: nothing   *)
(* that they mount comes up on the host, its sysctls are written only for  *)
(* a spec that leaves the host's procfs in place, and the paths that a     *)
(* spec masks or wants read-only are so in the end, if others cannot make  *)
(* files there.  A /dev that is the container's own has its devices, if    *)
(* the spec puts nothing over them.                                        *)
(***************************************************************************)
EXTENDS Namespaces, RootfsSetup, FiniteSetTheorems, SequenceTheorems, TLAPS

Early == {"clone", "maps", "setgroups", "uidMap", "gidMap", "newuidmap", "newgidmap", "stage2"}

\* The goroutine is not moved once it joins namespaces.
MovesEarly == MovesAt \subseteq Early

\* Whose user namespace and time namespace init is in does not depend on the thread.
Typed ==
    /\ spec \in Specs /\ host \in Hosts
    /\ pc \in Steps \cup {"mounting", "failed"} /\ on \in Threads
    /\ in \in [Threads -> [Types -> {"host", "own"} \cup DOMAIN Paths]]
    /\ \A t \in Threads : in[t]["time"] = "host" /\ in[t]["user"] = in[on]["user"]
    /\ uidMap \in Seq(Mapping) /\ gidMap \in Seq(Mapping) /\ denied \in BOOLEAN /\ caps \in BOOLEAN
    /\ uidMap # <<>> \/ gidMap # <<>> \/ denied => in[on]["user"] = "own"
    /\ pc \in {"clone", "maps"} => uidMap = <<>> /\ gidMap = <<>> /\ ~denied
    /\ joined \in 0..Len(spec.namespaces)
    /\ renamed \subseteq {"host", "own"} \cup DOMAIN Paths
    /\ private \subseteq {"host", "own"} \cup DOMAIN Paths

\* The creator writes the maps itself, or has the helpers do it.
NoMaps == IDMappings.uids = <<>> /\ IDMappings.gids = <<>>
Direct ==
    Rootfull \/ (IsSelfMapping(IDMappings.uids, host.uid) /\ IsSelfMapping(IDMappings.gids, host.gid))

Joining == {"join", "hostname", "private"}

\* The maps that have been written, which are the caller's to write.
Mapped ==
    /\ pc \in {"setgroups", "uidMap", "gidMap"} => Direct /\ ~NoMaps
    /\ pc \in {"newuidmap", "newgidmap"} => ~Direct /\ ~NoMaps
    /\ pc \in {"uidMap", "gidMap"} => denied
    /\ pc \in {"gidMap", "newgidmap", "stage2", "mounting"} \cup Joining => uidMap = IDMappings.uids
    /\ ~Rootfull => Outside(uidMap) \subseteq OwnIds

\* What the clone made of each kind, and the namespaces joined since.
Cloned(kind) == IF kind \in CloneFlags THEN "own" ELSE "host"

JoinedTo(kind) ==
    {spec.namespaces[j].path : j \in {k \in 1..joined :
        spec.namespaces[k].path # "" /\ Paths[spec.namespaces[k].path].kind = kind}}

InPlace ==
    /\ pc = "clone" => \A t \in Threads, kind \in Types : in[t][kind] = "host"
    /\ pc \in Early \ {"clone"} => \A t \in Threads, kind \in Types : in[t][kind] = Cloned(kind)
    /\ pc \in Early => joined = 0
    /\ pc \in {"hostname", "private", "mounting"} => joined = Len(spec.namespaces)
    /\ pc \in Joining \cup {"mounting"} =>
          /\ \A kind \in ForOneThread : JoinedTo(kind) = {}
          /\ \A kind \in Types \ {"pid"} :
                IF JoinedTo(kind) = {} THEN in[on][kind] = Cloned(kind)
                                       ELSE in[on][kind] \in JoinedTo(kind)

\* The capabilities since the exec of stage 2.
Privileged ==
    /\ pc \in Joining \cup {"mounting"} =>
          caps = IF in[on]["user"] = "own" THEN Inside(uidMap, host.uid) = 0 ELSE Rootfull
    /\ pc = "mounting" => caps

HostSpared ==
    /\ Matching => "host" \notin renamed
    /\ Matching /\ (\E e \in Entries : e.type = "mount") => "host" \notin private

Unrefused == pc = "failed" => ~(Sound /\ host.uid = host.gid)

IInv ==
    /\ Typed /\ Mapped /\ InPlace /\ Privileged
    /\ HostSpared /\ Unrefused

----------------------------------------------------------------------------
(* The lines of /etc/subuid and the maps made from them *)

\* A finite set of numbers has a least one.
LEMMA LeastElement ==
  ASSUME NEW S \in SUBSET Nat, IsFiniteSet(S), S # {}
  PROVE  \E m \in S : \A n \in S : m <= n
<1> DEFINE Lower(n) == {m \in S : m < n}
           T == {Lower(n) : n \in S}
<1>1. PICK A \in T : \A B \in T : <<B, A>> \notin StrictSubsetOrdering(S)
  <2>1. T \subseteq SUBSET S /\ T # {}
    OBVIOUS
  <2>2. IsWellFoundedOn(StrictSubsetOrdering(S), SUBSET S)
    BY FS_StrictSubsetOrderingWellFounded, FS_FiniteSubsetsOfFinite
  <2> HIDE DEF T
  <2> QED
    BY <2>1, <2>2, WFMin
<1>2. PICK m \in S : A = Lower(m)
  BY <1>1
<1>3. ASSUME NEW n \in S, n < m PROVE FALSE
  <2>1. m \in Nat /\ n \in Nat
    OBVIOUS
  <2>2. ASSUME NEW k \in Lower(n) PROVE k \in Lower(m)
    <3>1. k \in S /\ k \in Nat /\ k < n
      OBVIOUS
    <3> QED
      BY <1>3, <2>1, <3>1
  <2>3. n \in Lower(m) /\ n \notin Lower(n)
    BY <1>3, <2>1
  <2>4. Lower(n) \in T
    OBVIOUS
  <2> QED
    BY <1>1, <1>2, <2>2, <2>3, <2>4 DEF StrictSubsetOrdering
<1> QED
  BY <1>3

\* What SubIDRange finds is a line of the file for the id, or nothing.
LEMMA RangeFound ==
  ASSUME NEW file \in Seq(Line), NEW id \in Nat
  PROVE  LET range == SubIDRange(file, id) IN
         /\ range.start \in Nat /\ range.count \in Nat
         /\ range.count # 0 => \E k \in DOMAIN file :
               file[k].user = id /\ file[k].start = range.start /\ file[k].count = range.count
<1> DEFINE fitting == {k \in DOMAIN file : file[k].user = id}
<1>1. CASE fitting = {}
  BY <1>1 DEF SubIDRange
<1>2. CASE fitting # {}
  <2> DEFINE First(k) == \A j \in fitting : k <= j
             least == CHOOSE k \in fitting : First(k)
  <2>1. fitting \subseteq Nat /\ IsFiniteSet(fitting)
    <3>1. DOMAIN file = 1..Len(file) /\ Len(file) \in Nat
      OBVIOUS
    <3>2. IsFiniteSet(1..Len(file))
      BY <3>1, FS_Interval
    <3> QED
      BY <3>1, <3>2, FS_Subset
  <2>2. \E k \in fitting : First(k)
    <3> HIDE DEF fitting
    <3> QED
      BY <1>2, <2>1, LeastElement
  <2>3. least \in fitting
    <3> HIDE DEF fitting, First
    <3> QED
      BY <2>2
  <2>4. SubIDRange(file, id) = [start |-> file[least].start, count |-> file[least].count]
    BY <1>2 DEF SubIDRange
  <2>5. file[least] \in Line
    BY <2>3
  <2>6. least \in DOMAIN file /\ file[least].user = id
    BY <2>3
  <2> HIDE DEF least
  <2>7. /\ SubIDRange(file, id).start = file[least].start
        /\ SubIDRange(file, id).count = file[least].count
    BY <2>4
  <2> QED
    BY <2>5, <2>6, <2>7 DEF Line
<1> QED
  BY <1>1, <1>2

\* A default map is the caller as root and, if the file has any, its range.
LEMMA DefaultMapIs ==
  ASSUME NEW file \in Seq(Line), NEW id \in Nat
  PROVE  LET range == SubIDRange(file, id)
             root  == [inside |-> 0, outside |-> id, size |-> 1]
             rest  == [inside |-> 1, outside |-> range.start, size |-> range.count] IN
         /\ root \in Mapping /\ rest \in Mapping
         /\ DefaultMap(id, file) = IF range.count = 0 THEN <<root>> ELSE <<root, rest>>
         /\ DefaultMap(id, file) \in Seq(Mapping) /\ DefaultMap(id, file) # <<>>
         /\ Elements(DefaultMap(id, file)) = IF range.count = 0 THEN {root} ELSE {root, rest}
<1> DEFINE range == SubIDRange(file, id)
           root  == [inside |-> 0, outside |-> id, size |-> 1]
           rest  == [inside |-> 1, outside |-> range.start, size |-> range.count]
<1>1. range.start \in Nat /\ range.count \in Nat
  BY RangeFound
<1> HIDE DEF range
<1>2. root \in Mapping /\ rest \in Mapping
  BY <1>1 DEF Mapping
<1>3. DefaultMap(id, file) = IF range.count = 0 THEN <<root>> ELSE <<root, rest>>
  BY DEF DefaultMap, range
<1> HIDE DEF root, rest
<1>4. /\ Elements(<<root>>) = {root} /\ <<root>> # <<>> /\ <<root>> \in Seq(Mapping)
      /\ Elements(<<root, rest>>) = {root, rest} /\ <<root, rest>> # <<>>
      /\ <<root, rest>> \in Seq(Mapping)
  <2>1. DOMAIN <<root>> = {1} /\ <<root>>[1] = root
    OBVIOUS
  <2>2. DOMAIN <<root, rest>> = {1, 2} /\ <<root, rest>>[1] = root /\ <<root, rest>>[2] = rest
    OBVIOUS
  <2> QED
    BY <1>2, <2>1, <2>2 DEF Elements
<1> QED
  BY <1>2, <1>3, <1>4 DEF range, root, rest

\* The kernel accepts it if the range leaves the caller out, and the caller is
\* root in it.
LEMMA DefaultMapSound ==
  ASSUME NEW file \in Seq(Line), NEW id \in Nat, id \notin SubIDs(file, id)
  PROVE  WellFormed(DefaultMap(id, file)) /\ Inside(DefaultMap(id, file), id) = 0
<1> DEFINE range == SubIDRange(file, id)
           root  == [inside |-> 0, outside |-> id, size |-> 1]
           rest  == [inside |-> 1, outside |-> range.start, size |-> range.count]
           map == DefaultMap(id, file)
<1>1. /\ root \in Mapping /\ rest \in Mapping
      /\ map = IF range.count = 0 THEN <<root>> ELSE <<root, rest>>
      /\ Elements(map) = IF range.count = 0 THEN {root} ELSE {root, rest}
  BY DefaultMapIs
<1>2. range.start \in Nat /\ range.count \in Nat
  BY RangeFound
<1>3. id \notin IdRange(range.start, range.count)
  BY DEF SubIDs
<1> HIDE DEF range, map
<1>4. WellFormed(map)
  <2>1. \A m \in Elements(map) : m.size > 0
    BY <1>1, <1>2
  <2>2. ASSUME NEW j \in DOMAIN map, NEW k \in DOMAIN map, j # k
        PROVE  /\ IdRange(map[j].outside, map[j].size) \cap IdRange(map[k].outside, map[k].size) = {}
               /\ IdRange(map[j].inside, map[j].size) \cap IdRange(map[k].inside, map[k].size) = {}
    <3>1. map = <<root, rest>> /\ ((j = 1 /\ k = 2) \/ (j = 2 /\ k = 1))
      BY <1>1, <2>2
    <3>2. /\ IdRange(root.outside, root.size) = {id} /\ IdRange(root.inside, root.size) = {0}
          /\ IdRange(rest.outside, rest.size) = IdRange(range.start, range.count)
          /\ 0 \notin IdRange(rest.inside, rest.size)
      BY <1>2 DEF IdRange
    <3> HIDE DEF root, rest
    <3>3. map[1] = root /\ map[2] = rest
      BY <3>1
    <3> QED
      BY <1>3, <3>1, <3>2, <3>3
  <2> QED
    BY <2>1, <2>2 DEF WellFormed
<1>5. Inside(map, id) = 0
  <2>1. \A m \in Elements(map) : id \in IdRange(m.outside, m.size) <=> m = root
    <3>1. id \in IdRange(root.outside, root.size)
      BY DEF IdRange
    <3>2. id \notin IdRange(rest.outside, rest.size)
      BY <1>3
    <3> HIDE DEF root, rest
    <3> QED
      BY <1>1, <3>1, <3>2
  <2>2. root \in Elements(map)
    BY <1>1
  <2>3. id \in Outside(map)
    BY <2>1, <2>2 DEF Outside
  <2>4. (CHOOSE m \in Elements(map) : id \in IdRange(m.outside, m.size)) = root
    <3> HIDE DEF root
    <3> QED
      BY <2>1, <2>2
  <2>5. Inside(map, id) = root.inside + id - root.outside
    <3> HIDE DEF root
    <3> QED
      BY <2>3, <2>4 DEF Inside
  <2> QED
    BY <2>5
<1> QED
  BY <1>4, <1>5 DEF map

\* A map of the caller alone.
LEMMA SelfMapping ==
  ASSUME NEW map \in Seq(Mapping), NEW self \in Nat, IsSelfMapping(map, self)
  PROVE  WellFormed(map) /\ Outside(map) \subseteq {self} /\ map # <<>>
<1>1. DOMAIN map = {1} /\ map[1].size = 1 /\ map[1].outside = self
  BY DEF IsSelfMapping
<1>2. Elements(map) = {map[1]}
  BY <1>1 DEF Elements
<1>3. IdRange(map[1].outside, map[1].size) = {self}
  BY <1>1 DEF IdRange
<1>4. map # <<>>
  <2>1. DOMAIN <<>> # {1}
    OBVIOUS
  <2> QED
    BY <1>1, <2>1
<1> QED
  BY <1>1, <1>2, <1>3, <1>4 DEF WellFormed, Outside

----------------------------------------------------------------------------
(* The types *)

\* The parts of a spec and of a caller.
LEMMA GivenTyped ==
  ASSUME spec \in Specs, host \in Hosts
  PROVE  /\ spec.namespaces \in Seq(Entry) /\ Len(spec.namespaces) \in Nat
         /\ spec.uids \in Seq(Mapping) /\ spec.gids \in Seq(Mapping) /\ spec.hostname \in BOOLEAN
         /\ host.uid \in Nat /\ host.gid \in Nat /\ host.helpers \in BOOLEAN
         /\ host.subuid \in Seq(Line) /\ host.subgid \in Seq(Line)
<1>1. spec \in SpecType /\ host \in HostType
  BY SpecsAssumption, HostsAssumption
<1>2. spec.namespaces \in Seq(Entry)
  BY <1>1 DEF SpecType
<1>3. Len(spec.namespaces) \in Nat
  BY <1>2
<1> QED
  BY <1>1, <1>2, <1>3 DEF SpecType, HostType

\* The maps are the spec's, none, or the default ones.
LEMMA MapsTyped ==
  ASSUME spec \in Specs, host \in Hosts
  PROVE  /\ IDMappings.uids \in Seq(Mapping) /\ IDMappings.gids \in Seq(Mapping)
         /\ spec.uids # <<>> => IDMappings.uids = spec.uids /\ IDMappings.gids = spec.gids
         /\ spec.uids = <<>> /\ Rootfull => IDMappings.uids = <<>> /\ IDMappings.gids = <<>>
         /\ spec.uids = <<>> /\ ~Rootfull => /\ IDMappings.uids = DefaultMap(host.uid, host.subuid)
                                             /\ IDMappings.gids = DefaultMap(host.gid, host.subgid)
<1>1. CASE spec.uids # <<>>
  BY <1>1, GivenTyped DEF IDMappings
<1>2. CASE spec.uids = <<>> /\ Rootfull
  BY <1>2, GivenTyped DEF IDMappings
<1>3. CASE spec.uids = <<>> /\ ~Rootfull
  <2>1. /\ DefaultMap(host.uid, host.subuid) \in Seq(Mapping)
        /\ DefaultMap(host.gid, host.subgid) \in Seq(Mapping)
    BY GivenTyped, DefaultMapIs
  <2> QED
    BY <1>3, <2>1 DEF IDMappings
<1> QED
  BY <1>1, <1>2, <1>3

\* An entry of the list, and the kind of the file it names.
LEMMA EntryTyped ==
  ASSUME spec \in Specs, host \in Hosts, NEW j \in 1..Len(spec.namespaces)
  PROVE  /\ spec.namespaces[j] \in Entries
         /\ spec.namespaces[j].type \in Types \cup {"unknown"}
         /\ spec.namespaces[j].path \in DOMAIN Paths \cup {""}
         /\ spec.namespaces[j].path # "" => Paths[spec.namespaces[j].path].kind \in Types
<1>1. spec.namespaces[j] \in Entry /\ j \in DOMAIN spec.namespaces
  BY GivenTyped
<1>2. spec.namespaces[j] \in Entries
  BY <1>1 DEF Entries, Elements
<1> QED
  BY <1>1, <1>2, PathsAssumption DEF Entry

\* The initial states are typed.
LEMMA TypedInit == Init => Typed
<1> SUFFICES ASSUME Init PROVE Typed
  OBVIOUS
<1>1. in \in [Threads -> [Types -> {"host", "own"} \cup DOMAIN Paths]]
  BY DEF Init
<1>2. \A t \in Threads : in[t]["time"] = "host" /\ in[t]["user"] = in[on]["user"]
  BY DEF Init, Types
<1>3. joined \in 0..Len(spec.namespaces)
  BY GivenTyped DEF Init
<1>4. <<>> \in Seq(Mapping)
  OBVIOUS
<1>5. /\ uidMap = <<>> /\ gidMap = <<>> /\ denied = FALSE /\ pc = "clone"
      /\ caps \in BOOLEAN /\ renamed = {} /\ private = {}
      /\ spec \in Specs /\ host \in Hosts /\ on \in Threads
  BY DEF Init
<1> QED
  BY <1>1, <1>2, <1>3, <1>4, <1>5 DEF Typed, Steps

\* Types, for the clone and the writing of the maps.
LEMMA CreatorTyped == ASSUME Typed, Clone \/ WriteMaps PROVE Typed'
<1>1. CASE Clone
  <2> DEFINE ok == /\ {"time", "unknown"} \cap CloneFlags = {}
                   /\ Rootfull \/ "user" \in CloneFlags \/ CloneFlags = {}
             new == [t \in Threads |-> [k \in Types |-> IF k \in CloneFlags THEN "own" ELSE "host"]]
  <2>1. in' = IF ok THEN new ELSE in
    BY <1>1 DEF Clone
  <2>2. /\ new \in [Threads -> [Types -> {"host", "own"} \cup DOMAIN Paths]]
        /\ ok => \A t, u \in Threads : new[t]["time"] = "host" /\ new[t]["user"] = new[u]["user"]
    BY DEF Types
  <2>3. on' = on /\ on \in Threads
    BY <1>1 DEF Clone, Typed
  <2>4. /\ in' \in [Threads -> [Types -> {"host", "own"} \cup DOMAIN Paths]]
        /\ \A t \in Threads : in'[t]["time"] = "host" /\ in'[t]["user"] = in'[on']["user"]
    <3> HIDE DEF ok, new
    <3> QED
      BY <2>1, <2>2, <2>3 DEF Typed
  <2>5. pc = "clone" /\ pc' \in {"maps", "failed"} /\ UNCHANGED <<given, on, maps, effects>>
        /\ caps' \in BOOLEAN
    BY <1>1 DEF Clone, Step
  <2> QED
    BY <2>4, <2>5 DEF Typed, Steps, given, maps, effects
<1>2. CASE WriteIDMaps
  BY <1>2 DEF WriteIDMaps, Step, Typed, Steps, given, maps, effects
<1>3. CASE DenySetgroups
  BY <1>3 DEF DenySetgroups, Step, Typed, Steps, given, effects
<1>4. CASE WriteUidMap
  BY <1>4, MapsTyped DEF WriteUidMap, Writable, Step, Typed, Steps, given, effects
<1>5. CASE WriteGidMap
  BY <1>5, MapsTyped DEF WriteGidMap, Writable, Step, Typed, Steps, given, effects
<1>6. CASE RunNewuidmap
  BY <1>6, MapsTyped DEF RunNewuidmap, Writable, Step, Typed, Steps, given, effects
<1>7. CASE RunNewgidmap
  BY <1>7, MapsTyped DEF RunNewgidmap, Writable, Step, Typed, Steps, given, effects
<1> QED
  BY <1>1, <1>2, <1>3, <1>4, <1>5, <1>6, <1>7 DEF WriteMaps

\* What joining an entry of the spec does to the namespaces of init's threads.
LEMMA EnterTyped ==
  ASSUME Typed, NEW p \in DOMAIN Paths, MaySetns(p)
  PROVE  /\ Paths[p].kind \in Types \ ForOneThread
         /\ Enter(p) \in [Threads -> [Types -> {"host", "own"} \cup DOMAIN Paths]]
         /\ \A t \in Threads, kind \in Types :
               Enter(p)[t][kind] = IF t = on /\ kind = Paths[p].kind /\ kind # "pid" THEN p ELSE in[t][kind]
<1>1. Paths[p].kind \in Types \ ForOneThread
  BY PathsAssumption DEF MaySetns
<1> QED
  BY <1>1 DEF Enter, Typed

\* The entry that joinNamespaces comes to next.
LEMMA NextEntry ==
  ASSUME Typed, joined < Len(spec.namespaces)
  PROVE  /\ joined + 1 \in 1..Len(spec.namespaces)
         /\ spec.namespaces[joined + 1] \in Entries
         /\ spec.namespaces[joined + 1].path \in DOMAIN Paths \cup {""}
<1>1. spec \in Specs /\ host \in Hosts
  BY DEF Typed
<1>2. Len(spec.namespaces) \in Nat /\ joined \in 0..Len(spec.namespaces)
  BY <1>1, GivenTyped DEF Typed
<1>3. joined + 1 \in 1..Len(spec.namespaces)
  BY <1>2
<1> QED
  BY <1>1, <1>3, EntryTyped

\* Types, for the steps of init.
LEMMA ChildTyped ==
  ASSUME Typed, ExecStage2 \/ JoinNamespaces \/ Sethostname \/ MakePrivate \/ Migrate PROVE Typed'
<1>1. CASE ExecStage2
  BY <1>1 DEF ExecStage2, Rootfull, Step, Typed, Steps, given, maps, effects
<1>2. CASE JoinNothing
  BY <1>2 DEF JoinNothing, Step, Typed, Steps, given, maps, effects
<1>3. CASE JoinNamespace
  <2> DEFINE p == spec.namespaces[joined + 1].path
  <2>1. joined < Len(spec.namespaces)
    BY <1>3 DEF JoinNamespace
  <2>2. p \in DOMAIN Paths \cup {""} /\ joined + 1 \in 1..Len(spec.namespaces)
        /\ Len(spec.namespaces) \in Nat
    BY <2>1, NextEntry, GivenTyped DEF Typed
  <2>3. in' = in \/ (p # "" /\ MaySetns(p) /\ in' = Enter(p))
    BY <1>3 DEF JoinNamespace
  <2>4. UNCHANGED <<given, on, caps, maps, renamed, private>> /\ joined' = joined + 1
        /\ pc = "join" /\ pc' \in {"hostname", "join", "failed"}
    BY <1>3 DEF JoinNamespace, Step, AfterEntry
  <2>5. /\ in' \in [Threads -> [Types -> {"host", "own"} \cup DOMAIN Paths]]
        /\ \A t \in Threads : in'[t]["time"] = in[t]["time"] /\ in'[t]["user"] = in[t]["user"]
    <3> HIDE DEF p
    <3>1. {"time", "user"} \subseteq Types \cap ForOneThread
      BY DEF Types, ForOneThread
    <3>2. CASE in' = in
      BY <3>2 DEF Typed
    <3>3. CASE p # "" /\ MaySetns(p) /\ in' = Enter(p)
      BY <2>2, <3>1, <3>3, EnterTyped
    <3> QED
      BY <2>3, <3>2, <3>3
  <2>6. joined' \in 0..Len(spec.namespaces)
    <3>1. joined' = joined + 1 /\ joined + 1 \in 1..Len(spec.namespaces) /\ Len(spec.namespaces) \in Nat
      BY <2>2, <2>4
    <3> QED
      BY <3>1
  <2> QED
    BY <2>4, <2>5, <2>6 DEF Typed, Steps, given, maps
<1>4. CASE Sethostname
  <2>1. in[on]["uts"] \in {"host", "own"} \cup DOMAIN Paths
    BY DEF Typed, Types
  <2> QED
    BY <1>4, <2>1 DEF Sethostname, Step, Typed, Steps, given, maps
<1>5. CASE MakePrivate
  <2>1. in[on]["mount"] \in {"host", "own"} \cup DOMAIN Paths
    BY DEF Typed, Types
  <2> QED
    BY <1>5, <2>1 DEF MakePrivate, Step, Typed, Steps, given, maps
<1>6. CASE Migrate
  BY <1>6 DEF Migrate, Typed, given, maps, effects
<1> QED
  BY <1>1, <1>2, <1>3, <1>4, <1>5, <1>6 DEF JoinNamespaces

\* Every step preserves the types, wherever the goroutine is moved.
LEMMA TypedStep == Typed /\ [Next]_vars => Typed'
<1> SUFFICES ASSUME Typed, [Next]_vars PROVE Typed'
  OBVIOUS
<1>1. CASE UNCHANGED vars
  BY <1>1 DEF vars, Typed
<1> QED
  BY <1>1, CreatorTyped, ChildTyped DEF Next

----------------------------------------------------------------------------
(* What the given spec and caller say *)

\* The spec and the caller do not change, nor does what they ask for.
LEMMA GivenKept ==
  ASSUME UNCHANGED given
  PROVE  /\ Entries' = Entries /\ CloneFlags' = CloneFlags /\ IDMappings' = IDMappings
         /\ OwnIds' = OwnIds /\ spec' = spec /\ host' = host
         /\ Rootfull' <=> Rootfull
         /\ Direct' <=> Direct
         /\ NoMaps' <=> NoMaps
         /\ Matching' <=> Matching
         /\ Sound' <=> Sound
<1>1. spec' = spec /\ host' = host
  BY DEF given
<1>2. Entries' = Entries /\ OwnIds' = OwnIds /\ (Rootfull' <=> Rootfull)
  BY <1>1 DEF Entries, OwnIds, Rootfull
<1>3. CloneFlags' = CloneFlags
  BY <1>2 DEF CloneFlags
<1>4. IDMappings' = IDMappings
  BY <1>1, <1>2 DEF IDMappings, Rootfull
<1>5. (Direct' <=> Direct) /\ (NoMaps' <=> NoMaps)
  BY <1>1, <1>2, <1>4 DEF Direct, NoMaps
<1>6. Matching' <=> Matching
  BY <1>2 DEF Matching
<1>7. Asked("user")' = Asked("user")
  BY <1>2 DEF Asked
<1>8. Sound' <=> Sound
  BY <1>1, <1>2, <1>6, <1>7 DEF Sound, FromLines, Authorised
<1> QED
  BY <1>1, <1>2, <1>3, <1>4, <1>5, <1>6, <1>8

\* Whether init gets a user namespace of its own.
LEMMA AskedUser ==
  ASSUME spec \in Specs, host \in Hosts PROVE Asked("user") = "own" <=> "user" \in CloneFlags
<1> DEFINE entries == {e \in Entries : e.type = "user"}
<1>1. "user" \in CloneFlags <=> \E e \in entries : e.path = ""
  BY DEF CloneFlags
<1>2. CASE \E e \in entries : e.path = ""
  BY <1>1, <1>2 DEF Asked
<1>3. CASE entries = {}
  BY <1>1, <1>3 DEF Asked
<1>4. CASE entries # {} /\ ~\E e \in entries : e.path = ""
  <2> DEFINE some == CHOOSE e \in entries : TRUE
  <2>1. Asked("user") = some.path /\ some \in entries
    BY <1>4 DEF Asked
  <2>2. some \in Entries /\ some.path # ""
    BY <1>4, <2>1
  <2> HIDE DEF some
  <2>3. PICK j \in 1..Len(spec.namespaces) : some = spec.namespaces[j]
    <3>1. DOMAIN spec.namespaces = 1..Len(spec.namespaces)
      BY GivenTyped
    <3> QED
      BY <2>2, <3>1 DEF Entries, Elements
  <2>4. some.path \in DOMAIN Paths
    BY <2>2, <2>3, EntryTyped
  <2> QED
    BY <1>1, <1>4, <2>1, <2>4, PathsAssumption
<1> QED
  BY <1>2, <1>3, <1>4

\* A helper that is asked for a map stands for the caller's ids.
LEMMA AuthorisedIds ==
  ASSUME spec \in Specs, host \in Hosts, NEW map, Authorised(map, host.subuid, host.uid)
  PROVE  Outside(map) \subseteq OwnIds
<1> SUFFICES ASSUME NEW m \in Elements(map), NEW id \in IdRange(m.outside, m.size) PROVE id \in OwnIds
  BY DEF Outside
<1>1. CASE FromLines(host.subuid, m)
  <2>1. PICK k \in DOMAIN host.subuid :
          /\ host.subuid[k].user = host.uid
          /\ IdRange(m.outside, m.size) \subseteq IdRange(host.subuid[k].start, host.subuid[k].count)
    BY <1>1 DEF FromLines
  <2> QED
    BY <2>1 DEF OwnIds
<1>2. CASE m.size = 1 /\ m.outside = host.uid
  <2>1. id \in host.uid .. host.uid + 1 - 1
    BY <1>2 DEF IdRange
  <2>2. host.uid \in Nat
    BY GivenTyped
  <2>3. id = host.uid
    BY <2>1, <2>2
  <2> QED
    BY <2>3 DEF OwnIds
<1> QED
  BY <1>1, <1>2 DEF Authorised

\* What DefaultMap takes from the caller's files its helpers accept.
LEMMA DefaultMapAuthorised ==
  ASSUME NEW file \in Seq(Line), NEW id \in Nat, id = host.uid
  PROVE  Authorised(DefaultMap(id, file), file, id)
<1> DEFINE range == SubIDRange(file, id)
           root  == [inside |-> 0, outside |-> id, size |-> 1]
           rest  == [inside |-> 1, outside |-> range.start, size |-> range.count]
<1>1. Elements(DefaultMap(id, file)) = IF range.count = 0 THEN {root} ELSE {root, rest}
  BY DefaultMapIs
<1>2. root.size = 1 /\ root.outside = id
  OBVIOUS
<1>3. ASSUME range.count # 0 PROVE FromLines(file, rest)
  <2>1. PICK k \in DOMAIN file :
          file[k].user = id /\ file[k].start = range.start /\ file[k].count = range.count
    BY <1>3, RangeFound
  <2>2. rest.outside = range.start /\ rest.size = range.count
    OBVIOUS
  <2> HIDE DEF rest, range
  <2> QED
    BY <2>1, <2>2 DEF FromLines
<1> HIDE DEF root, rest
<1> QED
  BY <1>1, <1>2, <1>3 DEF Authorised

\* What makes a sound spec sound: root of the host without maps, or a user
\* namespace of its own with maps that the kernel and the helpers accept.
LEMMA SoundMeans ==
  ASSUME spec \in Specs, host \in Hosts, Sound, host.uid = host.gid
  PROVE  /\ Matching /\ {"time", "unknown"} \cap CloneFlags = {}
         /\ \E e \in Entries : e.type = "mount"
         /\ \A e \in Entries : e.path # "" => e.type \notin ForOneThread
         /\ "user" \notin CloneFlags => Rootfull /\ NoMaps
         /\ "user" \in CloneFlags =>
               /\ \A e \in Entries : e.path = ""
               /\ ~NoMaps /\ Inside(IDMappings.uids, host.uid) = 0
               /\ WellFormed(IDMappings.uids) /\ WellFormed(IDMappings.gids)
               /\ ~Rootfull => /\ host.helpers
                               /\ Authorised(IDMappings.uids, host.subuid, host.uid)
                               /\ Authorised(IDMappings.gids, host.subgid, host.gid)
<1>1. /\ Matching /\ {"time", "unknown"} \cap CloneFlags = {}
      /\ \E e \in Entries : e.type = "mount"
      /\ \A e \in Entries : e.path # "" => e.type \notin ForOneThread
  BY DEF Sound, CloneFlags
<1>2. ASSUME "user" \notin CloneFlags PROVE Rootfull /\ NoMaps
  BY <1>2, AskedUser, MapsTyped DEF Sound, NoMaps
<1>3. ASSUME "user" \in CloneFlags
      PROVE  /\ \A e \in Entries : e.path = ""
             /\ ~NoMaps /\ Inside(IDMappings.uids, host.uid) = 0
             /\ WellFormed(IDMappings.uids) /\ WellFormed(IDMappings.gids)
             /\ ~Rootfull => /\ host.helpers
                             /\ Authorised(IDMappings.uids, host.subuid, host.uid)
                             /\ Authorised(IDMappings.gids, host.subgid, host.gid)
  <2>1. /\ \A e \in Entries : e.path = ""
        /\ IF Rootfull THEN spec.uids # <<>> ELSE host.helpers
        /\ spec.uids = <<>> => /\ host.uid \notin SubIDs(host.subuid, host.uid)
                               /\ host.gid \notin SubIDs(host.subgid, host.gid)
        /\ spec.uids # <<>> => /\ Inside(spec.uids, host.uid) = 0
                               /\ WellFormed(spec.uids) /\ WellFormed(spec.gids)
                               /\ Rootfull \/ Authorised(spec.uids, host.subuid, host.uid)
                               /\ Rootfull \/ Authorised(spec.gids, host.subgid, host.gid)
    BY <1>3, AskedUser DEF Sound
  <2>2. CASE spec.uids # <<>>
    BY <2>1, <2>2, MapsTyped DEF NoMaps
  <2>3. CASE spec.uids = <<>>
    <3>1. ~Rootfull /\ IDMappings.uids = DefaultMap(host.uid, host.subuid)
          /\ IDMappings.gids = DefaultMap(host.gid, host.subgid)
      BY <2>1, <2>3, MapsTyped
    <3>2. /\ host.uid \in Nat /\ host.gid \in Nat
          /\ host.subuid \in Seq(Line) /\ host.subgid \in Seq(Line)
      BY GivenTyped
    <3>3. /\ WellFormed(IDMappings.uids) /\ Inside(IDMappings.uids, host.uid) = 0
          /\ WellFormed(IDMappings.gids)
      BY <2>1, <2>3, <3>1, <3>2, DefaultMapSound
    <3>4. /\ Authorised(IDMappings.uids, host.subuid, host.uid)
          /\ Authorised(IDMappings.gids, host.subgid, host.gid)
      BY <3>1, <3>2, DefaultMapAuthorised
    <3>5. ~NoMaps
      BY <3>1, <3>2, DefaultMapIs DEF NoMaps
    <3> QED
      BY <2>1, <3>1, <3>3, <3>4, <3>5
  <2> QED
    BY <2>2, <2>3
<1> QED
  BY <1>1, <1>2, <1>3

----------------------------------------------------------------------------
(* The maps *)

\* The steps that leave the creator's part alone.
LEMMA MappedStep == ASSUME IInv, Next PROVE Mapped'
<1>1. Typed /\ Mapped /\ spec \in Specs /\ host \in Hosts
  BY DEF IInv, Typed
<1>g. UNCHANGED given
  BY DEF Next, Clone, WriteMaps, WriteIDMaps, DenySetgroups, WriteUidMap, WriteGidMap, RunNewuidmap,
         RunNewgidmap, ExecStage2, JoinNamespaces, JoinNothing, JoinNamespace, Sethostname, MakePrivate,
         Migrate
<1>k. /\ IDMappings' = IDMappings /\ OwnIds' = OwnIds
      /\ Direct' <=> Direct
      /\ NoMaps' <=> NoMaps
      /\ Rootfull' <=> Rootfull
  BY <1>g, GivenKept
<1>o. Outside(uidMap') = Outside(uidMap)'
  BY DEF Outside, Elements
<1>f. ASSUME UNCHANGED uidMap,
             /\ pc' \in {"setgroups", "uidMap", "gidMap"} => Direct /\ ~NoMaps
             /\ pc' \in {"newuidmap", "newgidmap"} => ~Direct /\ ~NoMaps
             /\ pc' \in {"uidMap", "gidMap"} => denied'
             /\ pc' \in {"gidMap", "newgidmap", "stage2", "mounting"} \cup Joining =>
                   uidMap = IDMappings.uids
      PROVE  Mapped'
  BY <1>1, <1>k, <1>f, <1>o DEF Mapped
<1>2. CASE Clone
  <2>1. pc' \in {"maps", "failed"} /\ UNCHANGED uidMap
    BY <1>2 DEF Clone, Step, maps
  <2> QED
    BY <1>f, <2>1 DEF Joining
<1>3. CASE WriteIDMaps
  <2>1. /\ UNCHANGED uidMap /\ uidMap = <<>>
        /\ \/ pc' = "stage2" /\ NoMaps
           \/ pc' = "setgroups" /\ Direct /\ ~NoMaps
           \/ pc' = "newuidmap" /\ ~Direct /\ ~NoMaps
    BY <1>1, <1>3 DEF WriteIDMaps, Step, maps, Typed, Direct, NoMaps
  <2> QED
    BY <1>f, <2>1 DEF NoMaps, Joining
<1>4. CASE DenySetgroups
  <2>1. /\ UNCHANGED uidMap /\ pc = "setgroups"
        /\ pc' = "failed" \/ (pc' = "uidMap" /\ denied')
    BY <1>4 DEF DenySetgroups, Step
  <2> QED
    BY <1>1, <1>f, <2>1 DEF Mapped, Joining
<1>5. CASE WriteUidMap
  <2>1. pc = "uidMap" /\ UNCHANGED denied
    BY <1>5 DEF WriteUidMap, Step
  <2>2. CASE pc' = "failed" /\ UNCHANGED uidMap
    BY <1>f, <2>2 DEF Joining
  <2>3. CASE pc' = "gidMap" /\ uidMap' = IDMappings.uids
    <3>1. ~Rootfull => Outside(uidMap') \subseteq OwnIds
      <4>1. ASSUME ~Rootfull PROVE IsSelfMapping(IDMappings.uids, host.uid)
        BY <1>1, <2>1, <4>1 DEF Mapped, Direct
      <4>2. host.uid \in OwnIds /\ host.uid \in Nat
        BY <1>1, GivenTyped DEF OwnIds
      <4> QED
        BY <1>1, <2>3, <4>1, <4>2, SelfMapping, MapsTyped
    <3> QED
      BY <1>1, <1>k, <1>o, <2>1, <2>3, <3>1 DEF Mapped, Joining
  <2> QED
    BY <1>5, <2>2, <2>3 DEF WriteUidMap, Step
<1>6. CASE WriteGidMap
  <2>1. pc = "gidMap" /\ pc' \in {"stage2", "failed"} /\ UNCHANGED uidMap
    BY <1>6 DEF WriteGidMap, Step
  <2> QED
    BY <1>1, <1>f, <2>1 DEF Mapped, Joining
<1>7. CASE RunNewuidmap
  <2>1. pc = "newuidmap"
    BY <1>7 DEF RunNewuidmap, Step
  <2>2. CASE pc' = "failed" /\ UNCHANGED uidMap
    BY <1>f, <2>2 DEF Joining
  <2>3. CASE /\ pc' = "newgidmap" /\ uidMap' = IDMappings.uids
             /\ Authorised(IDMappings.uids, host.subuid, host.uid)
    <3>1. Outside(uidMap') \subseteq OwnIds
      BY <1>1, <2>3, AuthorisedIds
    <3> QED
      BY <1>1, <1>k, <1>o, <2>1, <2>3, <3>1 DEF Mapped, Joining
  <2> QED
    BY <1>7, <2>2, <2>3 DEF RunNewuidmap, Step
<1>8. CASE RunNewgidmap
  <2>1. pc = "newgidmap" /\ pc' \in {"stage2", "failed"} /\ UNCHANGED uidMap
    BY <1>8 DEF RunNewgidmap, Step
  <2> QED
    BY <1>1, <1>f, <2>1 DEF Mapped, Joining
<1>9. CASE ExecStage2 \/ JoinNamespaces \/ Sethostname \/ MakePrivate
  <2>1. /\ pc \in {"stage2"} \cup Joining /\ pc' \in Joining \cup {"mounting", "failed"}
        /\ UNCHANGED uidMap
    BY <1>9 DEF ExecStage2, JoinNamespaces, JoinNothing, JoinNamespace, AfterEntry, Sethostname,
                MakePrivate, Step, maps, Joining
  <2> QED
    BY <1>1, <1>f, <2>1 DEF Mapped, Joining
<1>10. CASE Migrate
  <2>1. UNCHANGED <<pc, uidMap, denied>>
    BY <1>10 DEF Migrate, maps
  <2> QED
    BY <1>1, <1>f, <2>1 DEF Mapped
<1> QED
  BY <1>2, <1>3, <1>4, <1>5, <1>6, <1>7, <1>8, <1>9, <1>10 DEF Next, WriteMaps

----------------------------------------------------------------------------
(* The namespaces *)

\* Until init joins any, nobody but the clone changes its namespaces.
LEMMA InPlaceStep == ASSUME MovesEarly, IInv, Next PROVE InPlace'
<1>1. Typed /\ InPlace /\ spec \in Specs /\ host \in Hosts /\ on \in Threads
  BY DEF IInv, Typed
<1>g. UNCHANGED given
  BY DEF Next, Clone, WriteMaps, WriteIDMaps, DenySetgroups, WriteUidMap, WriteGidMap, RunNewuidmap,
         RunNewgidmap, ExecStage2, JoinNamespaces, JoinNothing, JoinNamespace, Sethostname, MakePrivate,
         Migrate
<1>k. spec' = spec /\ CloneFlags' = CloneFlags /\ \A kind : Cloned(kind)' = Cloned(kind)
  BY <1>g, GivenKept DEF Cloned
<1>j. UNCHANGED joined => \A kind : JoinedTo(kind)' = JoinedTo(kind)
  BY <1>k DEF JoinedTo
<1>2. CASE Clone
  <2>1. pc = "clone" /\ pc' \in {"maps", "failed"} /\ UNCHANGED joined
    BY <1>2 DEF Clone, Step, effects
  <2>2. pc' = "maps" => in' = [t \in Threads |-> [k \in Types |-> Cloned(k)]]
    BY <1>2 DEF Clone, Step, Cloned
  <2> QED
    BY <1>1, <1>k, <2>1, <2>2 DEF InPlace, Early, Joining
<1>3. CASE WriteMaps
  <2>1. /\ pc \in Early \ {"clone"} /\ pc' \in (Early \ {"clone"}) \cup {"failed"}
        /\ UNCHANGED <<in, joined>>
    BY <1>3 DEF WriteMaps, WriteIDMaps, DenySetgroups, WriteUidMap, WriteGidMap, RunNewuidmap,
                RunNewgidmap, Step, effects, Early
  <2> QED
    BY <1>1, <1>k, <2>1 DEF InPlace, Early, Joining
<1>4. CASE ExecStage2
  <2>1. pc = "stage2" /\ pc' = "join" /\ UNCHANGED <<in, on, joined>>
    BY <1>4 DEF ExecStage2, Step, effects
  <2>2. joined = 0 /\ \A kind \in Types : in[on][kind] = Cloned(kind)
    BY <1>1, <2>1 DEF InPlace, Early
  <2>3. \A kind : JoinedTo(kind)' = {}
    BY <1>j, <2>1, <2>2 DEF JoinedTo
  <2> QED
    BY <1>k, <2>1, <2>2, <2>3 DEF InPlace, Early, Joining
<1>5. CASE JoinNothing
  <2>1. /\ pc = "join" /\ pc' = "hostname" /\ UNCHANGED <<in, on, joined>>
        /\ spec.namespaces = <<>>
    BY <1>5 DEF JoinNothing, Step, effects
  <2>2. joined = Len(spec.namespaces)
    BY <1>1, <2>1 DEF Typed
  <2> QED
    BY <1>1, <1>k, <1>j, <2>1, <2>2 DEF InPlace, Early, Joining
<1>6. CASE JoinNamespace
  <2> DEFINE p == spec.namespaces[joined + 1].path
             New(kind) == {q \in {p} : q # "" /\ Paths[q].kind = kind}
  <2>1. /\ pc = "join" /\ UNCHANGED on /\ joined' = joined + 1
        /\ joined < Len(spec.namespaces)
    BY <1>6 DEF JoinNamespace, Step
  <2>2. CASE pc' = "failed"
    BY <2>2 DEF InPlace, Early, Joining
  <2>3. CASE pc' # "failed"
    <3>1. /\ pc' = AfterEntry(joined + 1) /\ (p = "" \/ MaySetns(p))
          /\ in' = IF p # "" THEN Enter(p) ELSE in
      BY <1>6, <2>3 DEF JoinNamespace, Step
    <3>2. joined \in Nat /\ joined + 1 \in 1..Len(spec.namespaces)
      <4>1. Len(spec.namespaces) \in Nat /\ joined \in 0..Len(spec.namespaces)
        BY <1>1, GivenTyped DEF Typed
      <4> QED
        BY <2>1, <4>1
    <3>3. p \in DOMAIN Paths \cup {""}
      BY <1>1, <3>2, EntryTyped
    <3>4. pc' \in {"join", "hostname"} /\ (pc' = "hostname" => joined' = Len(spec.namespaces))
      BY <2>1, <3>1 DEF AfterEntry
    <3>5. \A kind : JoinedTo(kind)' = JoinedTo(kind) \cup New(kind)
      <4>1. 1..joined' = (1..joined) \cup {joined + 1}
        BY <2>1, <3>2
      <4> QED
        BY <1>k, <4>1 DEF JoinedTo
    <3>6. \A kind \in ForOneThread : JoinedTo(kind) = {}
      BY <1>1, <2>1 DEF InPlace, Joining
    <3>7. \A kind \in Types \ {"pid"} :
             IF JoinedTo(kind) = {} THEN in[on][kind] = Cloned(kind)
                                    ELSE in[on][kind] \in JoinedTo(kind)
      BY <1>1, <2>1 DEF InPlace, Joining
    <3> HIDE DEF p
    <3>8. CASE p = ""
      <4>1. \A kind : JoinedTo(kind)' = JoinedTo(kind)
        BY <3>5, <3>8
      <4> QED
        BY <1>k, <2>1, <3>1, <3>4, <3>6, <3>7, <3>8, <4>1 DEF InPlace, Early, Joining
    <3>9. CASE p # ""
      <4>1. /\ p \in DOMAIN Paths /\ MaySetns(p) /\ in' = Enter(p)
        BY <3>1, <3>3, <3>9
      <4>2. /\ Paths[p].kind \in Types \ ForOneThread
            /\ \A kind \in Types :
                  in'[on][kind] = IF kind = Paths[p].kind /\ kind # "pid" THEN p ELSE in[on][kind]
        BY <1>1, <4>1, EnterTyped
      <4>3. \A kind : New(kind) = IF kind = Paths[p].kind THEN {p} ELSE {}
        BY <3>9
      <4> HIDE DEF New
      <4>4. \A kind \in ForOneThread : JoinedTo(kind)' = {}
        BY <3>5, <3>6, <4>2, <4>3
      <4>5. ASSUME NEW kind \in Types \ {"pid"}
            PROVE  IF JoinedTo(kind)' = {} THEN in'[on][kind] = Cloned(kind)
                                           ELSE in'[on][kind] \in JoinedTo(kind)'
        <5>1. CASE kind = Paths[p].kind
          BY <3>5, <4>2, <4>3, <5>1
        <5>2. CASE kind # Paths[p].kind
          BY <3>5, <3>7, <4>2, <4>3, <5>2
        <5> QED
          BY <5>1, <5>2
      <4> QED
        BY <1>k, <2>1, <3>4, <4>4, <4>5 DEF InPlace, Early, Joining
    <3> QED
      BY <3>8, <3>9
  <2> QED
    BY <2>2, <2>3
<1>7. CASE Sethostname \/ MakePrivate
  <2>1. /\ pc \in {"hostname", "private"} /\ pc' \in {"private", "mounting", "failed"}
        /\ UNCHANGED <<in, on, joined>>
    BY <1>7 DEF Sethostname, MakePrivate, Step
  <2> QED
    BY <1>1, <1>k, <1>j, <2>1 DEF InPlace, Early, Joining
<1>8. CASE Migrate
  <2>1. UNCHANGED <<pc, in, joined>> /\ pc \in Early
    BY <1>8 DEF Migrate, MovesEarly, effects
  <2> QED
    BY <1>1, <1>k, <2>1 DEF InPlace, Early, Joining
<1> QED
  BY <1>2, <1>3, <1>4, <1>5, <1>6, <1>7, <1>8 DEF Next, JoinNamespaces

----------------------------------------------------------------------------
(* The capabilities *)

\* Init keeps the capabilities that the exec of stage 2 gives it, as no join
\* changes its user namespace.
LEMMA PrivilegedStep == ASSUME IInv, Next PROVE Privileged'
<1>1. Typed /\ Privileged /\ on \in Threads
  BY DEF IInv, Typed
<1>g. UNCHANGED given
  BY DEF Next, Clone, WriteMaps, WriteIDMaps, DenySetgroups, WriteUidMap, WriteGidMap, RunNewuidmap,
         RunNewgidmap, ExecStage2, JoinNamespaces, JoinNothing, JoinNamespace, Sethostname, MakePrivate,
         Migrate
<1>k. host' = host /\ (Rootfull' <=> Rootfull)
  BY <1>g, GivenKept
<1>u. UNCHANGED uidMap => Inside(uidMap, host.uid)' = Inside(uidMap, host.uid)
  BY <1>k DEF Inside, Outside, Elements
<1>2. CASE Clone \/ WriteMaps
  <2>1. pc' \notin Joining \cup {"mounting"}
    BY <1>2 DEF Clone, WriteMaps, WriteIDMaps, DenySetgroups, WriteUidMap, WriteGidMap, RunNewuidmap,
                RunNewgidmap, Step, Joining
  <2> QED
    BY <2>1 DEF Privileged
<1>3. CASE ExecStage2
  <2>1. /\ UNCHANGED <<in, on, uidMap>> /\ pc' # "mounting"
        /\ caps' = IF in[on]["user"] = "own" THEN Inside(uidMap, host.uid) = 0 ELSE Rootfull
    BY <1>3 DEF ExecStage2, Step, maps
  <2> QED
    BY <1>k, <1>u, <2>1 DEF Privileged
<1>4. CASE JoinNamespaces \/ Sethostname
  <2>1. /\ UNCHANGED <<on, uidMap, caps>> /\ pc' # "mounting"
        /\ pc \in Joining /\ in'[on]["user"] = in'[on']["user"]
    BY <1>4 DEF JoinNamespaces, JoinNothing, JoinNamespace, AfterEntry, Sethostname, Step, maps, Joining
  <2>2. in'[on]["user"] = in[on]["user"]
    <3>1. CASE JoinNamespace /\ in' # in
      <4> DEFINE p == spec.namespaces[joined + 1].path
      <4>1. p # "" /\ MaySetns(p) /\ in' = Enter(p) /\ joined < Len(spec.namespaces)
        BY <3>1 DEF JoinNamespace
      <4>2. p \in DOMAIN Paths
        BY <1>1, <4>1, NextEntry
      <4>3. "user" \in ForOneThread /\ "user" \in Types
        BY DEF ForOneThread, Types
      <4> HIDE DEF p
      <4> QED
        BY <1>1, <4>1, <4>2, <4>3, EnterTyped
    <3> QED
      BY <1>4, <3>1 DEF JoinNamespaces, JoinNothing, Sethostname
  <2> QED
    BY <1>1, <1>k, <1>u, <2>1, <2>2 DEF Privileged
<1>5. CASE MakePrivate
  <2>1. /\ UNCHANGED <<in, on, uidMap, caps>> /\ pc = "private"
        /\ pc' = "mounting" => caps
    BY <1>5 DEF MakePrivate, MayChange, Step, maps
  <2> QED
    BY <1>1, <1>k, <1>u, <2>1 DEF Privileged, Joining
<1>6. CASE Migrate
  <2>1. UNCHANGED <<pc, in, uidMap, caps>> /\ on' \in Threads
    BY <1>6 DEF Migrate, maps
  <2>2. in'[on']["user"] = in[on]["user"]
    BY <1>1, <2>1 DEF Typed
  <2> QED
    BY <1>1, <1>k, <1>u, <2>1, <2>2 DEF Privileged
<1> QED
  BY <1>2, <1>3, <1>4, <1>5, <1>6 DEF Next

----------------------------------------------------------------------------
(* The host *)

\* A kind that the spec lists init has not left to the host by the time it has
\* been through the list, if the files are what the spec says.
LEMMA NotTheHosts ==
  ASSUME Typed, InPlace, pc \in {"hostname", "private", "mounting"}, Matching,
         NEW e \in Entries, e.type \in Types \ {"pid"}
  PROVE  in[on][e.type] # "host"
<1>1. spec \in Specs /\ host \in Hosts /\ joined = Len(spec.namespaces)
  BY DEF Typed, InPlace
<1>2. \A q \in JoinedTo(e.type) : q # "host"
  <2>1. ASSUME NEW j \in 1..joined, spec.namespaces[j].path # ""
        PROVE  spec.namespaces[j].path # "host"
    BY <1>1, <2>1, EntryTyped, PathsAssumption
  <2> QED
    BY <2>1 DEF JoinedTo
<1>3. IF JoinedTo(e.type) = {} THEN in[on][e.type] = Cloned(e.type)
                               ELSE in[on][e.type] \in JoinedTo(e.type)
  BY DEF InPlace, Joining
<1>4. CASE e.path = ""
  <2>1. Cloned(e.type) = "own"
    BY <1>4 DEF Cloned, CloneFlags
  <2> QED
    BY <1>2, <1>3, <2>1
<1>5. CASE e.path # ""
  <2>1. PICK j \in 1..joined : e = spec.namespaces[j]
    <3>1. DOMAIN spec.namespaces = 1..Len(spec.namespaces)
      BY <1>1, GivenTyped
    <3> QED
      BY <1>1, <3>1 DEF Entries, Elements
  <2>2. Paths[e.path].kind = e.type
    BY <1>5 DEF Matching
  <2>3. e.path \in JoinedTo(e.type)
    BY <1>5, <2>1, <2>2 DEF JoinedTo
  <2> QED
    BY <1>2, <1>3, <2>3
<1> QED
  BY <1>4, <1>5

\* Only Sethostname and MakePrivate could touch the host, and by then init has
\* left the kinds its spec lists.
LEMMA HostSparedStep == ASSUME IInv, Next PROVE HostSpared'
<1>1. Typed /\ InPlace /\ HostSpared
  BY DEF IInv
<1>g. UNCHANGED given
  BY DEF Next, Clone, WriteMaps, WriteIDMaps, DenySetgroups, WriteUidMap, WriteGidMap, RunNewuidmap,
         RunNewgidmap, ExecStage2, JoinNamespaces, JoinNothing, JoinNamespace, Sethostname, MakePrivate,
         Migrate
<1>k. /\ Matching' <=> Matching
      /\ Entries' = Entries
  BY <1>g, GivenKept
<1>2. CASE Sethostname
  <2>1. pc = "hostname" /\ UNCHANGED private
    BY <1>2 DEF Sethostname, Step
  <2>2. ASSUME Matching, "host" \in renamed' PROVE FALSE
    <3>1. \E e \in Entries : e.type = "uts" /\ in[on]["uts"] = "host"
      BY <1>1, <1>2, <2>2 DEF Sethostname, HostSpared
    <3>2. "uts" \in Types \ {"pid"}
      BY DEF Types
    <3> QED
      BY <1>1, <2>1, <2>2, <3>1, <3>2, NotTheHosts
  <2> QED
    BY <1>1, <1>k, <2>1, <2>2 DEF HostSpared
<1>3. CASE MakePrivate
  <2>1. pc = "private" /\ UNCHANGED renamed
    BY <1>3 DEF MakePrivate, Step
  <2>2. ASSUME Matching, NEW e \in Entries, e.type = "mount", "host" \in private' PROVE FALSE
    <3>1. in[on]["mount"] = "host"
      BY <1>1, <1>3, <2>2 DEF MakePrivate, HostSpared
    <3>2. "mount" \in Types \ {"pid"}
      BY DEF Types
    <3> QED
      BY <1>1, <2>1, <2>2, <3>1, <3>2, NotTheHosts
  <2> QED
    BY <1>1, <1>k, <2>1, <2>2 DEF HostSpared
<1>4. CASE ~(Sethostname \/ MakePrivate)
  <2>1. UNCHANGED <<renamed, private>>
    BY <1>4 DEF Next, Clone, WriteMaps, WriteIDMaps, DenySetgroups, WriteUidMap, WriteGidMap,
                RunNewuidmap, RunNewgidmap, ExecStage2, JoinNamespaces, JoinNothing, JoinNamespace,
                Migrate, effects
  <2> QED
    BY <1>1, <1>k, <2>1 DEF HostSpared
<1> QED
  BY <1>2, <1>3, <1>4

----------------------------------------------------------------------------
(* The refusals *)

\* From the exec of stage 2 on, init has all capabilities for a sound spec.
LEMMA SoundPrivileged ==
  ASSUME IInv, Sound, host.uid = host.gid, pc \in Joining
  PROVE  caps /\ (in[on]["user"] = "own" <=> "user" \in CloneFlags)
<1>1. Typed /\ Mapped /\ InPlace /\ Privileged /\ spec \in Specs /\ host \in Hosts /\ on \in Threads
  BY DEF IInv, Typed
<1>2. in[on]["user"] = Cloned("user")
  <2>1. "user" \in ForOneThread /\ "user" \in Types \ {"pid"}
    BY DEF ForOneThread, Types
  <2> QED
    BY <1>1, <2>1 DEF InPlace
<1>3. caps = IF in[on]["user"] = "own" THEN Inside(uidMap, host.uid) = 0 ELSE Rootfull
  BY <1>1 DEF Privileged
<1>4. uidMap = IDMappings.uids
  BY <1>1 DEF Mapped
<1> QED
  BY <1>1, <1>2, <1>3, <1>4, SoundMeans DEF Cloned

\* No step refuses a sound spec.
LEMMA UnrefusedStep == ASSUME MovesEarly, IInv, Next PROVE Unrefused'
<1>1. Typed /\ Mapped /\ InPlace /\ Unrefused /\ spec \in Specs /\ host \in Hosts /\ on \in Threads
  BY DEF IInv, Typed
<1>g. UNCHANGED given
  BY DEF Next, Clone, WriteMaps, WriteIDMaps, DenySetgroups, WriteUidMap, WriteGidMap, RunNewuidmap,
         RunNewgidmap, ExecStage2, JoinNamespaces, JoinNothing, JoinNamespace, Sethostname, MakePrivate,
         Migrate
<1>k. host' = host /\ (Sound' <=> Sound)
  BY <1>g, GivenKept
<1> SUFFICES ASSUME pc' = "failed", Sound, host.uid = host.gid PROVE FALSE
  BY <1>k DEF Unrefused
<1>s. /\ Matching /\ {"time", "unknown"} \cap CloneFlags = {}
      /\ \E e \in Entries : e.type = "mount"
      /\ \A e \in Entries : e.path # "" => e.type \notin ForOneThread
      /\ "user" \notin CloneFlags => Rootfull /\ NoMaps
      /\ "user" \in CloneFlags =>
            /\ \A e \in Entries : e.path = ""
            /\ ~NoMaps /\ Inside(IDMappings.uids, host.uid) = 0
            /\ WellFormed(IDMappings.uids) /\ WellFormed(IDMappings.gids)
            /\ ~Rootfull => /\ host.helpers
                            /\ Authorised(IDMappings.uids, host.subuid, host.uid)
                            /\ Authorised(IDMappings.gids, host.subgid, host.gid)
  BY <1>1, SoundMeans
<1>2. CASE Clone
  BY <1>s, <1>2 DEF Clone, Step
<1>3. CASE WriteMaps
  <2>1. pc \in Early \ {"clone"} /\ pc # "maps"
    BY <1>3 DEF WriteMaps, WriteIDMaps, DenySetgroups, WriteUidMap, WriteGidMap, RunNewuidmap,
                RunNewgidmap, Step, Early
  <2>2. in[on]["user"] = Cloned("user")
    BY <1>1, <2>1 DEF InPlace, Types
  <2>3. ~NoMaps
    BY <1>1, <1>3 DEF Mapped, WriteMaps, WriteIDMaps, DenySetgroups, WriteUidMap, WriteGidMap,
                      RunNewuidmap, RunNewgidmap, Step
  <2>4. "user" \in CloneFlags /\ in[on]["user"] = "own"
    BY <1>s, <2>2, <2>3 DEF Cloned
  <2>5. Writable(IDMappings.uids) /\ Writable(IDMappings.gids)
    BY <1>s, <2>4 DEF Writable
  <2>6. CASE WriteIDMaps \/ DenySetgroups \/ WriteUidMap
    BY <2>4, <2>5, <2>6 DEF WriteIDMaps, DenySetgroups, WriteUidMap, Step
  <2>7. CASE WriteGidMap
    BY <1>1, <2>5, <2>7 DEF WriteGidMap, Step, Mapped
  <2>8. CASE RunNewuidmap
    BY <1>1, <1>s, <2>4, <2>5, <2>8 DEF RunNewuidmap, Step, Mapped, Direct
  <2>9. CASE RunNewgidmap
    BY <1>1, <1>s, <2>4, <2>5, <2>9 DEF RunNewgidmap, Step, Mapped, Direct
  <2> QED
    BY <1>3, <2>6, <2>7, <2>8, <2>9 DEF WriteMaps
<1>4. CASE ExecStage2 \/ JoinNothing
  BY <1>4 DEF ExecStage2, JoinNothing, Step
<1>5. CASE JoinNamespace
  <2> DEFINE p == spec.namespaces[joined + 1].path
  <2>1. pc = "join" /\ p # "" /\ ~MaySetns(p)
    BY <1>5 DEF JoinNamespace, Step, AfterEntry
  <2>2. joined < Len(spec.namespaces)
    BY <1>5 DEF JoinNamespace
  <2>3. spec.namespaces[joined + 1] \in Entries
    BY <1>1, <2>2, NextEntry
  <2>4. "user" \notin CloneFlags
    BY <1>s, <2>1, <2>3
  <2>5. caps /\ in[on]["user"] # "own"
    BY <2>1, <2>4, SoundPrivileged DEF Joining
  <2>6. Paths[p].kind \notin ForOneThread
    BY <1>s, <2>1, <2>3 DEF Matching
  <2> HIDE DEF p
  <2> QED
    BY <2>1, <2>5, <2>6 DEF MaySetns, MayChange
<1>6. ASSUME NEW e \in Entries, e.type \in Types \ {"pid"}, pc \in {"hostname", "private"}
      PROVE  MayChange(in[on][e.type])
  <2>1. caps /\ (in[on]["user"] = "own" <=> "user" \in CloneFlags)
    BY <1>6, SoundPrivileged DEF Joining
  <2>2. CASE "user" \notin CloneFlags
    BY <2>1, <2>2 DEF MayChange
  <2>3. CASE "user" \in CloneFlags
    <3>1. JoinedTo(e.type) = {}
      <4>1. \A j \in 1..joined : spec.namespaces[j].path = ""
        <5>1. \A j \in 1..Len(spec.namespaces) : spec.namespaces[j] \in Entries
          BY <1>1, EntryTyped
        <5>2. joined = Len(spec.namespaces)
          BY <1>1, <1>6 DEF InPlace
        <5> QED
          BY <1>s, <2>3, <5>1, <5>2
      <4> QED
        BY <4>1 DEF JoinedTo
    <3>2. in[on][e.type] = "own"
      BY <1>1, <1>s, <1>6, <2>3, <3>1 DEF InPlace, Joining, Cloned, CloneFlags
    <3> QED
      BY <2>1, <2>3, <3>2 DEF MayChange, Owner
  <2> QED
    BY <2>2, <2>3
<1>7. CASE Sethostname
  <2>1. pc = "hostname" /\ ~MayChange(in[on]["uts"]) /\ \E e \in Entries : e.type = "uts"
    BY <1>7 DEF Sethostname, Step
  <2> QED
    BY <1>6, <2>1 DEF Types
<1>8. CASE MakePrivate
  <2>1. pc = "private" /\ ~MayChange(in[on]["mount"])
    BY <1>8 DEF MakePrivate, Step
  <2> QED
    BY <1>s, <1>6, <2>1 DEF Types
<1>9. CASE Migrate
  BY <1>9 DEF Migrate, MovesEarly, Early
<1> QED
  BY <1>2, <1>3, <1>4, <1>5, <1>7, <1>8, <1>9 DEF Next, JoinNamespaces


----------------------------------------------------------------------------
(* The invariant *)

\* The initial states satisfy the invariant.
LEMMA InitInductive == Init => IInv
<1> SUFFICES ASSUME Init PROVE IInv
  OBVIOUS
<1>1. Typed /\ pc = "clone" /\ uidMap = <<>> /\ joined = 0 /\ renamed = {} /\ private = {}
  BY TypedInit DEF Init
<1>2. \A t \in Threads, kind \in Types : in[t][kind] = "host"
  BY DEF Init
<1>3. Outside(uidMap) = {}
  BY <1>1 DEF Outside, Elements
<1> QED
  BY <1>1, <1>2, <1>3 DEF IInv, Mapped, InPlace, Privileged, HostSpared, Unrefused, Early, Joining

\* A stutter preserves it.
LEMMA StutterInductive == ASSUME IInv, UNCHANGED vars PROVE IInv'
<1>1. UNCHANGED given /\ UNCHANGED <<pc, on, in, caps, uidMap, gidMap, denied, joined, renamed, private>>
  BY DEF vars, given
<1>2. Typed'
  BY TypedStep DEF IInv
<1>3. /\ CloneFlags' = CloneFlags /\ IDMappings' = IDMappings /\ Entries' = Entries
      /\ OwnIds' = OwnIds /\ spec' = spec /\ host' = host
      /\ Rootfull' <=> Rootfull
      /\ Direct' <=> Direct
      /\ NoMaps' <=> NoMaps
      /\ Matching' <=> Matching
      /\ Sound' <=> Sound
  BY <1>1, GivenKept
<1>4. /\ Outside(uidMap)' = Outside(uidMap) /\ Inside(uidMap, host.uid)' = Inside(uidMap, host.uid)
      /\ \A kind \in Types : Cloned(kind)' = Cloned(kind) /\ JoinedTo(kind)' = JoinedTo(kind)
  BY <1>1, <1>3 DEF Outside, Elements, Inside, Cloned, JoinedTo
<1>5. Mapped' /\ Privileged' /\ HostSpared' /\ Unrefused'
  <2>1. Mapped'
    BY <1>1, <1>3, <1>4 DEF IInv, Mapped
  <2>2. Privileged'
    <3>1. Privileged
      BY DEF IInv
    <3>2. UNCHANGED <<pc, caps>> /\ in'[on']["user"] = in[on]["user"] /\ (Rootfull' <=> Rootfull)
      BY <1>1, <1>3
    <3>3. Inside(uidMap, host.uid)' = Inside(uidMap, host.uid)
      BY <1>4
    <3> QED
      BY <3>1, <3>2, <3>3 DEF Privileged
  <2>3. HostSpared' /\ Unrefused'
    BY <1>1, <1>3 DEF IInv, HostSpared, Unrefused
  <2> QED
    BY <2>1, <2>2, <2>3
<1>6. InPlace'
  <2>1. ForOneThread \subseteq Types
    BY DEF ForOneThread, Types
  <2> QED
    BY <1>1, <1>3, <1>4, <2>1 DEF IInv, InPlace
<1> QED
  BY <1>2, <1>5, <1>6 DEF IInv

\* Every step preserves it, if the goroutine stays where it joins.
LEMMA StepInductive == MovesEarly /\ IInv /\ [Next]_vars => IInv'
<1> SUFFICES ASSUME MovesEarly, IInv, [Next]_vars PROVE IInv'
  OBVIOUS
<1>1. CASE UNCHANGED vars
  BY <1>1, StutterInductive
<1>2. CASE Next
  <2>1. Typed'
    BY TypedStep DEF IInv
  <2> QED
    BY <1>2, <2>1, MappedStep, InPlaceStep, PrivilegedStep, HostSparedStep, UnrefusedStep DEF IInv
<1> QED
  BY <1>1, <1>2

----------------------------------------------------------------------------
(* The property *)

\* Once init has been through the list, it is where an unambiguous spec wants it.
LEMMA PlacedAsAsked ==
  ASSUME Typed, InPlace, pc = "mounting", Matching, Unambiguous, NEW kind \in Types \ {"pid"}
  PROVE  in[on][kind] = Asked(kind)
<1>1. spec \in Specs /\ host \in Hosts /\ joined = Len(spec.namespaces)
  BY DEF Typed, InPlace
<1>2. IF JoinedTo(kind) = {} THEN in[on][kind] = Cloned(kind) ELSE in[on][kind] \in JoinedTo(kind)
  BY DEF InPlace
<1>3. \A j \in 1..joined : spec.namespaces[j] \in Entries
  BY <1>1, EntryTyped
<1>4. \A q \in JoinedTo(kind) : \E e \in Entries : e.type = kind /\ e.path = q /\ q # ""
  BY <1>3 DEF JoinedTo, Matching
<1>5. CASE {e \in Entries : e.type = kind} = {}
  <2>1. kind \notin CloneFlags /\ JoinedTo(kind) = {}
    BY <1>4, <1>5 DEF CloneFlags
  <2> QED
    BY <1>2, <1>5, <2>1 DEF Cloned, Asked
<1>6. ASSUME NEW e \in Entries, e.type = kind PROVE in[on][kind] = Asked(kind)
  <2>1. {f \in Entries : f.type = kind} = {e}
    BY <1>6 DEF Unambiguous
  <2>2. CASE e.path = ""
    <3>1. kind \in CloneFlags /\ JoinedTo(kind) = {}
      BY <1>4, <1>6, <2>1, <2>2 DEF CloneFlags
    <3> QED
      BY <1>2, <2>1, <2>2, <3>1 DEF Cloned, Asked
  <2>3. CASE e.path # ""
    <3>1. PICK j \in 1..joined : e = spec.namespaces[j]
      <4>1. DOMAIN spec.namespaces = 1..Len(spec.namespaces)
        BY <1>1, GivenTyped
      <4> QED
        BY <1>1, <4>1 DEF Entries, Elements
    <3>2. e.path \in JoinedTo(kind)
      BY <1>6, <2>3, <3>1 DEF JoinedTo, Matching
    <3>3. in[on][kind] = e.path
      BY <1>2, <1>4, <2>1, <3>2
    <3>4. Asked(kind) = e.path
      <4>1. (CHOOSE f \in {e} : TRUE) = e
        OBVIOUS
      <4> QED
        BY <2>1, <2>3, <4>1 DEF Asked
    <3> QED
      BY <3>3, <3>4
  <2> QED
    BY <2>2, <2>3
<1> QED
  BY <1>5, <1>6

\* The invariant implies the property.
LEMMA InvariantSuffices == IInv => AsAskedOrRefused
<1> SUFFICES ASSUME IInv PROVE AsAskedOrRefused
  OBVIOUS
<1>1. Typed /\ Mapped /\ InPlace /\ Privileged /\ HostSpared /\ Unrefused
  BY DEF IInv
<1>2. Matching /\ Unambiguous /\ pc = "mounting" => \A kind \in Types \ {"pid"} : in[on][kind] = Asked(kind)
  BY <1>1, PlacedAsAsked
<1>3. pc = "mounting" =>
          /\ caps /\ (~Rootfull => in[on]["user"] = "own" /\ Outside(uidMap) \subseteq OwnIds)
          /\ in[on]["user"] = "own" => Inside(uidMap, host.uid) = 0
  BY <1>1 DEF Privileged, Mapped
<1> QED
  BY <1>1, <1>2, <1>3 DEF HostSpared, Unrefused, AsAskedOrRefused

----------------------------------------------------------------------------
(* Theorems *)

\* Wherever the goroutine is moved, every variable has its type, init is never in
\* a time namespace of its own making, and maps and a denied setgroups are those of
\* a new user namespace.
THEOREM TypeCorrect == Spec => []TypeOK
<1>1. Init => Typed
  BY TypedInit
<1>2. Typed /\ [Next]_vars => Typed'
  BY TypedStep
<1>3. Typed => TypeOK
  BY DEF Typed, TypeOK
<1> QED
  BY <1>1, <1>2, <1>3, PTL DEF Spec

\* The maps, the places, the capabilities and what was refused agree at every step
\* of a start whose goroutine stays on its thread while it joins.
THEOREM Invariance == MovesEarly => (Spec => []IInv)
<1> SUFFICES ASSUME MovesEarly PROVE Spec => []IInv
  OBVIOUS
<1>1. Init => IInv
  BY InitInductive
<1>2. IInv /\ [Next]_vars => IInv'
  BY StepInductive
<1> QED
  BY <1>1, <1>2, PTL DEF Spec

\* Init mounts in the namespaces the spec asks for, as their root and with no ids
\* but the caller's, it has renamed nobody else's host and left the host's mounts
\* alone, and a sound spec is not refused.
THEOREM MountsWhereAsked == MovesEarly => (Spec => []AsAskedOrRefused)
<1> SUFFICES ASSUME MovesEarly PROVE Spec => []AsAskedOrRefused
  OBVIOUS
<1>1. IInv => AsAskedOrRefused
  BY InvariantSuffices
<1> QED
  BY <1>1, Invariance, PTL

----------------------------------------------------------------------------
(***************************************************************************)
(* The root filesystems: RootfsSetup for any inits, specs, hosts and       *)
(* directories.                                                            *)
(***************************************************************************)

Filesystems == Sources \cup {"rootfs", "host", "device", "maskDir", "maskFile", "none"}
MountType == [at : Places \cup {Nowhere}, fs : Filesystems, ro : BOOLEAN]
IsFiles(f) == DOMAIN f \subseteq Places /\ \A p \in DOMAIN f : f[p] \in Kinds

FilesTyped ==
    /\ IsFiles(disk) /\ DOMAIN tmp = Inits /\ tmp = [i \in Inits |-> tmp[i]]
    /\ \A i \in Inits : IsFiles(tmp[i])

RootfsTyped ==
    /\ specs \in [Inits -> RootfsSpecType] /\ machine \in MachineType
    /\ step \in [Inits -> Preparing \cup Finalizing \cup {"done", "failed", "killed"}]
    /\ next \in [Inits -> Nat \ {0}]
    /\ mounts \in [Inits -> Seq(MountType)]
    /\ peer \in [Inits -> {"shared", "slave", "private"}]
    /\ FilesTyped
    /\ tuned \subseteq Inits \cup {"host"} /\ hostMounted \in BOOLEAN

\* A namespace begins with the root, and has the host's root at .oldroot until the
\* detach.
Rooted(i) ==
    /\ step[i] \notin {"private", "bind", "killed"} => mounts[i] # <<>> /\ mounts[i][1].at = Top
    /\ \A k \in DOMAIN mounts[i] : mounts[i][k].fs = "host" =>
          mounts[i][k].at = OldRoot /\ step[i] \in {"detach", "killed"}

\* From its first step on, init's mounts are nobody else's.
Sealed ==
    /\ \A i \in Inits : step[i] \notin {"private", "failed", "killed"} => peer[i] = "private"
    /\ hostSees = {}

\* What the key of a sysctl leads to is the spec's last mount on the way, of
\* those that have been made, or what the directory has there.
Made(i) ==
    IF step[i] = "propagation" THEN 0
    ELSE IF step[i] = "mounts" THEN next[i] - 1 ELSE Len(specs[i].mounts)

IsLast(ms, n, k) ==
    /\ k \in 1..n /\ IsPrefix(ms[k].at, Key)
    /\ \A l \in 1..n : IsPrefix(ms[l].at, Key) => l <= k

FromSpec(i, n, fs) ==
    \/ \E k \in 1..n : IsLast(specs[i].mounts, n, k) /\ fs = specs[i].mounts[k].fs
    \/ /\ \A k \in 1..n : ~IsPrefix(specs[i].mounts[k].at, Key)
       /\ fs = IF machine.procThere THEN "hostProc" ELSE "rootfs"

Tracing == {"propagation", "mounts", "devices", "links", "sysctl"}
Traced(i) == step[i] \in Tracing =>
    /\ Made(i) <= Len(specs[i].mounts)
    /\ \E k \in 1..Len(mounts[i]) : /\ IsLast(mounts[i], Len(mounts[i]), k)
                                    /\ FromSpec(i, Made(i), mounts[i][k].fs)

Accounted == "host" \in tuned => \E i \in Inits : ProcSource(i) = "hostProc"

RootfsInv == RootfsTyped /\ (\A i \in Inits : Rooted(i) /\ Traced(i)) /\ Sealed /\ Accounted

----------------------------------------------------------------------------
(* Paths, sequences of mounts and files *)

\* The root is above everything; what is not on the way to the key of a sysctl.
LEMMA OnTheWay ==
  /\ \A p \in Places \cup {Nowhere} : IsPrefix(Top, p)
  /\ IsPrefix(Proc, Key) /\ IsPrefix(Top, Key)
  /\ \A p \in {OldRoot, Data, Node, Nowhere} : ~IsPrefix(p, Key)
<1>1. /\ IsPrefix(Top, Top) /\ IsPrefix(Top, Proc) /\ IsPrefix(Top, Kcore)
      /\ IsPrefix(Top, Sys) /\ IsPrefix(Top, Key) /\ IsPrefix(Top, Dev)
      /\ IsPrefix(Top, Node) /\ IsPrefix(Top, Link) /\ IsPrefix(Top, Data)
      /\ IsPrefix(Top, OldRoot) /\ IsPrefix(Top, Nowhere)
  BY DEF IsPrefix, Top, Proc, Kcore, Sys, Key, Dev, Node, Link, Data, OldRoot, Nowhere
<1>3. \A p \in Places \cup {Nowhere} : IsPrefix(Top, p)
  BY <1>1 DEF Places
<1>4. IsPrefix(Proc, Key) /\ IsPrefix(Top, Key)
  <2> DEFINE s == SubSeq(<<"proc">>, 1, 1)
             t == SubSeq(<<"proc", "sys", "key">>, 1, 1)
             Names == {"proc", "sys", "key"}
  <2>1. s \in Seq(Names) /\ t \in Seq(Names) /\ Len(s) = 1 /\ Len(t) = 1 /\ s[1] = "proc" /\ t[1] = "proc"
    OBVIOUS
  <2>2. s = t
    <3> HIDE DEF s, t, Names
    <3> QED
      BY <2>1, SeqEqual
  <2> QED
    BY <1>1, <2>2 DEF IsPrefix, Proc, Key
<1>5. \A p \in {OldRoot, Data, Node, Nowhere} : ~IsPrefix(p, Key)
  BY DEF IsPrefix, OldRoot, Data, Node, Nowhere, Key
<1> QED
  BY <1>3, <1>4, <1>5

\* The maximum of a set that has one.
LEMMA MaxIs ==
  ASSUME NEW S \in SUBSET Nat, NEW k \in S, \A l \in S : l <= k PROVE Max(S) = k
<1>1. Max(S) \in S /\ \A l \in S : Max(S) >= l
  <2>1. \A l \in S : k >= l
    OBVIOUS
  <2> QED
    BY <2>1 DEF Max
<1>2. Max(S) \in Nat /\ Max(S) >= k /\ Max(S) <= k
  BY <1>1
<1> QED
  BY <1>2

\* A path has a last mount over it, and leads to one of the namespace's mounts.
LEMMA LastOver ==
  ASSUME NEW ms \in Seq(MountType), ms # <<>>, ms[1].at = Top, NEW p \in Places \cup {Nowhere}
  PROVE  /\ Max(Over(ms, p)) \in Over(ms, p) /\ \A l \in Over(ms, p) : l <= Max(Over(ms, p))
         /\ \E k \in DOMAIN ms : Covering(ms, p) = ms[k]
<1> DEFINE over == Over(ms, p)
           T == {Len(ms) - k : k \in over}
<1>1. over \subseteq 1..Len(ms) /\ 1 \in over /\ Len(ms) \in Nat
  BY OnTheWay DEF Over
<1>2. T \subseteq 0..Len(ms) /\ T # {}
  <2>1. Len(ms) - 1 \in T
    BY <1>1
  <2>2. \A k \in 1..Len(ms) : Len(ms) - k \in 0..Len(ms)
    BY <1>1
  <2> HIDE DEF over
  <2> QED
    BY <1>1, <2>1, <2>2
<1>3. IsFiniteSet(T)
  <2> HIDE DEF T
  <2> QED
    <3>1. IsFiniteSet(0..Len(ms))
      BY <1>1, FS_Interval
    <3> QED
      BY <1>2, <3>1, FS_Subset
<1>4. PICK t \in T : \A u \in T : t <= u
  <2> HIDE DEF T
  <2> QED
    BY <1>2, <1>3, LeastElement
<1>5. PICK k \in over : t = Len(ms) - k
  OBVIOUS
<1>6. \A l \in over : l <= k
  <2>1. ASSUME NEW l \in over PROVE l <= k
    <3>1. Len(ms) - l \in T
      OBVIOUS
    <3>2. Len(ms) - k <= Len(ms) - l
      BY <1>4, <1>5, <3>1
    <3> HIDE DEF over
    <3> QED
      BY <1>1, <3>2
  <2> QED
    BY <2>1
<1>7. Max(over) = k
  <2> HIDE DEF over
  <2> QED
    BY <1>1, <1>6, MaxIs
<1> QED
  BY <1>1, <1>6, <1>7 DEF Covering

\* The mount that the last one on the way to the key is.
LEMMA LastCovers ==
  ASSUME NEW ms, DOMAIN ms = 1..Len(ms), Len(ms) \in Nat, NEW k, IsLast(ms, Len(ms), k)
  PROVE  Covering(ms, Key) = ms[k] /\ Over(ms, Key) # {}
<1>1. k \in Over(ms, Key) /\ \A l \in Over(ms, Key) : l <= k
  BY DEF Over, IsLast
<1>2. Over(ms, Key) \in SUBSET Nat
  BY DEF Over
<1>3. Max(Over(ms, Key)) = k
  BY <1>1, <1>2, MaxIs
<1> QED
  BY <1>1, <1>3 DEF Covering

\* Files put over files are files.
LEMMA FilesOver == ASSUME NEW f, NEW g, IsFiles(f), IsFiles(g) PROVE IsFiles(Onto(f, g))
  BY DEF IsFiles, Onto

\* What a step creates are files.
LEMMA NewFiles ==
  ASSUME NEW S \in SUBSET Places, NEW kind \in Kinds PROVE IsFiles(Fresh(S, kind))
  BY DEF IsFiles, Fresh

\* What a removal leaves are files.
LEMMA FilesLeft ==
  ASSUME NEW f, IsFiles(f), NEW S PROVE IsFiles(Restrict(f, (DOMAIN f) \ S))
  BY DEF IsFiles, Restrict

----------------------------------------------------------------------------
(* Control *)

Locations == Preparing \cup Finalizing \cup {"done", "failed", "killed"}

\* The init that moves, and the others.
LEMMA GotoIs ==
  ASSUME RootfsTyped, NEW i \in Inits, NEW l \in Locations, Goto(i, l)
  PROVE  /\ step' \in [Inits -> Locations] /\ next' \in [Inits -> Nat \ {0}]
         /\ step'[i] = l /\ next'[i] = 1
         /\ \A j \in Inits \ {i} : step'[j] = step[j] /\ next'[j] = next[j]
  BY DEF Goto, RootfsTyped, Locations

\* A step that succeeds or fails.
LEMMA StepIs ==
  ASSUME RootfsTyped, NEW i \in Inits, NEW at, NEW ok, NEW then \in Locations, StepTo(i, at, ok, then)
  PROVE  /\ step' \in [Inits -> Locations] /\ next' \in [Inits -> Nat \ {0}]
         /\ step[i] = at /\ step'[i] \in {then, "failed"} /\ (ok => step'[i] = then)
         /\ (~ok => step'[i] = "failed") /\ next'[i] = 1
         /\ \A j \in Inits \ {i} : step'[j] = step[j] /\ next'[j] = next[j]
<1>1. "failed" \in Locations
  BY DEF Locations
<1>2. step[i] = at
  BY DEF StepTo
<1>3. CASE ok
  <2>1. Goto(i, then)
    BY <1>3 DEF StepTo
  <2> QED
    BY <1>2, <1>3, <2>1, GotoIs
<1>4. CASE ~ok
  <2>1. Goto(i, "failed")
    BY <1>4 DEF StepTo
  <2> QED
    BY <1>1, <1>2, <1>4, <2>1, GotoIs
<1> QED
  BY <1>3, <1>4

\* A step of a loop.
LEMMA AgainIs ==
  ASSUME RootfsTyped, NEW i \in Inits, NEW at, NEW ok, Again(i, at, ok)
  PROVE  /\ step' \in [Inits -> Locations] /\ next' \in [Inits -> Nat \ {0}]
         /\ step[i] = at
         /\ \/ ok /\ step'[i] = at /\ next'[i] = next[i] + 1
            \/ ~ok /\ step'[i] = "failed"
         /\ \A j \in Inits \ {i} : step'[j] = step[j] /\ next'[j] = next[j]
<1>1. "failed" \in Locations
  BY DEF Locations
<1>2. step[i] = at
  BY DEF Again
<1>3. CASE ok
  <2>1. next' = [next EXCEPT ![i] = @ + 1] /\ step' = step
    BY <1>3 DEF Again
  <2> QED
    BY <1>2, <1>3, <2>1 DEF RootfsTyped, Locations
<1>4. CASE ~ok
  <2>1. Goto(i, "failed")
    BY <1>4 DEF Again
  <2> QED
    BY <1>1, <1>2, <1>4, <2>1, GotoIs
<1> QED
  BY <1>3, <1>4

\* The end of a loop.
LEMMA AtEndIs ==
  ASSUME RootfsTyped, NEW i \in Inits, NEW at, NEW list, NEW then \in Locations,
         AtEnd(i, at, list, then)
  PROVE  /\ step' \in [Inits -> Locations] /\ next' \in [Inits -> Nat \ {0}]
         /\ step[i] = at /\ step'[i] = then /\ next[i] > Len(list)
         /\ \A j \in Inits \ {i} : step'[j] = step[j] /\ next'[j] = next[j]
         /\ UNCHANGED <<mounts, disk, tmp, hostSees>>
<1>1. StepTo(i, at, TRUE, then) /\ next[i] > Len(list) /\ UNCHANGED <<mounts, disk, tmp, hostSees>>
  BY DEF AtEnd
<1> QED
  BY <1>1, StepIs

----------------------------------------------------------------------------
(* What a step does to files and mounts *)

\* Directories for a path, and files where there are none.
LEMMA MadeFiles ==
  /\ \A i, p : IsFiles(MkdirFiles(i, p))
  /\ \A i, p, kind : p \in Places /\ kind \in Kinds => IsFiles(Fresh(Absent(i, p), kind))
<1>1. ASSUME NEW i, NEW p PROVE IsFiles(MkdirFiles(i, p))
  <2>1. Missing(i, p) \in SUBSET Places /\ "dir" \in Kinds
    BY DEF Missing, Above, Kinds
  <2> QED
    BY <2>1, NewFiles DEF MkdirFiles
<1>2. ASSUME NEW i, NEW p \in Places, NEW kind \in Kinds PROVE IsFiles(Fresh(Absent(i, p), kind))
  <2>1. Absent(i, p) \in SUBSET Places
    BY DEF Absent
  <2> QED
    BY <2>1, NewFiles
<1> QED
  BY <1>1, <1>2

\* New files come into being in the directory or in init's tmpfs mounts.
LEMMA PutIs ==
  ASSUME FilesTyped, NEW i \in Inits, NEW p, NEW files, IsFiles(files), Put(i, p, files)
  PROVE  FilesTyped'
<1>1. CASE Covering(mounts[i], p).fs \in Private
  <2>1. tmp' = [tmp EXCEPT ![i] = Onto(files, @)] /\ disk' = disk
    BY <1>1 DEF Put
  <2>2. IsFiles(Onto(files, tmp[i]))
    BY FilesOver DEF FilesTyped
  <2> QED
    BY <2>1, <2>2 DEF FilesTyped
<1>2. CASE Covering(mounts[i], p).fs \notin Private
  <2>1. disk' = Onto(files, disk) /\ tmp' = tmp
    BY <1>2 DEF Put
  <2>2. IsFiles(Onto(files, disk))
    BY FilesOver DEF FilesTyped
  <2> QED
    BY <2>1, <2>2 DEF FilesTyped
<1> QED
  BY <1>1, <1>2

\* Once init has made its mounts private, none comes up on the host.
LEMMA AttachIs ==
  ASSUME RootfsTyped, Sealed, NEW i \in Inits, step[i] \notin {"private", "failed", "killed"},
         NEW ms \in Seq(MountType), Attach(i, ms)
  PROVE  /\ mounts' \in [Inits -> Seq(MountType)] /\ mounts'[i] = ms /\ hostSees' = {}
         /\ \A j \in Inits \ {i} : mounts'[j] = mounts[j]
  BY DEF Attach, Sealed, RootfsTyped

\* An unmount puts a detached mount where the mounts at the path were.
LEMMA WithoutIs ==
  ASSUME NEW ms \in Seq(MountType), NEW p
  PROVE  /\ Without(ms, p) \in Seq(MountType) /\ Len(Without(ms, p)) = Len(ms)
         /\ \A k \in 1..Len(ms) : Without(ms, p)[k] = IF ms[k].at = p THEN Detached ELSE ms[k]
<1>1. Detached \in MountType
  BY DEF Detached, Mount, MountType, Filesystems
<1>2. \A k \in 1..Len(ms) : (IF ms[k].at = p THEN Detached ELSE ms[k]) \in MountType
  BY <1>1
<1>3. Without(ms, p) = [k \in 1..Len(ms) |-> IF ms[k].at = p THEN Detached ELSE ms[k]]
  BY DEF Without
<1> QED
  BY <1>2, <1>3

\* The detach of the old root does so for the host's.
LEMMA WithoutHostIs ==
  ASSUME NEW ms \in Seq(MountType)
  PROVE  /\ WithoutHost(ms) \in Seq(MountType) /\ Len(WithoutHost(ms)) = Len(ms)
         /\ \A k \in 1..Len(ms) : WithoutHost(ms)[k] = IF ms[k].fs = "host" THEN Detached ELSE ms[k]
<1>1. Detached \in MountType
  BY DEF Detached, Mount, MountType, Filesystems
<1>2. \A k \in 1..Len(ms) : (IF ms[k].fs = "host" THEN Detached ELSE ms[k]) \in MountType
  BY <1>1
<1>3. WithoutHost(ms) = [k \in 1..Len(ms) |-> IF ms[k].fs = "host" THEN Detached ELSE ms[k]]
  BY DEF WithoutHost
<1> QED
  BY <1>2, <1>3

\* The mounts that come with a recursive bind are those below, and nothing else.
LEMMA BelowIs ==
  ASSUME NEW ms \in Seq(MountType), NEW p
  PROVE  /\ Below(ms, p) \in Seq(MountType) /\ Len(Below(ms, p)) = Len(ms)
         /\ \A k \in 1..Len(ms) : Below(ms, p)[k] \in {ms[k], Detached}
<1> DEFINE seen(k) == IsStrictPrefix(p, ms[k].at) /\ k = Max(Over(ms, ms[k].at))
<1>1. Detached \in MountType
  BY DEF Detached, Mount, MountType, Filesystems
<1>2. Below(ms, p) = [k \in 1..Len(ms) |-> IF seen(k) THEN ms[k] ELSE Detached]
  BY DEF Below
<1> HIDE DEF seen
<1>3. \A k \in 1..Len(ms) : (IF seen(k) THEN ms[k] ELSE Detached) \in MountType
  BY <1>1
<1> QED
  BY <1>2, <1>3

\* A bind of a path onto itself leaves the root, and brings no mount of the host's root.
LEMMA SelfBindIs ==
  ASSUME NEW ms \in Seq(MountType), ms # <<>>, ms[1].at = Top, NEW p \in Places, NEW ro \in BOOLEAN,
         \A k \in DOMAIN ms : ms[k].fs # "host"
  PROVE  LET new == SelfBind(ms, p, ro, Below(ms, p)) IN
         /\ new \in Seq(MountType) /\ new # <<>> /\ new[1].at = Top
         /\ \A k \in DOMAIN new : new[k].fs # "host"
<1> DEFINE top == Mount(p, Covering(ms, p).fs, ro)
           front == Append(ms, top)
           below == Below(ms, p)
<1>1. top \in MountType /\ top.fs # "host"
  <2>1. PICK k \in DOMAIN ms : Covering(ms, p) = ms[k]
    BY LastOver
  <2>2. ms[k] \in MountType
    OBVIOUS
  <2> QED
    BY <2>1, <2>2 DEF Mount, MountType
<1>2. /\ front \in Seq(MountType) /\ Len(front) = Len(ms) + 1 /\ front[Len(ms) + 1] = top
      /\ \A k \in 1..Len(ms) : front[k] = ms[k]
  <2> HIDE DEF top
  <2> QED
    BY <1>1, AppendProperties
<1>3. /\ below \in Seq(MountType) /\ Len(below) = Len(ms)
      /\ \A k \in 1..Len(ms) : below[k].fs # "host"
  <2>1. Detached.fs # "host"
    BY DEF Detached, Mount
  <2> QED
    BY <2>1, BelowIs
<1> HIDE DEF front, below
<1>4. /\ front \o below \in Seq(MountType) /\ Len(front \o below) = Len(front) + Len(below)
      /\ \A k \in 1..Len(front) + Len(below) :
            (front \o below)[k] = IF k <= Len(front) THEN front[k] ELSE below[k - Len(front)]
  <2>1. front \in Seq(MountType) /\ below \in Seq(MountType)
    BY <1>2, <1>3
  <2> QED
    BY <2>1, ConcatProperties
<1>5. Len(ms) \in Nat /\ Len(ms) > 0 /\ DOMAIN ms = 1..Len(ms)
  OBVIOUS
<1>6. \A k \in 1..Len(front) : front[k].fs # "host"
  <2>1. ASSUME NEW k \in 1..Len(front) PROVE front[k].fs # "host"
    <3>1. k \in 1..Len(ms) \/ k = Len(ms) + 1
      BY <1>2, <1>5
    <3> QED
      BY <1>1, <1>2, <1>5, <3>1
  <2> QED
    BY <2>1
<1>7. \A k \in 1..Len(front) + Len(below) : (front \o below)[k].fs # "host"
  <2>1. ASSUME NEW k \in 1..Len(front) + Len(below) PROVE (front \o below)[k].fs # "host"
    <3>1. CASE k <= Len(front)
      <4>1. k \in 1..Len(front)
        BY <1>2, <1>3, <1>5, <3>1
      <4> QED
        BY <1>4, <1>6, <3>1, <4>1
    <3>2. CASE ~(k <= Len(front))
      <4>1. k - Len(front) \in 1..Len(ms)
        BY <1>2, <1>3, <1>5, <3>2
      <4> QED
        BY <1>3, <1>4, <3>2, <4>1
    <3> QED
      BY <3>1, <3>2
  <2> QED
    BY <2>1
<1>8. (front \o below)[1] = ms[1] /\ 1 \in 1..Len(front \o below)
  <2>1. 1 \in 1..Len(ms) /\ 1 \in 1..Len(front) + Len(below) /\ 1 <= Len(front)
    BY <1>2, <1>3, <1>5
  <2> QED
    BY <1>2, <1>4, <2>1
<1>9. DOMAIN (front \o below) = 1..Len(front) + Len(below) /\ front \o below # <<>>
  BY <1>4, <1>8
<1> QED
  BY <1>4, <1>7, <1>8, <1>9 DEF SelfBind, front, below, top

----------------------------------------------------------------------------
(* What a step leaves of the invariant *)

\* The namespaces of inits that do not move, from which a .oldroot may go.
LEMMA OthersKept ==
  ASSUME RootfsTyped, NEW j \in Inits, Rooted(j), Traced(j), UNCHANGED <<specs, machine>>,
         step'[j] = step[j], next'[j] = next[j],
         mounts'[j] \in {mounts[j], Without(mounts[j], OldRoot)}
  PROVE  Rooted(j)' /\ Traced(j)'
<1>1. mounts[j] \in Seq(MountType) /\ Len(mounts[j]) \in Nat /\ DOMAIN mounts[j] = 1..Len(mounts[j])
  BY DEF RootfsTyped
<1>2. /\ Len(mounts'[j]) = Len(mounts[j]) /\ DOMAIN mounts'[j] = 1..Len(mounts[j])
      /\ \A k \in 1..Len(mounts[j]) :
            \/ mounts'[j][k] = mounts[j][k]
            \/ mounts[j][k].at = OldRoot /\ mounts'[j][k] = Detached
      /\ mounts'[j] # <<>> <=> mounts[j] # <<>>
  <2>1. CASE mounts'[j] = mounts[j]
    BY <1>1, <2>1
  <2>2. CASE mounts'[j] = Without(mounts[j], OldRoot)
    <3>1. /\ mounts'[j] \in Seq(MountType) /\ Len(mounts'[j]) = Len(mounts[j])
          /\ \A k \in 1..Len(mounts[j]) :
                mounts'[j][k] = IF mounts[j][k].at = OldRoot THEN Detached ELSE mounts[j][k]
      BY <1>1, <2>2, WithoutIs
    <3> QED
      BY <1>1, <3>1
  <2> QED
    BY <2>1, <2>2
<1>3. Detached.fs # "host" /\ Detached.at = Nowhere /\ OldRoot # Top
  BY DEF Detached, Mount, OldRoot, Top
<1>4. Rooted(j)'
  BY <1>1, <1>2, <1>3 DEF Rooted
<1>5. \A k \in 1..Len(mounts[j]) :
         IsLast(mounts[j], Len(mounts[j]), k) =>
             IsLast(mounts'[j], Len(mounts'[j]), k) /\ mounts'[j][k] = mounts[j][k]
  BY <1>1, <1>2, <1>3, OnTheWay DEF IsLast
<1>6. Made(j)' = Made(j) /\ \A n, fs : FromSpec(j, n, fs)' <=> FromSpec(j, n, fs)
  BY DEF Made, FromSpec
<1>7. Traced(j)'
  BY <1>2, <1>5, <1>6 DEF Traced
<1> QED
  BY <1>4, <1>7

\* A mount on top of the others, before the pivot or by it.
LEMMA RootedOn ==
  ASSUME RootfsTyped, NEW i \in Inits, Rooted(i), step[i] \notin {"private", "bind", "killed", "detach"},
         NEW m \in MountType, mounts'[i] \in {mounts[i], Append(mounts[i], m)},
         mounts'[i] # mounts[i] /\ m.fs = "host" => m.at = OldRoot /\ step'[i] = "detach"
  PROVE  Rooted(i)'
<1>1. mounts[i] \in Seq(MountType) /\ Len(mounts[i]) \in Nat /\ DOMAIN mounts[i] = 1..Len(mounts[i])
      /\ mounts[i] # <<>> /\ mounts[i][1].at = Top /\ 1 \in 1..Len(mounts[i])
      /\ \A k \in 1..Len(mounts[i]) : mounts[i][k].fs # "host"
  BY DEF RootfsTyped, Rooted
<1>2. CASE mounts'[i] = mounts[i]
  BY <1>1, <1>2 DEF Rooted
<1>3. CASE mounts'[i] # mounts[i]
  <2>1. /\ mounts'[i] # <<>> /\ DOMAIN mounts'[i] = 1..Len(mounts[i]) + 1
        /\ mounts'[i][Len(mounts[i]) + 1] = m
        /\ \A k \in 1..Len(mounts[i]) : mounts'[i][k] = mounts[i][k]
    BY <1>1, <1>3, AppendProperties
  <2>2. \A k \in DOMAIN mounts'[i] : k \in 1..Len(mounts[i]) \/ k = Len(mounts[i]) + 1
    BY <1>1, <2>1
  <2> QED
    BY <1>1, <1>3, <2>1, <2>2 DEF Rooted
<1> QED
  BY <1>2, <1>3

\* A mount that is not on the way to the key.
LEMMA TracedOn ==
  ASSUME RootfsTyped, NEW i \in Inits, Traced(i), UNCHANGED <<specs, machine>>,
         step'[i] \in Tracing => step[i] \in Tracing /\ Made(i)' = Made(i),
         NEW m \in MountType, ~IsPrefix(m.at, Key),
         mounts'[i] \in {mounts[i], Append(mounts[i], m)}
  PROVE  Traced(i)'
<1>1. mounts[i] \in Seq(MountType) /\ Len(mounts[i]) \in Nat /\ DOMAIN mounts[i] = 1..Len(mounts[i])
  BY DEF RootfsTyped
<1>2. \A n, fs : FromSpec(i, n, fs)' <=> FromSpec(i, n, fs)
  BY DEF FromSpec
<1> SUFFICES ASSUME step'[i] \in Tracing PROVE Traced(i)'
  BY DEF Traced
<1>3. PICK k \in 1..Len(mounts[i]) :
         IsLast(mounts[i], Len(mounts[i]), k) /\ FromSpec(i, Made(i), mounts[i][k].fs)
  BY DEF Traced
<1>4. IsLast(mounts'[i], Len(mounts'[i]), k) /\ k \in 1..Len(mounts'[i]) /\ mounts'[i][k] = mounts[i][k]
  <2>1. CASE mounts'[i] = mounts[i]
    BY <1>3, <2>1
  <2>2. CASE mounts'[i] = Append(mounts[i], m)
    <3>1. /\ Len(mounts'[i]) = Len(mounts[i]) + 1 /\ mounts'[i][Len(mounts[i]) + 1] = m
          /\ \A l \in 1..Len(mounts[i]) : mounts'[i][l] = mounts[i][l]
      BY <1>1, <2>2, AppendProperties
    <3>2. \A l \in 1..Len(mounts[i]) + 1 : l \in 1..Len(mounts[i]) \/ l = Len(mounts[i]) + 1
      BY <1>1
    <3>3. k \in 1..Len(mounts[i]) + 1
      BY <1>1
    <3> QED
      BY <1>1, <1>3, <3>1, <3>2, <3>3 DEF IsLast
  <2> QED
    BY <2>1, <2>2
<1>5. Made(i)' = Made(i) /\ Made(i) <= Len(specs[i].mounts)
  BY DEF Traced
<1> QED
  BY <1>2, <1>3, <1>4, <1>5 DEF Traced


\* The mount that the loop makes: it covers what was on the way to the key, or it is
\* not on the way.
LEMMA TracedMount ==
  ASSUME RootfsTyped, NEW i \in Inits, Traced(i), UNCHANGED <<specs, machine>>,
         step[i] = "mounts", next[i] <= Len(specs[i].mounts),
         step'[i] = "mounts", next'[i] = next[i] + 1, NEW ro \in BOOLEAN,
         mounts'[i] = Append(mounts[i], Mount(specs[i].mounts[next[i]].at,
                                                specs[i].mounts[next[i]].fs, ro))
  PROVE  Traced(i)'
<1> DEFINE n == next[i]
           asked == specs[i].mounts
           size == Len(mounts[i])
           m == Mount(asked[n].at, asked[n].fs, ro)
<1>1. /\ mounts[i] \in Seq(MountType) /\ size \in Nat /\ Len(asked) \in Nat
      /\ n \in Nat \ {0} /\ n <= Len(asked) /\ n \in 1..Len(asked)
  BY DEF RootfsTyped, RootfsSpecType
<1>2. asked[n].at \in Places /\ asked[n].fs \in Sources
  <2>1. asked \in Seq([at : Places, fs : Sources, ro : BOOLEAN])
    BY DEF RootfsTyped, RootfsSpecType
  <2> HIDE DEF n, asked
  <2>2. asked[n] \in [at : Places, fs : Sources, ro : BOOLEAN]
    BY <1>1, <2>1, ElementOfSeq
  <2> QED
    BY <2>2
<1>3. m \in MountType /\ m.at = asked[n].at /\ m.fs = asked[n].fs
  BY <1>2 DEF Mount, MountType, Filesystems
<1>4. /\ Len(mounts'[i]) = size + 1 /\ mounts'[i][size + 1] = m
      /\ \A l \in 1..size : mounts'[i][l] = mounts[i][l]
  <2>1. mounts'[i] = Append(mounts[i], m)
    OBVIOUS
  <2> HIDE DEF m
  <2> QED
    BY <1>1, <1>3, <2>1, AppendProperties
<1>5. Made(i) = n - 1 /\ Made(i)' = n
  BY <1>1 DEF Made
<1>6. \A k, fs : FromSpec(i, k, fs)' <=> FromSpec(i, k, fs)
  BY DEF FromSpec
<1>7. Len(specs'[i].mounts) = Len(asked)
  OBVIOUS
<1>8. PICK k \in 1..size : IsLast(mounts[i], size, k) /\ FromSpec(i, n - 1, mounts[i][k].fs)
  BY <1>5 DEF Traced, Tracing
<1> HIDE DEF n, asked, size, m
<1>9. /\ \A l \in 1..size + 1 : l \in 1..size \/ l = size + 1
      /\ \A l \in 1..n : l \in 1..n - 1 \/ l = n
      /\ \A l \in 1..size : l <= size + 1 /\ l \in 1..size + 1
      /\ \A l \in 1..n - 1 : l <= n /\ l \in 1..n
      /\ size + 1 \in 1..size + 1 /\ n \in 1..n /\ size + 1 <= size + 1 /\ n <= n
  BY <1>1
<1>10. CASE IsPrefix(m.at, Key)
  <2>1. IsLast(mounts'[i], size + 1, size + 1)
    BY <1>4, <1>9, <1>10 DEF IsLast
  <2>2. IsLast(asked, n, n)
    BY <1>3, <1>9, <1>10 DEF IsLast
  <2>3. FromSpec(i, n, mounts'[i][size + 1].fs)
    BY <1>3, <1>4, <1>9, <2>2 DEF FromSpec, asked
  <2> QED
    BY <1>1, <1>4, <1>5, <1>6, <1>7, <1>9, <2>1, <2>3 DEF Traced
<1>11. CASE ~IsPrefix(m.at, Key)
  <2>1. IsLast(mounts'[i], size + 1, k)
    BY <1>4, <1>8, <1>9, <1>11 DEF IsLast
  <2>2. \A l \in 1..n - 1 : IsLast(asked, n - 1, l) => IsLast(asked, n, l)
    BY <1>3, <1>9, <1>11 DEF IsLast
  <2>3. FromSpec(i, n, mounts[i][k].fs)
    BY <1>3, <1>8, <1>9, <1>11, <2>2 DEF FromSpec, asked
  <2>4. mounts'[i][k] = mounts[i][k] /\ k \in 1..size + 1
    BY <1>4, <1>8, <1>9
  <2> QED
    BY <1>1, <1>4, <1>5, <1>6, <1>7, <2>1, <2>3, <2>4 DEF Traced
<1> QED
  BY <1>10, <1>11

\* The step of one init, which may take the .oldroot of the others.
LEMMA Moved ==
  ASSUME RootfsInv, NEW i \in Inits, UNCHANGED <<specs, machine, hostMounted>>,
         step' \in [Inits -> Locations], next' \in [Inits -> Nat \ {0}],
         mounts' \in [Inits -> Seq(MountType)], peer' \in [Inits -> {"shared", "slave", "private"}],
         \A j \in Inits \ {i} :
            /\ step'[j] = step[j] /\ next'[j] = next[j] /\ peer'[j] = peer[j]
            /\ mounts'[j] \in {mounts[j], Without(mounts[j], OldRoot)},
         step'[i] \notin {"private", "failed", "killed"} => peer'[i] = "private",
         hostSees' = {}, FilesTyped',
         \/ tuned' = tuned
         \/ /\ tuned' \subseteq Inits \cup {"host"}
            /\ "host" \in tuned' => \E j \in Inits : ProcSource(j) = "hostProc",
         Rooted(i)', Traced(i)'
  PROVE  RootfsInv'
<1>1. RootfsTyped'
  BY DEF RootfsInv, RootfsTyped, Locations
<1>2. ASSUME NEW j \in Inits PROVE Rooted(j)' /\ Traced(j)'
  <2>1. CASE j = i
    BY <2>1
  <2>2. CASE j # i
    BY <2>2, OthersKept DEF RootfsInv
  <2> QED
    BY <2>1, <2>2
<1>3. Sealed'
  BY DEF RootfsInv, Sealed
<1>4. Accounted'
  <2>1. \A j \in Inits : ProcSource(j)' = ProcSource(j)
    BY DEF ProcSource, Over, Covering
  <2>2. "host" \in tuned' => \E j \in Inits : ProcSource(j) = "hostProc"
    BY DEF RootfsInv, Accounted
  <2> QED
    BY <2>1, <2>2 DEF Accounted
<1> QED
  BY <1>1, <1>2, <1>3, <1>4 DEF RootfsInv

\* A step that mounts nothing.
LEMMA QuietMove ==
  ASSUME RootfsInv, NEW i \in Inits, UNCHANGED <<specs, machine, peer, mounts, hostSees, hostMounted>>,
         step' \in [Inits -> Locations], next' \in [Inits -> Nat \ {0}],
         \A j \in Inits \ {i} : step'[j] = step[j] /\ next'[j] = next[j],
         step[i] \notin {"private", "bind", "failed", "killed", "detach"},
         step'[i] \in Tracing => step[i] \in Tracing /\ Made(i)' = Made(i),
         FilesTyped',
         \/ tuned' = tuned
         \/ /\ tuned' \subseteq Inits \cup {"host"}
            /\ "host" \in tuned' => \E j \in Inits : ProcSource(j) = "hostProc"
  PROVE  RootfsInv'
<1> DEFINE m == Mount(OldRoot, "host", FALSE)
<1>1. m \in MountType /\ m.at = OldRoot /\ ~IsPrefix(m.at, Key)
  BY OnTheWay DEF Mount, MountType, Filesystems, Places
<1>2. mounts'[i] = mounts[i]
  OBVIOUS
<1> HIDE DEF m
<1>3. Rooted(i)' /\ Traced(i)'
  BY <1>1, <1>2, RootedOn, TracedOn DEF RootfsInv
<1>4. /\ mounts' \in [Inits -> Seq(MountType)] /\ peer' \in [Inits -> {"shared", "slave", "private"}]
      /\ peer[i] = "private" /\ hostSees' = {}
  BY DEF RootfsInv, RootfsTyped, Sealed
<1> QED
  BY <1>3, <1>4, Moved

\* A step that mounts something on top of the rest, or nothing.
LEMMA RaisedMove ==
  ASSUME RootfsInv, NEW i \in Inits, UNCHANGED <<specs, machine, peer, tuned, hostMounted>>,
         step' \in [Inits -> Locations], next' \in [Inits -> Nat \ {0}],
         \A j \in Inits \ {i} : step'[j] = step[j] /\ next'[j] = next[j],
         step[i] \notin {"private", "bind", "failed", "killed", "detach"},
         NEW m \in MountType,
         UNCHANGED <<mounts, hostSees>> \/ Attach(i, Append(mounts[i], m)),
         mounts'[i] # mounts[i] /\ m.fs = "host" => m.at = OldRoot /\ step'[i] = "detach",
         FilesTyped',
         mounts'[i] \in {mounts[i], Append(mounts[i], m)} => Traced(i)'
  PROVE  RootfsInv'
<1>1. mounts[i] \in Seq(MountType) /\ Append(mounts[i], m) \in Seq(MountType)
  BY DEF RootfsInv, RootfsTyped
<1>2. /\ mounts' \in [Inits -> Seq(MountType)] /\ hostSees' = {}
      /\ mounts'[i] \in {mounts[i], Append(mounts[i], m)}
      /\ \A j \in Inits \ {i} : mounts'[j] = mounts[j]
  <2>1. CASE UNCHANGED <<mounts, hostSees>>
    BY <2>1 DEF RootfsInv, RootfsTyped, Sealed
  <2>2. CASE Attach(i, Append(mounts[i], m))
    <3>1. RootfsTyped /\ Sealed
      BY DEF RootfsInv
    <3> QED
      BY <1>1, <2>2, <3>1, AttachIs
  <2> QED
    BY <2>1, <2>2
<1>3. Rooted(i)' /\ Traced(i)'
  BY <1>2, RootedOn DEF RootfsInv
<1>4. peer' \in [Inits -> {"shared", "slave", "private"}] /\ peer[i] = "private"
  BY DEF RootfsInv, RootfsTyped, Sealed
<1> QED
  BY <1>2, <1>3, <1>4, Moved

----------------------------------------------------------------------------
(* prepareRootfs, step by step *)

\* The first mounts, from the copy of the host's namespace on.
LEMMA BindMove ==
  ASSUME RootfsInv, NEW i \in Inits, MakeMountsPrivate(i) \/ BindRootfs(i) \/ SetPropagation(i)
  PROVE  RootfsInv'
<1>1. "bind" \in Locations /\ "propagation" \in Locations /\ "mounts" \in Locations
  BY DEF Locations, Preparing
<1>2. RootfsTyped /\ Sealed /\ Rooted(i) /\ Traced(i) /\ FilesTyped
  BY DEF RootfsInv, RootfsTyped
<1>3. CASE MakeMountsPrivate(i)
  <2>1. /\ StepTo(i, "private", TRUE, "bind") /\ peer' = [peer EXCEPT ![i] = "private"]
        /\ UNCHANGED <<specs, machine, mounts, disk, tmp, tuned, hostSees, hostMounted>>
    BY <1>3 DEF MakeMountsPrivate
  <2>2. /\ step' \in [Inits -> Locations] /\ next' \in [Inits -> Nat \ {0}]
        /\ step[i] = "private" /\ step'[i] = "bind"
        /\ \A j \in Inits \ {i} : step'[j] = step[j] /\ next'[j] = next[j]
    BY <1>1, <1>2, <2>1, StepIs
  <2>3. /\ peer' \in [Inits -> {"shared", "slave", "private"}] /\ peer'[i] = "private"
        /\ \A j \in Inits \ {i} : peer'[j] = peer[j]
    BY <1>2, <2>1 DEF RootfsTyped
  <2>4. Rooted(i)' /\ Traced(i)'
    BY <1>2, <2>1, <2>2 DEF Rooted, Traced, Tracing
  <2>5. FilesTyped' /\ hostSees' = {} /\ mounts' \in [Inits -> Seq(MountType)]
    BY <1>2, <2>1 DEF FilesTyped, Sealed, RootfsTyped
  <2> QED
    BY <2>1, <2>2, <2>3, <2>4, <2>5, Moved
<1>4. CASE BindRootfs(i)
  <2> DEFINE root == Mount(Top, "rootfs", FALSE)
             proc == Mount(Proc, "hostProc", FALSE)
             data == Mount(Data, "hostDir", FALSE)
             first == <<root>> \o (IF machine.procThere THEN <<proc>> ELSE <<>>)
             ms == first \o (IF hostMounted THEN <<data>> ELSE <<>>)
  <2>1. /\ StepTo(i, "bind", TRUE, "propagation") /\ Attach(i, ms)
        /\ UNCHANGED <<specs, machine, peer, tuned, hostMounted, disk, tmp>>
    BY <1>4 DEF BindRootfs, Fixed
  <2>2. /\ step' \in [Inits -> Locations] /\ next' \in [Inits -> Nat \ {0}]
        /\ step[i] = "bind" /\ step'[i] = "propagation"
        /\ \A j \in Inits \ {i} : step'[j] = step[j] /\ next'[j] = next[j]
    BY <1>1, <1>2, <2>1, StepIs
  <2>3. /\ root \in MountType /\ root.at = Top /\ root.fs = "rootfs"
        /\ proc \in MountType /\ proc.at = Proc /\ proc.fs = "hostProc"
        /\ data \in MountType /\ data.at = Data /\ data.fs = "hostDir"
    BY DEF Mount, MountType, Filesystems, Places, Sources, FromHost
  <2>4. /\ first \in Seq(MountType) /\ first[1] = root
        /\ Len(first) = IF machine.procThere THEN 2 ELSE 1
        /\ machine.procThere => first[2] = proc
    <3> HIDE DEF root, proc, data
    <3>1. /\ <<root>> \in Seq(MountType) /\ Len(<<root>>) = 1 /\ <<root>>[1] = root
          /\ <<root>> \o <<>> = <<root>>
      BY <2>3
    <3>2. <<root>> \o <<proc>> = Append(<<root>>, proc)
      BY <2>3, <3>1, AppendIsConcat
    <3> QED
      BY <2>3, <3>1, <3>2, AppendProperties
  <2>5. /\ ms \in Seq(MountType) /\ DOMAIN ms = 1..Len(ms)
        /\ \A k \in 1..Len(first) : ms[k] = first[k]
        /\ \/ Len(ms) = Len(first)
           \/ Len(ms) = Len(first) + 1 /\ ms[Len(ms)] = data
    <3> HIDE DEF root, proc, data, first
    <3>1. first \o <<>> = first
      BY <2>4, ConcatEmptySeq
    <3>2. first \o <<data>> = Append(first, data)
      BY <2>3, <2>4, AppendIsConcat
    <3>3. /\ Append(first, data) \in Seq(MountType) /\ Len(Append(first, data)) = Len(first) + 1
          /\ Append(first, data)[Len(first) + 1] = data
          /\ \A k \in 1..Len(first) : Append(first, data)[k] = first[k]
      <4>1. first \in Seq(MountType) /\ data \in MountType
        BY <2>3, <2>4
      <4> QED
        BY <4>1, AppendProperties
    <3>4. ms = first \/ ms = Append(first, data)
      BY <3>1, <3>2
    <3> HIDE DEF ms
    <3>5. ms \in Seq(MountType)
      BY <2>4, <3>3, <3>4
    <3>6. DOMAIN ms = 1..Len(ms)
      BY <3>5
    <3> QED
      BY <3>3, <3>4, <3>5, <3>6
  <2> HIDE DEF ms, root, proc, data, first
  <2>6. /\ ms \in Seq(MountType) /\ ms # <<>> /\ ms[1].at = Top
        /\ \A k \in DOMAIN ms : ms[k].fs # "host"
    <3>1. \A k \in DOMAIN ms : ms[k] \in {root, proc, data}
      BY <2>4, <2>5
    <3>2. ms[1] = root /\ 1 \in DOMAIN ms
      BY <2>4, <2>5
    <3>3. ms # <<>>
      <4>1. \A s \in Seq(MountType) : 1 \in DOMAIN s => s # <<>>
        OBVIOUS
      <4> QED
        BY <2>5, <3>2, <4>1
    <3>4. root.fs # "host" /\ proc.fs # "host" /\ data.fs # "host"
      BY <2>3
    <3> QED
      BY <2>3, <2>5, <3>1, <3>2, <3>3, <3>4
  <2>7. \E k \in 1..Len(ms) : /\ IsLast(ms, Len(ms), k)
                              /\ ms[k].fs = IF machine.procThere THEN "hostProc" ELSE "rootfs"
    <3>1. CASE machine.procThere
      <4>1. IsLast(ms, Len(ms), 2) /\ 2 \in 1..Len(ms) /\ ms[2].fs = "hostProc"
        BY <2>3, <2>4, <2>5, <3>1, OnTheWay DEF IsLast
      <4> QED
        BY <3>1, <4>1
    <3>2. CASE ~machine.procThere
      <4>1. IsLast(ms, Len(ms), 1) /\ 1 \in 1..Len(ms) /\ ms[1].fs = "rootfs"
        BY <2>3, <2>4, <2>5, <3>2, OnTheWay DEF IsLast
      <4> QED
        BY <3>2, <4>1
    <3> QED
      BY <3>1, <3>2
  <2>8. /\ mounts' \in [Inits -> Seq(MountType)] /\ mounts'[i] = ms /\ hostSees' = {}
        /\ \A j \in Inits \ {i} : mounts'[j] = mounts[j]
    BY <1>2, <2>1, <2>2, <2>6, AttachIs
  <2>9. Rooted(i)'
    BY <2>6, <2>8 DEF Rooted
  <2>10. Traced(i)'
    <3>1. Made(i)' = 0 /\ Len(specs'[i].mounts) \in Nat
      BY <1>2, <2>1, <2>2 DEF Made, RootfsTyped, RootfsSpecType
    <3>2. \A fs : fs = (IF machine.procThere THEN "hostProc" ELSE "rootfs") => FromSpec(i, 0, fs)'
      BY <2>1 DEF FromSpec
    <3> QED
      BY <2>7, <2>8, <3>1, <3>2 DEF Traced
  <2>11. FilesTyped' /\ peer'[i] = "private" /\ peer' \in [Inits -> {"shared", "slave", "private"}]
    BY <1>2, <2>1, <2>2 DEF FilesTyped, Sealed, RootfsTyped
  <2> QED
    BY <2>1, <2>2, <2>8, <2>9, <2>10, <2>11, Moved
<1>5. CASE SetPropagation(i)
  <2> DEFINE ok == specs[i].propagation \notin {"shared", "unknown"}
  <2>1. /\ StepTo(i, "propagation", ok, "mounts")
        /\ peer' = [peer EXCEPT ![i] = IF specs[i].propagation = "slave" /\ @ = "shared" THEN "slave"
                                       ELSE IF specs[i].propagation \in {"private", "unbindable"} THEN "private"
                                       ELSE @]
        /\ UNCHANGED <<specs, machine, mounts, disk, tmp, tuned, hostSees, hostMounted>>
    BY <1>5 DEF SetPropagation
  <2> HIDE DEF ok
  <2>2. /\ step' \in [Inits -> Locations] /\ next' \in [Inits -> Nat \ {0}]
        /\ step[i] = "propagation" /\ step'[i] \in {"mounts", "failed"} /\ next'[i] = 1
        /\ \A j \in Inits \ {i} : step'[j] = step[j] /\ next'[j] = next[j]
    BY <1>1, <1>2, <2>1, StepIs
  <2>3. peer' = peer
    BY <1>2, <2>1, <2>2 DEF RootfsTyped, Sealed
  <2>4. step'[i] \in Tracing => step[i] \in Tracing /\ Made(i)' = Made(i)
    BY <2>2 DEF Tracing, Made
  <2>5. FilesTyped'
    BY <1>2, <2>1 DEF FilesTyped
  <2> QED
    BY <2>1, <2>2, <2>3, <2>4, <2>5, QuietMove
<1> QED
  BY <1>3, <1>4, <1>5

\* The ends of the loops.
LEMMA LoopEnds ==
  ASSUME RootfsInv, NEW i \in Inits, MountsDone(i) \/ MasksDone(i) \/ Prepared(i)
  PROVE  RootfsInv'
<1>1. "devices" \in Locations /\ "readonly" \in Locations /\ "mkOldroot" \in Locations
  BY DEF Locations, Preparing, Finalizing
<1>2. RootfsTyped /\ Traced(i) /\ FilesTyped
  BY DEF RootfsInv, RootfsTyped
<1>3. UNCHANGED <<specs, machine, peer, tuned, hostMounted>>
  BY DEF MountsDone, MasksDone, Prepared, Fixed
<1>4. CASE MountsDone(i)
  <2>1. AtEnd(i, "mounts", specs[i].mounts, "devices")
    BY <1>4 DEF MountsDone
  <2>2. /\ step' \in [Inits -> Locations] /\ next' \in [Inits -> Nat \ {0}]
        /\ step[i] = "mounts" /\ step'[i] = "devices" /\ next[i] > Len(specs[i].mounts)
        /\ \A j \in Inits \ {i} : step'[j] = step[j] /\ next'[j] = next[j]
        /\ UNCHANGED <<mounts, disk, tmp, hostSees>>
    BY <1>1, <1>2, <2>1, AtEndIs
  <2>3. Made(i)' = Made(i)
    <3>1. next[i] \in Nat /\ Len(specs[i].mounts) \in Nat
      BY <1>2 DEF RootfsTyped, RootfsSpecType
    <3>2. Made(i) = next[i] - 1 /\ Made(i) <= Len(specs[i].mounts)
      BY <1>2, <2>2 DEF Made, Traced, Tracing
    <3>3. Made(i)' = Len(specs[i].mounts)
      BY <1>3, <2>2 DEF Made
    <3> QED
      BY <2>2, <3>1, <3>2, <3>3
  <2>4. FilesTyped' /\ step[i] \in Tracing
    BY <1>2, <2>2 DEF FilesTyped, Tracing
  <2> QED
    BY <1>3, <2>2, <2>3, <2>4, QuietMove
<1>5. CASE MasksDone(i)
  <2>1. AtEnd(i, "masks", specs[i].masked, "readonly")
    BY <1>5 DEF MasksDone
  <2>2. /\ step' \in [Inits -> Locations] /\ next' \in [Inits -> Nat \ {0}]
        /\ step[i] = "masks" /\ step'[i] = "readonly"
        /\ \A j \in Inits \ {i} : step'[j] = step[j] /\ next'[j] = next[j]
        /\ UNCHANGED <<mounts, disk, tmp, hostSees>>
    BY <1>1, <1>2, <2>1, AtEndIs
  <2>3. FilesTyped' /\ step'[i] \notin Tracing
    BY <1>2, <2>2 DEF FilesTyped, Tracing
  <2> QED
    BY <1>3, <2>2, <2>3, QuietMove
<1>6. CASE Prepared(i)
  <2>1. AtEnd(i, "readonly", specs[i].readonly, "mkOldroot")
    BY <1>6 DEF Prepared
  <2>2. /\ step' \in [Inits -> Locations] /\ next' \in [Inits -> Nat \ {0}]
        /\ step[i] = "readonly" /\ step'[i] = "mkOldroot"
        /\ \A j \in Inits \ {i} : step'[j] = step[j] /\ next'[j] = next[j]
        /\ UNCHANGED <<mounts, disk, tmp, hostSees>>
    BY <1>1, <1>2, <2>1, AtEndIs
  <2>3. FilesTyped' /\ step'[i] \notin Tracing
    BY <1>2, <2>2 DEF FilesTyped, Tracing
  <2> QED
    BY <1>3, <2>2, <2>3, QuietMove
<1> QED
  BY <1>4, <1>5, <1>6

\* A mount of the spec.
LEMMA MountOneMove ==
  ASSUME RootfsInv, NEW i \in Inits, MountOne(i) PROVE RootfsInv'
<1> DEFINE m == specs[i].mounts[next[i]]
           dir == IF m.fs = "hostFile" THEN Front(m.at) ELSE m.at
           made == /\ specs[i].wrong # "source" \/ m.fs \notin FromHost
                   /\ MayMkdir(i, dir)
                   /\ m.fs = "hostFile" => Kind(i, m.at) # "dir" /\ MayMake(i, m.at)
           files == Onto(MkdirFiles(i, dir),
                           Fresh({p \in Absent(i, m.at) : m.fs = "hostFile"}, "file"))
           onTmpfs == Covering(mounts[i], m.at).fs \in Private
           inTmp == IF onTmpfs THEN Onto(files, tmp[i]) ELSE tmp[i]
           emptied == IF m.fs \in Private THEN {p \in Places : IsStrictPrefix(m.at, p)} ELSE {}
           ok == made /\ (m.ro /\ m.fs \in FromHost => MayRemount(i, m.fs))
           new == Mount(m.at, m.fs, m.ro)
<1>1. RootfsTyped /\ Traced(i) /\ FilesTyped
  BY DEF RootfsInv, RootfsTyped
<1>2. /\ next[i] <= Len(specs[i].mounts) /\ Again(i, "mounts", ok)
      /\ UNCHANGED <<specs, machine, peer, tuned, hostMounted>>
      /\ IF made
         THEN /\ Attach(i, Append(mounts[i], new))
              /\ tmp' = [tmp EXCEPT ![i] = Restrict(inTmp, (DOMAIN inTmp) \ emptied)]
              /\ disk' = IF onTmpfs THEN disk ELSE Onto(files, disk)
         ELSE UNCHANGED <<mounts, hostSees, disk, tmp>>
  BY DEF MountOne, Fixed, ReadonlyMount
<1>3. m.at \in Places /\ m.fs \in Sources /\ m.ro \in BOOLEAN
  <2>1. specs[i].mounts \in Seq([at : Places, fs : Sources, ro : BOOLEAN])
    BY <1>1 DEF RootfsTyped, RootfsSpecType
  <2>2. next[i] \in 1..Len(specs[i].mounts)
    <3>1. next[i] \in Nat /\ next[i] # 0 /\ Len(specs[i].mounts) \in Nat
      BY <1>1, <2>1 DEF RootfsTyped
    <3>2. next[i] <= Len(specs[i].mounts)
      BY <1>2
    <3> QED
      BY <3>1, <3>2
  <2>3. m \in [at : Places, fs : Sources, ro : BOOLEAN]
    BY <2>1, <2>2, ElementOfSeq
  <2> QED
    BY <2>3
<1>4. new \in MountType /\ new.fs # "host"
  BY <1>3 DEF Mount, MountType, Filesystems, Sources, FromHost
<1>5. IsFiles(files)
  <2>1. {p \in Absent(i, m.at) : m.fs = "hostFile"} \in SUBSET Places /\ "file" \in Kinds
    BY <1>3 DEF Absent, Kinds
  <2>2. IsFiles(Fresh({p \in Absent(i, m.at) : m.fs = "hostFile"}, "file"))
    BY <2>1, NewFiles
  <2>3. IsFiles(MkdirFiles(i, dir))
    BY MadeFiles
  <2> QED
    BY <2>2, <2>3, FilesOver
<1> HIDE DEF ok, made, new, files, dir, onTmpfs, emptied
<1>6. /\ step' \in [Inits -> Locations] /\ next' \in [Inits -> Nat \ {0}] /\ step[i] = "mounts"
      /\ \/ ok /\ step'[i] = "mounts" /\ next'[i] = next[i] + 1
         \/ ~ok /\ step'[i] = "failed"
      /\ \A j \in Inits \ {i} : step'[j] = step[j] /\ next'[j] = next[j]
  BY <1>1, <1>2, AgainIs
<1>7. FilesTyped'
  <2>1. CASE made
    <3>1. IsFiles(inTmp) /\ IsFiles(Onto(files, disk))
      BY <1>1, <1>5, FilesOver DEF FilesTyped
    <3> HIDE DEF inTmp
    <3>2. IsFiles(Restrict(inTmp, (DOMAIN inTmp) \ emptied))
      BY <3>1, FilesLeft
    <3> QED
      BY <1>1, <1>2, <2>1, <3>1, <3>2 DEF FilesTyped
  <2>2. CASE ~made
    BY <1>1, <1>2, <2>2 DEF FilesTyped
  <2> QED
    BY <2>1, <2>2
<1>8. UNCHANGED <<mounts, hostSees>> \/ Attach(i, Append(mounts[i], new))
  BY <1>2
<1>9. ASSUME mounts'[i] \in {mounts[i], Append(mounts[i], new)} PROVE Traced(i)'
  <2>1. CASE ok
    <3>1. RootfsTyped /\ Sealed /\ made /\ Append(mounts[i], new) \in Seq(MountType)
      BY <1>4, <2>1 DEF RootfsInv, RootfsTyped, ok
    <3>2. mounts'[i] = Append(mounts[i], new)
      BY <1>2, <1>6, <3>1, AttachIs
    <3> QED
      BY <1>1, <1>2, <1>3, <1>6, <2>1, <3>2, TracedMount DEF new
  <2>2. CASE ~ok
    BY <1>6, <2>2 DEF Traced, Tracing
  <2> QED
    BY <2>1, <2>2
<1> QED
  BY <1>2, <1>4, <1>6, <1>7, <1>8, <1>9, RaisedMove

\* The files and the mounts of devices.
LEMMA DeviceMove ==
  ASSUME RootfsInv, NEW i \in Inits, MknodDevice(i) \/ BindDevice(i) \/ CreateDevSymlinks(i)
  PROVE  RootfsInv'
<1>1. /\ "links" \in Locations /\ "sysctl" \in Locations
      /\ "device" \in Kinds /\ "file" \in Kinds /\ "link" \in Kinds
      /\ Node \in Places /\ Link \in Places
  BY DEF Locations, Preparing, Kinds, Places
<1>2. RootfsTyped /\ Traced(i) /\ FilesTyped
  BY DEF RootfsInv, RootfsTyped
<1>3. UNCHANGED <<specs, machine, peer, tuned, hostMounted>>
  BY DEF MknodDevice, BindDevice, CreateDevSymlinks, Fixed
<1>4. CASE MknodDevice(i)
  <2> DEFINE known == specs[i].wrong # "device"
             new == Fresh({p \in Absent(i, Node) : known}, "device")
             ok == MayMkdir(i, Dev) /\ MayMake(i, Node) /\ known
  <2>1. /\ StepTo(i, "devices", ok, "links")
        /\ \/ Put(i, Node, Onto(MkdirFiles(i, Dev), new))
           \/ UNCHANGED <<disk, tmp>>
        /\ UNCHANGED <<mounts, hostSees>>
    BY <1>4 DEF MknodDevice
  <2>2. IsFiles(Onto(MkdirFiles(i, Dev), new))
    <3>1. {p \in Absent(i, Node) : known} \in SUBSET Places
      BY <1>1 DEF Absent
    <3>2. IsFiles(new)
      BY <1>1, <3>1, NewFiles
    <3> QED
      BY <3>2, MadeFiles, FilesOver
  <2> HIDE DEF new, ok
  <2>3. /\ step' \in [Inits -> Locations] /\ next' \in [Inits -> Nat \ {0}]
        /\ step[i] = "devices" /\ step'[i] \in {"links", "failed"}
        /\ \A j \in Inits \ {i} : step'[j] = step[j] /\ next'[j] = next[j]
    BY <1>1, <1>2, <2>1, StepIs
  <2>4. FilesTyped'
    <3>1. CASE UNCHANGED <<disk, tmp>>
      BY <1>2, <3>1 DEF FilesTyped
    <3>2. CASE Put(i, Node, Onto(MkdirFiles(i, Dev), new))
      BY <1>2, <2>2, <3>2, PutIs
    <3> QED
      BY <2>1, <3>1, <3>2
  <2>5. step'[i] \in Tracing => step[i] \in Tracing /\ Made(i)' = Made(i)
    BY <1>3, <2>3 DEF Tracing, Made
  <2> QED
    BY <1>3, <2>1, <2>3, <2>4, <2>5, QuietMove
<1>5. CASE BindDevice(i)
  <2> DEFINE dir == MkdirFiles(i, Dev)
             new == Fresh(Absent(i, Node), "file")
             ok == MayMkdir(i, Dev) /\ (machine.lacksNode \/ (Kind(i, Node) # "dir" /\ MayMake(i, Node)))
             m == Mount(Node, "device", FALSE)
  <2>1. /\ StepTo(i, "devices", ok, "links")
        /\ \/ UNCHANGED <<disk, tmp>> \/ Put(i, Node, dir) \/ Put(i, Node, Onto(dir, new))
        /\ UNCHANGED <<mounts, hostSees>> \/ Attach(i, Append(mounts[i], m))
    BY <1>5 DEF BindDevice
  <2>2. IsFiles(dir) /\ IsFiles(Onto(dir, new))
    <3>1. IsFiles(dir) /\ IsFiles(new)
      BY <1>1, MadeFiles
    <3> QED
      BY <3>1, FilesOver
  <2>3. m \in MountType /\ m.fs # "host" /\ m.at = Node
    BY <1>1 DEF Mount, MountType, Filesystems
  <2> HIDE DEF dir, new, ok, m
  <2>4. /\ step' \in [Inits -> Locations] /\ next' \in [Inits -> Nat \ {0}]
        /\ step[i] = "devices" /\ step'[i] \in {"links", "failed"}
        /\ \A j \in Inits \ {i} : step'[j] = step[j] /\ next'[j] = next[j]
    BY <1>1, <1>2, <2>1, StepIs
  <2>5. FilesTyped'
    <3>1. CASE UNCHANGED <<disk, tmp>>
      BY <1>2, <3>1 DEF FilesTyped
    <3>2. CASE Put(i, Node, dir) \/ Put(i, Node, Onto(dir, new))
      BY <1>2, <2>2, <3>2, PutIs
    <3> QED
      BY <2>1, <3>1, <3>2
  <2>6. step'[i] \in Tracing => step[i] \in Tracing /\ Made(i)' = Made(i)
    BY <1>3, <2>4 DEF Tracing, Made
  <2>7. mounts'[i] \in {mounts[i], Append(mounts[i], m)} => Traced(i)'
    <3>1. ~IsPrefix(m.at, Key)
      BY <2>3, OnTheWay
    <3> QED
      BY <1>2, <1>3, <2>3, <2>6, <3>1, TracedOn
  <2> QED
    BY <1>3, <2>1, <2>3, <2>4, <2>5, <2>7, RaisedMove
<1>6. CASE CreateDevSymlinks(i)
  <2> DEFINE files == Fresh(Absent(i, Link), "link")
             ok == MayMake(i, Link)
  <2>1. /\ StepTo(i, "links", ok, "sysctl")
        /\ Put(i, Link, files) \/ UNCHANGED <<disk, tmp>>
        /\ UNCHANGED <<mounts, hostSees>>
    BY <1>6 DEF CreateDevSymlinks
  <2>2. IsFiles(files)
    BY <1>1, MadeFiles
  <2> HIDE DEF files, ok
  <2>3. /\ step' \in [Inits -> Locations] /\ next' \in [Inits -> Nat \ {0}]
        /\ step[i] = "links" /\ step'[i] \in {"sysctl", "failed"}
        /\ \A j \in Inits \ {i} : step'[j] = step[j] /\ next'[j] = next[j]
    BY <1>1, <1>2, <2>1, StepIs
  <2>4. FilesTyped'
    <3>1. CASE UNCHANGED <<disk, tmp>>
      BY <1>2, <3>1 DEF FilesTyped
    <3>2. CASE Put(i, Link, files)
      BY <1>2, <2>2, <3>2, PutIs
    <3> QED
      BY <2>1, <3>1, <3>2
  <2>5. step'[i] \in Tracing => step[i] \in Tracing /\ Made(i)' = Made(i)
    BY <1>3, <2>3 DEF Tracing, Made
  <2> QED
    BY <1>3, <2>1, <2>3, <2>4, <2>5, QuietMove
<1> QED
  BY <1>4, <1>5, <1>6

\* The mount that the key of a sysctl leads to, while sysctls are to be written.
LEMMA SysctlSource ==
  ASSUME RootfsInv, NEW i \in Inits, step[i] = "sysctl",
         Covering(mounts[i], Key).fs = "hostProc"
  PROVE  ProcSource(i) = "hostProc"
<1>1. /\ mounts[i] \in Seq(MountType) /\ DOMAIN mounts[i] = 1..Len(mounts[i]) /\ Len(mounts[i]) \in Nat
      /\ DOMAIN specs[i].mounts = 1..Len(specs[i].mounts) /\ Len(specs[i].mounts) \in Nat
  BY DEF RootfsInv, RootfsTyped, RootfsSpecType
<1>2. PICK k \in 1..Len(mounts[i]) :
         /\ IsLast(mounts[i], Len(mounts[i]), k)
         /\ FromSpec(i, Len(specs[i].mounts), mounts[i][k].fs)
  BY DEF RootfsInv, Traced, Tracing, Made
<1>3. mounts[i][k].fs = "hostProc"
  BY <1>1, <1>2, LastCovers
<1>4. CASE \E l \in 1..Len(specs[i].mounts) :
              IsLast(specs[i].mounts, Len(specs[i].mounts), l) /\ mounts[i][k].fs = specs[i].mounts[l].fs
  <2>1. PICK l \in 1..Len(specs[i].mounts) :
           IsLast(specs[i].mounts, Len(specs[i].mounts), l) /\ mounts[i][k].fs = specs[i].mounts[l].fs
    BY <1>4
  <2>2. /\ Covering(specs[i].mounts, Key) = specs[i].mounts[l]
        /\ Over(specs[i].mounts, Key) # {}
    BY <1>1, <2>1, LastCovers
  <2> QED
    BY <1>3, <2>1, <2>2 DEF ProcSource
<1>5. CASE /\ \A l \in 1..Len(specs[i].mounts) : ~IsPrefix(specs[i].mounts[l].at, Key)
           /\ mounts[i][k].fs = IF machine.procThere THEN "hostProc" ELSE "rootfs"
  <2>1. Over(specs[i].mounts, Key) = {}
    BY <1>1, <1>5 DEF Over
  <2>2. machine.procThere
    BY <1>3, <1>5
  <2> QED
    BY <2>1, <2>2 DEF ProcSource
<1> QED
  BY <1>2, <1>4, <1>5 DEF FromSpec

\* The only step that can write to the host.
LEMMA SysctlMove ==
  ASSUME RootfsInv, NEW i \in Inits, ApplySysctls(i) PROVE RootfsInv'
<1> DEFINE m == Covering(mounts[i], Key)
           there == \/ Kind(i, Key) = "file"
                    \/ Kind(i, Key) = "none" /\ Kind(i, Sys) = "dir" /\ TakesFiles(i, Key)
           ok == /\ specs[i].wrong # "sysctl" /\ there /\ ~m.ro
                 /\ m.fs = "hostProc" => ~specs[i].rootless
           files == Fresh(Absent(i, Key), "file")
<1>1. /\ StepTo(i, "sysctl", specs[i].sysctl => ok, "masks")
      /\ tuned' = tuned \cup IF specs[i].sysctl /\ ok
                             THEN {IF m.fs = "hostProc" THEN "host" ELSE i} ELSE {}
      /\ Put(i, Key, files) \/ UNCHANGED <<disk, tmp>>
      /\ UNCHANGED <<specs, machine, peer, hostMounted, mounts, hostSees>>
  BY DEF ApplySysctls
<1> HIDE DEF ok, files
<1>2. RootfsTyped /\ FilesTyped /\ "masks" \in Locations
  BY DEF RootfsInv, RootfsTyped, Locations, Preparing
<1>3. /\ step' \in [Inits -> Locations] /\ next' \in [Inits -> Nat \ {0}]
      /\ step[i] = "sysctl" /\ step'[i] \in {"masks", "failed"}
      /\ \A j \in Inits \ {i} : step'[j] = step[j] /\ next'[j] = next[j]
  BY <1>1, <1>2, StepIs
<1>4. FilesTyped' /\ step'[i] \notin Tracing
  <2>1. IsFiles(files)
    BY MadeFiles DEF files, Places, Kinds
  <2>2. CASE UNCHANGED <<disk, tmp>>
    BY <1>2, <1>3, <2>2 DEF FilesTyped, Tracing
  <2>3. CASE Put(i, Key, files)
    BY <1>2, <1>3, <2>1, <2>3, PutIs DEF Tracing
  <2> QED
    BY <1>1, <2>2, <2>3
<1>5. i # "host"
  BY InitsAssumption
<1>6. tuned \subseteq Inits \cup {"host"}
      /\ ("host" \in tuned => \E j \in Inits : ProcSource(j) = "hostProc")
  BY DEF RootfsInv, RootfsTyped, Accounted
<1>7. /\ tuned' \subseteq Inits \cup {"host"}
      /\ "host" \in tuned' => \E j \in Inits : ProcSource(j) = "hostProc"
  <2>1. CASE m.fs = "hostProc"
    <3>1. ProcSource(i) = "hostProc"
      BY <1>3, <2>1, SysctlSource
    <3> QED
      BY <1>1, <1>6, <2>1, <3>1
  <2>2. CASE m.fs # "hostProc"
    BY <1>1, <1>5, <1>6, <2>2
  <2> QED
    BY <2>1, <2>2
<1> QED
  BY <1>1, <1>3, <1>4, <1>7, QuietMove

\* Masks and read-only paths.
LEMMA ProtectMove ==
  ASSUME RootfsInv, NEW i \in Inits, MaskPath(i) \/ ReadonlyPath(i) PROVE RootfsInv'
<1>1. RootfsTyped /\ Sealed /\ Rooted(i) /\ Traced(i) /\ FilesTyped /\ mounts[i] \in Seq(MountType)
  BY DEF RootfsInv, RootfsTyped
<1>2. UNCHANGED <<specs, machine, peer, tuned, hostMounted, disk, tmp>>
  BY DEF MaskPath, ReadonlyPath, Fixed
<1>3. FilesTyped'
  BY <1>1, <1>2 DEF FilesTyped
<1>4. ASSUME NEW list, list \in {specs[i].masked, specs[i].readonly}, next[i] <= Len(list)
      PROVE  list[next[i]] \in Places
  <2>1. list \in Seq(Places)
    BY <1>1, <1>4 DEF RootfsTyped, RootfsSpecType
  <2>2. next[i] \in Nat /\ next[i] # 0 /\ Len(list) \in Nat
    BY <1>1, <2>1 DEF RootfsTyped
  <2>3. next[i] \in 1..Len(list)
    BY <1>4, <2>2
  <2> QED
    BY <2>1, <2>3, ElementOfSeq
<1>5. CASE MaskPath(i)
  <2> DEFINE p == specs[i].masked[next[i]]
             over == Mount(p, "maskDir", TRUE)
             null == Mount(p, "maskFile", FALSE)
  <2>1. next[i] <= Len(specs[i].masked) /\ Again(i, "masks", TRUE)
    BY <1>5 DEF MaskPath
  <2>2. \/ UNCHANGED <<mounts, hostSees>> \/ Attach(i, Append(mounts[i], over))
        \/ Attach(i, Append(mounts[i], null))
    BY <1>5 DEF MaskPath
  <2>3. /\ over \in MountType /\ over.fs # "host" /\ null \in MountType /\ null.fs # "host"
    <3>1. p \in Places
      BY <1>4, <2>1
    <3> QED
      BY <3>1 DEF Mount, MountType, Filesystems
  <2> HIDE DEF over, null
  <2>4. /\ step' \in [Inits -> Locations] /\ next' \in [Inits -> Nat \ {0}]
        /\ step[i] = "masks" /\ step'[i] \in {"masks", "failed"}
        /\ \A j \in Inits \ {i} : step'[j] = step[j] /\ next'[j] = next[j]
    BY <1>1, <2>1, AgainIs
  <2>5. Traced(i)'
    BY <2>4 DEF Traced, Tracing
  <2>6. CASE UNCHANGED <<mounts, hostSees>> \/ Attach(i, Append(mounts[i], over))
    BY <1>2, <1>3, <2>3, <2>4, <2>5, <2>6, RaisedMove
  <2>7. CASE Attach(i, Append(mounts[i], null))
    BY <1>2, <1>3, <2>3, <2>4, <2>5, <2>7, RaisedMove
  <2> QED
    BY <2>2, <2>6, <2>7
<1>6. CASE ReadonlyPath(i)
  <2> DEFINE p == specs[i].readonly[next[i]]
             ok == MayRemount(i, Covering(mounts[i], p).fs)
             there == Kind(i, p) # "none"
             new == SelfBind(mounts[i], p, ok, Below(mounts[i], p))
  <2>1. /\ next[i] <= Len(specs[i].readonly) /\ Again(i, "readonly", there => Bindable(i, p) /\ ok)
        /\ UNCHANGED <<mounts, hostSees>> \/ Attach(i, new)
    BY <1>6 DEF ReadonlyPath
  <2>2. p \in Places /\ ok \in BOOLEAN
    BY <1>4, <2>1 DEF MayRemount
  <2> HIDE DEF ok, there, p
  <2>3. /\ step' \in [Inits -> Locations] /\ next' \in [Inits -> Nat \ {0}]
        /\ step[i] = "readonly" /\ step'[i] \in {"readonly", "failed"}
        /\ \A j \in Inits \ {i} : step'[j] = step[j] /\ next'[j] = next[j]
    BY <1>1, <2>1, AgainIs
  <2>4. mounts[i] # <<>> /\ mounts[i][1].at = Top /\ \A k \in DOMAIN mounts[i] : mounts[i][k].fs # "host"
    BY <1>1, <2>3 DEF Rooted
  <2>5. /\ new \in Seq(MountType) /\ new # <<>> /\ new[1].at = Top
        /\ \A k \in DOMAIN new : new[k].fs # "host"
    BY <1>1, <2>2, <2>4, SelfBindIs
  <2> HIDE DEF new
  <2>6. /\ mounts' \in [Inits -> Seq(MountType)] /\ mounts'[i] \in {mounts[i], new} /\ hostSees' = {}
        /\ \A j \in Inits \ {i} : mounts'[j] = mounts[j]
    <3>1. CASE UNCHANGED <<mounts, hostSees>>
      BY <1>1, <3>1 DEF RootfsTyped, Sealed
    <3>2. CASE Attach(i, new)
      BY <1>1, <2>3, <2>5, <3>2, AttachIs
    <3> QED
      BY <2>1, <3>1, <3>2
  <2>7. Rooted(i)'
    BY <2>4, <2>5, <2>6 DEF Rooted
  <2>8. Traced(i)'
    BY <2>3 DEF Traced, Tracing
  <2>9. peer' \in [Inits -> {"shared", "slave", "private"}] /\ peer'[i] = "private"
    BY <1>1, <1>2, <2>3 DEF RootfsTyped, Sealed
  <2> QED
    BY <1>2, <1>3, <2>3, <2>6, <2>7, <2>8, <2>9, Moved
<1> QED
  BY <1>5, <1>6

----------------------------------------------------------------------------
(* finalizeRootfs, the end of an init and the host *)

\* The steps that leave the mounts below the root as they are, or pivot.
LEMMA PivotMove ==
  ASSUME RootfsInv, NEW i \in Inits, MakeOldroot(i) \/ PivotRoot(i) \/ Chdir(i)
  PROVE  RootfsInv'
<1>1. /\ RootfsTyped /\ FilesTyped
      /\ "pivot" \in Locations /\ "detach" \in Locations /\ "done" \in Locations
  BY DEF RootfsInv, RootfsTyped, Locations, Finalizing
<1>2. UNCHANGED <<specs, machine, peer, tuned, hostMounted>>
  BY DEF MakeOldroot, PivotRoot, Chdir, Fixed
<1>3. CASE MakeOldroot(i)
  <2> DEFINE files == MkdirFiles(i, OldRoot)
             ok == MayMkdir(i, OldRoot)
  <2>1. /\ StepTo(i, "mkOldroot", ok, "pivot")
        /\ Put(i, OldRoot, files) \/ UNCHANGED <<disk, tmp>>
        /\ UNCHANGED <<mounts, hostSees>>
    BY <1>3 DEF MakeOldroot
  <2> HIDE DEF ok
  <2>2. FilesTyped'
    <3>1. CASE UNCHANGED <<disk, tmp>>
      BY <1>1, <3>1 DEF FilesTyped
    <3>2. CASE Put(i, OldRoot, files)
      BY <1>1, <3>2, MadeFiles, PutIs
    <3> QED
      BY <2>1, <3>1, <3>2
  <2>3. /\ step' \in [Inits -> Locations] /\ next' \in [Inits -> Nat \ {0}]
        /\ step[i] = "mkOldroot" /\ step'[i] \in {"pivot", "failed"}
        /\ \A j \in Inits \ {i} : step'[j] = step[j] /\ next'[j] = next[j]
    BY <1>1, <2>1, StepIs
  <2>4. step'[i] \notin Tracing
    BY <2>3 DEF Tracing
  <2> QED
    BY <1>2, <2>1, <2>2, <2>3, <2>4, QuietMove
<1>4. CASE PivotRoot(i)
  <2> DEFINE ok == Kind(i, OldRoot) = "dir" /\ peer[i] # "shared"
             m == Mount(OldRoot, "host", FALSE)
  <2>1. /\ StepTo(i, "pivot", ok, "detach") /\ UNCHANGED <<disk, tmp>>
        /\ \/ ok /\ Attach(i, Append(mounts[i], m))
           \/ ~ok /\ UNCHANGED <<mounts, hostSees>>
    BY <1>4 DEF PivotRoot
  <2>2. m \in MountType /\ m.at = OldRoot
    BY DEF Mount, MountType, Filesystems, Places
  <2> HIDE DEF ok, m
  <2>3. /\ step' \in [Inits -> Locations] /\ next' \in [Inits -> Nat \ {0}]
        /\ step[i] = "pivot" /\ step'[i] \in {"detach", "failed"} /\ (ok => step'[i] = "detach")
        /\ \A j \in Inits \ {i} : step'[j] = step[j] /\ next'[j] = next[j]
    BY <1>1, <2>1, StepIs
  <2>4. Traced(i)' /\ FilesTyped'
    BY <1>1, <2>1, <2>3 DEF Traced, Tracing, FilesTyped
  <2>5. mounts'[i] # mounts[i] => step'[i] = "detach"
    BY <2>1, <2>3
  <2>6. UNCHANGED <<mounts, hostSees>> \/ Attach(i, Append(mounts[i], m))
    BY <2>1
  <2> QED
    BY <1>2, <2>2, <2>3, <2>4, <2>5, <2>6, RaisedMove
<1>5. CASE Chdir(i)
  <2> DEFINE ok == specs[i].wrong # "cwd"
  <2>1. StepTo(i, "cwd", ok, "done") /\ UNCHANGED <<mounts, hostSees, disk, tmp>>
    BY <1>5 DEF Chdir
  <2> HIDE DEF ok
  <2>2. /\ step' \in [Inits -> Locations] /\ next' \in [Inits -> Nat \ {0}]
        /\ step[i] = "cwd" /\ step'[i] \in {"done", "failed"}
        /\ \A j \in Inits \ {i} : step'[j] = step[j] /\ next'[j] = next[j]
    BY <1>1, <2>1, StepIs
  <2>3. step'[i] \notin Tracing /\ FilesTyped'
    BY <1>1, <2>1, <2>2 DEF Tracing, FilesTyped
  <2> QED
    BY <1>2, <2>1, <2>2, <2>3, QuietMove
<1> QED
  BY <1>3, <1>4, <1>5

\* The host's root goes with .oldroot.
LEMMA DetachMove ==
  ASSUME RootfsInv, NEW i \in Inits, DetachOldroot(i) \/ RemoveOldroot(i)
  PROVE  RootfsInv'
<1>1. RootfsTyped /\ Sealed /\ Rooted(i) /\ FilesTyped /\ "rmOldroot" \in Locations /\ "remount" \in Locations
  BY DEF RootfsInv, RootfsTyped, Locations, Finalizing
<1>2. UNCHANGED <<specs, machine, peer, tuned, hostMounted, hostSees>>
  BY DEF DetachOldroot, RemoveOldroot, Fixed
<1>3. \A j \in Inits : /\ mounts[j] \in Seq(MountType) /\ Without(mounts[j], OldRoot) \in Seq(MountType)
                      /\ WithoutHost(mounts[j]) \in Seq(MountType)
  BY <1>1, WithoutIs, WithoutHostIs DEF RootfsTyped
<1>4. ASSUME step[i] \notin {"private", "bind", "killed"}, step'[i] \notin {"killed"},
             \/ mounts'[i] = WithoutHost(mounts[i])
             \/ mounts'[i] = Without(mounts[i], OldRoot) /\ step[i] # "detach"
             \/ mounts'[i] = mounts[i] /\ step[i] # "detach"
      PROVE  Rooted(i)'
  <2>1. CASE mounts'[i] = mounts[i] /\ step[i] # "detach"
    BY <1>1, <1>4, <2>1 DEF Rooted
  <2>2. CASE \/ mounts'[i] = WithoutHost(mounts[i])
             \/ mounts'[i] = Without(mounts[i], OldRoot) /\ step[i] # "detach"
    <3>1. /\ Len(mounts'[i]) = Len(mounts[i]) /\ DOMAIN mounts'[i] = 1..Len(mounts[i])
          /\ \A k \in 1..Len(mounts[i]) :
                \/ mounts'[i][k] = Detached /\ (mounts[i][k].at = OldRoot \/ mounts[i][k].fs = "host")
                \/ mounts'[i][k] = mounts[i][k] /\ mounts[i][k].fs # "host"
                \/ mounts'[i][k] = mounts[i][k] /\ step[i] # "detach"
      BY <1>3, <2>2, WithoutIs, WithoutHostIs
    <3>2. Detached.fs # "host" /\ OldRoot # Top
      BY DEF Detached, Mount, OldRoot, Top
    <3>3. mounts[i] # <<>> /\ mounts[i][1].at = Top /\ 1 \in 1..Len(mounts[i])
          /\ DOMAIN mounts[i] = 1..Len(mounts[i])
      BY <1>1, <1>3, <1>4 DEF Rooted
    <3>4. mounts'[i] # <<>> /\ mounts'[i][1].at = Top
      <4>1. mounts'[i] # <<>>
        BY <1>3, <2>2, <3>1, <3>3
      <4>2. mounts[i][1].fs # "host"
        BY <1>1, <3>2, <3>3 DEF Rooted
      <4> QED
        BY <3>1, <3>2, <3>3, <4>1, <4>2
    <3>5. \A k \in DOMAIN mounts'[i] : mounts'[i][k].fs # "host"
      BY <1>1, <1>4, <3>1, <3>2, <3>3 DEF Rooted
    <3> QED
      BY <3>4, <3>5 DEF Rooted
  <2> QED
    BY <1>4, <2>1, <2>2
<1>5. CASE DetachOldroot(i)
  <2> DEFINE ok == Covering(mounts[i], OldRoot).fs = "host"
  <2>1. /\ StepTo(i, "detach", ok, "rmOldroot") /\ UNCHANGED <<disk, tmp>>
        /\ mounts' = [mounts EXCEPT ![i] = WithoutHost(@)]
    BY <1>5 DEF DetachOldroot
  <2> HIDE DEF ok
  <2>2. /\ step' \in [Inits -> Locations] /\ next' \in [Inits -> Nat \ {0}]
        /\ step[i] = "detach" /\ step'[i] \in {"rmOldroot", "failed"}
        /\ \A j \in Inits \ {i} : step'[j] = step[j] /\ next'[j] = next[j]
    BY <1>1, <2>1, StepIs
  <2>3. /\ mounts' \in [Inits -> Seq(MountType)] /\ mounts'[i] = WithoutHost(mounts[i])
        /\ \A j \in Inits \ {i} : mounts'[j] = mounts[j]
    BY <1>1, <1>3, <2>1 DEF RootfsTyped
  <2>4. Rooted(i)' /\ Traced(i)'
    BY <1>4, <2>2, <2>3 DEF Traced, Tracing
  <2>5. /\ FilesTyped' /\ hostSees' = {}
        /\ peer' \in [Inits -> {"shared", "slave", "private"}] /\ peer'[i] = "private"
    BY <1>1, <1>2, <2>1, <2>2 DEF FilesTyped, RootfsTyped, Sealed
  <2> QED
    BY <1>2, <2>2, <2>3, <2>4, <2>5, Moved
<1>6. CASE RemoveOldroot(i)
  <2> DEFINE root == Covering(mounts[i], OldRoot)
             ok == root.at # OldRoot /\ Kind(i, OldRoot) = "dir" /\ TakesFiles(i, OldRoot)
             Left(files) == Restrict(files, (DOMAIN files) \ {OldRoot})
             Taken(j) == IF mounts[j] # <<>> /\ Covering(mounts[j], Top).fs = "rootfs"
                         THEN Without(mounts[j], OldRoot) ELSE mounts[j]
  <2>1. /\ StepTo(i, "rmOldroot", ok, "remount")
        /\ \/ UNCHANGED <<disk, tmp, mounts>>
           \/ /\ disk' = Left(disk) /\ UNCHANGED tmp
              /\ mounts' = [j \in Inits |-> Taken(j)]
           \/ tmp' = [tmp EXCEPT ![i] = Left(@)] /\ UNCHANGED <<disk, mounts>>
    BY <1>6 DEF RemoveOldroot
  <2>0. \A j \in Inits : Taken(j) \in {mounts[j], Without(mounts[j], OldRoot)}
    OBVIOUS
  <2> HIDE DEF ok, root, Taken
  <2>2. /\ step' \in [Inits -> Locations] /\ next' \in [Inits -> Nat \ {0}]
        /\ step[i] = "rmOldroot" /\ step'[i] \in {"remount", "failed"}
        /\ \A j \in Inits \ {i} : step'[j] = step[j] /\ next'[j] = next[j]
    BY <1>1, <2>1, StepIs
  <2>3. /\ mounts' \in [Inits -> Seq(MountType)]
        /\ \A j \in Inits : mounts'[j] \in {mounts[j], Without(mounts[j], OldRoot)}
    <3>1. CASE mounts' = mounts
      BY <1>1, <3>1 DEF RootfsTyped
    <3>2. CASE mounts' = [j \in Inits |-> Taken(j)]
      BY <1>3, <2>0, <3>2
    <3> QED
      BY <2>1, <3>1, <3>2
  <2>4. Rooted(i)' /\ Traced(i)'
    BY <1>4, <2>2, <2>3 DEF Traced, Tracing
  <2>5. FilesTyped'
    <3>1. IsFiles(Left(disk)) /\ IsFiles(Left(tmp[i]))
      BY <1>1, FilesLeft DEF FilesTyped
    <3> HIDE DEF Left
    <3> QED
      BY <1>1, <2>1, <3>1 DEF FilesTyped
  <2>6. /\ hostSees' = {} /\ peer'[i] = "private"
        /\ peer' \in [Inits -> {"shared", "slave", "private"}]
    BY <1>1, <1>2, <2>2 DEF RootfsTyped, Sealed
  <2> QED
    BY <1>2, <2>2, <2>3, <2>4, <2>5, <2>6, Moved
<1> QED
  BY <1>5, <1>6

\* The remount of the root.
LEMMA RemountMove ==
  ASSUME RootfsInv, NEW i \in Inits, RemountRoot(i) PROVE RootfsInv'
<1> DEFINE ok == MayRemount(i, Covering(mounts[i], Top).fs)
           top == Max(Over(mounts[i], Top))
           root == [mounts[i][top] EXCEPT !.ro = TRUE]
           ms == [mounts[i] EXCEPT ![top] = root]
<1>1. RootfsTyped /\ Sealed /\ Rooted(i) /\ FilesTyped /\ "cwd" \in Locations
  BY DEF RootfsInv, RootfsTyped, Locations, Finalizing
<1>2. /\ StepTo(i, "remount", specs[i].readonlyRoot => ok, "cwd")
      /\ UNCHANGED <<specs, machine, peer, tuned, hostMounted, hostSees, disk, tmp>>
      /\ mounts' = [mounts EXCEPT ![i][top].ro = TRUE] \/ mounts' = mounts
  BY DEF RemountRoot, Fixed
<1> HIDE DEF ok
<1>4. /\ step' \in [Inits -> Locations] /\ next' \in [Inits -> Nat \ {0}]
      /\ step[i] = "remount" /\ step'[i] \in {"cwd", "failed"}
      /\ \A j \in Inits \ {i} : step'[j] = step[j] /\ next'[j] = next[j]
  BY <1>1, <1>2, StepIs
<1>5. /\ mounts[i] \in Seq(MountType) /\ mounts[i] # <<>> /\ mounts[i][1].at = Top
      /\ 1 \in DOMAIN mounts[i]
      /\ \A k \in DOMAIN mounts[i] : mounts[i][k].fs # "host"
  BY <1>1, <1>4 DEF RootfsTyped, Rooted
<1>6. top \in DOMAIN mounts[i]
  <2>1. Top \in Places
    BY DEF Places
  <2> QED
    BY <1>5, <2>1, LastOver DEF Over
<1> HIDE DEF top
<1>7. root \in MountType /\ root.at = mounts[i][top].at /\ root.fs = mounts[i][top].fs
  <2>1. mounts[i][top] \in MountType
    BY <1>5, <1>6
  <2> QED
    BY <2>1 DEF MountType
<1>8. mounts' = [mounts EXCEPT ![i] = ms] \/ mounts' = mounts
  BY <1>2
<1> HIDE DEF root
<1>9. /\ ms \in Seq(MountType) /\ DOMAIN ms = DOMAIN mounts[i] /\ ms # <<>>
      /\ \A k \in DOMAIN mounts[i] : ms[k] = IF k = top THEN root ELSE mounts[i][k]
  BY <1>5, <1>6, <1>7
<1> HIDE DEF ms
<1>10. /\ mounts' \in [Inits -> Seq(MountType)] /\ mounts'[i] \in {ms, mounts[i]}
       /\ \A j \in Inits \ {i} : mounts'[j] = mounts[j]
  <2>1. mounts \in [Inits -> Seq(MountType)]
    BY <1>1 DEF RootfsTyped
  <2>2. CASE mounts' = mounts
    BY <2>1, <2>2
  <2>3. CASE mounts' = [mounts EXCEPT ![i] = ms]
    BY <1>9, <2>1, <2>3
  <2> QED
    BY <1>8, <2>2, <2>3
<1>11. Rooted(i)' /\ Traced(i)'
  <2>1. /\ mounts'[i] # <<>> /\ mounts'[i][1].at = Top
        /\ \A k \in DOMAIN mounts'[i] : mounts'[i][k].fs # "host"
    BY <1>5, <1>7, <1>9, <1>10
  <2> QED
    BY <1>4, <2>1 DEF Rooted, Traced, Tracing
<1>12. /\ FilesTyped' /\ hostSees' = {} /\ peer'[i] = "private"
       /\ peer' \in [Inits -> {"shared", "slave", "private"}]
  BY <1>1, <1>2, <1>4 DEF FilesTyped, RootfsTyped, Sealed
<1> QED
  BY <1>2, <1>4, <1>10, <1>11, <1>12, Moved

\* An init that is killed.
LEMMA KilledMove ==
  ASSUME RootfsInv, NEW i \in Inits, Killed(i) PROVE RootfsInv'
<1>1. /\ Goto(i, "killed") /\ "killed" \in Locations
      /\ UNCHANGED <<specs, machine, peer, tuned, hostMounted, mounts, hostSees, disk, tmp>>
  BY DEF Killed, Fixed, Locations
<1>2. RootfsTyped /\ FilesTyped /\ Sealed /\ Rooted(i)
  BY DEF RootfsInv, RootfsTyped
<1>3. /\ step' \in [Inits -> Locations] /\ next' \in [Inits -> Nat \ {0}] /\ step'[i] = "killed"
      /\ \A j \in Inits \ {i} : step'[j] = step[j] /\ next'[j] = next[j]
  BY <1>1, <1>2, GotoIs
<1>4. Rooted(i)' /\ Traced(i)'
  BY <1>1, <1>2, <1>3 DEF Rooted, Traced, Tracing
<1>5. /\ FilesTyped' /\ hostSees' = {} /\ mounts' \in [Inits -> Seq(MountType)]
      /\ peer' \in [Inits -> {"shared", "slave", "private"}]
  BY <1>1, <1>2 DEF FilesTyped, RootfsTyped, Sealed
<1> QED
  BY <1>1, <1>3, <1>4, <1>5, Moved

\* A mount of the host's reaches only an init that has not begun or that is gone.
LEMMA HostMove == ASSUME RootfsInv, HostMounts PROVE RootfsInv'
<1> DEFINE data == Mount(Data, "hostDir", FALSE)
<1>1. /\ hostMounted' = TRUE
      /\ mounts' = [i \in Inits |-> IF mounts[i] # <<>> /\ peer[i] # "private"
                                    THEN Append(mounts[i], data) ELSE mounts[i]]
      /\ UNCHANGED <<specs, machine, step, next, peer, disk, tmp, tuned, hostSees>>
  BY DEF HostMounts
<1>2. RootfsTyped /\ Sealed /\ FilesTyped
  BY DEF RootfsInv, RootfsTyped
<1>3. data \in MountType /\ data.fs # "host"
  BY DEF Mount, MountType, Filesystems, Places, Sources, FromHost
<1> HIDE DEF data
<1>4. \A i \in Inits : mounts[i] \in Seq(MountType) /\ Append(mounts[i], data) \in Seq(MountType)
  BY <1>2, <1>3 DEF RootfsTyped
<1>5. RootfsTyped'
  <2>1. mounts' \in [Inits -> Seq(MountType)]
    BY <1>1, <1>4
  <2>2. FilesTyped'
    BY <1>1, <1>2 DEF FilesTyped
  <2> QED
    BY <1>1, <1>2, <2>1, <2>2 DEF RootfsTyped
<1>6. ASSUME NEW i \in Inits PROVE Rooted(i)' /\ Traced(i)'
  <2>1. Rooted(i) /\ Traced(i)
    BY DEF RootfsInv
  <2>2. CASE mounts'[i] = mounts[i]
    BY <1>1, <2>1, <2>2, OthersKept, <1>2
  <2>3. CASE mounts'[i] # mounts[i]
    <3>1. mounts[i] # <<>> /\ mounts'[i] = Append(mounts[i], data)
          /\ step[i] \in {"private", "failed", "killed"}
      BY <1>1, <1>2, <2>3 DEF Sealed
    <3>2. /\ DOMAIN mounts[i] = 1..Len(mounts[i]) /\ Len(mounts[i]) \in Nat /\ 1 \in 1..Len(mounts[i])
          /\ Len(mounts'[i]) = Len(mounts[i]) + 1 /\ DOMAIN mounts'[i] = 1..Len(mounts[i]) + 1
          /\ mounts'[i][Len(mounts[i]) + 1] = data /\ mounts'[i] # <<>>
          /\ \A k \in 1..Len(mounts[i]) : mounts'[i][k] = mounts[i][k]
      BY <1>3, <1>4, <3>1, AppendProperties
    <3>3. \A k \in DOMAIN mounts'[i] : k \in 1..Len(mounts[i]) \/ k = Len(mounts[i]) + 1
      BY <3>2
    <3>4. Rooted(i)'
      BY <1>1, <1>3, <2>1, <3>1, <3>2, <3>3 DEF Rooted
    <3>5. Traced(i)'
      BY <1>1, <3>1 DEF Traced, Tracing
    <3> QED
      BY <3>4, <3>5
  <2> QED
    BY <2>2, <2>3
<1>7. Sealed'
  BY <1>1, <1>2 DEF Sealed
<1>8. Accounted'
  <2>1. \A j \in Inits : ProcSource(j)' = ProcSource(j)
    BY <1>1 DEF ProcSource, Over, Covering
  <2> QED
    BY <1>1, <2>1 DEF RootfsInv, Accounted
<1> QED
  BY <1>5, <1>6, <1>7, <1>8 DEF RootfsInv

----------------------------------------------------------------------------
(* The invariant and what follows from it *)

\* Every init starts in a copy of the host's namespace that is not touched yet.
LEMMA RootfsBegins == ASSUME RootfsInit PROVE RootfsInv
<1>1. /\ specs \in [Inits -> RootfsSpecType] /\ machine \in MachineType /\ disk \in Disks
      /\ step = [i \in Inits |-> "private"] /\ next = [i \in Inits |-> 1]
      /\ mounts = [i \in Inits |-> <<>>] /\ tmp = [i \in Inits |-> <<>>]
      /\ peer = [i \in Inits |-> IF specs[i].rootless THEN "slave" ELSE "shared"]
      /\ tuned = {} /\ hostSees = {} /\ hostMounted = FALSE
  BY RootfsSpecsAssumption, MachinesAssumption DEF RootfsInit
<1>2. FilesTyped
  <2>1. IsFiles(disk)
    BY <1>1, DisksAssumption DEF IsFiles
  <2>2. IsFiles(<<>>)
    BY DEF IsFiles
  <2> QED
    BY <1>1, <2>1, <2>2 DEF FilesTyped
<1>3. RootfsTyped
  <2>1. <<>> \in Seq(MountType)
    OBVIOUS
  <2>2. mounts \in [Inits -> Seq(MountType)] /\ next \in [Inits -> Nat \ {0}]
    BY <1>1, <2>1
  <2>3. step \in [Inits -> Preparing \cup Finalizing \cup {"done", "failed", "killed"}]
    BY <1>1 DEF Preparing
  <2>4. peer \in [Inits -> {"shared", "slave", "private"}]
    BY <1>1
  <2> QED
    BY <1>1, <1>2, <2>2, <2>3, <2>4 DEF RootfsTyped
<1>4. \A i \in Inits : Rooted(i) /\ Traced(i)
  BY <1>1 DEF Rooted, Traced, Tracing
<1>5. Sealed /\ Accounted
  BY <1>1 DEF Sealed, Accounted
<1> QED
  BY <1>3, <1>4, <1>5 DEF RootfsInv

\* No step of an init or of the host breaks the invariant.
LEMMA RootfsGoesOn == ASSUME RootfsInv, [RootfsNext]_rootfsVars PROVE RootfsInv'
<1>1. CASE HostMounts
  BY <1>1, HostMove
<1>2. ASSUME NEW i \in Inits, PrepareRootfs(i) PROVE RootfsInv'
  BY <1>2, BindMove, LoopEnds, MountOneMove, DeviceMove, SysctlMove, ProtectMove DEF PrepareRootfs
<1>3. ASSUME NEW i \in Inits, FinalizeRootfs(i) PROVE RootfsInv'
  BY <1>3, PivotMove, DetachMove, RemountMove DEF FinalizeRootfs
<1>4. ASSUME NEW i \in Inits, Killed(i) PROVE RootfsInv'
  BY <1>4, KilledMove
<1>5. CASE UNCHANGED rootfsVars
  <2>1. UNCHANGED <<specs, machine, step, next, mounts, peer, disk, tmp, tuned, hostSees, hostMounted>>
    BY <1>5 DEF rootfsVars
  <2>2. RootfsTyped' /\ Sealed'
    BY <2>1 DEF RootfsInv, RootfsTyped, FilesTyped, Sealed
  <2>3. \A i \in Inits : Rooted(i)' /\ Traced(i)'
    BY <2>1 DEF RootfsInv, Rooted, Traced, Made, FromSpec
  <2>4. Accounted'
    BY <2>1 DEF RootfsInv, Accounted, ProcSource, Over, Covering
  <2> QED
    BY <2>2, <2>3, <2>4 DEF RootfsInv
<1> QED
  BY <1>1, <1>2, <1>3, <1>4, <1>5 DEF RootfsNext

\* What init does to a namespace, step by step, keeps it rooted, private and accounted
\* for: the inductive invariant behind the next two.
THEOREM RootfsInvariance == RootfsSpec => []RootfsInv
<1>1. RootfsInit => RootfsInv
  BY RootfsBegins
<1>2. RootfsInv /\ [RootfsNext]_rootfsVars => RootfsInv'
  BY RootfsGoesOn
<1> QED
  BY <1>1, <1>2, PTL DEF RootfsSpec

\* A namespace has its root from the bind on, and the host's root, at .oldroot, only from
\* the pivot to its detach.
THEOREM RootfsTypeCorrect == RootfsSpec => []RootfsTypeOK
<1>1. RootfsInv => RootfsTypeOK
  <2> SUFFICES ASSUME RootfsInv PROVE RootfsTypeOK
    OBVIOUS
  <2>1. RootfsTyped /\ FilesTyped /\ hostSees \subseteq Inits
    BY DEF RootfsInv, RootfsTyped, Sealed
  <2>2. ASSUME NEW i \in Inits
        PROVE  /\ \A k \in DOMAIN mounts[i] :
                     mounts[i][k].at \in Places \cup {Nowhere} /\ mounts[i][k].ro \in BOOLEAN
               /\ step[i] \notin {"private", "bind", "killed"} =>
                     mounts[i] # <<>> /\ mounts[i][1].at = Top
               /\ (\E k \in DOMAIN mounts[i] : mounts[i][k].fs = "host") => step[i] \in {"detach", "killed"}
               /\ DOMAIN tmp[i] \subseteq Places /\ \A p \in DOMAIN tmp[i] : tmp[i][p] \in Kinds
    <3>1. \A k \in DOMAIN mounts[i] : mounts[i][k] \in MountType
      BY <2>1 DEF RootfsTyped
    <3>2. \A k \in DOMAIN mounts[i] :
             mounts[i][k].at \in Places \cup {Nowhere} /\ mounts[i][k].ro \in BOOLEAN
      BY <3>1 DEF MountType
    <3>3. Rooted(i) /\ IsFiles(tmp[i])
      BY <2>1 DEF RootfsInv, FilesTyped
    <3> QED
      BY <3>2, <3>3 DEF Rooted, IsFiles
  <2> QED
    BY <2>1, <2>2 DEF RootfsTypeOK, RootfsTyped, FilesTyped, IsFiles
<1> QED
  BY <1>1, RootfsInvariance, PTL

\* No mount of a container comes up on the host, because init makes its mounts private
\* before the first and never undoes it; and the host's sysctls are written only for a
\* spec that leaves the host's procfs, or the directory's, over /proc/sys.
THEOREM HostIsUndisturbed == RootfsSpec => []HostUndisturbed
<1>1. RootfsInv => HostUndisturbed
  BY DEF RootfsInv, Sealed, Accounted, HostUndisturbed
<1> QED
  BY <1>1, RootfsInvariance, PTL

----------------------------------------------------------------------------
(***************************************************************************)
(* What a container sees of the paths to be masked or read-only.           *)
(***************************************************************************)

\* The places that a spec may name: .oldroot is the runtime's.
Nameable == Places \ {OldRoot}

Names == {"proc", "kcore", "sys", "key", "dev", "node", "link", "data", ".oldroot", "nowhere"}

\* A path is above another if the other begins with it.
LEMMA PrefixIs ==
  ASSUME NEW S, NEW s \in Seq(S), NEW t \in Seq(S)
  PROVE  IsPrefix(s, t) <=> (Len(s) <= Len(t) /\ \A n \in 1..Len(s) : s[n] = t[n])
<1>1. Len(s) \in Nat /\ Len(t) \in Nat
  OBVIOUS
<1> SUFFICES ASSUME Len(s) <= Len(t)
             PROVE  SubSeq(s, 1, Len(s)) = SubSeq(t, 1, Len(s)) <=> \A n \in 1..Len(s) : s[n] = t[n]
  BY DEF IsPrefix
<1> DEFINE u == SubSeq(s, 1, Len(s))
           v == SubSeq(t, 1, Len(s))
<1>2. /\ u \in Seq(S) /\ v \in Seq(S) /\ Len(u) = Len(s) /\ Len(v) = Len(s)
      /\ \A n \in 1..Len(s) : u[n] = s[n] /\ v[n] = t[n]
  BY <1>1
<1> HIDE DEF u, v
<1>3. u = v <=> \A n \in 1..Len(s) : u[n] = v[n]
  BY <1>1, <1>2, SeqEqual
<1> QED
  BY <1>2, <1>3 DEF u, v

\* The paths are sequences of names.
LEMMA PlacesAre == Places \cup {Nowhere} \subseteq Seq(Names)
<1>1. Top \in Seq(Names) /\ Proc \in Seq(Names) /\ Kcore \in Seq(Names) /\ Sys \in Seq(Names)
  BY DEF Top, Proc, Kcore, Sys, Names
<1>2. Key \in Seq(Names) /\ Dev \in Seq(Names) /\ Node \in Seq(Names) /\ Link \in Seq(Names)
  BY DEF Key, Dev, Node, Link, Names
<1>3. Data \in Seq(Names) /\ OldRoot \in Seq(Names) /\ Nowhere \in Seq(Names)
  BY DEF Data, OldRoot, Nowhere, Names
<1> QED
  BY <1>1, <1>2, <1>3 DEF Places

\* Being above is an order, and the paths above one are in a line.
LEMMA PrefixOrder ==
  ASSUME NEW p \in Places \cup {Nowhere}, NEW q \in Places \cup {Nowhere}, NEW r \in Places \cup {Nowhere}
  PROVE  /\ IsPrefix(p, p)
         /\ IsPrefix(p, q) /\ IsPrefix(q, r) => IsPrefix(p, r)
         /\ IsPrefix(p, q) /\ IsPrefix(q, p) => p = q
         /\ IsPrefix(p, r) /\ IsPrefix(q, r) => IsPrefix(p, q) \/ IsPrefix(q, p)
<1>1. p \in Seq(Names) /\ q \in Seq(Names) /\ r \in Seq(Names)
  BY PlacesAre
<1>2. Len(p) \in Nat /\ Len(q) \in Nat /\ Len(r) \in Nat
  BY <1>1
<1> DEFINE Before(s, t) == Len(s) <= Len(t) /\ \A n \in 1..Len(s) : s[n] = t[n]
<1>3. /\ IsPrefix(p, p) <=> Before(p, p)
      /\ IsPrefix(p, q) <=> Before(p, q)
      /\ IsPrefix(q, p) <=> Before(q, p)
      /\ IsPrefix(p, r) <=> Before(p, r)
      /\ IsPrefix(q, r) <=> Before(q, r)
  BY <1>1, PrefixIs
<1>4. Before(p, p)
  BY <1>2
<1>5. Before(p, q) /\ Before(q, r) => Before(p, r)
  BY <1>2
<1>6. Before(p, q) /\ Before(q, p) => p = q
  BY <1>1, <1>2, SeqEqual
<1>7. Before(p, r) /\ Before(q, r) => Before(p, q) \/ Before(q, p)
  BY <1>2
<1> QED
  BY <1>3, <1>4, <1>5, <1>6, <1>7

\* Nothing but .oldroot is below it, and nothing below what is nowhere.
LEMMA NotBelow ==
  /\ \A p \in Nameable : ~IsPrefix(OldRoot, p)
  /\ \A p \in Places : ~IsPrefix(Nowhere, p)
<1>1. OldRoot \in Seq(Names) /\ Nowhere \in Seq(Names) /\ Len(OldRoot) = 1 /\ Len(Nowhere) = 1
      /\ OldRoot[1] = ".oldroot" /\ Nowhere[1] = "nowhere"
  BY PlacesAre DEF OldRoot, Nowhere, Names
<1>2. \A p \in Nameable : Len(p) = 0 \/ p[1] \in {"proc", "dev", "data"}
  BY DEF Nameable, Places, Top, Proc, Kcore, Sys, Key, Dev, Node, Link, Data
<1>3. \A p \in Places : p \in Seq(Names)
  BY PlacesAre
<1>4. \A p \in Nameable : ~IsPrefix(OldRoot, p) /\ ~IsPrefix(Nowhere, p)
  BY <1>1, <1>2, <1>3, PrefixIs DEF Nameable
<1>5. ~IsPrefix(Nowhere, OldRoot)
  BY <1>1, PrefixIs
<1> QED
  BY <1>4, <1>5 DEF Nameable

\* A namespace that has its root.
Grounded(ms) == ms \in Seq(MountType) /\ ms # <<>> /\ ms[1].at = Top

\* A path leads to the last mount over it.
LEMMA LeadsTo ==
  ASSUME NEW ms \in Seq(MountType), NEW p, NEW k \in 1..Len(ms), IsPrefix(ms[k].at, p),
         \A l \in 1..Len(ms) : IsPrefix(ms[l].at, p) => l <= k
  PROVE  Covering(ms, p) = ms[k]
<1>1. DOMAIN ms = 1..Len(ms)
  OBVIOUS
<1>2. k \in Over(ms, p) /\ \A l \in Over(ms, p) : l <= k
  BY <1>1 DEF Over
<1>3. Over(ms, p) \in SUBSET Nat
  BY <1>1 DEF Over
<1>4. Max(Over(ms, p)) = k
  BY <1>2, <1>3, MaxIs
<1> QED
  BY <1>4 DEF Covering

\* The place of that mount.
LEMMA Leads ==
  ASSUME NEW ms, Grounded(ms), NEW p \in Places \cup {Nowhere}
  PROVE  \E k \in 1..Len(ms) :
            /\ k = Max(Over(ms, p)) /\ Covering(ms, p) = ms[k]
            /\ IsPrefix(ms[k].at, p)
            /\ \A l \in 1..Len(ms) : IsPrefix(ms[l].at, p) => l <= k
<1>1. ms \in Seq(MountType) /\ ms # <<>> /\ ms[1].at = Top /\ DOMAIN ms = 1..Len(ms)
  BY DEF Grounded
<1>2. Max(Over(ms, p)) \in Over(ms, p) /\ \A l \in Over(ms, p) : l <= Max(Over(ms, p))
  BY <1>1, LastOver
<1> QED
  BY <1>1, <1>2 DEF Over, Covering

\* A mount on top covers what is at its place and below, and nothing else.
LEMMA AppendCovers ==
  ASSUME NEW ms, Grounded(ms), NEW m \in MountType, NEW p \in Places
  PROVE  /\ Grounded(Append(ms, m))
         /\ Covering(Append(ms, m), p) = IF IsPrefix(m.at, p) THEN m ELSE Covering(ms, p)
<1> DEFINE new == Append(ms, m)
           n == Len(ms)
<1>1. ms \in Seq(MountType) /\ ms # <<>> /\ ms[1].at = Top /\ n \in Nat /\ 1 \in 1..n
  BY DEF Grounded
<1>2. /\ new \in Seq(MountType) /\ Len(new) = n + 1 /\ new[n + 1] = m
      /\ \A k \in 1..n : new[k] = ms[k]
  BY <1>1, AppendProperties
<1>3. \A l \in 1..n + 1 : l \in 1..n \/ l = n + 1
  BY <1>1
<1>4. PICK k \in 1..n : /\ Covering(ms, p) = ms[k] /\ IsPrefix(ms[k].at, p)
                        /\ \A l \in 1..n : IsPrefix(ms[l].at, p) => l <= k
  BY Leads
<1>5. \A k2 \in 1..n : k2 \in 1..n + 1 /\ k2 <= n + 1
  BY <1>1
<1>6. n + 1 \in 1..n + 1 /\ n + 1 <= n + 1
  BY <1>1
<1> HIDE DEF new, n
<1>7. Grounded(new)
  <2>1. new # <<>>
    BY <1>1, <1>2
  <2> QED
    BY <1>1, <1>2, <2>1 DEF Grounded
<1>8. CASE IsPrefix(m.at, p)
  <2>1. \A l \in 1..Len(new) : IsPrefix(new[l].at, p) => l <= n + 1
    BY <1>2, <1>3, <1>5, <1>6
  <2>2. Covering(new, p) = new[n + 1]
    BY <1>2, <1>6, <1>8, <2>1, LeadsTo
  <2> QED
    BY <1>2, <1>7, <1>8, <2>2 DEF new
<1>9. CASE ~IsPrefix(m.at, p)
  <2>1. \A l \in 1..Len(new) : IsPrefix(new[l].at, p) => l <= k
    BY <1>2, <1>3, <1>4, <1>9
  <2>2. k \in 1..Len(new) /\ new[k] = ms[k]
    BY <1>2, <1>4, <1>5
  <2>3. Covering(new, p) = new[k]
    BY <1>2, <1>4, <2>1, <2>2, LeadsTo
  <2> QED
    BY <1>4, <1>7, <1>9, <2>2, <2>3 DEF new
<1> QED
  BY <1>8, <1>9

\* A detach at .oldroot changes nothing elsewhere.
LEMMA DetachCovers ==
  ASSUME NEW ms, Grounded(ms), NEW new \in Seq(MountType), Len(new) = Len(ms),
         \A k \in 1..Len(ms) : \/ new[k] = ms[k]
                               \/ ms[k].at = OldRoot /\ new[k] = Detached,
         NEW p \in Nameable
  PROVE  Covering(new, p) = Covering(ms, p)
<1>1. p \in Places /\ ~IsPrefix(OldRoot, p) /\ ~IsPrefix(Nowhere, p) /\ Detached.at = Nowhere
  BY NotBelow DEF Nameable, Detached, Mount
<1>2. PICK k \in 1..Len(ms) : /\ Covering(ms, p) = ms[k] /\ IsPrefix(ms[k].at, p)
                              /\ \A l \in 1..Len(ms) : IsPrefix(ms[l].at, p) => l <= k
  BY <1>1, Leads
<1>3. \A l \in 1..Len(ms) : IsPrefix(new[l].at, p) <=> IsPrefix(ms[l].at, p)
  BY <1>1
<1>4. new[k] = ms[k]
  BY <1>1, <1>2
<1>5. Covering(new, p) = new[k]
  BY <1>2, <1>3, <1>4, LeadsTo
<1> QED
  BY <1>2, <1>4, <1>5

\* What a recursive bind brings along of each mount.
LEMMA BelowAt ==
  ASSUME NEW ms \in Seq(MountType), NEW q, NEW k \in 1..Len(ms)
  PROVE  Below(ms, q)[k] = IF IsStrictPrefix(q, ms[k].at) /\ k = Max(Over(ms, ms[k].at))
                           THEN ms[k] ELSE Detached
  BY DEF Below

\* The mounts of a namespace after the bind of a path onto itself: those before it, the
\* new one, and those below the path again.
LEMMA SelfBindAt ==
  ASSUME NEW ms, Grounded(ms), NEW q \in Places, NEW ro \in BOOLEAN
  PROVE  LET new == SelfBind(ms, q, ro, Below(ms, q))
             n == Len(ms)
         IN  /\ Grounded(new) /\ Len(new) = n + 1 + n
             /\ \A k \in 1..n : new[k] = ms[k]
             /\ new[n + 1] = Mount(q, Covering(ms, q).fs, ro)
             /\ \A k \in 1..n : new[n + 1 + k] = Below(ms, q)[k]
<1> DEFINE top == Mount(q, Covering(ms, q).fs, ro)
           front == Append(ms, top)
           below == Below(ms, q)
           n == Len(ms)
           new == front \o below
<1>1. ms \in Seq(MountType) /\ ms # <<>> /\ ms[1].at = Top /\ n \in Nat /\ 1 \in 1..n
  BY DEF Grounded
<1>2. top \in MountType
  <2>1. PICK k \in 1..n : Covering(ms, q) = ms[k]
    BY Leads
  <2>2. ms[k] \in MountType
    BY <1>1
  <2> QED
    BY <2>1, <2>2 DEF Mount, MountType
<1> HIDE DEF top
<1>3. /\ front \in Seq(MountType) /\ Len(front) = n + 1 /\ front[n + 1] = top
      /\ \A k \in 1..n : front[k] = ms[k]
  BY <1>1, <1>2, AppendProperties
<1>4. below \in Seq(MountType) /\ Len(below) = n
  BY <1>1, BelowIs
<1> HIDE DEF front, below
<1>5. /\ new \in Seq(MountType) /\ Len(new) = n + 1 + n
      /\ \A k \in 1..n + 1 + n : new[k] = IF k <= n + 1 THEN front[k] ELSE below[k - (n + 1)]
  <2>1. front \in Seq(MountType) /\ below \in Seq(MountType)
    BY <1>3, <1>4
  <2>2. /\ new \in Seq(MountType) /\ Len(new) = Len(front) + Len(below)
        /\ \A k \in 1..Len(front) + Len(below) :
              new[k] = IF k <= Len(front) THEN front[k] ELSE below[k - Len(front)]
    BY <2>1, ConcatProperties
  <2>3. Len(front) = n + 1 /\ Len(below) = n
    BY <1>3, <1>4
  <2> HIDE DEF new, n
  <2> QED
    BY <2>2, <2>3
<1> HIDE DEF new
<1>6. \A k \in 1..n : new[k] = ms[k]
  <2>1. \A k \in 1..n : k \in 1..n + 1 + n /\ k <= n + 1
    BY <1>1
  <2> QED
    BY <1>3, <1>5, <2>1
<1>7. new[n + 1] = top
  <2>1. n + 1 \in 1..n + 1 + n /\ n + 1 <= n + 1
    BY <1>1
  <2> QED
    BY <1>3, <1>5, <2>1
<1>8. \A k \in 1..n : new[n + 1 + k] = below[k]
  <2>1. \A k \in 1..n : n + 1 + k \in 1..n + 1 + n /\ ~(n + 1 + k <= n + 1) /\ n + 1 + k - (n + 1) = k
    BY <1>1
  <2> QED
    BY <1>5, <2>1
<1>9. Grounded(new)
  <2>1. new # <<>>
    BY <1>1, <1>5
  <2> QED
    BY <1>1, <1>5, <1>6, <2>1 DEF Grounded
<1> QED
  BY <1>5, <1>6, <1>7, <1>8, <1>9 DEF SelfBind, new, front, below, top

\* After the bind of a path onto itself every path leads to what it led to before, or to
\* the new mount of the same file system, and the path itself to the new mount.
LEMMA SelfBindCovers ==
  ASSUME NEW ms, Grounded(ms), NEW q \in Places, NEW ro \in BOOLEAN, NEW p \in Places
  PROVE  LET new == SelfBind(ms, q, ro, Below(ms, q))
         IN  /\ Grounded(new)
             /\ Covering(new, p) \in {Covering(ms, p), Mount(q, Covering(ms, p).fs, ro)}
             /\ p = q => Covering(new, p) = Mount(q, Covering(ms, q).fs, ro)
             /\ Covering(new, p) = Covering(ms, p) \/ (IsPrefix(Covering(ms, p).at, q) /\ IsPrefix(q, p))
<1> DEFINE new == SelfBind(ms, q, ro, Below(ms, q))
           n == Len(ms)
           top == Mount(q, Covering(ms, q).fs, ro)
           Repeated(k) == IsStrictPrefix(q, ms[k].at) /\ k = Max(Over(ms, ms[k].at))
<1>1. ms \in Seq(MountType) /\ n \in Nat
  BY DEF Grounded
<1>2. /\ Grounded(new) /\ Len(new) = n + 1 + n
      /\ \A k \in 1..n : new[k] = ms[k]
      /\ new[n + 1] = top
      /\ \A k \in 1..n : new[n + 1 + k] = Below(ms, q)[k]
  BY SelfBindAt
<1>3. \A k \in 1..n : new[n + 1 + k] = IF Repeated(k) THEN ms[k] ELSE Detached
  BY <1>1, <1>2, BelowAt
<1>4. top.at = q /\ Detached.at = Nowhere /\ ~IsPrefix(Nowhere, p)
  BY NotBelow DEF Mount, Detached
<1>5. PICK K \in 1..n : /\ Covering(ms, p) = ms[K] /\ IsPrefix(ms[K].at, p)
                        /\ \A l \in 1..n : IsPrefix(ms[l].at, p) => l <= K
  BY Leads
<1> DEFINE r == ms[K].at
<1>6. \A k \in 1..n : ms[k].at \in Places \cup {Nowhere}
  <2>1. \A k \in 1..n : ms[k] \in MountType
    BY <1>1
  <2> QED
    BY <2>1 DEF MountType
<1>7. \A k \in 1..n : k = Max(Over(ms, ms[k].at)) => \A l \in 1..n : IsPrefix(ms[l].at, ms[k].at) => l <= k
  BY <1>6, Leads
<1>8. \A l \in 1..n + 1 + n : l \in 1..n \/ l = n + 1 \/ \E k \in 1..n : l = n + 1 + k
  <2>1. ASSUME NEW l \in 1..n + 1 + n, l \notin 1..n, l # n + 1 PROVE \E k \in 1..n : l = n + 1 + k
    <3>1. l - (n + 1) \in 1..n /\ l = n + 1 + (l - (n + 1))
      BY <1>1, <2>1
    <3> QED
      BY <3>1
  <2> QED
    BY <2>1
<1>9. /\ new \in Seq(MountType)
      /\ \A k \in 1..n : k \in 1..n + 1 + n /\ k <= n + 1 /\ n + 1 + k \in 1..n + 1 + n
      /\ n + 1 \in 1..n + 1 + n /\ n + 1 <= n + 1
  BY <1>1, <1>2 DEF Grounded
<1> HIDE DEF new, top, Repeated, n, r
<1>10. CASE ~IsPrefix(q, p)
  <2>1. ASSUME NEW k \in 1..n PROVE ~IsPrefix(new[n + 1 + k].at, p)
    <3>1. CASE Repeated(k)
      <4>1. IsPrefix(q, ms[k].at)
        BY <3>1 DEF Repeated, IsStrictPrefix
      <4> QED
        BY <1>3, <1>6, <1>10, <3>1, <4>1, PrefixOrder
    <3>2. CASE ~Repeated(k)
      BY <1>3, <1>4, <3>2
    <3> QED
      BY <3>1, <3>2
  <2>2. \A l \in 1..Len(new) : IsPrefix(new[l].at, p) => l <= K
    BY <1>2, <1>4, <1>5, <1>8, <1>10, <2>1
  <2>3. K \in 1..Len(new) /\ new[K] = ms[K]
    BY <1>2, <1>5, <1>9
  <2>4. Covering(new, p) = new[K]
    BY <1>5, <1>9, <2>2, <2>3, LeadsTo
  <2>5. p # q
    BY <1>10, PrefixOrder
  <2> QED
    BY <1>2, <1>5, <2>3, <2>4, <2>5 DEF new
<1>11. CASE IsPrefix(q, p) /\ IsPrefix(r, q)
  <2>1. Covering(ms, q) = ms[K]
    <3>1. \A l \in 1..n : IsPrefix(ms[l].at, q) => l <= K
      BY <1>5, <1>6, <1>11, PrefixOrder
    <3> QED
      BY <1>1, <1>5, <1>11, <3>1, LeadsTo DEF r, n
  <2>2. ASSUME NEW k \in 1..n PROVE ~IsPrefix(new[n + 1 + k].at, p)
    <3>1. CASE Repeated(k)
      <4> SUFFICES ASSUME IsPrefix(ms[k].at, p) PROVE FALSE
        BY <1>3, <3>1
      <4>1. IsPrefix(q, ms[k].at) /\ q # ms[k].at /\ k = Max(Over(ms, ms[k].at))
        BY <3>1 DEF Repeated, IsStrictPrefix
      <4>2. k <= K
        BY <1>5
      <4>3. IsPrefix(ms[K].at, ms[k].at)
        BY <1>6, <1>11, <4>1, PrefixOrder DEF r
      <4>4. K <= k
        BY <1>5, <1>7, <4>1, <4>3
      <4>5. k = K
        BY <1>1, <4>2, <4>4 DEF n
      <4> QED
        BY <1>6, <1>11, <4>1, <4>5, PrefixOrder DEF r
    <3>2. CASE ~Repeated(k)
      BY <1>3, <1>4, <3>2
    <3> QED
      BY <3>1, <3>2
  <2>3. \A l \in 1..Len(new) : IsPrefix(new[l].at, p) => l <= n + 1
    BY <1>2, <1>8, <1>9, <2>2
  <2>4. Covering(new, p) = new[n + 1]
    <3>1. n + 1 \in 1..Len(new) /\ IsPrefix(new[n + 1].at, p)
      BY <1>2, <1>4, <1>9, <1>11
    <3> QED
      BY <1>9, <2>3, <3>1, LeadsTo
  <2> QED
    BY <1>2, <1>5, <1>11, <2>1, <2>4 DEF new, top, r
<1>12. CASE IsPrefix(q, p) /\ ~IsPrefix(r, q)
  <2>1. IsPrefix(q, r) /\ q # r
    BY <1>5, <1>6, <1>12, PrefixOrder DEF r
  <2>2. \A l \in 1..n : IsPrefix(ms[l].at, r) => l <= K
    BY <1>5, <1>6, PrefixOrder DEF r
  <2>3. K = Max(Over(ms, r))
    <3>1. PICK k \in 1..n : /\ k = Max(Over(ms, r)) /\ IsPrefix(ms[k].at, r)
                            /\ \A l \in 1..n : IsPrefix(ms[l].at, r) => l <= k
      BY <1>6, Leads DEF r, n
    <3>2. IsPrefix(r, r)
      BY <1>6, PrefixOrder DEF r
    <3>3. k <= K /\ K <= k
      BY <2>2, <3>1, <3>2 DEF r
    <3> QED
      BY <1>1, <3>1, <3>3 DEF n
  <2>4. Repeated(K)
    BY <2>1, <2>3 DEF Repeated, IsStrictPrefix, r
  <2>5. new[n + 1 + K] = ms[K]
    BY <1>3, <2>4
  <2>6. ASSUME NEW k \in 1..n, IsPrefix(new[n + 1 + k].at, p) PROVE k <= K
    <3>1. Repeated(k)
      BY <1>3, <1>4, <2>6
    <3> QED
      BY <1>3, <1>5, <2>6, <3>1
  <2>7. \A l \in 1..Len(new) : IsPrefix(new[l].at, p) => l <= n + 1 + K
    <3>1. ASSUME NEW l \in 1..Len(new), IsPrefix(new[l].at, p) PROVE l <= n + 1 + K
      <4>1. CASE l \in 1..n \/ l = n + 1
        BY <1>1, <4>1 DEF n
      <4>2. CASE \E k \in 1..n : l = n + 1 + k
        <5>1. PICK k \in 1..n : l = n + 1 + k
          BY <4>2
        <5>2. k <= K
          BY <2>6, <3>1, <5>1
        <5> QED
          BY <1>1, <5>1, <5>2 DEF n
      <4> QED
        BY <1>2, <1>8, <4>1, <4>2
    <3> QED
      BY <3>1
  <2>8. Covering(new, p) = new[n + 1 + K]
    BY <1>2, <1>5, <1>9, <2>5, <2>7, LeadsTo
  <2>9. p # q
    BY <1>5, <1>12 DEF r
  <2> QED
    BY <1>2, <1>5, <2>5, <2>8, <2>9 DEF new
<1> QED
  BY <1>10, <1>11, <1>12

----------------------------------------------------------------------------
(* The invariant *)

\* The spec of an init names only paths that it may, and the paths it protects are on
\* mounts of its own, if others are set up from the same directory.
OwnPaths(i, s) ==
    /\ \A k \in DOMAIN s.mounts : s.mounts[k].at # OldRoot
    /\ \A p \in ToSet(s.masked) \cup ToSet(s.readonly) :
          /\ p # OldRoot
          /\ Inits = {i} \/ \E k \in DOMAIN s.mounts : IsPrefix(s.mounts[k].at, p)

AfterReadonly == Finalizing \cup {"done"}
AfterMasks    == AfterReadonly \cup {"readonly"}
AfterMounts   == AfterMasks \cup {"devices", "links", "sysctl", "masks"}

\* Whether a loop has dealt with the n-th member of its list.
Through(i, loop, after, n) == step[i] \in after \/ (step[i] = loop /\ n < next[i])

Hidden(i, p)  == Kind(i, p) = "none" \/ Masked(i, p)
Guarded(i, p) == Masked(i, p) \/ Covering(mounts[i], p).ro

\* What a loop has protected stays so.
MasksLast(i) ==
    \A n \in DOMAIN specs[i].masked :
        Through(i, "masks", AfterMasks, n) => Hidden(i, specs[i].masked[n])
ReadonlyLast(i) ==
    \A n \in DOMAIN specs[i].readonly :
        Through(i, "readonly", AfterReadonly, n) =>
            Kind(i, specs[i].readonly[n]) = "none" \/ Guarded(i, specs[i].readonly[n])
MountsLast(i) ==
    \A k \in DOMAIN specs[i].mounts :
        Through(i, "mounts", AfterMounts, k) /\ specs[i].mounts[k].ro /\ Uncovered(i, k) =>
            Guarded(i, specs[i].mounts[k].at)
RootLast(i) ==
    step[i] \in {"cwd", "done"} /\ specs[i].readonlyRoot => Covering(mounts[i], Top).ro

\* Below its own mounts init does not see the directory again, in which others may
\* make files.
OwnLast(i) ==
    \A k \in DOMAIN specs[i].mounts, p \in Nameable :
        Through(i, "mounts", AfterMounts, k) /\ IsPrefix(specs[i].mounts[k].at, p) =>
            Covering(mounts[i], p).fs # "rootfs"

Protected(i) == MasksLast(i) /\ ReadonlyLast(i) /\ MountsLast(i) /\ RootLast(i) /\ OwnLast(i)

ProtectionInv == RootfsInv /\ \A i \in Inits : OwnPaths(i, specs[i]) => Protected(i)

----------------------------------------------------------------------------
(* What init sees at a path *)

\* The files of a mount by its file system.
LEMMA ContentIs ==
  ASSUME NEW i, NEW fs
  PROVE  /\ fs = "rootfs" => Content(i, fs) = disk /\ Content(i, fs)' = disk'
         /\ fs \in Private => Content(i, fs) = tmp[i] /\ Content(i, fs)' = tmp'[i]
         /\ fs \notin Private \cup {"rootfs"} => Content(i, fs)' = Content(i, fs)
         /\ Content(i, fs) \in {disk, tmp[i], Procfs, <<>>}
         /\ Content(i, fs)' \in {disk', tmp'[i], Procfs, <<>>}
<1>1. "rootfs" \notin Private /\ "proc" \notin Private /\ "hostProc" \notin Private
  BY DEF Private
<1>2. CASE fs = "rootfs"
  BY <1>1, <1>2 DEF Content
<1>3. CASE fs \in Private
  BY <1>1, <1>3 DEF Content
<1>4. CASE fs \notin Private \cup {"rootfs"} /\ fs \in {"proc", "hostProc"}
  BY <1>1, <1>4 DEF Content
<1>5. CASE fs \notin Private \cup {"rootfs"} /\ fs \notin {"proc", "hostProc"}
  BY <1>1, <1>5 DEF Content
<1> QED
  BY <1>2, <1>3, <1>4, <1>5

\* Nothing is at a path if no file is and no mount.
LEMMA KindNone ==
  ASSUME NEW i \in Inits, NEW p
  PROVE  /\ FilesTyped => (Kind(i, p) = "none" <=>
               /\ p \notin DOMAIN Content(i, Covering(mounts[i], p).fs)
               /\ Covering(mounts[i], p).at # p)
         /\ FilesTyped' => (Kind(i, p)' = "none" <=>
               /\ p \notin DOMAIN Content(i, Covering(mounts[i], p).fs)'
               /\ Covering(mounts'[i], p).at # p)
<1>1. \A f : IsFiles(f) => \A q \in DOMAIN f : f[q] # "none"
  BY DEF IsFiles, Kinds
<1>2. IsFiles(Procfs) /\ IsFiles(<<>>)
  BY DEF IsFiles, Procfs, Kinds, Places
<1>3. FilesTyped => IsFiles(Content(i, Covering(mounts[i], p).fs))
  <2> DEFINE fs == Covering(mounts[i], p).fs
  <2> HIDE DEF fs
  <2> QED
    BY <1>2, ContentIs DEF FilesTyped, fs
<1>4. FilesTyped' => IsFiles(Content(i, Covering(mounts[i], p).fs)')
  <2> SUFFICES ASSUME FilesTyped' PROVE IsFiles(Content(i, Covering(mounts[i], p).fs)')
    OBVIOUS
  <2>1. IsFiles(disk') /\ IsFiles(tmp'[i])
    BY DEF FilesTyped
  <2> QED
    BY <1>2, <2>1 DEF Content
<1> DEFINE c == Content(i, Covering(mounts[i], p).fs)
           d == Content(i, Covering(mounts[i], p).fs)'
           m == Covering(mounts[i], p)
           n == Covering(mounts'[i], p)
           Plain(x) == IF x.fs \in {"hostFile", "maskFile"} THEN "file"
                       ELSE IF x.fs = "device" THEN "device" ELSE "dir"
<1>5. /\ p \in DOMAIN c => Kind(i, p) = c[p]
      /\ p \notin DOMAIN c /\ m.at # p => Kind(i, p) = "none"
      /\ p \notin DOMAIN c /\ m.at = p => Kind(i, p) = Plain(m)
  BY DEF Kind
<1>6. /\ p \in DOMAIN d => Kind(i, p)' = d[p]
      /\ p \notin DOMAIN d /\ n.at # p => Kind(i, p)' = "none"
      /\ p \notin DOMAIN d /\ n.at = p => Kind(i, p)' = Plain(n)
  BY DEF Kind
<1>7. \A x : Plain(x) # "none"
  OBVIOUS
<1> HIDE DEF c, d, m, n, Plain
<1>8. FilesTyped => (Kind(i, p) = "none" <=> (p \notin DOMAIN c /\ m.at # p))
  BY <1>1, <1>3, <1>5, <1>7 DEF c
<1>9. FilesTyped' => (Kind(i, p)' = "none" <=> (p \notin DOMAIN d /\ n.at # p))
  BY <1>1, <1>4, <1>6, <1>7 DEF d
<1> QED
  BY <1>8, <1>9 DEF c, d, m, n

\* The lists of a spec, and the paths in them.
LEMMA ListsAre ==
  ASSUME RootfsTyped, NEW i \in Inits
  PROVE  /\ DOMAIN specs[i].mounts = 1..Len(specs[i].mounts) /\ Len(specs[i].mounts) \in Nat
         /\ DOMAIN specs[i].masked = 1..Len(specs[i].masked) /\ Len(specs[i].masked) \in Nat
         /\ DOMAIN specs[i].readonly = 1..Len(specs[i].readonly) /\ Len(specs[i].readonly) \in Nat
         /\ \A n \in DOMAIN specs[i].masked : specs[i].masked[n] \in Places
         /\ \A n \in DOMAIN specs[i].readonly : specs[i].readonly[n] \in Places
         /\ \A k \in DOMAIN specs[i].mounts :
               specs[i].mounts[k].at \in Places /\ specs[i].mounts[k].fs \in Sources
<1>1. /\ specs[i].mounts \in Seq([at : Places, fs : Sources, ro : BOOLEAN])
      /\ specs[i].masked \in Seq(Places) /\ specs[i].readonly \in Seq(Places)
  BY DEF RootfsTyped, RootfsSpecType
<1>2. \A k \in DOMAIN specs[i].mounts : specs[i].mounts[k] \in [at : Places, fs : Sources, ro : BOOLEAN]
  <2>1. \A S, l : l \in Seq(S) => \A k \in DOMAIN l : l[k] \in S
    OBVIOUS
  <2> QED
    BY <1>1, <2>1
<1> QED
  BY <1>1, <1>2

\* None of them is .oldroot.
LEMMA ListsNameable ==
  ASSUME RootfsTyped, NEW i \in Inits, OwnPaths(i, specs[i])
  PROVE  /\ \A n \in DOMAIN specs[i].masked : specs[i].masked[n] \in Nameable
         /\ \A n \in DOMAIN specs[i].readonly : specs[i].readonly[n] \in Nameable
         /\ \A k \in DOMAIN specs[i].mounts : specs[i].mounts[k].at \in Nameable
<1>1. /\ \A n \in DOMAIN specs[i].masked : specs[i].masked[n] \in ToSet(specs[i].masked)
      /\ \A n \in DOMAIN specs[i].readonly : specs[i].readonly[n] \in ToSet(specs[i].readonly)
  BY DEF ToSet
<1> QED
  BY <1>1, ListsAre DEF OwnPaths, Nameable

\* Beside others a protected path is below one of init's own mounts.
LEMMA ListsOwned ==
  ASSUME NEW i \in Inits, OwnPaths(i, specs[i]), Inits # {i}
  PROVE  /\ \A n \in DOMAIN specs[i].masked :
               \E k \in DOMAIN specs[i].mounts : IsPrefix(specs[i].mounts[k].at, specs[i].masked[n])
         /\ \A n \in DOMAIN specs[i].readonly :
               \E k \in DOMAIN specs[i].mounts : IsPrefix(specs[i].mounts[k].at, specs[i].readonly[n])
<1>1. /\ \A n \in DOMAIN specs[i].masked : specs[i].masked[n] \in ToSet(specs[i].masked)
      /\ \A n \in DOMAIN specs[i].readonly : specs[i].readonly[n] \in ToSet(specs[i].readonly)
  BY DEF ToSet
<1> QED
  BY <1>1 DEF OwnPaths

\* Nothing is asked of an init that has mounted nothing yet, or that is gone.
Idle == {"private", "bind", "propagation", "failed", "killed"}

\* So it is protected whatever it sees.
LEMMA IdleProtected ==
  ASSUME RootfsTyped', NEW i \in Inits,
         step'[i] \in Idle \/ (step'[i] = "mounts" /\ next'[i] = 1)
  PROVE  Protected(i)'
<1>1. /\ specs'[i].mounts \in Seq([at : Places, fs : Sources, ro : BOOLEAN])
  BY DEF RootfsTyped, RootfsSpecType
<1>2. \A k \in DOMAIN specs'[i].mounts : k \in Nat /\ ~(k < 1)
  BY <1>1
<1>3. step'[i] \notin AfterMounts /\ step'[i] \notin AfterMasks /\ step'[i] \notin AfterReadonly
      /\ step'[i] \notin {"masks", "readonly", "cwd", "done"}
      /\ (step'[i] = "mounts" => next'[i] = 1)
  BY DEF Idle, AfterMounts, AfterMasks, AfterReadonly, Finalizing
<1>4. MasksLast(i)' /\ ReadonlyLast(i)' /\ RootLast(i)'
  BY <1>3 DEF MasksLast, ReadonlyLast, RootLast, Through
<1>5. MountsLast(i)' /\ OwnLast(i)'
  BY <1>2, <1>3 DEF MountsLast, OwnLast, Through
<1> QED
  BY <1>4, <1>5 DEF Protected

\* From the bind on a namespace has its root.
LEMMA GroundedIs ==
  ASSUME RootfsInv, NEW i \in Inits, step[i] \notin {"private", "bind", "killed"}
  PROVE  Grounded(mounts[i])
  BY DEF RootfsInv, RootfsTyped, Rooted, Grounded

\* The steps that init has behind it.
LEMMA Behind ==
  /\ AfterMasks \subseteq AfterMounts /\ AfterReadonly \subseteq AfterMasks
  /\ "masks" \in AfterMounts /\ "readonly" \in AfterMounts /\ "readonly" \in AfterMasks
  BY DEF AfterMounts, AfterMasks, AfterReadonly

\* An init that does not move sees of the others' steps at most that a .oldroot goes,
\* and files that come and go in the directory.
LEMMA OthersProtected ==
  ASSUME RootfsInv, RootfsInv', NEW j \in Inits, Inits # {j},
         OwnPaths(j, specs[j]), Protected(j),
         UNCHANGED specs, step'[j] = step[j], next'[j] = next[j], tmp'[j] = tmp[j],
         mounts'[j] \in {mounts[j], Without(mounts[j], OldRoot)}
  PROVE  Protected(j)'
<1>1. RootfsTyped /\ RootfsTyped' /\ FilesTyped /\ FilesTyped'
  BY DEF RootfsInv, RootfsTyped
<1>2. CASE step[j] \in Idle
  BY <1>1, <1>2, IdleProtected
<1>3. CASE step[j] \notin Idle
  <2>1. Grounded(mounts[j])
    BY <1>3, GroundedIs DEF Idle
  <2>2. ASSUME NEW p \in Nameable PROVE Covering(mounts'[j], p) = Covering(mounts[j], p)
    <3>1. CASE mounts'[j] = mounts[j]
      BY <3>1
    <3>2. CASE mounts'[j] = Without(mounts[j], OldRoot)
      <4> DEFINE new == Without(mounts[j], OldRoot)
      <4>1. /\ new \in Seq(MountType) /\ Len(new) = Len(mounts[j])
            /\ \A k \in 1..Len(mounts[j]) : new[k] = IF mounts[j][k].at = OldRoot THEN Detached ELSE mounts[j][k]
        BY <2>1, WithoutIs DEF Grounded
      <4> HIDE DEF new
      <4>2. Covering(new, p) = Covering(mounts[j], p)
        BY <2>1, <4>1, DetachCovers
      <4> QED
        BY <3>2, <4>2 DEF new
    <3> QED
      BY <3>1, <3>2
  <2>3. /\ \A loop, after, n : Through(j, loop, after, n)' <=> Through(j, loop, after, n)
        /\ \A k : Uncovered(j, k)' <=> Uncovered(j, k)
    BY DEF Through, Uncovered
  <2>4. \A p \in Nameable : /\ Masked(j, p)' <=> Masked(j, p)
                            /\ Guarded(j, p)' <=> Guarded(j, p)
    BY <2>2 DEF Masked, Guarded
  <2>5. ASSUME NEW p \in Nameable, Covering(mounts[j], p).fs # "rootfs", Kind(j, p) = "none"
        PROVE  Kind(j, p)' = "none"
    <3>0. PICK fs : fs = Covering(mounts[j], p).fs
      OBVIOUS
    <3>1. Covering(mounts'[j], p).fs = fs
      BY <2>2, <3>0
    <3>2. p \notin DOMAIN Content(j, fs) /\ Covering(mounts[j], p).at # p
      BY <1>1, <2>5, <3>0, KindNone
    <3>3. Content(j, fs)' = Content(j, fs)
      <4>1. CASE fs \in Private
        <5>1. Content(j, fs) = tmp[j] /\ Content(j, fs)' = tmp'[j]
          BY <4>1, ContentIs
        <5> QED
          BY <5>1
      <4>2. CASE fs \notin Private
        <5>1. fs \notin Private \cup {"rootfs"}
          BY <2>5, <3>0, <4>2
        <5> QED
          BY <5>1, ContentIs
      <4> QED
        BY <4>1, <4>2
    <3>4. Content(j, Covering(mounts[j], p).fs)' = Content(j, fs)'
      BY <3>1
    <3> QED
      BY <1>1, <2>2, <3>2, <3>3, <3>4, KindNone
  <2>6. ASSUME NEW p \in Nameable, step[j] \in AfterMounts,
               \E k \in DOMAIN specs[j].mounts : IsPrefix(specs[j].mounts[k].at, p)
        PROVE  Kind(j, p) = "none" => Kind(j, p)' = "none"
    <3>1. Covering(mounts[j], p).fs # "rootfs"
      BY <2>6 DEF Protected, OwnLast, Through
    <3> QED
      BY <2>5, <3>1
  <2>7. MasksLast(j)'
    <3>1. ASSUME NEW n \in DOMAIN specs[j].masked, Through(j, "masks", AfterMasks, n)
          PROVE  Hidden(j, specs[j].masked[n])'
      <4>0. PICK p : p = specs[j].masked[n]
        OBVIOUS
      <4>1. p \in Nameable /\ Hidden(j, p)
        BY <1>1, <3>1, <4>0, ListsNameable DEF Protected, MasksLast
      <4>2. step[j] \in AfterMounts
        BY <3>1, Behind DEF Through
      <4>3. \E k \in DOMAIN specs[j].mounts : IsPrefix(specs[j].mounts[k].at, p)
        BY <4>0, ListsOwned
      <4>4. Kind(j, p)' = "none" \/ Masked(j, p)'
        BY <2>4, <2>6, <4>1, <4>2, <4>3 DEF Hidden
      <4> QED
        BY <4>0, <4>4 DEF Hidden
    <3> QED
      BY <2>3, <3>1 DEF MasksLast
  <2>8. ReadonlyLast(j)'
    <3>1. ASSUME NEW n \in DOMAIN specs[j].readonly, Through(j, "readonly", AfterReadonly, n)
          PROVE  Kind(j, specs[j].readonly[n])' = "none" \/ Guarded(j, specs[j].readonly[n])'
      <4>0. PICK p : p = specs[j].readonly[n]
        OBVIOUS
      <4>1. p \in Nameable /\ (Kind(j, p) = "none" \/ Guarded(j, p))
        BY <1>1, <3>1, <4>0, ListsNameable DEF Protected, ReadonlyLast
      <4>2. step[j] \in AfterMounts
        BY <3>1, Behind DEF Through
      <4>3. \E k \in DOMAIN specs[j].mounts : IsPrefix(specs[j].mounts[k].at, p)
        BY <4>0, ListsOwned
      <4>4. Kind(j, p)' = "none" \/ Guarded(j, p)'
        BY <2>4, <2>6, <4>1, <4>2, <4>3
      <4> QED
        BY <4>0, <4>4
    <3> QED
      BY <2>3, <3>1 DEF ReadonlyLast
  <2>9. MountsLast(j)'
    <3>1. \A k \in DOMAIN specs[j].mounts : specs[j].mounts[k].at \in Nameable
      BY <1>1, ListsNameable
    <3> QED
      BY <2>3, <2>4, <3>1 DEF Protected, MountsLast
  <2>10. OwnLast(j)'
    BY <2>2, <2>3 DEF Protected, OwnLast
  <2>11. RootLast(j)'
    <3>1. Top \in Nameable
      BY DEF Nameable, Places, Top, OldRoot
    <3> QED
      BY <2>2, <3>1 DEF Protected, RootLast
  <2> QED
    BY <2>7, <2>8, <2>9, <2>10, <2>11 DEF Protected
<1> QED
  BY <1>2, <1>3

----------------------------------------------------------------------------
(* The steps after the mounts *)

\* A step of init's leaves a path as protected as it was.
Steady(i, p) ==
    /\ Hidden(i, p) => Hidden(i, p)'
    /\ Guarded(i, p) => Guarded(i, p)'
    /\ Covering(mounts[i], p).fs # "rootfs" => Covering(mounts'[i], p).fs # "rootfs"

\* It does if it changes neither the file system that the path leads to nor, where
\* nothing is, the files, and makes nothing writable.
LEMMA SteadyIf ==
  ASSUME FilesTyped, FilesTyped', NEW i \in Inits, NEW p,
         Covering(mounts'[i], p).fs = Covering(mounts[i], p).fs,
         Covering(mounts[i], p).ro => Covering(mounts'[i], p).ro,
         Kind(i, p) = "none" => /\ Covering(mounts'[i], p).at # p
                                /\ p \in DOMAIN disk' => p \in DOMAIN disk
                                /\ p \in DOMAIN tmp'[i] => p \in DOMAIN tmp[i]
  PROVE  Steady(i, p)
<1>0. PICK fs : fs = Covering(mounts[i], p).fs
  OBVIOUS
<1>1. Masked(i, p)' <=> Masked(i, p)
  BY DEF Masked
<1>2. ASSUME Kind(i, p) = "none" PROVE Kind(i, p)' = "none"
  <2>1. p \notin DOMAIN Content(i, fs)
    BY <1>0, <1>2, KindNone
  <2>2. p \notin DOMAIN Content(i, fs)'
    <3>1. CASE fs = "rootfs"
      <4>1. Content(i, fs) = disk /\ Content(i, fs)' = disk'
        BY <3>1, ContentIs
      <4> QED
        BY <1>2, <2>1, <4>1
    <3>2. CASE fs \in Private
      <4>1. Content(i, fs) = tmp[i] /\ Content(i, fs)' = tmp'[i]
        BY <3>2, ContentIs
      <4> QED
        BY <1>2, <2>1, <4>1
    <3>3. CASE fs \notin Private \cup {"rootfs"}
      <4>1. Content(i, fs)' = Content(i, fs)
        BY <3>3, ContentIs
      <4> QED
        BY <2>1, <4>1
    <3> QED
      BY <3>1, <3>2, <3>3
  <2>3. Content(i, Covering(mounts[i], p).fs)' = Content(i, fs)'
    BY <1>0
  <2> QED
    BY <1>2, <2>2, <2>3, KindNone
<1>3. Hidden(i, p) => Hidden(i, p)'
  BY <1>1, <1>2 DEF Hidden
<1>4. Guarded(i, p) => Guarded(i, p)'
  BY <1>1 DEF Guarded
<1> QED
  BY <1>3, <1>4 DEF Steady

\* A loop goes on with what it and the steps before it have protected.
LEMMA Carry ==
  ASSUME RootfsTyped, NEW i \in Inits, OwnPaths(i, specs[i]), Protected(i), UNCHANGED specs,
         \A p \in Nameable : Steady(i, p),
         \A n \in DOMAIN specs[i].masked :
            Through(i, "masks", AfterMasks, n)' =>
               Through(i, "masks", AfterMasks, n) \/ Hidden(i, specs[i].masked[n])',
         \A n \in DOMAIN specs[i].readonly :
            Through(i, "readonly", AfterReadonly, n)' =>
               \/ Through(i, "readonly", AfterReadonly, n)
               \/ Kind(i, specs[i].readonly[n])' = "none"
               \/ Guarded(i, specs[i].readonly[n])',
         step[i] \in AfterMounts, RootLast(i)'
  PROVE  Protected(i)'
<1>1. /\ \A n \in DOMAIN specs[i].masked : specs[i].masked[n] \in Nameable
      /\ \A n \in DOMAIN specs[i].readonly : specs[i].readonly[n] \in Nameable
      /\ \A k \in DOMAIN specs[i].mounts : specs[i].mounts[k].at \in Nameable
  BY ListsNameable
<1>2. MasksLast(i)'
  <2>1. ASSUME NEW n \in DOMAIN specs[i].masked, Through(i, "masks", AfterMasks, n)'
        PROVE  Hidden(i, specs[i].masked[n])'
    <3>0. PICK p : p = specs[i].masked[n]
      OBVIOUS
    <3>1. CASE Through(i, "masks", AfterMasks, n)
      <4>1. Hidden(i, p)
        BY <3>0, <3>1 DEF Protected, MasksLast
      <4>2. Hidden(i, p)'
        BY <1>1, <3>0, <4>1 DEF Steady
      <4> QED
        BY <3>0, <4>2
    <3> QED
      BY <2>1, <3>1
  <2> QED
    BY <2>1 DEF MasksLast
<1>3. ReadonlyLast(i)'
  <2>1. ASSUME NEW n \in DOMAIN specs[i].readonly, Through(i, "readonly", AfterReadonly, n)'
        PROVE  Kind(i, specs[i].readonly[n])' = "none" \/ Guarded(i, specs[i].readonly[n])'
    <3>0. PICK p : p = specs[i].readonly[n]
      OBVIOUS
    <3>1. CASE Through(i, "readonly", AfterReadonly, n)
      <4>1. Kind(i, p) = "none" \/ Guarded(i, p)
        BY <3>0, <3>1 DEF Protected, ReadonlyLast
      <4>2. Hidden(i, p)' \/ Guarded(i, p)'
        BY <1>1, <3>0, <4>1 DEF Steady, Hidden
      <4>3. Kind(i, p)' = "none" \/ Guarded(i, p)'
        BY <4>2 DEF Hidden, Guarded
      <4> QED
        BY <3>0, <4>3
    <3> QED
      BY <2>1, <3>1
  <2> QED
    BY <2>1 DEF ReadonlyLast
<1>4. MountsLast(i)'
  <2>1. ASSUME NEW k \in DOMAIN specs[i].mounts, specs[i].mounts[k].ro, Uncovered(i, k)
        PROVE  Guarded(i, specs[i].mounts[k].at)'
    <3>0. PICK p : p = specs[i].mounts[k].at
      OBVIOUS
    <3>1. Guarded(i, p)
      BY <2>1, <3>0 DEF Protected, MountsLast, Through
    <3>2. Guarded(i, p)'
      BY <1>1, <3>0, <3>1 DEF Steady
    <3> QED
      BY <3>0, <3>2
  <2>2. \A k : Uncovered(i, k)' <=> Uncovered(i, k)
    BY DEF Uncovered
  <2> QED
    BY <2>1, <2>2 DEF MountsLast
<1>5. OwnLast(i)'
  BY DEF OwnLast, Protected, Steady, Through
<1> QED
  BY <1>2, <1>3, <1>4, <1>5 DEF Protected

\* A step that leaves every mount as it is, and the files where there are none.
LEMMA StillMove ==
  ASSUME RootfsInv, RootfsInv', NEW i \in Inits, OwnPaths(i, specs[i]), Protected(i),
         UNCHANGED specs, step[i] \in AfterMounts, step'[i] \notin Idle,
         \A p \in Nameable :
            /\ Covering(mounts'[i], p) = Covering(mounts[i], p)
            /\ Kind(i, p) = "none" => /\ p \in DOMAIN disk' => p \in DOMAIN disk
                                      /\ p \in DOMAIN tmp'[i] => p \in DOMAIN tmp[i],
         \A n \in DOMAIN specs[i].masked :
            Through(i, "masks", AfterMasks, n)' => Through(i, "masks", AfterMasks, n),
         \A n \in DOMAIN specs[i].readonly :
            Through(i, "readonly", AfterReadonly, n)' => Through(i, "readonly", AfterReadonly, n),
         RootLast(i)'
  PROVE  Protected(i)'
<1>1. RootfsTyped /\ FilesTyped /\ FilesTyped'
  BY DEF RootfsInv, RootfsTyped
<1>2. ASSUME NEW p \in Nameable PROVE Steady(i, p)
  <2>1. Kind(i, p) = "none" => Covering(mounts'[i], p).at # p
    BY <1>1, KindNone
  <2> QED
    BY <1>1, <2>1, SteadyIf
<1> QED
  BY <1>1, <1>2, Carry

\* A mask hides its path, and whatever is below it.
LEMMA MaskProtects ==
  ASSUME RootfsInv, RootfsInv', NEW i \in Inits, OwnPaths(i, specs[i]), Protected(i), MaskPath(i)
  PROVE  Protected(i)'
<1>1. RootfsTyped /\ Sealed /\ FilesTyped /\ FilesTyped'
  BY DEF RootfsInv, RootfsTyped
<1>2. /\ next[i] <= Len(specs[i].masked) /\ Again(i, "masks", TRUE)
      /\ UNCHANGED <<specs, disk, tmp>>
  BY DEF MaskPath, Fixed
<1>3. step[i] = "masks" /\ step'[i] = "masks" /\ next'[i] = next[i] + 1
  BY <1>1, <1>2, AgainIs
<1>4. PICK q : q = specs[i].masked[next[i]]
  OBVIOUS
<1>5. q \in Nameable /\ q \in Places /\ next[i] \in DOMAIN specs[i].masked
  <2>1. next[i] \in Nat /\ next[i] # 0
    BY <1>1 DEF RootfsTyped
  <2>2. next[i] \in DOMAIN specs[i].masked
    BY <1>1, <1>2, <2>1, ListsAre
  <2> QED
    BY <1>1, <1>4, <2>2, ListsNameable DEF Nameable
<1>6. Grounded(mounts[i])
  BY <1>3, GroundedIs
<1>7. (\A p \in Nameable : Steady(i, p)) /\ Hidden(i, q)'
  <2>1. CASE Kind(i, q) = "none"
    <3>1. mounts' = mounts
      BY <1>4, <2>1 DEF MaskPath
    <3>2. ASSUME NEW p \in Nameable PROVE Steady(i, p)
      <4>1. Kind(i, p) = "none" => Covering(mounts'[i], p).at # p
        BY <1>1, <3>1, KindNone
      <4> QED
        BY <1>1, <1>2, <3>1, <4>1, SteadyIf
    <3> QED
      BY <1>5, <2>1, <3>2 DEF Steady, Hidden
  <2>2. CASE Kind(i, q) # "none"
    <3>1. PICK m \in MountType : /\ m.at = q /\ m.fs \in {"maskDir", "maskFile"}
                                 /\ Attach(i, Append(mounts[i], m))
      <4>1. \/ Attach(i, Append(mounts[i], Mount(q, "maskDir", TRUE)))
            \/ Attach(i, Append(mounts[i], Mount(q, "maskFile", FALSE)))
        BY <1>4, <2>2 DEF MaskPath
      <4>2. \A fs \in {"maskDir", "maskFile"}, ro \in BOOLEAN :
               LET m == Mount(q, fs, ro) IN m \in MountType /\ m.at = q /\ m.fs = fs
        BY <1>5 DEF Mount, MountType, Filesystems
      <4> QED
        BY <4>1, <4>2
    <3>2. mounts'[i] = Append(mounts[i], m)
      <4>1. Append(mounts[i], m) \in Seq(MountType)
        BY <1>6 DEF Grounded
      <4> QED
        BY <1>1, <1>3, <3>1, <4>1, AttachIs
    <3>3. \A p \in Nameable : Covering(mounts'[i], p) = IF IsPrefix(q, p) THEN m ELSE Covering(mounts[i], p)
      BY <1>6, <3>1, <3>2, AppendCovers DEF Nameable
    <3>4. ASSUME NEW p \in Nameable, IsPrefix(q, p) PROVE Masked(i, p)' /\ Covering(mounts'[i], p).fs # "rootfs"
      BY <3>1, <3>3, <3>4 DEF Masked
    <3>5. ASSUME NEW p \in Nameable PROVE Steady(i, p)
      <4>1. CASE IsPrefix(q, p)
        BY <3>4, <4>1 DEF Steady, Hidden, Guarded
      <4>2. CASE ~IsPrefix(q, p)
        <5>1. Covering(mounts'[i], p) = Covering(mounts[i], p)
          BY <3>3, <4>2
        <5>2. Kind(i, p) = "none" => Covering(mounts'[i], p).at # p
          BY <1>1, <5>1, KindNone
        <5> QED
          BY <1>1, <1>2, <5>1, <5>2, SteadyIf
      <4> QED
        BY <4>1, <4>2
    <3>6. IsPrefix(q, q)
      BY <1>5, PrefixOrder
    <3> QED
      BY <1>5, <3>4, <3>5, <3>6 DEF Hidden
  <2> QED
    BY <2>1, <2>2
<1>8. ASSUME NEW n \in DOMAIN specs[i].masked, Through(i, "masks", AfterMasks, n)'
      PROVE  Through(i, "masks", AfterMasks, n) \/ Hidden(i, specs[i].masked[n])'
  <2>1. n \in Nat /\ next[i] \in Nat /\ n < next[i] + 1
    <3>1. n \in Nat /\ next[i] \in Nat
      BY <1>1, ListsAre DEF RootfsTyped
    <3> QED
      BY <1>3, <1>8, <3>1 DEF Through, AfterMasks, AfterReadonly, Finalizing
  <2>2. n < next[i] \/ n = next[i]
    BY <2>1
  <2>3. n = next[i] => specs'[i].masked[n] = q
    BY <1>2, <1>4
  <2> QED
    BY <1>3, <1>7, <2>2, <2>3 DEF Through, Hidden
<1>9. /\ \A n : ~Through(i, "readonly", AfterReadonly, n)' /\ RootLast(i)' /\ step[i] \in AfterMounts
  BY <1>3, Behind DEF Through, AfterReadonly, Finalizing, RootLast
<1> QED
  BY <1>1, <1>2, <1>7, <1>8, <1>9, Carry

\* The ends of the loops, and the last step.
LEMMA EndProtects ==
  ASSUME RootfsInv, RootfsInv', NEW i \in Inits, OwnPaths(i, specs[i]), Protected(i),
         MasksDone(i) \/ Prepared(i) \/ Chdir(i)
  PROVE  Protected(i)'
<1>1. RootfsTyped /\ RootfsTyped' /\ next[i] \in Nat
      /\ "readonly" \in Locations /\ "mkOldroot" \in Locations /\ "done" \in Locations
  BY DEF RootfsInv, RootfsTyped, Locations, Preparing, Finalizing
<1>2. UNCHANGED <<specs, mounts, disk, tmp>>
  BY DEF MasksDone, Prepared, Chdir, Fixed, AtEnd
<1>3. /\ \A n \in DOMAIN specs[i].masked : n \in Nat /\ n <= Len(specs[i].masked)
      /\ \A n \in DOMAIN specs[i].readonly : n \in Nat /\ n <= Len(specs[i].readonly)
      /\ Len(specs[i].masked) \in Nat /\ Len(specs[i].readonly) \in Nat
  BY <1>1, ListsAre
<1>4. CASE MasksDone(i)
  <2>1. next[i] > Len(specs[i].masked) /\ StepTo(i, "masks", TRUE, "readonly")
    BY <1>4 DEF MasksDone, AtEnd
  <2>2. step[i] = "masks" /\ step'[i] = "readonly" /\ next'[i] = 1
    BY <1>1, <2>1, StepIs
  <2>3. \A n \in DOMAIN specs[i].masked : Through(i, "masks", AfterMasks, n)
    BY <1>1, <1>3, <2>1, <2>2 DEF Through
  <2>4. \A n \in DOMAIN specs[i].readonly : ~Through(i, "readonly", AfterReadonly, n)'
    <3>1. \A n \in DOMAIN specs[i].readonly : ~(n < 1)
      BY <1>1, ListsAre
    <3> QED
      BY <2>2, <3>1 DEF Through, AfterReadonly, Finalizing
  <2>5. RootLast(i)' /\ step[i] \in AfterMounts /\ step'[i] \notin Idle
    BY <2>2, Behind DEF RootLast, Idle
  <2> QED
    BY <1>2, <2>3, <2>4, <2>5, StillMove
<1>5. CASE Prepared(i)
  <2>1. next[i] > Len(specs[i].readonly) /\ StepTo(i, "readonly", TRUE, "mkOldroot")
    BY <1>5 DEF Prepared, AtEnd
  <2>2. step[i] = "readonly" /\ step'[i] = "mkOldroot" /\ next'[i] = 1
    BY <1>1, <2>1, StepIs
  <2>3. /\ \A n \in DOMAIN specs[i].masked : Through(i, "masks", AfterMasks, n)
        /\ \A n \in DOMAIN specs[i].readonly : Through(i, "readonly", AfterReadonly, n)
    BY <1>1, <1>3, <2>1, <2>2, Behind DEF Through
  <2>4. RootLast(i)' /\ step[i] \in AfterMounts /\ step'[i] \notin Idle
    BY <2>2, Behind DEF RootLast, Idle
  <2> QED
    BY <1>2, <2>3, <2>4, StillMove
<1>6. CASE Chdir(i)
  <2>1. StepTo(i, "cwd", specs[i].wrong # "cwd", "done")
    BY <1>6 DEF Chdir
  <2> DEFINE ok == specs[i].wrong # "cwd"
  <2>2. StepTo(i, "cwd", ok, "done")
    BY <2>1
  <2> HIDE DEF ok
  <2>3. step[i] = "cwd" /\ step'[i] \in {"done", "failed"}
    BY <1>1, <2>2, StepIs
  <2>4. CASE step'[i] = "failed"
    BY <1>1, <2>4, IdleProtected DEF Idle
  <2>5. CASE step'[i] = "done"
    <3>1. /\ \A n : Through(i, "masks", AfterMasks, n) /\ Through(i, "readonly", AfterReadonly, n)
          /\ step[i] \in AfterMounts /\ step'[i] \notin Idle
      BY <2>3, <2>5 DEF Through, AfterMounts, AfterMasks, AfterReadonly, Finalizing, Idle
    <3>2. RootLast(i)'
      BY <1>2, <2>3 DEF Protected, RootLast
    <3> QED
      BY <1>2, <3>1, <3>2, StillMove
  <2> QED
    BY <2>3, <2>4, <2>5
<1> QED
  BY <1>4, <1>5, <1>6

\* A path bound onto itself and remounted can no longer be written.
LEMMA BindProtects ==
  ASSUME RootfsInv, RootfsInv', NEW i \in Inits, OwnPaths(i, specs[i]), Protected(i), ReadonlyPath(i)
  PROVE  Protected(i)'
<1> DEFINE may == MayRemount(i, Covering(mounts[i], specs[i].readonly[next[i]]).fs)
<1>1. RootfsTyped /\ RootfsTyped' /\ Sealed /\ FilesTyped /\ FilesTyped'
  BY DEF RootfsInv, RootfsTyped
<1>2. PICK q : q = specs[i].readonly[next[i]]
  OBVIOUS
<1>3. PICK ok \in BOOLEAN : ok = may
  BY DEF MayRemount
<1>4. /\ next[i] <= Len(specs[i].readonly)
      /\ Again(i, "readonly", Kind(i, q) # "none" => Bindable(i, q) /\ ok)
      /\ IF Kind(i, q) # "none" /\ Bindable(i, q)
         THEN Attach(i, SelfBind(mounts[i], q, ok, Below(mounts[i], q)))
         ELSE UNCHANGED <<mounts, hostSees>>
      /\ UNCHANGED <<specs, disk, tmp>>
  BY <1>2, <1>3 DEF ReadonlyPath, Fixed
<1> HIDE DEF may
<1>5. /\ step[i] = "readonly"
      /\ \/ /\ Kind(i, q) # "none" => Bindable(i, q) /\ ok
            /\ step'[i] = "readonly" /\ next'[i] = next[i] + 1
         \/ step'[i] = "failed"
  <2> DEFINE fine == Kind(i, q) # "none" => Bindable(i, q) /\ ok
  <2>1. Again(i, "readonly", fine)
    BY <1>4
  <2> HIDE DEF fine
  <2>2. step[i] = "readonly" /\ ((fine /\ step'[i] = "readonly" /\ next'[i] = next[i] + 1) \/ step'[i] = "failed")
    BY <1>1, <2>1, AgainIs
  <2> QED
    BY <2>2 DEF fine
<1>6. CASE step'[i] = "failed"
  BY <1>1, <1>6, IdleProtected DEF Idle
<1>7. CASE step'[i] # "failed"
  <2>1. /\ Kind(i, q) # "none" => Bindable(i, q) /\ ok
        /\ step'[i] = "readonly" /\ next'[i] = next[i] + 1
    BY <1>5, <1>7
  <2>2. q \in Nameable /\ q \in Places /\ next[i] \in DOMAIN specs[i].readonly
    <3>1. next[i] \in Nat /\ next[i] # 0
      BY <1>1 DEF RootfsTyped
    <3>2. next[i] \in DOMAIN specs[i].readonly
      BY <1>1, <1>4, <3>1, ListsAre
    <3> QED
      BY <1>1, <1>2, <3>2, ListsNameable DEF Nameable
  <2>3. Grounded(mounts[i])
    BY <1>5, GroundedIs
  <2>4. (\A p \in Nameable : Steady(i, p)) /\ (Hidden(i, q)' \/ Guarded(i, q)')
    <3>1. CASE Kind(i, q) = "none"
      <4>1. mounts' = mounts
        BY <1>4, <3>1
      <4>2. ASSUME NEW p \in Nameable PROVE Steady(i, p)
        <5>1. Kind(i, p) = "none" => Covering(mounts'[i], p).at # p
          BY <1>1, <4>1, KindNone
        <5> QED
          BY <1>1, <1>4, <4>1, <5>1, SteadyIf
      <4> QED
        BY <2>2, <3>1, <4>2 DEF Steady, Hidden
    <3>2. CASE Kind(i, q) # "none"
      <4> DEFINE new == SelfBind(mounts[i], q, ok, Below(mounts[i], q))
      <4>1. /\ Grounded(new)
            /\ \A p \in Places : Covering(new, p) \in {Covering(mounts[i], p), Mount(q, Covering(mounts[i], p).fs, ok)}
            /\ Covering(new, q) = Mount(q, Covering(mounts[i], q).fs, ok)
        BY <2>2, <2>3, SelfBindCovers
      <4>2. Attach(i, new)
        BY <1>4, <2>1, <3>2
      <4> HIDE DEF new
      <4>3. mounts'[i] = new
        BY <1>1, <1>5, <4>1, <4>2, AttachIs DEF Grounded
      <4>4. ASSUME NEW p \in Nameable PROVE Steady(i, p)
        <5>1. Covering(mounts'[i], p) \in {Covering(mounts[i], p), Mount(q, Covering(mounts[i], p).fs, ok)}
          BY <4>1, <4>3 DEF Nameable
        <5>2. /\ Covering(mounts'[i], p).fs = Covering(mounts[i], p).fs
              /\ Covering(mounts[i], p).ro => Covering(mounts'[i], p).ro
          BY <2>1, <3>2, <5>1 DEF Mount
        <5>3. Kind(i, p) = "none" => Covering(mounts'[i], p).at # p
          <6> SUFFICES ASSUME Kind(i, p) = "none" PROVE Covering(mounts'[i], p).at # p
            OBVIOUS
          <6>1. Covering(mounts[i], p).at # p /\ p # q
            BY <1>1, <3>2, KindNone
          <6> QED
            BY <5>1, <6>1 DEF Mount
        <5> QED
          BY <1>1, <1>4, <5>2, <5>3, SteadyIf
      <4>5. Guarded(i, q)'
        <5>0. ok = TRUE
          BY <2>1, <3>2
        <5>1. Covering(mounts'[i], q) = Mount(q, Covering(mounts[i], q).fs, TRUE)
          BY <4>1, <4>3, <5>0
        <5>2. Covering(mounts'[i], q).ro
          BY <5>1 DEF Mount
        <5> QED
          BY <5>2 DEF Guarded
      <4> QED
        BY <4>4, <4>5
    <3> QED
      BY <3>1, <3>2
  <2>5. ASSUME NEW n \in DOMAIN specs[i].readonly, Through(i, "readonly", AfterReadonly, n)'
        PROVE  \/ Through(i, "readonly", AfterReadonly, n)
               \/ Kind(i, specs[i].readonly[n])' = "none"
               \/ Guarded(i, specs[i].readonly[n])'
    <3>1. n \in Nat /\ next[i] \in Nat
      BY <1>1, ListsAre DEF RootfsTyped
    <3>2. n < next[i] + 1
      BY <2>1, <2>5, <3>1 DEF Through, AfterReadonly, Finalizing
    <3>3. n < next[i] \/ n = next[i]
      BY <3>1, <3>2
    <3>4. n = next[i] => specs'[i].readonly[n] = q
      BY <1>2, <1>4
    <3>5. Kind(i, q)' = "none" \/ Guarded(i, q)'
      BY <2>4 DEF Hidden, Guarded
    <3> QED
      BY <1>5, <3>3, <3>4, <3>5 DEF Through
  <2>6. /\ \A n : Through(i, "masks", AfterMasks, n) /\ RootLast(i)' /\ step[i] \in AfterMounts
    BY <1>5, <2>1, Behind DEF Through, RootLast
  <2> QED
    BY <1>1, <1>4, <2>4, <2>5, <2>6, Carry
<1> QED
  BY <1>6, <1>7

\* Once the root is finalized the loops have dealt with all they had.
LEMMA LateMove ==
  ASSUME RootfsInv, NEW i \in Inits, OwnPaths(i, specs[i]), Protected(i),
         UNCHANGED specs, step[i] \in Finalizing, \A p \in Nameable : Steady(i, p), RootLast(i)'
  PROVE  Protected(i)'
<1>1. RootfsTyped
  BY DEF RootfsInv
<1>2. /\ \A n : Through(i, "masks", AfterMasks, n) /\ Through(i, "readonly", AfterReadonly, n)
      /\ step[i] \in AfterMounts
  BY DEF Through, AfterMounts, AfterMasks, AfterReadonly
<1> QED
  BY <1>1, <1>2, Carry

\* Only the root is above .oldroot, and it is always there.
LEMMA AboveOldroot ==
  ASSUME RootfsInv, NEW i \in Inits, step[i] \notin {"private", "bind", "killed"}, NEW p \in Nameable
  PROVE  p \notin Missing(i, OldRoot)
<1> SUFFICES ASSUME p \in Missing(i, OldRoot) PROVE FALSE
  OBVIOUS
<1>1. IsPrefix(p, OldRoot) /\ Kind(i, p) = "none"
  BY DEF Missing, Above
<1>2. p = Top
  <2>1. p \in Seq(Names) /\ OldRoot \in Seq(Names) /\ Len(OldRoot) = 1 /\ OldRoot[1] = ".oldroot"
    BY PlacesAre DEF OldRoot, Nameable, Places
  <2>2. \/ p = Top
        \/ Len(p) \in {1, 2, 3} /\ p[1] \in {"proc", "dev", "data"}
    BY DEF Nameable, Places, Top, Proc, Kcore, Sys, Key, Dev, Node, Link, Data
  <2>3. Len(p) <= 1 /\ \A n \in 1..Len(p) : p[n] = OldRoot[n]
    BY <1>1, <2>1, PrefixIs
  <2> QED
    BY <2>1, <2>2, <2>3
<1>3. Grounded(mounts[i])
  BY GroundedIs
<1>4. PICK k \in 1..Len(mounts[i]) : Covering(mounts[i], p) = mounts[i][k] /\ IsPrefix(mounts[i][k].at, p)
  BY <1>3, Leads DEF Nameable
<1>5. mounts[i][k].at \in Places \cup {Nowhere} /\ Top \in Places
  <2>1. mounts[i][k] \in MountType
    BY <1>3 DEF Grounded
  <2> QED
    BY <2>1 DEF MountType, Places
<1>6. mounts[i][k].at = Top
  BY <1>2, <1>4, <1>5, OnTheWay, PrefixOrder
<1> QED
  BY <1>1, <1>2, <1>4, <1>6, KindNone DEF RootfsInv, RootfsTyped

\* The old root's directory is no path of the spec's, nor is the mount at it.
LEMMA OldrootProtects ==
  ASSUME RootfsInv, RootfsInv', NEW i \in Inits, OwnPaths(i, specs[i]), Protected(i),
         MakeOldroot(i) \/ PivotRoot(i)
  PROVE  Protected(i)'
<1>1. RootfsTyped /\ RootfsTyped' /\ Sealed /\ FilesTyped /\ FilesTyped' /\ UNCHANGED specs
      /\ "pivot" \in Locations /\ "detach" \in Locations
  BY DEF RootfsInv, RootfsTyped, Locations, Finalizing, MakeOldroot, PivotRoot, Fixed
<1>2. CASE MakeOldroot(i)
  <2> DEFINE files == MkdirFiles(i, OldRoot)
             ok == MayMkdir(i, OldRoot)
  <2>1. /\ StepTo(i, "mkOldroot", ok, "pivot") /\ UNCHANGED mounts
        /\ Put(i, OldRoot, files) \/ UNCHANGED <<disk, tmp>>
    BY <1>2 DEF MakeOldroot
  <2>2. DOMAIN files = Missing(i, OldRoot)
    BY DEF MkdirFiles, Fresh
  <2> HIDE DEF ok, files
  <2>3. step[i] = "mkOldroot" /\ step'[i] \in {"pivot", "failed"}
    BY <1>1, <2>1, StepIs
  <2>4. ASSUME NEW p \in Nameable
        PROVE  /\ p \in DOMAIN disk' => p \in DOMAIN disk
               /\ p \in DOMAIN tmp'[i] => p \in DOMAIN tmp[i]
    <3>1. p \notin DOMAIN files
      BY <2>2, <2>3, AboveOldroot
    <3>2. \A old : p \in DOMAIN Onto(files, old) => p \in DOMAIN old
      BY <3>1 DEF Onto
    <3>3. CASE UNCHANGED <<disk, tmp>>
      BY <3>3
    <3>4. CASE Put(i, OldRoot, files)
      BY <1>1, <3>2, <3>4 DEF Put, FilesTyped
    <3> QED
      BY <2>1, <3>3, <3>4
  <2>5. ASSUME NEW p \in Nameable PROVE Steady(i, p)
    <3>1. Kind(i, p) = "none" => Covering(mounts'[i], p).at # p
      BY <1>1, <2>1, KindNone
    <3> QED
      BY <1>1, <2>1, <2>4, <3>1, SteadyIf
  <2>6. step[i] \in Finalizing /\ RootLast(i)'
    BY <2>3 DEF Finalizing, RootLast
  <2> QED
    BY <1>1, <2>5, <2>6, LateMove
<1>3. CASE PivotRoot(i)
  <2> DEFINE ok == Kind(i, OldRoot) = "dir" /\ peer[i] # "shared"
             m == Mount(OldRoot, "host", FALSE)
  <2>1. /\ StepTo(i, "pivot", ok, "detach") /\ UNCHANGED <<disk, tmp>>
        /\ ok => Attach(i, Append(mounts[i], m))
    BY <1>3 DEF PivotRoot
  <2>2. m \in MountType /\ m.at = OldRoot
    BY DEF Mount, MountType, Filesystems, Places
  <2> HIDE DEF ok, m
  <2>3. step[i] = "pivot" /\ step'[i] \in {"detach", "failed"} /\ (~ok => step'[i] = "failed")
    BY <1>1, <2>1, StepIs
  <2>4. CASE step'[i] = "failed"
    BY <1>1, <2>4, IdleProtected DEF Idle
  <2>5. CASE step'[i] = "detach"
    <3>1. Grounded(mounts[i])
      BY <2>3, GroundedIs
    <3>2. mounts'[i] = Append(mounts[i], m)
      <4>1. Append(mounts[i], m) \in Seq(MountType)
        BY <2>2, <3>1 DEF Grounded
      <4> QED
        BY <1>1, <2>1, <2>3, <2>5, <4>1, AttachIs
    <3>3. ASSUME NEW p \in Nameable PROVE Steady(i, p)
      <4>1. Covering(mounts'[i], p) = Covering(mounts[i], p)
        <5>1. p \in Places /\ ~IsPrefix(m.at, p)
          BY <2>2, NotBelow DEF Nameable
        <5> QED
          BY <2>2, <3>1, <3>2, <5>1, AppendCovers
      <4>2. Kind(i, p) = "none" => Covering(mounts'[i], p).at # p
        BY <1>1, <4>1, KindNone
      <4> QED
        BY <1>1, <2>1, <4>1, <4>2, SteadyIf
    <3>4. step[i] \in Finalizing /\ RootLast(i)'
      BY <2>3, <2>5 DEF Finalizing, RootLast
    <3> QED
      BY <1>1, <3>3, <3>4, LateMove
  <2> QED
    BY <2>3, <2>4, <2>5
<1> QED
  BY <1>2, <1>3

\* When the host's root goes from .oldroot, and the directory it was at, no other path
\* leads elsewhere.
LEMMA OldrootGone ==
  ASSUME RootfsInv, NEW i \in Inits, DetachOldroot(i) \/ RemoveOldroot(i)
  PROVE  /\ step[i] \in {"detach", "rmOldroot"}
         /\ step'[i] \in {"rmOldroot", "remount", "failed"}
         /\ \A p \in Nameable : Covering(mounts'[i], p) = Covering(mounts[i], p)
<1>1. RootfsTyped /\ Rooted(i) /\ "rmOldroot" \in Locations /\ "remount" \in Locations
  BY DEF RootfsInv, RootfsTyped, Locations, Finalizing
<1>2. /\ step[i] \in {"detach", "rmOldroot"}
      /\ step'[i] \in {"rmOldroot", "remount", "failed"}
  <2>1. CASE DetachOldroot(i)
    <3> DEFINE ok == Covering(mounts[i], OldRoot).fs = "host"
    <3>1. StepTo(i, "detach", ok, "rmOldroot")
      BY <2>1 DEF DetachOldroot
    <3> HIDE DEF ok
    <3> QED
      BY <1>1, <3>1, StepIs
  <2>2. CASE RemoveOldroot(i)
    <3>1. PICK ok : StepTo(i, "rmOldroot", ok, "remount")
      BY <2>2 DEF RemoveOldroot
    <3> QED
      BY <1>1, <3>1, StepIs
  <2> QED
    BY <2>1, <2>2
<1>3. Grounded(mounts[i]) /\ mounts[i] \in Seq(MountType) /\ DOMAIN mounts[i] = 1..Len(mounts[i])
  <2>1. Grounded(mounts[i])
    BY <1>2, GroundedIs
  <2> QED
    BY <2>1 DEF Grounded
<1>4. mounts'[i] \in {mounts[i], Without(mounts[i], OldRoot), WithoutHost(mounts[i])}
  BY <1>1 DEF DetachOldroot, RemoveOldroot, RootfsTyped
<1>5. ASSUME NEW p \in Nameable PROVE Covering(mounts'[i], p) = Covering(mounts[i], p)
  <2> DEFINE old == mounts[i]
             new == mounts'[i]
  <2>1. CASE new = old
    BY <2>1
  <2>2. CASE new = Without(old, OldRoot)
    <3>1. /\ new \in Seq(MountType) /\ Len(new) = Len(old)
          /\ \A k \in 1..Len(old) : new[k] = IF old[k].at = OldRoot THEN Detached ELSE old[k]
      BY <1>3, <2>2, WithoutIs
    <3> HIDE DEF new, old
    <3> QED
      BY <1>3, <3>1, DetachCovers DEF new, old
  <2>3. CASE new = WithoutHost(old)
    <3>1. /\ new \in Seq(MountType) /\ Len(new) = Len(old)
          /\ \A k \in 1..Len(old) : new[k] = IF old[k].fs = "host" THEN Detached ELSE old[k]
      BY <1>3, <2>3, WithoutHostIs
    <3>2. \A k \in 1..Len(old) : old[k].fs = "host" => old[k].at = OldRoot
      BY <1>1, <1>3 DEF Rooted
    <3>3. \A k \in 1..Len(old) : new[k] = old[k] \/ (old[k].at = OldRoot /\ new[k] = Detached)
      BY <3>1, <3>2
    <3> HIDE DEF new, old
    <3> QED
      BY <1>3, <3>1, <3>3, DetachCovers DEF new, old
  <2> QED
    BY <1>4, <2>1, <2>2, <2>3
<1> QED
  BY <1>2, <1>5

\* So nothing that was protected is lost.
LEMMA DetachProtects ==
  ASSUME RootfsInv, RootfsInv', NEW i \in Inits, OwnPaths(i, specs[i]), Protected(i),
         DetachOldroot(i) \/ RemoveOldroot(i)
  PROVE  Protected(i)'
<1>1. RootfsTyped /\ FilesTyped /\ FilesTyped' /\ UNCHANGED specs
  BY DEF RootfsInv, RootfsTyped, DetachOldroot, RemoveOldroot, Fixed
<1>2. /\ step[i] \in {"detach", "rmOldroot"} /\ step'[i] \in {"rmOldroot", "remount", "failed"}
      /\ \A p \in Nameable : Covering(mounts'[i], p) = Covering(mounts[i], p)
  BY OldrootGone
<1>3. DOMAIN disk' \subseteq DOMAIN disk /\ DOMAIN tmp'[i] \subseteq DOMAIN tmp[i]
  <2>1. CASE DetachOldroot(i)
    BY <2>1 DEF DetachOldroot
  <2>2. CASE RemoveOldroot(i)
    <3> DEFINE Left(files) == Restrict(files, (DOMAIN files) \ {OldRoot})
    <3>1. \/ UNCHANGED <<disk, tmp>>
          \/ disk' = Left(disk) /\ UNCHANGED tmp
          \/ tmp' = [tmp EXCEPT ![i] = Left(@)] /\ UNCHANGED disk
      BY <2>2 DEF RemoveOldroot
    <3>2. \A files : DOMAIN Left(files) \subseteq DOMAIN files
      BY DEF Restrict
    <3> HIDE DEF Left
    <3> QED
      BY <1>1, <3>1, <3>2 DEF FilesTyped
  <2> QED
    BY <2>1, <2>2
<1>4. ASSUME NEW p \in Nameable PROVE Steady(i, p)
  <2>1. Kind(i, p) = "none" => Covering(mounts'[i], p).at # p
    BY <1>1, <1>2, KindNone
  <2> QED
    BY <1>1, <1>2, <1>3, <2>1, SteadyIf
<1>5. step[i] \in Finalizing /\ RootLast(i)'
  BY <1>2 DEF Finalizing, RootLast
<1> QED
  BY <1>1, <1>4, <1>5, LateMove

\* A remount leaves the places of the mounts, and so the mount that a path leads to.
LEMMA RemountCovers ==
  ASSUME NEW ms, Grounded(ms), NEW new \in Seq(MountType), Len(new) = Len(ms),
         \A k \in 1..Len(ms) : new[k].at = ms[k].at, NEW p \in Places
  PROVE  \E k \in 1..Len(ms) : /\ k = Max(Over(ms, p)) /\ Covering(ms, p) = ms[k]
                               /\ Covering(new, p) = new[k]
<1>1. PICK k \in 1..Len(ms) : /\ k = Max(Over(ms, p)) /\ Covering(ms, p) = ms[k]
                              /\ IsPrefix(ms[k].at, p)
                              /\ \A l \in 1..Len(ms) : IsPrefix(ms[l].at, p) => l <= k
  BY Leads
<1>2. Covering(new, p) = new[k]
  BY <1>1, LeadsTo
<1> QED
  BY <1>1, <1>2

\* So the remount of the root makes what the root leads to read-only, and leaves every
\* path where it led to.
LEMMA RemountIs ==
  ASSUME RootfsInv, RootfsInv', NEW i \in Inits, RemountRoot(i), step'[i] # "failed", NEW p \in Places
  PROVE  /\ Covering(mounts'[i], p).at = Covering(mounts[i], p).at
         /\ Covering(mounts'[i], p).fs = Covering(mounts[i], p).fs
         /\ Covering(mounts[i], p).ro => Covering(mounts'[i], p).ro
         /\ specs[i].readonlyRoot /\ p = Top => Covering(mounts'[i], p).ro
<1>1. RootfsTyped /\ RootfsTyped' /\ "cwd" \in Locations
  BY DEF RootfsInv, RootfsTyped, Locations, Finalizing
<1> DEFINE may == MayRemount(i, Covering(mounts[i], Top).fs)
           root == Max(Over(mounts[i], Top))
           fine == specs[i].readonlyRoot => may
<1>2. /\ StepTo(i, "remount", fine, "cwd")
      /\ IF specs[i].readonlyRoot /\ may THEN mounts' = [mounts EXCEPT ![i][root].ro = TRUE]
                                         ELSE UNCHANGED mounts
  BY DEF RemountRoot
<1>3. Top \in Places
  BY DEF Places
<1> HIDE DEF may, fine, root
<1>4. step[i] = "remount" /\ step'[i] \in {"cwd", "failed"} /\ (~fine => step'[i] = "failed")
  BY <1>1, <1>2, StepIs
<1>5. Grounded(mounts[i]) /\ mounts[i] \in Seq(MountType)
  <2>1. Grounded(mounts[i])
    BY <1>4, GroundedIs
  <2> QED
    BY <2>1 DEF Grounded
<1>6. specs[i].readonlyRoot => may
  BY <1>4 DEF fine
<1>7. CASE specs[i].readonlyRoot
  <2>1. mounts' = [mounts EXCEPT ![i][root].ro = TRUE] /\ mounts'[i] \in Seq(MountType)
    BY <1>2, <1>6, <1>7 DEF RootfsInv, RootfsTyped
  <2>2. mounts'[i] = [mounts[i] EXCEPT ![root].ro = TRUE]
    BY <1>1, <2>1 DEF RootfsTyped
  <2>3. root \in 1..Len(mounts[i])
    BY <1>3, <1>5, Leads DEF root
  <2> DEFINE old == mounts[i]
             new == mounts'[i]
  <2>4. \A k \in 1..Len(old) : old[k] \in MountType
    BY <1>5
  <2>5. /\ Len(new) = Len(old)
        /\ \A k \in 1..Len(old) : new[k] = IF k = root THEN [old[k] EXCEPT !.ro = TRUE] ELSE old[k]
    <3>1. /\ new = [old EXCEPT ![root].ro = TRUE] /\ new \in Seq(MountType)
          /\ old \in Seq(MountType) /\ root \in 1..Len(old)
      BY <1>5, <2>1, <2>2, <2>3
    <3> HIDE DEF old, new
    <3>2. DOMAIN old = 1..Len(old) /\ DOMAIN new = 1..Len(new) /\ Len(old) \in Nat /\ Len(new) \in Nat
      BY <3>1
    <3>3. DOMAIN new = DOMAIN old
      BY <3>1
    <3>4. Len(new) = Len(old)
      <4>1. Len(old) \in 1..Len(old)
        BY <3>1, <3>2
      <4>2. Len(old) \in 1..Len(new)
        BY <3>2, <3>3, <4>1
      <4>3. Len(new) \in 1..Len(new)
        BY <3>2, <4>2
      <4>4. Len(new) \in 1..Len(old)
        BY <3>2, <3>3, <4>3
      <4> QED
        <5>1. Len(old) \in Nat /\ Len(new) \in Nat
          BY <3>2
        <5>2. Len(old) <= Len(new) /\ Len(new) <= Len(old)
          BY <5>1, <4>2, <4>4
        <5> QED
          BY <5>1, <5>2
    <3> QED
      BY <3>1, <3>2, <3>4
  <2>6. \A k \in 1..Len(old) : /\ new[k].at = old[k].at /\ new[k].fs = old[k].fs
                               /\ old[k].ro => new[k].ro
                               /\ k = root => new[k].ro
    BY <2>4, <2>5 DEF MountType
  <2> HIDE DEF old, new
  <2>7. PICK k \in 1..Len(old) : /\ k = Max(Over(old, p)) /\ Covering(old, p) = old[k]
                                 /\ Covering(new, p) = new[k]
    BY <1>5, <2>1, <2>5, <2>6, RemountCovers DEF old, new
  <2>8. p = Top => k = root
    BY <2>7 DEF root, old
  <2> QED
    BY <2>6, <2>7, <2>8 DEF old, new
<1>8. CASE ~specs[i].readonlyRoot
  BY <1>2, <1>8
<1> QED
  BY <1>7, <1>8

\* And nothing that is protected is lost.
LEMMA RemountProtects ==
  ASSUME RootfsInv, RootfsInv', NEW i \in Inits, OwnPaths(i, specs[i]), Protected(i), RemountRoot(i)
  PROVE  Protected(i)'
<1>1. /\ RootfsTyped /\ RootfsTyped' /\ FilesTyped /\ FilesTyped' /\ "cwd" \in Locations
      /\ UNCHANGED <<specs, disk, tmp>>
  BY DEF RootfsInv, RootfsTyped, Locations, Finalizing, RemountRoot, Fixed
<1>2. PICK ok : StepTo(i, "remount", ok, "cwd")
  BY DEF RemountRoot
<1>3. step[i] = "remount" /\ step'[i] \in {"cwd", "failed"}
  BY <1>1, <1>2, StepIs
<1>4. CASE step'[i] = "failed"
  BY <1>1, <1>4, IdleProtected DEF Idle
<1>5. CASE step'[i] # "failed"
  <2>1. ASSUME NEW p \in Nameable PROVE Steady(i, p)
    <3>1. /\ Covering(mounts'[i], p).at = Covering(mounts[i], p).at
          /\ Covering(mounts'[i], p).fs = Covering(mounts[i], p).fs
          /\ Covering(mounts[i], p).ro => Covering(mounts'[i], p).ro
      <4>1. p \in Places
        BY DEF Nameable
      <4> QED
        BY <1>5, <4>1, RemountIs
    <3>2. Kind(i, p) = "none" => Covering(mounts'[i], p).at # p
      BY <1>1, <3>1, KindNone
    <3> QED
      BY <1>1, <3>1, <3>2, SteadyIf
  <2>2. RootLast(i)'
    <3>1. specs[i].readonlyRoot => Covering(mounts'[i], Top).ro
      <4>1. Top \in Places
        BY DEF Places
      <4> QED
        BY <1>5, <4>1, RemountIs
    <3> QED
      BY <1>1, <3>1 DEF RootLast
  <2>3. step[i] \in Finalizing
    BY <1>3 DEF Finalizing
  <2> QED
    BY <1>1, <2>1, <2>2, <2>3, LateMove
<1> QED
  BY <1>3, <1>4, <1>5

\* A mount of the spec's is what its path and those below lead to, until a later one.
LEMMA MountProtects ==
  ASSUME RootfsInv, RootfsInv', NEW i \in Inits, OwnPaths(i, specs[i]), Protected(i), MountOne(i)
  PROVE  Protected(i)'
<1>1. RootfsTyped /\ RootfsTyped' /\ Sealed
  BY DEF RootfsInv
<1>2. PICK n : n = next[i]
  OBVIOUS
<1>3. PICK m : m = specs[i].mounts[n]
  OBVIOUS
<1>4. n <= Len(specs[i].mounts) /\ UNCHANGED specs
  BY <1>2 DEF MountOne, Fixed
<1>5. PICK made, ok : /\ Again(i, "mounts", ok) /\ (ok => made)
                      /\ made => Attach(i, Append(mounts[i], Mount(m.at, m.fs, m.ro)))
  <2> DEFINE dir == IF m.fs = "hostFile" THEN Front(m.at) ELSE m.at
             made == /\ specs[i].wrong # "source" \/ m.fs \notin FromHost
                     /\ MayMkdir(i, dir)
                     /\ m.fs = "hostFile" => Kind(i, m.at) # "dir" /\ MayMake(i, m.at)
             ok == made /\ (m.ro /\ m.fs \in FromHost => MayRemount(i, m.fs))
  <2>1. /\ Again(i, "mounts", ok)
        /\ made => Attach(i, Append(mounts[i], Mount(m.at, m.fs, m.ro)))
    BY <1>2, <1>3 DEF MountOne, ReadonlyMount
  <2>2. ok => made
    OBVIOUS
  <2> HIDE DEF made, ok
  <2> QED
    BY <2>1, <2>2
<1>6. /\ step[i] = "mounts"
      /\ \/ ok /\ step'[i] = "mounts" /\ next'[i] = n + 1
         \/ step'[i] = "failed"
  BY <1>1, <1>2, <1>5, AgainIs
<1>7. CASE step'[i] = "failed"
  BY <1>1, <1>7, IdleProtected DEF Idle
<1>8. CASE step'[i] # "failed"
  <2>1. step[i] = "mounts" /\ step'[i] = "mounts" /\ next'[i] = n + 1 /\ made
    BY <1>5, <1>6, <1>8
  <2>2. n \in Nat /\ n # 0
    BY <1>1, <1>2 DEF RootfsTyped
  <2>3. n \in DOMAIN specs[i].mounts /\ \A k \in DOMAIN specs[i].mounts : k \in Nat
    BY <1>1, <1>4, <2>2, ListsAre
  <2>4. m.at \in Nameable /\ m.fs \in Sources /\ m.ro \in BOOLEAN
    <3>1. specs[i].mounts \in Seq([at : Places, fs : Sources, ro : BOOLEAN])
      BY <1>1 DEF RootfsTyped, RootfsSpecType
    <3>2. \A S, l, k : l \in Seq(S) /\ k \in DOMAIN l => l[k] \in S
      OBVIOUS
    <3>3. m \in [at : Places, fs : Sources, ro : BOOLEAN]
      BY <1>3, <2>3, <3>1, <3>2
    <3> QED
      BY <1>1, <1>3, <2>3, <3>3, ListsNameable
  <2>5. PICK new \in MountType : /\ new = Mount(m.at, m.fs, m.ro)
                                 /\ new.at = m.at /\ new.ro = m.ro /\ new.fs # "rootfs"
    <3> DEFINE top == Mount(m.at, m.fs, m.ro)
    <3>1. "rootfs" \notin Sources /\ Sources \subseteq Filesystems
      BY DEF Sources, FromHost, Filesystems
    <3>2. top \in MountType /\ top.at = m.at /\ top.ro = m.ro /\ top.fs # "rootfs"
      BY <2>4, <3>1 DEF Mount, MountType, Nameable
    <3> HIDE DEF top
    <3>3. top = Mount(m.at, m.fs, m.ro)
      BY DEF top
    <3> QED
      BY <3>2, <3>3
  <2>6. Grounded(mounts[i])
    BY <2>1, GroundedIs
  <2>7. mounts'[i] = Append(mounts[i], new)
    <3>1. Append(mounts[i], new) \in Seq(MountType)
      BY <2>6 DEF Grounded
    <3> QED
      BY <1>1, <1>5, <2>1, <2>5, <3>1, AttachIs
  <2>8. \A p \in Nameable : Covering(mounts'[i], p) = IF IsPrefix(m.at, p) THEN new ELSE Covering(mounts[i], p)
    BY <2>5, <2>6, <2>7, AppendCovers DEF Nameable
  <2>9. ASSUME NEW k \in DOMAIN specs[i].mounts, Through(i, "mounts", AfterMounts, k)'
        PROVE  k = n \/ (k < n /\ Through(i, "mounts", AfterMounts, k))
    <3>1. k < n + 1
      BY <2>1, <2>9 DEF Through, AfterMounts, AfterMasks, AfterReadonly, Finalizing
    <3>2. k \in Nat
      BY <2>3
    <3>3. k = n \/ k < n
      BY <2>2, <3>1, <3>2
    <3> QED
      BY <1>2, <2>1, <3>3 DEF Through
  <2>10. MasksLast(i)' /\ ReadonlyLast(i)' /\ RootLast(i)'
    BY <2>1 DEF MasksLast, ReadonlyLast, RootLast, Through, AfterMasks, AfterReadonly, Finalizing
  <2>11. MountsLast(i)'
    <3>1. ASSUME NEW k \in DOMAIN specs[i].mounts, Through(i, "mounts", AfterMounts, k)',
                 specs[i].mounts[k].ro, Uncovered(i, k)
          PROVE  Guarded(i, specs[i].mounts[k].at)'
      <4>1. PICK p : p = specs[i].mounts[k].at
        OBVIOUS
      <4>2. p \in Nameable /\ p \in Places
        BY <1>1, <4>1, ListsNameable DEF Nameable
      <4>3. CASE k = n
        <5>1. Covering(mounts'[i], p).ro
          BY <1>3, <2>5, <2>8, <3>1, <4>1, <4>2, <4>3, PrefixOrder
        <5> QED
          BY <1>4, <4>1, <5>1 DEF Guarded
      <4>4. CASE k < n /\ Through(i, "mounts", AfterMounts, k)
        <5>1. ~IsPrefix(m.at, p)
          BY <1>3, <2>3, <3>1, <4>1, <4>4 DEF Uncovered
        <5>2. Covering(mounts'[i], p) = Covering(mounts[i], p)
          BY <2>8, <4>2, <5>1
        <5>3. Guarded(i, p)
          BY <3>1, <4>1, <4>4 DEF Protected, MountsLast
        <5>4. Guarded(i, p)'
          BY <5>2, <5>3 DEF Guarded, Masked
        <5> QED
          BY <1>4, <4>1, <5>4 DEF Guarded
      <4> QED
        BY <2>9, <3>1, <4>3, <4>4
    <3>2. \A k : Uncovered(i, k)' <=> Uncovered(i, k)
      BY <1>4 DEF Uncovered
    <3> QED
      BY <1>4, <3>1, <3>2 DEF MountsLast
  <2>12. OwnLast(i)'
    <3>1. ASSUME NEW k \in DOMAIN specs[i].mounts, NEW p \in Nameable,
                 Through(i, "mounts", AfterMounts, k)', IsPrefix(specs[i].mounts[k].at, p)
          PROVE  Covering(mounts'[i], p).fs # "rootfs"
      <4>1. CASE IsPrefix(m.at, p)
        BY <2>5, <2>8, <4>1
      <4>2. CASE ~IsPrefix(m.at, p)
        <5>1. Through(i, "mounts", AfterMounts, k)
          BY <1>3, <2>9, <3>1, <4>2
        <5> QED
          BY <2>8, <3>1, <4>2, <5>1 DEF Protected, OwnLast
      <4> QED
        BY <4>1, <4>2
    <3> QED
      BY <1>4, <3>1 DEF OwnLast
  <2> QED
    BY <2>10, <2>11, <2>12 DEF Protected
<1> QED
  BY <1>7, <1>8

\* No place is below a device.
LEMMA BelowNode ==
  ASSUME NEW p \in Places, IsPrefix(Node, p) PROVE p = Node
<1>1. p \in Seq(Names) /\ Node \in Seq(Names) /\ Len(Node) = 2 /\ Node[2] = "node"
  BY PlacesAre DEF Node, Places
<1>2. Len(p) >= 2 /\ p[2] = "node"
  BY <1>1, PrefixIs
<1>3. p = Node \/ Len(p) \in {0, 1} \/ p[2] \in {"kcore", "sys", "link"}
  BY DEF Places, Top, Proc, Kcore, Sys, Key, Dev, Node, Link, Data, OldRoot
<1> QED
  BY <1>2, <1>3

\* Between the mounts and the masks only a device is mounted.
LEMMA DeviceProtects ==
  ASSUME RootfsInv, NEW i \in Inits, OwnPaths(i, specs[i]), Protected(i), UNCHANGED specs,
         step'[i] \in {"devices", "links", "sysctl", "masks"}, next'[i] = 1,
         \A k \in DOMAIN specs[i].mounts : Through(i, "mounts", AfterMounts, k),
         \/ mounts'[i] = mounts[i]
         \/ /\ specs[i].rootless /\ Grounded(mounts[i])
            /\ mounts'[i] = Append(mounts[i], Mount(Node, "device", FALSE))
  PROVE  Protected(i)'
<1>1. RootfsTyped
  BY DEF RootfsInv
<1>2. PICK m \in MountType : m = Mount(Node, "device", FALSE) /\ m.at = Node /\ m.fs # "rootfs"
  <2> DEFINE top == Mount(Node, "device", FALSE)
  <2>1. top \in MountType /\ top.at = Node /\ top.fs # "rootfs"
    BY DEF Mount, MountType, Filesystems, Places
  <2>2. top = Mount(Node, "device", FALSE)
    OBVIOUS
  <2> HIDE DEF top
  <2> QED
    BY <2>1, <2>2
<1>3. ASSUME NEW p \in Nameable
      PROVE  \/ Covering(mounts'[i], p) = Covering(mounts[i], p)
             \/ Covering(mounts'[i], p) = m /\ specs[i].rootless /\ p = Node
  <2>1. CASE mounts'[i] = mounts[i]
    BY <2>1
  <2>2. CASE specs[i].rootless /\ Grounded(mounts[i]) /\ mounts'[i] = Append(mounts[i], m)
    <3>1. Covering(mounts'[i], p) = IF IsPrefix(Node, p) THEN m ELSE Covering(mounts[i], p)
      <4>1. p \in Places /\ Grounded(mounts[i])
        BY <2>2 DEF Nameable
      <4>2. Covering(Append(mounts[i], m), p) = IF IsPrefix(m.at, p) THEN m ELSE Covering(mounts[i], p)
        BY <4>1, AppendCovers
      <4> QED
        BY <1>2, <2>2, <4>2
    <3>2. IsPrefix(Node, p) => p = Node
      BY BelowNode DEF Nameable
    <3> QED
      BY <2>2, <3>1, <3>2
  <2> QED
    BY <1>2, <2>1, <2>2
<1>4. \A n \in DOMAIN specs[i].masked : ~(n < 1)
  BY <1>1, ListsAre
<1>5. MasksLast(i)' /\ ReadonlyLast(i)' /\ RootLast(i)'
  BY <1>4 DEF MasksLast, ReadonlyLast, RootLast, Through, AfterMasks, AfterReadonly, Finalizing
<1>6. MountsLast(i)'
  <2>1. ASSUME NEW k \in DOMAIN specs[i].mounts, specs[i].mounts[k].ro, Uncovered(i, k)
        PROVE  Guarded(i, specs[i].mounts[k].at)'
    <3>1. PICK p : p = specs[i].mounts[k].at
      OBVIOUS
    <3>2. p \in Nameable /\ Guarded(i, p)
      BY <1>1, <2>1, <3>1, ListsNameable DEF Protected, MountsLast
    <3>3. Covering(mounts'[i], p) = Covering(mounts[i], p)
      BY <1>3, <2>1, <3>1, <3>2 DEF Uncovered
    <3>4. Guarded(i, p)'
      BY <3>2, <3>3 DEF Guarded, Masked
    <3> QED
      BY <3>1, <3>4 DEF Guarded
  <2>2. \A k : Uncovered(i, k)' <=> Uncovered(i, k)
    BY DEF Uncovered
  <2> QED
    BY <2>1, <2>2 DEF MountsLast
<1>7. OwnLast(i)'
  BY <1>2, <1>3 DEF Protected, OwnLast
<1> QED
  BY <1>5, <1>6, <1>7 DEF Protected

\* The steps from the last mount to the first mask.
LEMMA DeviceStepProtects ==
  ASSUME RootfsInv, RootfsInv', NEW i \in Inits, OwnPaths(i, specs[i]), Protected(i),
         \/ MountsDone(i) \/ MknodDevice(i) \/ BindDevice(i) \/ CreateDevSymlinks(i)
         \/ ApplySysctls(i)
  PROVE  Protected(i)'
<1>1. /\ RootfsTyped /\ RootfsTyped' /\ Sealed /\ next[i] \in Nat
      /\ "devices" \in Locations /\ "links" \in Locations /\ "sysctl" \in Locations /\ "masks" \in Locations
  BY DEF RootfsInv, RootfsTyped, Locations, Preparing
<1>2. UNCHANGED specs
  BY DEF MountsDone, MknodDevice, BindDevice, CreateDevSymlinks, ApplySysctls, Fixed
<1>3. CASE MountsDone(i)
  <2>1. next[i] > Len(specs[i].mounts) /\ StepTo(i, "mounts", TRUE, "devices") /\ UNCHANGED mounts
    BY <1>3 DEF MountsDone, AtEnd
  <2>2. step[i] = "mounts" /\ step'[i] = "devices" /\ next'[i] = 1
    BY <1>1, <2>1, StepIs
  <2>3. \A k \in DOMAIN specs[i].mounts : Through(i, "mounts", AfterMounts, k)
    <3>1. ASSUME NEW k \in DOMAIN specs[i].mounts PROVE k < next[i]
      <4>1. k \in Nat /\ k <= Len(specs[i].mounts) /\ Len(specs[i].mounts) \in Nat
        BY <1>1, ListsAre
      <4> QED
        BY <1>1, <2>1, <4>1
    <3> QED
      BY <2>2, <3>1 DEF Through
  <2> QED
    BY <1>2, <2>1, <2>2, <2>3, DeviceProtects
<1>4. ASSUME NEW at \in {"devices", "links", "sysctl"}, NEW to \in {"links", "sysctl", "masks"}, NEW ok,
             StepTo(i, at, ok, to),
             \/ mounts'[i] = mounts[i]
             \/ /\ specs[i].rootless /\ Grounded(mounts[i])
                /\ mounts'[i] = Append(mounts[i], Mount(Node, "device", FALSE))
      PROVE  Protected(i)'
  <2>1. to \in Locations
    BY <1>1
  <2>2. step[i] = at /\ step'[i] \in {to, "failed"} /\ next'[i] = 1
    BY <1>1, <1>4, <2>1, StepIs
  <2>3. CASE step'[i] = "failed"
    BY <1>1, <2>3, IdleProtected DEF Idle
  <2>4. CASE step'[i] = to
    <3>1. \A k : Through(i, "mounts", AfterMounts, k)
      BY <2>2 DEF Through, AfterMounts
    <3>2. step'[i] \in {"devices", "links", "sysctl", "masks"}
      BY <2>4
    <3> QED
      BY <1>2, <1>4, <2>2, <3>1, <3>2, DeviceProtects
  <2> QED
    BY <2>2, <2>3, <2>4
<1>5. CASE MknodDevice(i)
  <2>1. PICK ok : StepTo(i, "devices", ok, "links") /\ UNCHANGED mounts
    BY <1>5 DEF MknodDevice
  <2> QED
    BY <1>4, <2>1
<1>6. CASE BindDevice(i)
  <2> DEFINE m == Mount(Node, "device", FALSE)
  <2>1. PICK ok : /\ StepTo(i, "devices", ok, "links") /\ specs[i].rootless
                  /\ UNCHANGED mounts \/ Attach(i, Append(mounts[i], m))
    BY <1>6 DEF BindDevice
  <2>2. step[i] = "devices"
    BY <2>1 DEF StepTo
  <2>3. Grounded(mounts[i]) /\ m \in MountType
    BY <2>2, GroundedIs DEF Mount, MountType, Filesystems, Places
  <2> HIDE DEF m
  <2>4. CASE UNCHANGED mounts
    BY <1>4, <2>1, <2>4
  <2>5. CASE Attach(i, Append(mounts[i], m))
    <3>1. Append(mounts[i], m) \in Seq(MountType)
      BY <2>3 DEF Grounded
    <3>2. mounts'[i] = Append(mounts[i], m)
      BY <1>1, <2>2, <2>5, <3>1, AttachIs
    <3> QED
      BY <1>4, <2>1, <2>3, <3>2 DEF m
  <2> QED
    BY <2>1, <2>4, <2>5
<1>7. CASE CreateDevSymlinks(i)
  <2>1. PICK ok : StepTo(i, "links", ok, "sysctl") /\ UNCHANGED mounts
    BY <1>7 DEF CreateDevSymlinks
  <2> QED
    BY <1>4, <2>1
<1>8. CASE ApplySysctls(i)
  <2>1. PICK ok : StepTo(i, "sysctl", ok, "masks") /\ UNCHANGED mounts
    BY <1>8 DEF ApplySysctls
  <2> QED
    BY <1>4, <2>1
<1> QED
  BY <1>3, <1>5, <1>6, <1>7, <1>8

\* The steps before the mounts, and the end of an init.
LEMMA IdleStep ==
  ASSUME RootfsInv, NEW i \in Inits,
         MakeMountsPrivate(i) \/ BindRootfs(i) \/ SetPropagation(i) \/ Killed(i)
  PROVE  step'[i] \in Idle \/ (step'[i] = "mounts" /\ next'[i] = 1)
<1>1. /\ RootfsTyped /\ "bind" \in Locations /\ "propagation" \in Locations
      /\ "mounts" \in Locations /\ "killed" \in Locations
  BY DEF RootfsInv, Locations, Preparing
<1>2. CASE MakeMountsPrivate(i)
  <2>1. StepTo(i, "private", TRUE, "bind")
    BY <1>2 DEF MakeMountsPrivate
  <2> QED
    BY <1>1, <2>1, StepIs DEF Idle
<1>3. CASE BindRootfs(i)
  <2>1. StepTo(i, "bind", TRUE, "propagation")
    BY <1>3 DEF BindRootfs
  <2> QED
    BY <1>1, <2>1, StepIs DEF Idle
<1>4. CASE SetPropagation(i)
  <2>1. PICK ok : StepTo(i, "propagation", ok, "mounts")
    BY <1>4 DEF SetPropagation
  <2> QED
    BY <1>1, <2>1, StepIs DEF Idle
<1>5. CASE Killed(i)
  <2>1. Goto(i, "killed")
    BY <1>5 DEF Killed
  <2> QED
    BY <1>1, <2>1, GotoIs DEF Idle
<1> QED
  BY <1>2, <1>3, <1>4, <1>5

\* So nothing is asked of it yet, or any more.
LEMMA FirstProtects ==
  ASSUME RootfsInv, RootfsInv', NEW i \in Inits,
         MakeMountsPrivate(i) \/ BindRootfs(i) \/ SetPropagation(i) \/ Killed(i)
  PROVE  Protected(i)'
<1>1. RootfsTyped'
  BY DEF RootfsInv
<1>2. step'[i] \in Idle \/ (step'[i] = "mounts" /\ next'[i] = 1)
  BY IdleStep
<1> QED
  BY <1>1, <1>2, IdleProtected

\* An init's own steps keep what it has protected.
LEMMA MoverProtects ==
  ASSUME RootfsInv, RootfsInv', NEW i \in Inits, OwnPaths(i, specs[i]), Protected(i),
         PrepareRootfs(i) \/ FinalizeRootfs(i) \/ Killed(i)
  PROVE  Protected(i)'
<1>1. CASE MakeMountsPrivate(i) \/ BindRootfs(i) \/ SetPropagation(i) \/ Killed(i)
  BY <1>1, FirstProtects
<1>2. CASE MountOne(i)
  BY <1>2, MountProtects
<1>3. CASE \/ MountsDone(i) \/ MknodDevice(i) \/ BindDevice(i) \/ CreateDevSymlinks(i)
           \/ ApplySysctls(i)
  BY <1>3, DeviceStepProtects
<1>4. CASE MaskPath(i)
  BY <1>4, MaskProtects
<1>5. CASE ReadonlyPath(i)
  BY <1>5, BindProtects
<1>6. CASE MasksDone(i) \/ Prepared(i) \/ Chdir(i)
  BY <1>6, EndProtects
<1>7. CASE MakeOldroot(i) \/ PivotRoot(i)
  BY <1>7, OldrootProtects
<1>8. CASE DetachOldroot(i) \/ RemoveOldroot(i)
  BY <1>8, DetachProtects
<1>9. CASE RemountRoot(i)
  BY <1>9, RemountProtects
<1> QED
  BY <1>1, <1>2, <1>3, <1>4, <1>5, <1>6, <1>7, <1>8, <1>9 DEF PrepareRootfs, FinalizeRootfs

----------------------------------------------------------------------------
(* The others, the host, and the invariant *)

\* A step that an init has no part in, unless a .oldroot goes.
LEMMA Apart ==
  ASSUME RootfsTyped, NEW i \in Inits, PrepareRootfs(i) \/ FinalizeRootfs(i) \/ Killed(i),
         NEW j \in Inits \ {i}
  PROVE  /\ UNCHANGED specs /\ step'[j] = step[j] /\ next'[j] = next[j] /\ tmp'[j] = tmp[j]
         /\ mounts'[j] \in {mounts[j], Without(mounts[j], OldRoot)}
<1>1. /\ step = [k \in Inits |-> step[k]] /\ next = [k \in Inits |-> next[k]]
      /\ mounts = [k \in Inits |-> mounts[k]] /\ tmp = [k \in Inits |-> tmp[k]]
  BY DEF RootfsTyped, FilesTyped
<1>2. \A l : Goto(i, l) => step'[j] = step[j] /\ next'[j] = next[j]
  BY <1>1 DEF Goto
<1>3. /\ \A at, ok, then : StepTo(i, at, ok, then) => step'[j] = step[j] /\ next'[j] = next[j]
      /\ \A at, ok : Again(i, at, ok) => step'[j] = step[j] /\ next'[j] = next[j]
  BY <1>1, <1>2 DEF StepTo, Again
<1>4. /\ \A at, list, then : AtEnd(i, at, list, then) =>
            step'[j] = step[j] /\ next'[j] = next[j] /\ UNCHANGED <<mounts, tmp>>
      /\ \A ms : Attach(i, ms) => mounts'[j] = mounts[j]
      /\ \A p, files : Put(i, p, files) => tmp'[j] = tmp[j]
  BY <1>1, <1>3 DEF AtEnd, Attach, Put
<1>5. CASE MakeMountsPrivate(i) \/ BindRootfs(i) \/ SetPropagation(i) \/ Killed(i)
  BY <1>2, <1>3, <1>4, <1>5 DEF MakeMountsPrivate, BindRootfs, SetPropagation, Killed, Fixed
<1>6. CASE MountOne(i)
  <2>1. \/ UNCHANGED tmp
        \/ \E f : tmp' = [tmp EXCEPT ![i] = f]
    BY <1>6 DEF MountOne
  <2>2. tmp'[j] = tmp[j]
    BY <1>1, <2>1
  <2>3. UNCHANGED specs /\ (UNCHANGED mounts \/ \E ms : Attach(i, ms)) /\ \E ok : Again(i, "mounts", ok)
    BY <1>6 DEF MountOne, Fixed
  <2> QED
    BY <1>3, <1>4, <2>2, <2>3
<1>7. CASE MountsDone(i) \/ MasksDone(i) \/ Prepared(i)
  BY <1>4, <1>7 DEF MountsDone, MasksDone, Prepared, Fixed
<1>8. CASE MknodDevice(i)
  BY <1>3, <1>4, <1>8 DEF MknodDevice, Fixed
<1>9. CASE BindDevice(i)
  BY <1>3, <1>4, <1>9 DEF BindDevice, Fixed
<1>10. CASE CreateDevSymlinks(i) \/ ApplySysctls(i)
  BY <1>3, <1>4, <1>10 DEF CreateDevSymlinks, ApplySysctls, Fixed
<1>11. CASE MaskPath(i)
  BY <1>3, <1>4, <1>11 DEF MaskPath, Fixed
<1>12. CASE ReadonlyPath(i)
  BY <1>3, <1>4, <1>12 DEF ReadonlyPath, Fixed
<1>13. CASE MakeOldroot(i) \/ PivotRoot(i) \/ Chdir(i)
  BY <1>3, <1>4, <1>13 DEF MakeOldroot, PivotRoot, Chdir, Fixed
<1>14. CASE DetachOldroot(i)
  BY <1>1, <1>3, <1>14 DEF DetachOldroot, Fixed
<1>15. CASE RemoveOldroot(i)
  <2>1. \/ UNCHANGED tmp
        \/ \E f : tmp' = [tmp EXCEPT ![i] = f]
    BY <1>15 DEF RemoveOldroot
  <2>2. tmp'[j] = tmp[j]
    BY <1>1, <2>1
  <2>3. UNCHANGED specs /\ \E ok : StepTo(i, "rmOldroot", ok, "remount")
    BY <1>15 DEF RemoveOldroot, Fixed
  <2>4. mounts'[j] \in {mounts[j], Without(mounts[j], OldRoot)}
    BY <1>15 DEF RemoveOldroot
  <2> QED
    BY <1>3, <2>2, <2>3, <2>4
<1>16. CASE RemountRoot(i)
  BY <1>1, <1>3, <1>16 DEF RemountRoot, Fixed
<1> QED
  BY <1>5, <1>6, <1>7, <1>8, <1>9, <1>10, <1>11, <1>12, <1>13, <1>14, <1>15, <1>16
  DEF PrepareRootfs, FinalizeRootfs

\* The spec is given.
LEMMA SpecsKept ==
  ASSUME [RootfsNext]_rootfsVars PROVE UNCHANGED specs
<1>1. CASE UNCHANGED rootfsVars
  BY <1>1 DEF rootfsVars
<1>2. CASE HostMounts
  BY <1>2 DEF HostMounts
<1>3. ASSUME NEW i \in Inits, PrepareRootfs(i) \/ FinalizeRootfs(i) \/ Killed(i) PROVE UNCHANGED specs
  <2>1. CASE PrepareRootfs(i)
    BY <2>1 DEF PrepareRootfs, MakeMountsPrivate, BindRootfs, SetPropagation, MountOne, MountsDone,
       MknodDevice, BindDevice, CreateDevSymlinks, ApplySysctls, MaskPath, MasksDone, ReadonlyPath,
       Prepared, Fixed
  <2>2. CASE FinalizeRootfs(i) \/ Killed(i)
    BY <2>2 DEF FinalizeRootfs, MakeOldroot, PivotRoot, DetachOldroot, RemoveOldroot, RemountRoot,
       Chdir, Killed, Fixed
  <2> QED
    BY <1>3, <2>1, <2>2
<1> QED
  BY <1>1, <1>2, <1>3 DEF RootfsNext

\* An init for which nothing changes.
LEMMA Untouched ==
  ASSUME NEW j \in Inits, Protected(j), UNCHANGED specs, step'[j] = step[j], next'[j] = next[j],
         mounts'[j] = mounts[j], tmp'[j] = tmp[j], UNCHANGED disk
  PROVE  Protected(j)'
<1>1. \A p : Covering(mounts'[j], p) = Covering(mounts[j], p)
  OBVIOUS
<1>2. \A fs : Content(j, fs)' = Content(j, fs)
  <2>1. ASSUME NEW fs PROVE Content(j, fs)' = Content(j, fs)
    BY ContentIs
  <2> QED
    BY <2>1
<1>3. \A p : Kind(j, p)' = Kind(j, p)
  BY <1>1, <1>2 DEF Kind
<1>4. \A p : /\ Masked(j, p)' <=> Masked(j, p)
             /\ Hidden(j, p)' <=> Hidden(j, p)
             /\ Guarded(j, p)' <=> Guarded(j, p)
  BY <1>1, <1>3 DEF Masked, Hidden, Guarded
<1>5. /\ \A loop, after, n : Through(j, loop, after, n)' <=> Through(j, loop, after, n)
      /\ \A k : Uncovered(j, k)' <=> Uncovered(j, k)
  BY DEF Through, Uncovered
<1>6. MasksLast(j)' /\ MountsLast(j)' /\ OwnLast(j)' /\ RootLast(j)'
  BY <1>1, <1>4, <1>5 DEF Protected, MasksLast, MountsLast, OwnLast, RootLast
<1>7. ReadonlyLast(j)'
  BY <1>3, <1>4, <1>5 DEF Protected, ReadonlyLast
<1> QED
  BY <1>6, <1>7 DEF Protected

\* The protection holds in the initial states, where nothing is asked yet.
LEMMA ProtectionBegins == ASSUME RootfsInit PROVE ProtectionInv
<1>1. RootfsInv /\ \A i \in Inits : step[i] = "private"
  BY RootfsBegins DEF RootfsInit
<1>2. ASSUME NEW i \in Inits PROVE Protected(i)
  <2>1. step[i] \notin AfterMounts /\ step[i] \notin AfterMasks /\ step[i] \notin AfterReadonly
        /\ step[i] \notin {"mounts", "masks", "readonly", "cwd", "done"}
    BY <1>1 DEF AfterMounts, AfterMasks, AfterReadonly, Finalizing
  <2> QED
    BY <2>1 DEF Protected, MasksLast, ReadonlyLast, MountsLast, OwnLast, RootLast, Through
<1> QED
  BY <1>1, <1>2 DEF ProtectionInv

\* Every step keeps it.
LEMMA ProtectionGoesOn == ASSUME ProtectionInv, [RootfsNext]_rootfsVars PROVE ProtectionInv'
<1>1. RootfsInv /\ RootfsInv' /\ RootfsTyped /\ RootfsTyped' /\ UNCHANGED specs
  <2>1. RootfsInv
    BY DEF ProtectionInv
  <2> QED
    BY <2>1, RootfsGoesOn, SpecsKept DEF RootfsInv
<1>2. ASSUME NEW j \in Inits, OwnPaths(j, specs[j]) PROVE Protected(j)'
  <2>0. Protected(j)
    BY <1>2 DEF ProtectionInv
  <2>1. CASE UNCHANGED rootfsVars
    <3>1. UNCHANGED <<specs, step, next, mounts, tmp, disk>>
      BY <2>1 DEF rootfsVars
    <3> QED
      BY <2>0, <3>1, Untouched
  <2>2. CASE HostMounts
    <3>1. /\ UNCHANGED <<specs, step, next, tmp, disk>>
          /\ mounts'[j] = IF mounts[j] # <<>> /\ peer[j] # "private"
                          THEN Append(mounts[j], Mount(Data, "hostDir", FALSE)) ELSE mounts[j]
      BY <2>2 DEF HostMounts
    <3>2. CASE step[j] \in {"private", "failed", "killed"}
      BY <1>1, <3>1, <3>2, IdleProtected DEF Idle
    <3>3. CASE step[j] \notin {"private", "failed", "killed"}
      <4>1. mounts'[j] = mounts[j]
        BY <1>1, <3>1, <3>3 DEF RootfsInv, Sealed
      <4> QED
        BY <2>0, <3>1, <4>1, Untouched
    <3> QED
      BY <3>2, <3>3
  <2>3. ASSUME NEW i \in Inits, PrepareRootfs(i) \/ FinalizeRootfs(i) \/ Killed(i) PROVE Protected(j)'
    <3>1. CASE i = j
      BY <1>1, <1>2, <2>0, <2>3, <3>1, MoverProtects
    <3>2. CASE i # j
      <4>1. j \in Inits \ {i} /\ Inits # {j}
        BY <3>2
      <4>2. /\ step'[j] = step[j] /\ next'[j] = next[j] /\ tmp'[j] = tmp[j]
            /\ mounts'[j] \in {mounts[j], Without(mounts[j], OldRoot)}
        BY <1>1, <2>3, <4>1, Apart
      <4> QED
        BY <1>1, <1>2, <2>0, <4>1, <4>2, OthersProtected
    <3> QED
      BY <3>1, <3>2
  <2> QED
    BY <2>1, <2>2, <2>3 DEF RootfsNext
<1>3. \A j \in Inits : OwnPaths(j, specs[j])' <=> OwnPaths(j, specs[j])
  BY <1>1
<1> QED
  BY <1>1, <1>2, <1>3 DEF ProtectionInv

\* What init has protected by a step stays protected, for every spec that names paths
\* of its own, whatever the other inits of the directory and the host do.
THEOREM ProtectionInvariance == RootfsSpec => []ProtectionInv
<1>1. RootfsInit => ProtectionInv
  BY ProtectionBegins
<1>2. ProtectionInv /\ [RootfsNext]_rootfsVars => ProtectionInv'
  BY ProtectionGoesOn
<1> QED
  BY <1>1, <1>2, PTL DEF RootfsSpec

\* The specs leave .oldroot to the runtime, and beside others they protect paths below
\* their own mounts.
ProtectsItsOwn == \A s \in RootfsSpecs : \A i \in Inits : OwnPaths(i, s[i])

\* In the end the invariant is the protection asked for.
LEMMA ProtectionSuffices ==
  ASSUME ProtectsItsOwn, ProtectionInv, specs \in RootfsSpecs PROVE ProtectionHolds
<1>1. RootfsTyped /\ \A i \in Inits : Protected(i)
  BY DEF ProtectsItsOwn, ProtectionInv, RootfsInv
<1>2. ASSUME NEW i \in Inits, Done(i)
      PROVE  /\ \A n \in DOMAIN specs[i].masked : Hidden(i, specs[i].masked[n])
             /\ \A n \in DOMAIN specs[i].readonly :
                   Kind(i, specs[i].readonly[n]) = "none" \/ Guarded(i, specs[i].readonly[n])
             /\ \A k \in DOMAIN specs[i].mounts :
                   specs[i].mounts[k].ro /\ Uncovered(i, k) => Guarded(i, specs[i].mounts[k].at)
             /\ specs[i].readonlyRoot => Covering(mounts[i], Top).ro
  <2>1. step[i] = "done" /\ \A n : /\ Through(i, "masks", AfterMasks, n)
                                   /\ Through(i, "readonly", AfterReadonly, n)
                                   /\ Through(i, "mounts", AfterMounts, n)
    BY <1>2 DEF Done, Through, AfterMounts, AfterMasks, AfterReadonly
  <2> QED
    BY <1>1, <2>1 DEF Protected, MasksLast, ReadonlyLast, MountsLast, RootLast
<1>3. MasksHold
  <2>1. ASSUME NEW i \in Inits, Done(i), NEW p \in ToSet(specs[i].masked)
        PROVE  Kind(i, p) = "none" \/ Masked(i, p)
    <3>1. PICK n \in DOMAIN specs[i].masked : p = specs[i].masked[n]
      BY DEF ToSet
    <3> QED
      BY <1>2, <2>1, <3>1 DEF Hidden
  <2> QED
    BY <2>1 DEF MasksHold
<1>4. ReadonlyHolds
  <2>1. ASSUME NEW i \in Inits, Done(i), NEW p \in ToSet(specs[i].readonly)
        PROVE  Kind(i, p) = "none" \/ Masked(i, p) \/ Covering(mounts[i], p).ro
    <3>1. PICK n \in DOMAIN specs[i].readonly : p = specs[i].readonly[n]
      BY DEF ToSet
    <3> QED
      BY <1>2, <2>1, <3>1 DEF Guarded
  <2>2. ASSUME NEW i \in Inits, Done(i), NEW k \in DOMAIN specs[i].mounts,
               specs[i].mounts[k].ro, Uncovered(i, k)
        PROVE  Masked(i, specs[i].mounts[k].at) \/ Covering(mounts[i], specs[i].mounts[k].at).ro
    BY <1>2, <2>2 DEF Guarded
  <2> QED
    BY <1>2, <2>1, <2>2 DEF ReadonlyHolds
<1> QED
  BY <1>3, <1>4 DEF ProtectionHolds

\* A container that is set up sees no masked path, and can write to no path, mount or
\* root that is to be read-only: whatever is mounted, masked and bound in which order,
\* and however many containers are set up from the directory at a time.
THEOREM ProtectionIsKept == ProtectsItsOwn => (RootfsSpec => []ProtectionHolds)
<1> SUFFICES ASSUME ProtectsItsOwn PROVE RootfsSpec => []ProtectionHolds
  OBVIOUS
<1> DEFINE Given == specs \in RootfsSpecs
<1>1. RootfsInit => Given
  BY DEF RootfsInit
<1>2. Given /\ [RootfsNext]_rootfsVars => Given'
  <2>1. [RootfsNext]_rootfsVars => UNCHANGED specs
    BY SpecsKept
  <2> QED
    BY <2>1
<1>3. ProtectionInv /\ Given => ProtectionHolds
  BY ProtectionSuffices
<1> HIDE DEF Given
<1> QED
  BY <1>1, <1>2, <1>3, ProtectionInvariance, PTL DEF RootfsSpec

(***************************************************************************)
(* The devices of a container whose /dev is a tmpfs of its own.            *)
(***************************************************************************)

\* The n-th mount of a spec is a tmpfs at /dev that no later one covers.
LastDev(s, n) ==
    /\ s.mounts[n].at = Dev /\ s.mounts[n].fs = "tmpfs"
    /\ \A l \in DOMAIN s.mounts : l > n => ~IsPrefix(s.mounts[l].at, Node)

\* A spec that has such a mount, and masks neither it nor the devices.
OwnDevices(s) ==
    /\ \E n \in DOMAIN s.mounts : LastDev(s, n)
    /\ \A p \in ToSet(s.masked) : ~IsPrefix(p, Node)

\* The steps after the devices have been made.
WithDevices == {"links", "sysctl", "masks", "readonly", "done"} \cup Finalizing

\* Before, the path of a device leads to the tmpfs, where no file is; after, to a device.
BareDev(i) ==
    /\ Covering(mounts[i], Node).fs = "tmpfs" /\ Covering(mounts[i], Node).at = Dev
    /\ Node \notin DOMAIN tmp[i]
HasNode(i) ==
    \/ /\ Covering(mounts[i], Node).fs = "tmpfs"
       /\ Node \in DOMAIN tmp[i] /\ tmp[i][Node] = "device"
    \/ Covering(mounts[i], Node).fs = "device" /\ Covering(mounts[i], Node).at = Node

Equipped(i) ==
    /\ \A n \in DOMAIN specs[i].mounts :
          LastDev(specs[i], n) /\ (step[i] = "devices" \/ (step[i] = "mounts" /\ n < next[i])) => BareDev(i)
    /\ step[i] \in WithDevices /\ ~(specs[i].rootless /\ machine.lacksNode) => HasNode(i)

DevicesInv == RootfsInv /\ \A i \in Inits : OwnDevices(specs[i]) => Equipped(i)

----------------------------------------------------------------------------
(* How it is kept *)

\* Where the paths of the devices are.
LEMMA NodeIs ==
  /\ Node \in Places /\ Node \in Nameable /\ Dev \in Places /\ Dev # Node
  /\ IsPrefix(Dev, Node) /\ IsStrictPrefix(Dev, Node) /\ ~IsPrefix(OldRoot, Node)
  /\ \A p \in Places : p # Node => ~IsPrefix(Node, p)
  /\ \A p \in Places : ~IsPrefix(Node, Front(p))
<1>1. /\ Node \in Places /\ Node \in Nameable /\ Dev \in Places /\ Dev # Node /\ Link # Node
      /\ Dev \in Seq(Names) /\ Node \in Seq(Names) /\ Len(Dev) = 1 /\ Len(Node) = 2
      /\ Dev[1] = "dev" /\ Node[1] = "dev" /\ Node[2] = "node"
  BY PlacesAre DEF Node, Nameable, Places, Dev, Link, OldRoot, Names
<1>2. IsPrefix(Dev, Node) /\ IsStrictPrefix(Dev, Node)
  BY <1>1, PrefixIs DEF IsStrictPrefix
<1>3. \A p \in Places : p # Node => ~IsPrefix(Node, p)
  BY BelowNode
<1>4. ASSUME NEW p \in Places, IsPrefix(Node, Front(p)) PROVE FALSE
  <2>1. p \in Seq(Names) /\ Len(p) \in Nat
    BY PlacesAre
  <2>2. Len(p) \in {0, 1, 2} \/ p[2] \in {"kcore", "sys"}
    BY DEF Places, Top, Proc, Kcore, Sys, Key, Dev, Node, Link, Data, OldRoot
  <2>3. PICK f : f = Front(p)
    OBVIOUS
  <2>4. /\ f \in Seq(Names)
        /\ Len(p) = 0 => f = <<>>
        /\ Len(p) # 0 => Len(f) = Len(p) - 1 /\ \A k \in 1..Len(p) - 1 : f[k] = p[k]
    <3>1. f = SubSeq(p, 1, Len(p) - 1)
      BY <2>3 DEF Front
    <3>2. CASE Len(p) = 0
      BY <2>1, <3>1, <3>2
    <3>3. CASE Len(p) # 0
      <4>1. 1 \in 1..Len(p) + 1 /\ Len(p) - 1 \in 0..Len(p)
        BY <2>1, <3>3
      <4>2. \A k \in 1..Len(p) - 1 : 1 + k - 1 = k
        BY <2>1
      <4>3. Len(p) - 1 - 1 + 1 = Len(p) - 1
        BY <2>1
      <4> QED
        BY <2>1, <3>1, <3>3, <4>1, <4>2, <4>3, SubSeqProperties
    <3> QED
      BY <3>2, <3>3
  <2>5. Len(Node) <= Len(f) /\ \A k \in 1..Len(Node) : Node[k] = f[k]
    BY <1>1, <1>4, <2>3, <2>4, PrefixIs
  <2>6. 2 <= Len(f) /\ f[2] = "node"
    BY <1>1, <2>5
  <2>7. Len(p) # 0 /\ Len(f) = Len(p) - 1
    BY <2>1, <2>4, <2>6
  <2>8. p[2] = "node" /\ Len(p) >= 3
    BY <2>1, <2>4, <2>6, <2>7
  <2> QED
    <3>1. Len(p) # 0 /\ Len(p) # 1 /\ Len(p) # 2
      <4>1. \A n \in Nat : n >= 3 => n # 0 /\ n # 1 /\ n # 2
        OBVIOUS
      <4> QED
        BY <2>1, <2>8, <4>1
    <3>2. p[2] # "kcore" /\ p[2] # "sys"
      BY <2>8
    <3> QED
      BY <2>2, <3>1, <3>2
<1> QED
  BY <1>1, <1>2, <1>3, <1>4, NotBelow

\* The host and its machine do not change.
LEMMA MachineKept ==
  ASSUME [RootfsNext]_rootfsVars PROVE UNCHANGED machine
<1>1. CASE UNCHANGED rootfsVars
  BY <1>1 DEF rootfsVars
<1>2. CASE HostMounts
  BY <1>2 DEF HostMounts
<1>3. ASSUME NEW i \in Inits, PrepareRootfs(i) \/ FinalizeRootfs(i) \/ Killed(i) PROVE UNCHANGED machine
  <2>1. CASE PrepareRootfs(i)
    BY <2>1 DEF PrepareRootfs, MakeMountsPrivate, BindRootfs, SetPropagation, MountOne, MountsDone,
       MknodDevice, BindDevice, CreateDevSymlinks, ApplySysctls, MaskPath, MasksDone, ReadonlyPath,
       Prepared, Fixed
  <2>2. CASE FinalizeRootfs(i) \/ Killed(i)
    BY <2>2 DEF FinalizeRootfs, MakeOldroot, PivotRoot, DetachOldroot, RemoveOldroot, RemountRoot,
       Chdir, Killed, Fixed
  <2> QED
    BY <1>3, <2>1, <2>2
<1> QED
  BY <1>1, <1>2, <1>3 DEF RootfsNext

\* Nothing is asked of an init that makes no mount yet, or that is gone.
LEMMA IdleEquipped ==
  ASSUME RootfsTyped', NEW i \in Inits,
         step'[i] \in Idle \/ (step'[i] = "mounts" /\ next'[i] = 1)
  PROVE  Equipped(i)'
<1>1. /\ specs'[i].mounts \in Seq([at : Places, fs : Sources, ro : BOOLEAN])
  BY DEF RootfsTyped, RootfsSpecType
<1>2. \A k \in DOMAIN specs'[i].mounts : k \in Nat /\ ~(k < 1)
  BY <1>1
<1>3. step'[i] \notin WithDevices /\ step'[i] # "devices" /\ (step'[i] = "mounts" => next'[i] = 1)
  BY DEF Idle, WithDevices, Finalizing
<1> QED
  BY <1>2, <1>3 DEF Equipped

\* Once the devices have been made a step need only leave them.
LEMMA LaterEquipped ==
  ASSUME NEW i \in Inits, Equipped(i), UNCHANGED <<specs, machine>>, step[i] \in WithDevices,
         step'[i] \in WithDevices \cup {"failed", "killed"},
         step'[i] # "failed" /\ HasNode(i) => HasNode(i)'
  PROVE  Equipped(i)'
<1>1. step'[i] # "devices" /\ step'[i] # "mounts" /\ "failed" \notin WithDevices
  BY DEF WithDevices, Finalizing
<1> QED
  BY <1>1 DEF Equipped

\* It does if the path of a device leads to the same file system, and the tmpfs keeps it.
LEMMA NodeKept ==
  ASSUME NEW i \in Inits, Covering(mounts'[i], Node).fs = Covering(mounts[i], Node).fs,
         Covering(mounts[i], Node).at = Node => Covering(mounts'[i], Node).at = Node,
         Node \in DOMAIN tmp[i] => Node \in DOMAIN tmp'[i] /\ tmp'[i][Node] = tmp[i][Node]
  PROVE  HasNode(i) => HasNode(i)'
  BY DEF HasNode

\* New files keep those that are not among them.
LEMMA PutNode ==
  ASSUME FilesTyped, NEW i \in Inits, NEW p, NEW files, Node \notin DOMAIN files,
         Put(i, p, files) \/ UNCHANGED <<disk, tmp>>
  PROVE  Node \in DOMAIN tmp[i] => Node \in DOMAIN tmp'[i] /\ tmp'[i][Node] = tmp[i][Node]
<1>1. CASE tmp' = [tmp EXCEPT ![i] = Onto(files, @)]
  <2>1. tmp'[i] = Onto(files, tmp[i])
    BY <1>1 DEF FilesTyped
  <2> QED
    BY <2>1 DEF Onto
<1>2. CASE UNCHANGED tmp
  BY <1>2
<1> QED
  BY <1>1, <1>2 DEF Put

\* Another init's step, or one that init has no part in, does not touch its devices.
LEMMA OthersEquipped ==
  ASSUME RootfsInv, RootfsInv', NEW j \in Inits, Equipped(j),
         UNCHANGED <<specs, machine>>, step'[j] = step[j], next'[j] = next[j], tmp'[j] = tmp[j],
         mounts'[j] \in {mounts[j], Without(mounts[j], OldRoot)}
  PROVE  Equipped(j)'
<1>1. RootfsTyped /\ RootfsTyped'
  BY DEF RootfsInv
<1>2. CASE step[j] \in Idle
  BY <1>1, <1>2, IdleEquipped
<1>3. CASE step[j] \notin Idle
  <2>1. Grounded(mounts[j])
    BY <1>3, GroundedIs DEF Idle
  <2>2. Covering(mounts'[j], Node) = Covering(mounts[j], Node)
    <3>1. CASE mounts'[j] = mounts[j]
      BY <3>1
    <3>2. CASE mounts'[j] = Without(mounts[j], OldRoot)
      <4> DEFINE new == Without(mounts[j], OldRoot)
      <4>1. /\ new \in Seq(MountType) /\ Len(new) = Len(mounts[j])
            /\ \A k \in 1..Len(mounts[j]) : new[k] = IF mounts[j][k].at = OldRoot THEN Detached ELSE mounts[j][k]
        BY <2>1, WithoutIs DEF Grounded
      <4> HIDE DEF new
      <4>2. Covering(new, Node) = Covering(mounts[j], Node)
        BY <2>1, <4>1, DetachCovers, NodeIs
      <4> QED
        BY <3>2, <4>2 DEF new
    <3> QED
      BY <3>1, <3>2
  <2>3. BareDev(j)' <=> BareDev(j)
    BY <2>2 DEF BareDev
  <2>4. HasNode(j)' <=> HasNode(j)
    BY <2>2 DEF HasNode
  <2> QED
    BY <2>3, <2>4 DEF Equipped
<1> QED
  BY <1>2, <1>3

\* The tmpfs at /dev is empty, and stays so while the other mounts are made.
LEMMA MountEquips ==
  ASSUME RootfsInv, RootfsInv', NEW i \in Inits, Equipped(i), MountOne(i)
  PROVE  Equipped(i)'
<1>1. RootfsTyped /\ RootfsTyped' /\ Sealed /\ FilesTyped
  BY DEF RootfsInv, RootfsTyped
<1>2. PICK n : n = next[i]
  OBVIOUS
<1>3. PICK m : m = specs[i].mounts[n]
  OBVIOUS
<1>4. n <= Len(specs[i].mounts) /\ UNCHANGED <<specs, machine>>
  BY <1>2 DEF MountOne, Fixed
<1> DEFINE dir == IF m.fs = "hostFile" THEN Front(m.at) ELSE m.at
           made == /\ specs[i].wrong # "source" \/ m.fs \notin FromHost
                   /\ MayMkdir(i, dir)
                   /\ m.fs = "hostFile" => Kind(i, m.at) # "dir" /\ MayMake(i, m.at)
           ok == made /\ (m.ro /\ m.fs \in FromHost => MayRemount(i, m.fs))
           files == Onto(MkdirFiles(i, dir),
                         Fresh({p \in Absent(i, m.at) : m.fs = "hostFile"}, "file"))
           inTmp == IF Covering(mounts[i], m.at).fs \in Private THEN Onto(files, tmp[i]) ELSE tmp[i]
           emptied == IF m.fs \in Private THEN {p \in Places : IsStrictPrefix(m.at, p)} ELSE {}
<1>5. /\ Again(i, "mounts", ok) /\ (ok => made)
      /\ made => Attach(i, Append(mounts[i], Mount(m.at, m.fs, m.ro)))
      /\ made => tmp' = [tmp EXCEPT ![i] = Restrict(inTmp, (DOMAIN inTmp) \ emptied)]
  <2>1. Again(i, "mounts", ok)
    BY <1>2, <1>3 DEF MountOne
  <2>2. made => Attach(i, Append(mounts[i], Mount(m.at, m.fs, m.ro)))
    BY <1>2, <1>3 DEF MountOne, ReadonlyMount
  <2>3. made => tmp' = [tmp EXCEPT ![i] = Restrict(inTmp, (DOMAIN inTmp) \ emptied)]
    <3>1. m = specs[i].mounts[next[i]]
      BY <1>2, <1>3
    <3> QED
      BY <3>1, ZenonT(60) DEF MountOne
  <2> QED
    BY <2>1, <2>2, <2>3
<1>9. DOMAIN files \subseteq Missing(i, dir) \cup {m.at} /\ dir \in {m.at, Front(m.at)}
  BY DEF Onto, MkdirFiles, Fresh, Absent
<1>10. /\ DOMAIN inTmp \subseteq DOMAIN tmp[i] \cup DOMAIN files
       /\ m.fs \in Private /\ IsStrictPrefix(m.at, Node) => Node \in emptied
  BY NodeIs DEF Onto
<1> HIDE DEF dir, made, ok, files, inTmp, emptied
<1>6. /\ step[i] = "mounts"
      /\ \/ ok /\ step'[i] = "mounts" /\ next'[i] = n + 1
         \/ step'[i] = "failed"
  BY <1>1, <1>2, <1>5, AgainIs
<1>7. CASE step'[i] = "failed"
  BY <1>1, <1>7, IdleEquipped DEF Idle
<1>8. CASE step'[i] # "failed"
  <2>1. step[i] = "mounts" /\ step'[i] = "mounts" /\ next'[i] = n + 1 /\ made
    BY <1>5, <1>6, <1>8
  <2>2. n \in Nat /\ n # 0
    BY <1>1, <1>2 DEF RootfsTyped
  <2>3. n \in DOMAIN specs[i].mounts /\ \A k \in DOMAIN specs[i].mounts : k \in Nat
    BY <1>1, <1>4, <2>2, ListsAre
  <2>4. m.at \in Places /\ m.fs \in Sources /\ m.ro \in BOOLEAN
    <3>1. specs[i].mounts \in Seq([at : Places, fs : Sources, ro : BOOLEAN])
      BY <1>1 DEF RootfsTyped, RootfsSpecType
    <3>2. \A S, l, k : l \in Seq(S) /\ k \in DOMAIN l => l[k] \in S
      OBVIOUS
    <3>3. m \in [at : Places, fs : Sources, ro : BOOLEAN]
      BY <1>3, <2>3, <3>1, <3>2
    <3> QED
      BY <3>3
  <2>5. PICK new \in MountType : /\ new = Mount(m.at, m.fs, m.ro)
                                 /\ new.at = m.at /\ new.fs = m.fs
    <3> DEFINE top == Mount(m.at, m.fs, m.ro)
    <3>1. Sources \subseteq Filesystems
      BY DEF Filesystems
    <3>2. top \in MountType /\ top.at = m.at /\ top.fs = m.fs
      BY <2>4, <3>1 DEF Mount, MountType
    <3> HIDE DEF top
    <3>3. top = Mount(m.at, m.fs, m.ro)
      BY DEF top
    <3> QED
      BY <3>2, <3>3
  <2>6. Grounded(mounts[i])
    BY <2>1, GroundedIs
  <2>7. mounts'[i] = Append(mounts[i], new)
    <3>1. Append(mounts[i], new) \in Seq(MountType)
      BY <2>6 DEF Grounded
    <3> QED
      BY <1>1, <1>5, <2>1, <2>5, <3>1, AttachIs
  <2>8. Covering(mounts'[i], Node) = IF IsPrefix(m.at, Node) THEN new ELSE Covering(mounts[i], Node)
    BY <2>5, <2>6, <2>7, AppendCovers, NodeIs
  <2>9. DOMAIN tmp'[i] = (DOMAIN inTmp) \ emptied
    BY <1>1, <1>5, <2>1 DEF FilesTyped, Restrict
  <2>10. ASSUME NEW k \in DOMAIN specs[i].mounts, LastDev(specs[i], k), k < n + 1 PROVE BareDev(i)'
    <3>1. k = n \/ k < n
      BY <2>2, <2>3, <2>10
    <3>2. CASE k = n
      <4>1. m.at = Dev /\ m.fs = "tmpfs"
        BY <1>3, <2>10, <3>2 DEF LastDev
      <4>2. Covering(mounts'[i], Node) = new
        BY <2>8, <4>1, NodeIs
      <4>3. Node \in emptied
        BY <1>10, <4>1, NodeIs DEF Private
      <4> QED
        BY <2>5, <2>9, <4>1, <4>2, <4>3 DEF BareDev
    <3>3. CASE k < n
      <4>1. BareDev(i)
        BY <1>2, <2>1, <2>10, <3>3 DEF Equipped
      <4>2. ~IsPrefix(m.at, Node)
        BY <1>3, <2>3, <2>10, <3>3 DEF LastDev
      <4>3. m.at # Node
        BY <4>2, NodeIs, PrefixOrder
      <4>4. ~IsPrefix(Node, dir)
        BY <1>9, <2>4, <4>3, NodeIs
      <4>5. Node \notin DOMAIN files
        BY <1>9, <4>3, <4>4 DEF Missing, Above
      <4> QED
        BY <1>10, <2>8, <2>9, <4>1, <4>2, <4>5 DEF BareDev
    <3> QED
      BY <3>1, <3>2, <3>3
  <2>11. "mounts" \notin WithDevices
    BY DEF WithDevices, Finalizing
  <2> QED
    BY <1>4, <2>1, <2>10, <2>11 DEF Equipped, LastDev
<1> QED
  BY <1>7, <1>8

\* The device is made in the empty tmpfs, or the host's is bound.
LEMMA NodeMade ==
  ASSUME RootfsInv, RootfsInv', NEW i \in Inits, OwnDevices(specs[i]), Equipped(i),
         MknodDevice(i) \/ BindDevice(i)
  PROVE  Equipped(i)'
<1>1. RootfsTyped /\ RootfsTyped' /\ Sealed /\ FilesTyped /\ "links" \in Locations
      /\ UNCHANGED <<specs, machine>>
  BY DEF RootfsInv, RootfsTyped, Locations, Preparing, MknodDevice, BindDevice, Fixed
<1>2. step[i] = "devices"
  BY DEF MknodDevice, BindDevice, StepTo
<1>3. BareDev(i) /\ Grounded(mounts[i])
  BY <1>2, GroundedIs DEF OwnDevices, Equipped
<1>4. Kind(i, Node) = "none"
  <2>1. PICK fs : fs = Covering(mounts[i], Node).fs
    OBVIOUS
  <2>2. fs \in Private
    BY <1>3, <2>1 DEF BareDev, Private
  <2>3. Content(i, fs) = tmp[i]
    BY <2>2, ContentIs
  <2> QED
    BY <1>1, <1>3, <2>1, <2>3, KindNone, NodeIs DEF BareDev
<1>5. ASSUME NEW ok, StepTo(i, "devices", ok, "links"),
             ok /\ ~(specs[i].rootless /\ machine.lacksNode) => HasNode(i)'
      PROVE  Equipped(i)'
  <2>1. step'[i] \in {"links", "failed"} /\ (~ok => step'[i] = "failed")
    BY <1>1, <1>5, StepIs
  <2>2. CASE step'[i] = "failed"
    BY <1>1, <2>2, IdleEquipped DEF Idle
  <2>3. CASE step'[i] = "links"
    <3>1. ok
      BY <2>1, <2>3
    <3> QED
      BY <1>1, <1>5, <2>3, <3>1 DEF Equipped
  <2> QED
    BY <2>1, <2>2, <2>3
<1>6. CASE MknodDevice(i)
  <2> DEFINE known == specs[i].wrong # "device"
             made == MayMkdir(i, Dev) /\ MayMake(i, Node)
             new == Fresh({p \in Absent(i, Node) : known}, "device")
             files == Onto(MkdirFiles(i, Dev), new)
             ok == made /\ known
  <2>1. /\ StepTo(i, "devices", ok, "links") /\ UNCHANGED mounts
        /\ ok => Put(i, Node, files)
    BY <1>6 DEF MknodDevice
  <2>2. ok => Node \in DOMAIN files /\ files[Node] = "device"
    <3>1. Node \notin DOMAIN MkdirFiles(i, Dev)
      BY NodeIs DEF MkdirFiles, Fresh, Missing, Above
    <3>2. known => Node \in DOMAIN new /\ new[Node] = "device"
      BY <1>4 DEF Fresh, Absent
    <3> HIDE DEF new, known
    <3> QED
      BY <3>1, <3>2 DEF Onto
  <2> HIDE DEF ok, files
  <2>3. ok => HasNode(i)'
    <3> SUFFICES ASSUME ok PROVE HasNode(i)'
      OBVIOUS
    <3>1. tmp' = [tmp EXCEPT ![i] = Onto(files, @)]
      BY <1>3, <2>1 DEF Put, BareDev, Private
    <3>2. tmp'[i] = Onto(files, tmp[i])
      BY <1>1, <3>1 DEF FilesTyped
    <3>3. Node \in DOMAIN tmp'[i] /\ tmp'[i][Node] = "device"
      BY <2>2, <3>2 DEF Onto
    <3> QED
      BY <1>3, <2>1, <3>3 DEF BareDev, HasNode
  <2> QED
    BY <1>5, <2>1, <2>3
<1>7. CASE BindDevice(i)
  <2> DEFINE m == Mount(Node, "device", FALSE)
  <2>1. PICK ok : /\ StepTo(i, "devices", ok, "links") /\ specs[i].rootless
                  /\ ok /\ ~machine.lacksNode => Attach(i, Append(mounts[i], m))
    BY <1>7 DEF BindDevice
  <2>2. m \in MountType /\ m.at = Node /\ m.fs = "device"
    BY DEF Mount, MountType, Filesystems, Places
  <2> HIDE DEF m
  <2>3. ok /\ ~machine.lacksNode => HasNode(i)'
    <3> SUFFICES ASSUME ok, ~machine.lacksNode PROVE HasNode(i)'
      OBVIOUS
    <3>1. Append(mounts[i], m) \in Seq(MountType)
      BY <1>3, <2>2 DEF Grounded
    <3>2. mounts'[i] = Append(mounts[i], m)
      BY <1>1, <1>2, <2>1, <3>1, AttachIs
    <3>3. IsPrefix(m.at, Node)
      BY <2>2, NodeIs, PrefixOrder
    <3>4. Covering(mounts'[i], Node) = m
      BY <1>3, <2>2, <3>2, <3>3, AppendCovers, NodeIs
    <3> QED
      BY <2>2, <3>4 DEF HasNode
  <2> QED
    BY <1>5, <2>1, <2>3
<1> QED
  BY <1>6, <1>7

\* The steps that mount nothing make no files that it would be.
LEMMA StillEquips ==
  ASSUME RootfsInv, RootfsInv', NEW i \in Inits, Equipped(i),
         \/ CreateDevSymlinks(i) \/ ApplySysctls(i) \/ MasksDone(i) \/ Prepared(i)
         \/ MakeOldroot(i) \/ Chdir(i)
  PROVE  Equipped(i)'
<1>1. /\ RootfsTyped /\ FilesTyped /\ UNCHANGED <<specs, machine, mounts>>
      /\ {"sysctl", "masks", "readonly", "mkOldroot", "pivot", "done"} \subseteq Locations
  BY DEF RootfsInv, RootfsTyped, Locations, Preparing, Finalizing, CreateDevSymlinks, ApplySysctls,
     MasksDone, Prepared, MakeOldroot, Chdir, AtEnd, Fixed
<1>2. step[i] \in WithDevices /\ step'[i] \in WithDevices \cup {"failed"}
  <2>1. \/ \E ok : StepTo(i, "links", ok, "sysctl")
        \/ \E ok : StepTo(i, "sysctl", ok, "masks")
        \/ StepTo(i, "masks", TRUE, "readonly")
        \/ StepTo(i, "readonly", TRUE, "mkOldroot")
        \/ \E ok : StepTo(i, "mkOldroot", ok, "pivot")
        \/ \E ok : StepTo(i, "cwd", ok, "done")
    BY DEF CreateDevSymlinks, ApplySysctls, MasksDone, Prepared, MakeOldroot, Chdir, AtEnd
  <2>2. PICK at, ok, then : /\ StepTo(i, at, ok, then) /\ {at, then} \subseteq WithDevices
                            /\ then \in Locations
    BY <1>1, <2>1 DEF WithDevices, Finalizing
  <2> QED
    BY <1>1, <2>2, StepIs
<1>3. Node \in DOMAIN tmp[i] => Node \in DOMAIN tmp'[i] /\ tmp'[i][Node] = tmp[i][Node]
  <2>1. CASE CreateDevSymlinks(i)
    <3> DEFINE files == Fresh(Absent(i, Link), "link")
    <3>1. Node \notin DOMAIN files
      <4>1. Node # Link
        BY DEF Node, Link
      <4> QED
        BY <4>1 DEF Fresh, Absent
    <3>2. Put(i, Link, files) \/ UNCHANGED <<disk, tmp>>
      BY <2>1 DEF CreateDevSymlinks
    <3> HIDE DEF files
    <3> QED
      BY <1>1, <3>1, <3>2, PutNode
  <2>2. CASE MakeOldroot(i)
    <3> DEFINE files == MkdirFiles(i, OldRoot)
    <3>1. Node \notin DOMAIN files
      <4>1. OldRoot \in Places /\ OldRoot # Node
        BY DEF Places, Node, OldRoot
      <4> QED
        BY <4>1, NodeIs DEF MkdirFiles, Fresh, Missing, Above
    <3>2. Put(i, OldRoot, files) \/ UNCHANGED <<disk, tmp>>
      BY <2>2 DEF MakeOldroot
    <3> HIDE DEF files
    <3> QED
      BY <1>1, <3>1, <3>2, PutNode
  <2>3. CASE ApplySysctls(i)
    <3> DEFINE files == Fresh(Absent(i, Key), "file")
    <3>1. Node \notin DOMAIN files
      <4>1. Node # Key
        BY DEF Node, Key
      <4> QED
        BY <4>1 DEF Fresh, Absent
    <3>2. Put(i, Key, files) \/ UNCHANGED <<disk, tmp>>
      BY <2>3 DEF ApplySysctls
    <3> HIDE DEF files
    <3> QED
      BY <1>1, <3>1, <3>2, PutNode
  <2>4. CASE MasksDone(i) \/ Prepared(i) \/ Chdir(i)
    BY <2>4 DEF MasksDone, Prepared, Chdir, AtEnd
  <2> QED
    BY <2>1, <2>2, <2>3, <2>4
<1>4. HasNode(i) => HasNode(i)'
  BY <1>1, <1>3, NodeKept
<1> QED
  BY <1>1, <1>2, <1>4, LaterEquipped

\* After the last mount the tmpfs is as it was after its own.
LEMMA MountedEquips ==
  ASSUME RootfsInv, NEW i \in Inits, Equipped(i), MountsDone(i)
  PROVE  Equipped(i)'
<1>1. RootfsTyped /\ "devices" \in Locations /\ UNCHANGED <<specs, machine, mounts, tmp>>
  BY DEF RootfsInv, Locations, Preparing, MountsDone, AtEnd, Fixed
<1>2. step[i] = "mounts" /\ step'[i] = "devices" /\ next[i] > Len(specs[i].mounts)
  BY <1>1, AtEndIs DEF MountsDone
<1>3. next[i] \in Nat /\ \A n \in DOMAIN specs[i].mounts : n < next[i]
  <2>1. next[i] \in Nat
    BY <1>1 DEF RootfsTyped
  <2> QED
    BY <1>1, <1>2, <2>1, ListsAre
<1>4. BareDev(i)' <=> BareDev(i)
  BY <1>1 DEF BareDev
<1>5. "devices" \notin WithDevices
  BY DEF WithDevices, Finalizing
<1> QED
  BY <1>1, <1>2, <1>3, <1>4, <1>5 DEF Equipped

\* No mask and no old root is mounted on the way to a device.
LEMMA CoverEquips ==
  ASSUME RootfsInv, RootfsInv', NEW i \in Inits, OwnDevices(specs[i]), Equipped(i),
         MaskPath(i) \/ PivotRoot(i)
  PROVE  Equipped(i)'
<1>1. RootfsTyped /\ Sealed /\ "detach" \in Locations /\ UNCHANGED <<specs, machine, tmp>>
  BY DEF RootfsInv, Locations, Finalizing, MaskPath, PivotRoot, Fixed
<1>2. /\ step[i] \in {"masks", "pivot"} /\ step'[i] \in WithDevices \cup {"failed"}
  <2>1. CASE MaskPath(i)
    <3>1. Again(i, "masks", TRUE)
      BY <2>1 DEF MaskPath
    <3> QED
      BY <1>1, <3>1, AgainIs DEF WithDevices
  <2>2. CASE PivotRoot(i)
    <3>1. PICK ok : StepTo(i, "pivot", ok, "detach")
      BY <2>2 DEF PivotRoot
    <3> QED
      BY <1>1, <3>1, StepIs DEF WithDevices, Finalizing
  <2> QED
    BY <2>1, <2>2
<1>3. Grounded(mounts[i])
  BY <1>2, GroundedIs
<1>4. \/ UNCHANGED mounts
      \/ \E m \in MountType : ~IsPrefix(m.at, Node) /\ Attach(i, Append(mounts[i], m))
  <2>1. CASE MaskPath(i)
    <3>1. PICK q : q = specs[i].masked[next[i]]
      OBVIOUS
    <3>2. q \in Places /\ ~IsPrefix(q, Node)
      <4>1. next[i] \in Nat /\ next[i] # 0 /\ next[i] <= Len(specs[i].masked)
        BY <1>1, <2>1 DEF RootfsTyped, MaskPath
      <4>2. next[i] \in DOMAIN specs[i].masked
        BY <1>1, <4>1, ListsAre
      <4>3. q \in ToSet(specs[i].masked)
        BY <3>1, <4>2 DEF ToSet
      <4> QED
        BY <1>1, <3>1, <4>2, <4>3, ListsAre DEF OwnDevices
    <3>3. \/ UNCHANGED mounts
          \/ Attach(i, Append(mounts[i], Mount(q, "maskDir", TRUE)))
          \/ Attach(i, Append(mounts[i], Mount(q, "maskFile", FALSE)))
      BY <2>1, <3>1 DEF MaskPath
    <3>4. \A fs \in {"maskDir", "maskFile"}, ro \in BOOLEAN :
             Mount(q, fs, ro) \in MountType /\ Mount(q, fs, ro).at = q
      BY <3>2 DEF Mount, MountType, Filesystems
    <3> QED
      BY <3>2, <3>3, <3>4
  <2>2. CASE PivotRoot(i)
    <3>1. UNCHANGED mounts \/ Attach(i, Append(mounts[i], Mount(OldRoot, "host", FALSE)))
      BY <2>2 DEF PivotRoot
    <3>2. Mount(OldRoot, "host", FALSE) \in MountType /\ Mount(OldRoot, "host", FALSE).at = OldRoot
      BY DEF Mount, MountType, Filesystems, Places
    <3> QED
      BY <3>1, <3>2, NodeIs
  <2> QED
    BY <2>1, <2>2
<1>5. Covering(mounts'[i], Node) = Covering(mounts[i], Node)
  <2>1. CASE UNCHANGED mounts
    BY <2>1
  <2>2. ASSUME NEW m \in MountType, ~IsPrefix(m.at, Node), Attach(i, Append(mounts[i], m))
        PROVE  Covering(mounts'[i], Node) = Covering(mounts[i], Node)
    <3>1. Append(mounts[i], m) \in Seq(MountType)
      BY <1>3 DEF Grounded
    <3>2. mounts'[i] = Append(mounts[i], m)
      BY <1>1, <1>2, <2>2, <3>1, AttachIs
    <3> QED
      BY <1>3, <2>2, <3>2, AppendCovers, NodeIs
  <2> QED
    BY <1>4, <2>1, <2>2
<1>6. HasNode(i) => HasNode(i)'
  BY <1>1, <1>5, NodeKept
<1>7. step[i] \in WithDevices
  BY <1>2 DEF WithDevices, Finalizing
<1> QED
  BY <1>1, <1>2, <1>6, <1>7, LaterEquipped

\* A read-only bind over the device brings along what the path led to.
LEMMA BindEquips ==
  ASSUME RootfsInv, NEW i \in Inits, Equipped(i), ReadonlyPath(i)
  PROVE  Equipped(i)'
<1> DEFINE may == MayRemount(i, Covering(mounts[i], specs[i].readonly[next[i]]).fs)
<1>1. RootfsTyped /\ Sealed
  BY DEF RootfsInv
<1>2. PICK q : q = specs[i].readonly[next[i]]
  OBVIOUS
<1>3. PICK ok \in BOOLEAN : ok = may
  BY DEF MayRemount
<1>4. /\ next[i] <= Len(specs[i].readonly)
      /\ IF Kind(i, q) # "none" /\ Bindable(i, q)
         THEN Attach(i, SelfBind(mounts[i], q, ok, Below(mounts[i], q)))
         ELSE UNCHANGED <<mounts, hostSees>>
      /\ UNCHANGED <<specs, machine, tmp>>
  BY <1>2, <1>3 DEF ReadonlyPath, Fixed
<1>5. PICK fine : Again(i, "readonly", fine)
  BY DEF ReadonlyPath
<1> HIDE DEF may
<1>6. step[i] = "readonly" /\ step'[i] \in {"readonly", "failed"}
  BY <1>1, <1>5, AgainIs
<1>7. q \in Places
  <2>1. next[i] \in Nat /\ next[i] # 0
    BY <1>1 DEF RootfsTyped
  <2>2. next[i] \in DOMAIN specs[i].readonly
    BY <1>1, <1>4, <2>1, ListsAre
  <2> QED
    BY <1>1, <1>2, <2>2, ListsAre
<1>8. /\ Covering(mounts'[i], Node).fs = Covering(mounts[i], Node).fs
      /\ Covering(mounts[i], Node).at = Node => Covering(mounts'[i], Node).at = Node
  <2>1. CASE ~(Kind(i, q) # "none" /\ Bindable(i, q))
    BY <1>4, <2>1
  <2>2. CASE Kind(i, q) # "none" /\ Bindable(i, q)
    <3> DEFINE new == SelfBind(mounts[i], q, ok, Below(mounts[i], q))
               was == Covering(mounts[i], Node)
    <3>1. Grounded(mounts[i])
      BY <1>6, GroundedIs
    <3>2. /\ Grounded(new)
          /\ Covering(new, Node) \in {was, Mount(q, was.fs, ok)}
          /\ Covering(new, Node) = was \/ (IsPrefix(was.at, q) /\ IsPrefix(q, Node))
      BY <1>7, <3>1, SelfBindCovers, NodeIs
    <3>3. Attach(i, new)
      BY <1>4, <2>2
    <3> HIDE DEF new, was
    <3>4. mounts'[i] = new
      BY <1>1, <1>6, <3>2, <3>3, AttachIs DEF Grounded
    <3>5. CASE Covering(new, Node) = was
      BY <3>4, <3>5 DEF was
    <3>6. CASE Covering(new, Node) # was
      <4>1. Covering(new, Node).fs = was.fs /\ Covering(new, Node).at = q
        BY <3>2, <3>6 DEF Mount
      <4>2. was.at = Node => q = Node
        BY <1>7, <3>2, <3>6, NodeIs, PrefixOrder
      <4> QED
        BY <3>4, <4>1, <4>2 DEF was
    <3> QED
      BY <3>5, <3>6
  <2> QED
    BY <2>1, <2>2
<1>9. HasNode(i) => HasNode(i)'
  BY <1>4, <1>8, NodeKept
<1>10. step[i] \in WithDevices /\ step'[i] \in WithDevices \cup {"failed"}
  BY <1>6 DEF WithDevices
<1> QED
  BY <1>4, <1>9, <1>10, LaterEquipped

\* Nor do the end of the old root and the remount of the new one take it away.
LEMMA EndEquips ==
  ASSUME RootfsInv, RootfsInv', NEW i \in Inits, Equipped(i),
         DetachOldroot(i) \/ RemoveOldroot(i) \/ RemountRoot(i)
  PROVE  Equipped(i)'
<1>1. RootfsTyped /\ RootfsTyped' /\ FilesTyped /\ "cwd" \in Locations /\ UNCHANGED <<specs, machine>>
  BY DEF RootfsInv, RootfsTyped, Locations, Finalizing, DetachOldroot, RemoveOldroot, RemountRoot, Fixed
<1>2. CASE DetachOldroot(i) \/ RemoveOldroot(i)
  <2>1. /\ step[i] \in {"detach", "rmOldroot"} /\ step'[i] \in {"rmOldroot", "remount", "failed"}
        /\ Covering(mounts'[i], Node) = Covering(mounts[i], Node)
    BY <1>2, OldrootGone, NodeIs
  <2>2. Node \in DOMAIN tmp[i] => Node \in DOMAIN tmp'[i] /\ tmp'[i][Node] = tmp[i][Node]
    <3> DEFINE left == Restrict(tmp[i], (DOMAIN tmp[i]) \ {OldRoot})
    <3>1. Node # OldRoot
      BY DEF Node, OldRoot
    <3>2. Node \in DOMAIN tmp[i] => Node \in DOMAIN left /\ left[Node] = tmp[i][Node]
      BY <3>1 DEF Restrict
    <3>3. UNCHANGED tmp \/ tmp' = [tmp EXCEPT ![i] = left]
      BY <1>2 DEF DetachOldroot, RemoveOldroot
    <3> HIDE DEF left
    <3>4. tmp'[i] \in {tmp[i], left}
      BY <1>1, <3>3 DEF FilesTyped
    <3> QED
      BY <3>2, <3>4
  <2>3. HasNode(i) => HasNode(i)'
    BY <2>1, <2>2, NodeKept
  <2>4. step[i] \in WithDevices /\ step'[i] \in WithDevices \cup {"failed"}
    BY <2>1 DEF WithDevices, Finalizing
  <2> QED
    BY <1>1, <2>3, <2>4, LaterEquipped
<1>3. CASE RemountRoot(i)
  <2>1. PICK ok : StepTo(i, "remount", ok, "cwd")
    BY <1>3 DEF RemountRoot
  <2>2. step[i] = "remount" /\ step'[i] \in {"cwd", "failed"}
    BY <1>1, <2>1, StepIs
  <2>3. UNCHANGED tmp
    BY <1>3 DEF RemountRoot
  <2>4. CASE step'[i] = "failed"
    BY <1>1, <2>4, IdleEquipped DEF Idle
  <2>5. CASE step'[i] # "failed"
    <3>1. /\ Covering(mounts'[i], Node).fs = Covering(mounts[i], Node).fs
          /\ Covering(mounts'[i], Node).at = Covering(mounts[i], Node).at
      BY <1>3, <2>5, RemountIs, NodeIs
    <3>2. HasNode(i) => HasNode(i)'
      BY <2>3, <3>1, NodeKept
    <3>3. step[i] \in WithDevices /\ step'[i] \in WithDevices \cup {"failed"}
      BY <2>2 DEF WithDevices, Finalizing
    <3> QED
      BY <1>1, <3>2, <3>3, LaterEquipped
  <2> QED
    BY <2>4, <2>5
<1> QED
  BY <1>2, <1>3

\* The steps before the mounts, and the end of an init.
LEMMA FirstEquips ==
  ASSUME RootfsInv, RootfsInv', NEW i \in Inits,
         MakeMountsPrivate(i) \/ BindRootfs(i) \/ SetPropagation(i) \/ Killed(i)
  PROVE  Equipped(i)'
<1>1. RootfsTyped'
  BY DEF RootfsInv
<1>2. step'[i] \in Idle \/ (step'[i] = "mounts" /\ next'[i] = 1)
  BY IdleStep
<1> QED
  BY <1>1, <1>2, IdleEquipped

\* An init's own steps keep it.
LEMMA MoverEquips ==
  ASSUME RootfsInv, RootfsInv', NEW i \in Inits, OwnDevices(specs[i]), Equipped(i),
         PrepareRootfs(i) \/ FinalizeRootfs(i) \/ Killed(i)
  PROVE  Equipped(i)'
<1>1. CASE MakeMountsPrivate(i) \/ BindRootfs(i) \/ SetPropagation(i) \/ Killed(i)
  BY <1>1, FirstEquips
<1>2. CASE MountOne(i)
  BY <1>2, MountEquips
<1>3. CASE MountsDone(i)
  BY <1>3, MountedEquips
<1>4. CASE MknodDevice(i) \/ BindDevice(i)
  BY <1>4, NodeMade
<1>5. CASE \/ CreateDevSymlinks(i) \/ ApplySysctls(i) \/ MasksDone(i) \/ Prepared(i)
           \/ MakeOldroot(i) \/ Chdir(i)
  BY <1>5, StillEquips
<1>6. CASE MaskPath(i) \/ PivotRoot(i)
  BY <1>6, CoverEquips
<1>7. CASE ReadonlyPath(i)
  BY <1>7, BindEquips
<1>8. CASE DetachOldroot(i) \/ RemoveOldroot(i) \/ RemountRoot(i)
  BY <1>8, EndEquips
<1> QED
  BY <1>1, <1>2, <1>3, <1>4, <1>5, <1>6, <1>7, <1>8 DEF PrepareRootfs, FinalizeRootfs

\* The devices are asked of nobody in the initial states.
LEMMA DevicesBegin == ASSUME RootfsInit PROVE DevicesInv
<1>1. RootfsInv /\ \A i \in Inits : step[i] = "private"
  BY RootfsBegins DEF RootfsInit
<1>2. \A i \in Inits : Equipped(i)
  BY <1>1 DEF Equipped, WithDevices, Finalizing
<1> QED
  BY <1>1, <1>2 DEF DevicesInv

\* Every step keeps the invariant.
LEMMA DevicesGoOn == ASSUME DevicesInv, [RootfsNext]_rootfsVars PROVE DevicesInv'
<1>1. RootfsInv /\ RootfsInv' /\ RootfsTyped /\ RootfsTyped' /\ UNCHANGED <<specs, machine>>
  <2>1. RootfsInv
    BY DEF DevicesInv
  <2> QED
    BY <2>1, RootfsGoesOn, SpecsKept, MachineKept DEF RootfsInv
<1>2. ASSUME NEW j \in Inits, OwnDevices(specs[j]) PROVE Equipped(j)'
  <2>0. Equipped(j)
    BY <1>2 DEF DevicesInv
  <2>1. CASE UNCHANGED rootfsVars
    <3>1. UNCHANGED <<step, next, mounts, tmp>>
      BY <2>1 DEF rootfsVars
    <3> QED
      BY <1>1, <2>0, <3>1, OthersEquipped
  <2>2. CASE HostMounts
    <3>1. /\ UNCHANGED <<step, next, tmp>>
          /\ mounts'[j] = IF mounts[j] # <<>> /\ peer[j] # "private"
                          THEN Append(mounts[j], Mount(Data, "hostDir", FALSE)) ELSE mounts[j]
      BY <2>2 DEF HostMounts
    <3>2. CASE step[j] \in {"private", "failed", "killed"}
      BY <1>1, <3>1, <3>2, IdleEquipped DEF Idle
    <3>3. CASE step[j] \notin {"private", "failed", "killed"}
      <4>1. mounts'[j] = mounts[j]
        BY <1>1, <3>1, <3>3 DEF RootfsInv, Sealed
      <4> QED
        BY <1>1, <2>0, <3>1, <4>1, OthersEquipped
    <3> QED
      BY <3>2, <3>3
  <2>3. ASSUME NEW i \in Inits, PrepareRootfs(i) \/ FinalizeRootfs(i) \/ Killed(i) PROVE Equipped(j)'
    <3>1. CASE i = j
      BY <1>1, <1>2, <2>0, <2>3, <3>1, MoverEquips
    <3>2. CASE i # j
      <4>1. j \in Inits \ {i}
        BY <3>2
      <4>2. /\ step'[j] = step[j] /\ next'[j] = next[j] /\ tmp'[j] = tmp[j]
            /\ mounts'[j] \in {mounts[j], Without(mounts[j], OldRoot)}
        BY <1>1, <2>3, <4>1, Apart
      <4> QED
        BY <1>1, <2>0, <4>2, OthersEquipped
    <3> QED
      BY <3>1, <3>2
  <2> QED
    BY <2>1, <2>2, <2>3 DEF RootfsNext
<1>3. \A j \in Inits : OwnDevices(specs[j])' <=> OwnDevices(specs[j])
  BY <1>1
<1> QED
  BY <1>1, <1>2, <1>3 DEF DevicesInv

\* From its making on a device stays where the container finds it, whatever is masked,
\* bound and remounted later, and whatever the other inits of the directory do.
THEOREM DevicesInvariance == RootfsSpec => []DevicesInv
<1>1. RootfsInit => DevicesInv
  BY DevicesBegin
<1>2. DevicesInv /\ [RootfsNext]_rootfsVars => DevicesInv'
  BY DevicesGoOn
<1> QED
  BY <1>1, <1>2, PTL DEF RootfsSpec

\* The specs that mount a tmpfs at /dev put nothing over the devices themselves.
LeavesDevices ==
    \A s \in RootfsSpecs : \A i \in Inits :
        (\E k \in DOMAIN s[i].mounts : s[i].mounts[k].at = Dev /\ s[i].mounts[k].fs = "tmpfs")
            => OwnDevices(s[i])

\* In the end a device is what the path leads to.
LEMMA DevicesSuffice ==
  ASSUME LeavesDevices, DevicesInv, specs \in RootfsSpecs PROVE DevicesThere
<1> SUFFICES ASSUME NEW i \in Inits, Done(i),
                    \E k \in DOMAIN specs[i].mounts : specs[i].mounts[k].at = Dev /\ specs[i].mounts[k].fs = "tmpfs",
                    ~(specs[i].rootless /\ machine.lacksNode)
             PROVE  Kind(i, Node) = "device"
  BY DEF DevicesThere
<1>1. Equipped(i)
  BY DEF LeavesDevices, DevicesInv
<1>2. HasNode(i)
  BY <1>1 DEF Equipped, WithDevices, Done
<1>3. CASE /\ Covering(mounts[i], Node).fs = "tmpfs"
           /\ Node \in DOMAIN tmp[i] /\ tmp[i][Node] = "device"
  BY <1>3 DEF Kind, Content, Private
<1>4. CASE Covering(mounts[i], Node).fs = "device" /\ Covering(mounts[i], Node).at = Node
  <2>1. Content(i, "device") = <<>> /\ Node \notin DOMAIN <<>>
    BY DEF Content, Private
  <2> QED
    BY <1>4, <2>1 DEF Kind
<1> QED
  BY <1>2, <1>3, <1>4 DEF HasNode

\* A container that is set up with a /dev of its own has its devices there: made in it,
\* or bound from the host.
THEOREM DevicesAreThere == LeavesDevices => (RootfsSpec => []DevicesThere)
<1> SUFFICES ASSUME LeavesDevices PROVE RootfsSpec => []DevicesThere
  OBVIOUS
<1> DEFINE Given == specs \in RootfsSpecs
<1>1. RootfsInit => Given
  BY DEF RootfsInit
<1>2. Given /\ [RootfsNext]_rootfsVars => Given'
  <2>1. [RootfsNext]_rootfsVars => UNCHANGED specs
    BY SpecsKept
  <2> QED
    BY <2>1
<1>3. DevicesInv /\ Given => DevicesThere
  BY DevicesSuffice
<1> HIDE DEF Given
<1> QED
  BY <1>1, <1>2, <1>3, DevicesInvariance, PTL DEF RootfsSpec
=============================================================================

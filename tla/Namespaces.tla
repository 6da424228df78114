------------------------------ MODULE Namespaces ------------------------------
(***************************************************************************)
(* What init is before its first mount: the namespaces the clone made, the *)
(* id maps its creator installs in its user namespace, the capabilities it *)
(* has after the exec of stage 2, the namespaces of others it joins, its   *)
(* hostname, and the mount namespace it makes private.                     *)
(*                                                                         *)
(*   creator  clone -> maps -> setgroups -> uidMap -> gidMap -> ...        *)
(*                          -> newuidmap -> newgidmap -> ...               *)
(*   init     ... -> stage2 -> join* -> hostname -> private -> mounting    *)
(*                                                                         *)
(* Creator and init alternate (Handshake.tla), so one program counter is   *)
(* enough.  A namespace is "host", "own" or the path it is known by.       *)
(***************************************************************************)
EXTENDS Integers, Sequences, FiniteSets

CONSTANTS
    Threads, \* the threads of stage 2
    MovesAt, \* the steps before which the goroutine may be moved, all in fact
    Paths,   \* what namespace files there are: path -> [kind, owner]
    Specs,   \* the linux sections to look at (SpecType)
    Hosts    \* the callers and their hosts (HostType)

Types == {"uts", "ipc", "network", "pid", "mount", "user", "cgroup", "time"}

Entry == [type : Types \cup {"unknown"}, path : DOMAIN Paths \cup {""}]

\* size ids from inside on stand for those from outside on.
Mapping == [inside : Nat, outside : Nat, size : Nat]

\* The spec's namespaces, its mappings, and whether it has a hostname.
SpecType == [namespaces : Seq(Entry), uids : Seq(Mapping), gids : Seq(Mapping), hostname : BOOLEAN]

\* A line of /etc/subuid or /etc/subgid: whose it is (as a number; nobody's if
\* it is malformed) and the range.
Line == [user : Int, start : Nat, count : Nat]
HostType == [uid : Nat, gid : Nat, subuid : Seq(Line), subgid : Seq(Line), helpers : BOOLEAN]

ASSUME ThreadsAssumption == Threads # {}
ASSUME PathsAssumption ==
    /\ {"", "host", "own"} \cap DOMAIN Paths = {}
    /\ \A p \in DOMAIN Paths : Paths[p].kind \in Types /\ Paths[p].owner \in {"initial", "other"}
ASSUME SpecsAssumption == Specs \subseteq SpecType
ASSUME HostsAssumption == Hosts \subseteq HostType

VARIABLES
    spec, host, \* what this behaviour is about
    pc,         \* the step that comes next
    on,         \* the thread stage 2's goroutine is on
    in,         \* the namespaces of each of init's threads
    caps,       \* init has all capabilities in its user namespace, or none
    uidMap, gidMap, denied, \* the files of init's user namespace
    joined,     \* how many entries joinNamespaces has gone through
    renamed,    \* the UTS namespaces that have the spec's hostname
    private     \* the mount namespaces that have been made private

vars == <<spec, host, pc, on, in, caps, uidMap, gidMap, denied, joined, renamed, private>>
given == <<spec, host>>
maps == <<uidMap, gidMap, denied>>
effects == <<joined, renamed, private>>

Steps == {"clone", "maps", "setgroups", "uidMap", "gidMap", "newuidmap", "newgidmap",
          "stage2", "join", "hostname", "private"}

Init ==
    /\ spec \in Specs /\ host \in Hosts
    /\ pc = "clone" /\ on \in Threads
    /\ in = [t \in Threads |-> [k \in Types |-> "host"]]
    /\ caps = (host.uid = 0)
    /\ uidMap = <<>> /\ gidMap = <<>> /\ denied = FALSE
    /\ joined = 0 /\ renamed = {} /\ private = {}

\* Every error is returned at once, and create fails.
Step(at, ok, next) == pc = at /\ pc' = IF ok THEN next ELSE "failed"

Elements(seq) == {seq[k] : k \in DOMAIN seq}
Entries == Elements(spec.namespaces)
Rootfull == host.uid = 0

----------------------------------------------------------------------------
(* The kernel's rules *)

\* The user namespace that a namespace belongs to.
Owner(ns) ==
    CASE ns = "host" -> "initial"
      [] ns = "own"  -> IF in[on]["user"] = "own" THEN "own" ELSE "initial"
      [] OTHER       -> Paths[ns].owner

\* Root of the host's user namespace may do anything, root of a new one only
\* with what belongs to it.
MayChange(ns) == caps /\ (in[on]["user"] = "own" => Owner(ns) = "own")

IdRange(start, count) == start .. start + count - 1
Outside(map) == UNION {IdRange(m.outside, m.size) : m \in Elements(map)}

\* The id inside that an id outside has: -1 if none.
Inside(map, id) ==
    IF id \notin Outside(map) THEN -1
    ELSE LET m == CHOOSE m \in Elements(map) : id \in IdRange(m.outside, m.size)
         IN  m.inside + id - m.outside

WellFormed(map) ==
    /\ \A m \in Elements(map) : m.size > 0
    /\ \A j, k \in DOMAIN map : j # k =>
          /\ IdRange(map[j].outside, map[j].size) \cap IdRange(map[k].outside, map[k].size) = {}
          /\ IdRange(map[j].inside, map[j].size) \cap IdRange(map[k].inside, map[k].size) = {}

\* A map is written once; the host's own namespace has its maps already.
Writable(map) == in[on]["user"] = "own" /\ WellFormed(map)

----------------------------------------------------------------------------
(* The creator *)

CloneFlags == {e.type : e \in {f \in Entries : f.path = ""}}

MutantTimeCloned ==
    /\ Step("clone", "unknown" \notin CloneFlags, "maps")
    /\ in' = [t \in Threads |-> [k \in Types |-> IF k \in CloneFlags THEN "own" ELSE "host"]]
    /\ caps' = (Rootfull /\ "user" \notin CloneFlags)
    /\ UNCHANGED <<given, on, maps, effects>>

\* The exec of stage 1 from an id without a mapping takes all capabilities.
Clone ==
    LET ok == /\ {"time", "unknown"} \cap CloneFlags = {}
              /\ Rootfull \/ "user" \in CloneFlags \/ CloneFlags = {} IN
    /\ Step("clone", ok, "maps")
    /\ in' = IF ok THEN [t \in Threads |-> [k \in Types |-> IF k \in CloneFlags THEN "own" ELSE "host"]]
                   ELSE in
    /\ caps' = (Rootfull /\ ~(ok /\ "user" \in CloneFlags))
    /\ UNCHANGED <<given, on, maps, effects>>

\* The first line for the id that makes sense.
SubIDRange(file, id) ==
    LET fitting == {k \in DOMAIN file : file[k].user = id}
    IN  IF fitting = {} THEN [start |-> 0, count |-> 0]
        ELSE LET line == file[CHOOSE k \in fitting : \A j \in fitting : k <= j]
             IN  [start |-> line.start, count |-> line.count]

\* Root is the caller, the others come from the caller's range.
DefaultMap(id, file) ==
    LET range == SubIDRange(file, id)
        root  == [inside |-> 0, outside |-> id, size |-> 1]
    IN  IF range.count = 0 THEN <<root>>
        ELSE <<root, [inside |-> 1, outside |-> range.start, size |-> range.count]>>

IDMappings ==
    CASE spec.uids # <<>> -> [uids |-> spec.uids, gids |-> spec.gids]
      [] spec.uids = <<>> /\ Rootfull -> [uids |-> <<>>, gids |-> <<>>]
      [] OTHER -> [uids |-> DefaultMap(host.uid, host.subuid),
                   gids |-> DefaultMap(host.gid, host.subgid)]

IsSelfMapping(map, self) == Len(map) = 1 /\ map[1].size = 1 /\ map[1].outside = self

WriteIDMaps ==
    LET m == IDMappings
        direct == Rootfull \/ (IsSelfMapping(m.uids, host.uid) /\ IsSelfMapping(m.gids, host.gid)) IN
    /\ Step("maps", TRUE, CASE m.uids = <<>> /\ m.gids = <<>> -> "stage2"
                            [] (m.uids # <<>> \/ m.gids # <<>>) /\ direct -> "setgroups"
                            [] OTHER -> "newuidmap")
    /\ UNCHANGED <<given, on, in, caps, maps, effects>>

\* Nobody denies it to a namespace that has its gid map.
DenySetgroups ==
    LET ok == in[on]["user"] = "own" IN
    /\ Step("setgroups", ok, "uidMap")
    /\ denied' = ok
    /\ UNCHANGED <<given, on, in, caps, uidMap, gidMap, effects>>

WriteUidMap ==
    LET ok == Writable(IDMappings.uids) IN
    /\ Step("uidMap", ok, "gidMap")
    /\ uidMap' = IF ok THEN IDMappings.uids ELSE uidMap
    /\ UNCHANGED <<given, on, in, caps, gidMap, denied, effects>>

\* An empty map is not written.  A caller without privileges needs setgroups
\* denied.
WriteGidMap ==
    LET ok == Writable(IDMappings.gids) /\ (Rootfull \/ denied) IN
    /\ Step("gidMap", ok, "stage2")
    /\ gidMap' = IF ok THEN IDMappings.gids ELSE gidMap
    /\ UNCHANGED <<given, on, in, caps, uidMap, denied, effects>>

\* The helpers give a user its own id, and the ranges of its lines.
FromLines(file, m) ==
    \E k \in DOMAIN file :
        file[k].user = host.uid /\ IdRange(m.outside, m.size) \subseteq IdRange(file[k].start, file[k].count)
Authorised(map, file, self) ==
    \A m \in Elements(map) : FromLines(file, m) \/ (m.size = 1 /\ m.outside = self)

RunNewuidmap ==
    LET map == IDMappings.uids
        ok  == host.helpers /\ Writable(map) /\ Authorised(map, host.subuid, host.uid) IN
    /\ Step("newuidmap", ok, "newgidmap")
    /\ uidMap' = IF ok THEN map ELSE uidMap
    /\ UNCHANGED <<given, on, in, caps, gidMap, denied, effects>>

\* newgidmap denies setgroups to a user with no range of groups.
RunNewgidmap ==
    LET map == IDMappings.gids
        ok  == map = <<>> \/
               (host.helpers /\ Writable(map) /\ Authorised(map, host.subgid, host.gid)) IN
    /\ Step("newgidmap", ok, "stage2")
    /\ gidMap' = IF ok THEN map ELSE gidMap
    /\ denied' = (ok /\ map # <<>> /\ ~\E m \in Elements(map) : FromLines(host.subgid, m))
    /\ UNCHANGED <<given, on, in, caps, uidMap, effects>>

----------------------------------------------------------------------------
(* Init *)

\* The second exec gives uid 0 of the namespace its capabilities.
ExecStage2 ==
    /\ Step("stage2", TRUE, "join")
    /\ caps' = IF in[on]["user"] = "own" THEN Inside(uidMap, host.uid) = 0 ELSE Rootfull
    /\ UNCHANGED <<given, on, in, maps, effects>>

\* A process with several threads, which a Go program is, cannot change these.
ForOneThread == {"mount", "user", "time"}

MaySetns(path) == Paths[path].kind \notin ForOneThread /\ MayChange(path)

\* setns takes any kind of namespace, whatever the entry's type.  A pid
\* namespace is entered by children only.
Enter(path) ==
    IF Paths[path].kind = "pid" THEN in ELSE [in EXCEPT ![on][Paths[path].kind] = path]

AfterEntry(k) == IF k = Len(spec.namespaces) THEN "hostname" ELSE "join"

JoinNothing ==
    /\ spec.namespaces = <<>>
    /\ Step("join", TRUE, "hostname")
    /\ UNCHANGED <<given, on, in, caps, maps, effects>>

MutantSetnsErrorIgnored ==
    /\ joined < Len(spec.namespaces)
    /\ LET path == spec.namespaces[joined + 1].path IN
       /\ Step("join", TRUE, AfterEntry(joined + 1))
       /\ in' = IF path # "" /\ MaySetns(path) THEN Enter(path) ELSE in
    /\ joined' = joined + 1
    /\ UNCHANGED <<given, on, caps, maps, renamed, private>>

JoinNamespace ==
    /\ joined < Len(spec.namespaces)
    /\ LET path == spec.namespaces[joined + 1].path
           ok   == path = "" \/ MaySetns(path) IN
       /\ Step("join", ok, AfterEntry(joined + 1))
       /\ in' = IF ok /\ path # "" THEN Enter(path) ELSE in
    /\ joined' = joined + 1
    /\ UNCHANGED <<given, on, caps, maps, renamed, private>>

\* HasNamespace: of its own or one to join.
Sethostname ==
    LET asked == spec.hostname /\ \E e \in Entries : e.type = "uts"
        ok    == asked => MayChange(in[on]["uts"]) IN
    /\ Step("hostname", ok, "private")
    /\ renamed' = renamed \cup {ns \in {in[on]["uts"]} : asked /\ ok}
    /\ UNCHANGED <<given, on, in, caps, maps, joined, private>>

\* The first mount of prepareRootfs.
MakePrivate ==
    LET ok == MayChange(in[on]["mount"]) IN
    /\ Step("private", ok, "mounting")
    /\ private' = private \cup {ns \in {in[on]["mount"]} : ok}
    /\ UNCHANGED <<given, on, in, caps, maps, joined, renamed>>

\* The Go scheduler continues the goroutine on another thread.
Migrate ==
    /\ pc \in MovesAt
    /\ on' \in Threads \ {on}
    /\ UNCHANGED <<given, pc, in, caps, maps, effects>>

WriteMaps == WriteIDMaps \/ DenySetgroups \/ WriteUidMap \/ WriteGidMap \/ RunNewuidmap \/ RunNewgidmap
JoinNamespaces == JoinNothing \/ JoinNamespace

Next ==
    \/ Clone \/ WriteMaps \/ ExecStage2 \/ JoinNamespaces \/ Sethostname \/ MakePrivate \/ Migrate

Spec == Init /\ [][Next]_vars

----------------------------------------------------------------------------
(* Properties *)

\* Every variable has its type, nobody is in a time namespace of its own making,
\* and only a new user namespace has maps.
TypeOK ==
    /\ spec \in Specs /\ host \in Hosts
    /\ pc \in Steps \cup {"mounting", "failed"} /\ on \in Threads
    /\ in \in [Threads -> [Types -> {"host", "own"} \cup DOMAIN Paths]]
    /\ \A t \in Threads : in[t]["time"] = "host"
    /\ uidMap \in Seq(Mapping) /\ gidMap \in Seq(Mapping) /\ denied \in BOOLEAN /\ caps \in BOOLEAN
    /\ uidMap # <<>> \/ gidMap # <<>> \/ denied => in[on]["user"] = "own"
    /\ joined \in 0..Len(spec.namespaces)
    /\ renamed \subseteq {"host", "own"} \cup DOMAIN Paths
    /\ private \subseteq {"host", "own"} \cup DOMAIN Paths

\* What the spec says of a kind of namespace.
Asked(kind) ==
    LET entries == {e \in Entries : e.type = kind}
    IN  CASE entries = {} -> "host"
          [] \E e \in entries : e.path = "" -> "own"
          [] OTHER -> (CHOOSE e \in entries : TRUE).path

Matching == \A e \in Entries : e.path # "" => Paths[e.path].kind = e.type

\* A kind that is listed twice asks for two namespaces of which init has the one
\* it joins last.
Unambiguous == \A e, f \in Entries : e.type = f.type => e = f

OwnIds == {host.uid} \cup
    UNION {IdRange(host.subuid[k].start, host.subuid[k].count) :
              k \in {j \in DOMAIN host.subuid : host.subuid[j].user = host.uid}}

\* The ids that DefaultMap takes from a file.
SubIDs(file, id) == LET range == SubIDRange(file, id) IN IdRange(range.start, range.count)

\* A spec whose namespaces lightpod supports and whose maps make the caller root.
Sound ==
    /\ Matching /\ \A e \in Entries : e.type \notin {"time", "unknown"}
    /\ \E e \in Entries : e.type = "mount"
    /\ \A e \in Entries : e.path # "" => e.type \notin ForOneThread
    /\ IF Asked("user") = "own"
       THEN /\ \A e \in Entries : e.path = ""
            /\ IF Rootfull THEN spec.uids # <<>> ELSE host.helpers
            /\ spec.uids = <<>> => /\ host.uid \notin SubIDs(host.subuid, host.uid)
                                   /\ host.gid \notin SubIDs(host.subgid, host.gid)
            /\ spec.uids # <<>> => /\ Inside(spec.uids, host.uid) = 0
                                   /\ WellFormed(spec.uids) /\ WellFormed(spec.gids)
                                   /\ Rootfull \/ Authorised(spec.uids, host.subuid, host.uid)
                                   /\ Rootfull \/ Authorised(spec.gids, host.subgid, host.gid)
       ELSE Rootfull /\ spec.uids = <<>>

\* What comes to mount is in the namespaces the spec asks for, if their files are
\* what it says (of a pid namespace to join, only init's children would be).  It is
\* root there, and without a privileged caller stands for the caller's own ids
\* alone ("only /etc/subuid can authorise it").  On the way it has not renamed the
\* host, nor touched the mounts of the host if there is a mount namespace.  A sound
\* spec is never refused, to a user whose uid and gid are the same number.
AsAskedOrRefused ==
    /\ Matching /\ Unambiguous /\ pc = "mounting" =>
          \A kind \in Types \ {"pid"} : in[on][kind] = Asked(kind)
    /\ pc = "mounting" =>
          /\ caps /\ (~Rootfull => in[on]["user"] = "own" /\ Outside(uidMap) \subseteq OwnIds)
          /\ in[on]["user"] = "own" => Inside(uidMap, host.uid) = 0
    /\ Matching => "host" \notin renamed
    /\ Matching /\ (\E e \in Entries : e.type = "mount") => "host" \notin private
    /\ pc = "failed" => ~(Sound /\ host.uid = host.gid)

\* A hostname is set in a UTS namespace that is not the host's, also when the file
\* of the entry is one of another kind.
HostKeepsItsName == "host" \notin renamed

\* A pid namespace is joined like the others.
PidNamespaceJoined ==
    Matching /\ pc = "mounting" => in[on]["pid"] = Asked("pid")

\* "Anything mounted before this propagates back to the host": whatever the spec,
\* the host's own mounts stay as they are.
HostStaysShared == "host" \notin private

\* "Container root maps to the invoking user, the rest into that user's
\* range": the range of groups too is looked up for the user.
RangesForEveryone == pc = "failed" => ~Sound

\* "Usually no user namespace here; if you want one, declare the mapping": a
\* mapping that is declared is enough.
DeclaredMapRuns ==
    pc = "failed" => ~(/\ Rootfull /\ spec.uids # <<>> /\ WellFormed(spec.uids) /\ spec.gids = spec.uids
                       /\ Asked("mount") = "own" /\ Asked("user") = "own"
                       /\ \A e \in Entries : e.path = "" /\ e.type \notin {"time", "unknown"})

\* With maps of ids there are maps of groups.
BothMaps == pc = "mounting" => (uidMap = <<>> <=> gidMap = <<>>)
=============================================================================

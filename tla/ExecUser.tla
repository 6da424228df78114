------------------------------ MODULE ExecUser ------------------------------
(***************************************************************************)
(* execUserProcess: after the start, init gives up its privileges step by  *)
(* step (limits, user, capabilities, no_new_privs, seccomp) and becomes    *)
(* the user's command.  Each step may take away what the next one needs.   *)
(*                                                                         *)
(* The kernel keeps credentials per thread.  setgroups, setgid and setuid  *)
(* of the syscall package change all threads, seccomp's TSYNC too; prctl   *)
(* and capset change the thread they run on, and execve keeps the calling  *)
(* thread's.  Nothing in the code locks the goroutine to a thread, so the  *)
(* Go scheduler may move it between two steps.                             *)
(*                                                                         *)
(* The operators named Mutant... are not part of the model (README.md).    *)
(***************************************************************************)
EXTENDS Naturals

CONSTANTS
    Threads, \* the threads of init
    MovesAt, \* the steps before which the goroutine may be moved, all in fact
    Caps,    \* the capabilities of the kernel
    Specs,   \* the process sections to look at, see SpecType
    Hosts    \* the hosts to look at, see HostType

\* Capabilities that a step needs.
Needed == {"SETPCAP", "SETGID", "SETUID", "SYS_ADMIN", "SYS_RESOURCE"}

\* The spec's user, its five capability sets, whether it raises a limit, sets
\* noNewPrivileges and has a seccomp profile, and what in it makes no sense.
SpecType == [uid : Nat, gid : Nat, groups : SUBSET Nat,
             bounding : SUBSET Caps, permitted : SUBSET Caps, effective : SUBSET Caps,
             inheritable : SUBSET Caps, ambient : SUBSET Caps,
             raises : BOOLEAN, noNewPrivs : BOOLEAN, seccomp : BOOLEAN,
             wrong : {"nothing", "command", "rlimit", "capability", "seccomp"}]

\* Whether init's user namespace lets it set groups, and whether it is the
\* host's own, where privileges count for limits.
HostType == [setgroups : BOOLEAN, initial : BOOLEAN]

Steps == {"resolve", "limits", "keepCaps", "groups", "gid", "uid", "unkeepCaps", "policy",
          "bounding", "clearAmbient", "capset", "ambient", "noNewPrivs", "seccomp", "exec"}

ASSUME ThreadsAssumption == Threads # {} /\ MovesAt \subseteq Steps
ASSUME CapsAssumption == Needed \subseteq Caps
ASSUME SpecsAssumption == Specs \subseteq SpecType
ASSUME HostsAssumption == Hosts \subseteq HostType

VARIABLES
    spec, host, \* the spec and the host
    pc,         \* the step that comes next
    on,         \* the thread the goroutine is on
    cred,       \* the credentials of each thread
    limited,    \* the limits are set (they are the process's)
    todo        \* capabilities a loop has yet to come to

vars == <<spec, host, pc, on, cred, limited, todo>>

CredType == [uid : Nat, gid : Nat, groups : SUBSET Nat, inherited : BOOLEAN, keepCaps : BOOLEAN,
             bounding : SUBSET Caps, permitted : SUBSET Caps, effective : SUBSET Caps,
             inheritable : SUBSET Caps, ambient : SUBSET Caps,
             noNewPrivs : BOOLEAN, filter : BOOLEAN]

\* Stage 2 is uid 0 of its user namespace with all capabilities.
Root == [uid |-> 0, gid |-> 0, groups |-> {}, inherited |-> TRUE, keepCaps |-> FALSE,
         bounding |-> Caps, permitted |-> Caps, effective |-> Caps,
         inheritable |-> {}, ambient |-> {}, noNewPrivs |-> FALSE, filter |-> FALSE]

Init ==
    /\ spec \in Specs /\ host \in Hosts
    /\ pc = "resolve" /\ on \in Threads
    /\ cred = [t \in Threads |-> Root]
    /\ limited = FALSE /\ todo = {}

----------------------------------------------------------------------------
(* The kernel's rules *)

\* Leaving uid 0 clears the effective set, and the permitted set too unless
\* the thread asked to keep it.
AfterSetuid(c, u) ==
    IF c.uid = 0 /\ u # 0
    THEN [c EXCEPT !.uid = u, !.effective = {}, !.ambient = {},
                   !.permitted = IF c.keepCaps THEN @ ELSE {}]
    ELSE [c EXCEPT !.uid = u]

MayCapset(c, s) ==
    /\ s.permitted \subseteq c.permitted /\ s.effective \subseteq s.permitted
    /\ s.inheritable \subseteq c.inheritable \cup c.bounding
    /\ "SETPCAP" \in c.effective \/ s.inheritable \subseteq c.inheritable \cup c.permitted

\* execve of a command without file capabilities: uid 0 gets what the bounding
\* and inheritable sets hold, but nothing new under no_new_privs.
AfterExec(c) ==
    LET root == IF c.noNewPrivs THEN (c.bounding \cup c.inheritable) \cap c.permitted
                ELSE c.bounding \cup c.inheritable
        kept == IF c.uid = 0 THEN root \cup c.ambient ELSE c.ambient IN
    [c EXCEPT !.permitted = kept, !.effective = kept, !.keepCaps = FALSE]

----------------------------------------------------------------------------
(* The steps *)

\* Every error is returned at once, and init exits.
Step(at, ok, next) == pc = at /\ pc' = IF ok THEN next ELSE "failed"

Change(c) == cred' = [cred EXCEPT ![on] = c]
ChangeAll(After(_)) == cred' = [t \in Threads |-> After(cred[t])]

ResolveBinary ==
    /\ Step("resolve", spec.wrong # "command", "limits")
    /\ UNCHANGED <<spec, host, on, cred, limited, todo>>

\* A root without groups to set stays as it is.
AfterLimits ==
    IF spec.uid = 0 /\ spec.gid = 0 /\ spec.groups = {} THEN "policy" ELSE "keepCaps"

ApplyProcessLimits ==
    LET ok == /\ spec.wrong # "rlimit"
              /\ spec.raises => host.initial /\ "SYS_RESOURCE" \in cred[on].effective IN
    /\ Step("limits", ok, AfterLimits)
    /\ limited' = ok
    /\ UNCHANGED <<spec, host, on, cred, todo>>

KeepCaps ==
    /\ Step("keepCaps", TRUE, IF spec.groups = {} THEN "gid" ELSE "groups")
    /\ Change([cred[on] EXCEPT !.keepCaps = TRUE])
    /\ UNCHANGED <<spec, host, on, limited, todo>>

Setgroups ==
    LET ok == host.setgroups /\ \A t \in Threads : "SETGID" \in cred[t].effective IN
    /\ Step("groups", ok, "gid")
    /\ IF ok THEN ChangeAll(LAMBDA c : [c EXCEPT !.groups = spec.groups, !.inherited = FALSE])
             ELSE UNCHANGED cred
    /\ UNCHANGED <<spec, host, on, limited, todo>>

MaySetgid == \A t \in Threads : "SETGID" \in cred[t].effective \/ cred[t].gid = spec.gid
MaySetuid == \A t \in Threads : "SETUID" \in cred[t].effective \/ cred[t].uid = spec.uid

MutantSetgidAfterUid ==
    LET ok == \A t \in Threads :
                 "SETGID" \in AfterSetuid(cred[t], spec.uid).effective \/ cred[t].gid = spec.gid IN
    /\ Step("gid", ok, "uid")
    /\ IF ok THEN ChangeAll(LAMBDA c : [c EXCEPT !.gid = spec.gid]) ELSE UNCHANGED cred
    /\ UNCHANGED <<spec, host, on, limited, todo>>

Setgid ==
    /\ Step("gid", MaySetgid, "uid")
    /\ IF MaySetgid THEN ChangeAll(LAMBDA c : [c EXCEPT !.gid = spec.gid]) ELSE UNCHANGED cred
    /\ UNCHANGED <<spec, host, on, limited, todo>>

Setuid ==
    /\ Step("uid", MaySetuid, "unkeepCaps")
    /\ IF MaySetuid THEN ChangeAll(LAMBDA c : AfterSetuid(c, spec.uid)) ELSE UNCHANGED cred
    /\ UNCHANGED <<spec, host, on, limited, todo>>

MutantCapsKept ==
    /\ Step("unkeepCaps", TRUE, "policy")
    /\ UNCHANGED <<spec, host, on, cred, limited, todo>>

UnkeepCaps ==
    /\ Step("unkeepCaps", TRUE, "policy")
    /\ Change([cred[on] EXCEPT !.keepCaps = FALSE])
    /\ UNCHANGED <<spec, host, on, limited, todo>>

\* An unknown name is an error, and no capability is touched before it.
ResolveCapabilities ==
    /\ Step("policy", spec.wrong # "capability", "bounding")
    /\ todo' = Caps \ spec.bounding
    /\ UNCHANGED <<spec, host, on, cred, limited>>

MutantBoundingErrorIgnored ==
    /\ Step("bounding", TRUE, IF todo = {} THEN "clearAmbient" ELSE "bounding")
    /\ todo' = {}
    /\ IF "SETPCAP" \in cred[on].effective
       THEN Change([cred[on] EXCEPT !.bounding = spec.bounding]) ELSE UNCHANGED cred
    /\ UNCHANGED <<spec, host, on, limited>>

\* One capability after the other; the order does not matter.
DropBounding ==
    /\ IF todo = {} THEN Step("bounding", TRUE, "clearAmbient") /\ UNCHANGED <<todo, cred>>
       ELSE LET cap == CHOOSE cap \in todo : TRUE
                ok == "SETPCAP" \in cred[on].effective IN
            /\ Step("bounding", ok, "bounding")
            /\ todo' = todo \ {cap}
            /\ IF ok THEN Change([cred[on] EXCEPT !.bounding = @ \ {cap}]) ELSE UNCHANGED cred
    /\ UNCHANGED <<spec, host, on, limited>>

ClearAmbient ==
    /\ Step("clearAmbient", TRUE, "capset")
    /\ Change([cred[on] EXCEPT !.ambient = {}])
    /\ UNCHANGED <<spec, host, on, limited, todo>>

MutantInheritableForgotten ==
    LET ok == MayCapset(cred[on], [spec EXCEPT !.inheritable = {}]) IN
    /\ Step("capset", ok, "ambient")
    /\ todo' = spec.ambient \cap cred[on].inheritable
    /\ IF ok THEN Change([cred[on] EXCEPT !.permitted = spec.permitted,
                                          !.effective = spec.effective])
             ELSE UNCHANGED cred
    /\ UNCHANGED <<spec, host, on, limited>>

Capset ==
    LET ok == MayCapset(cred[on], spec) IN
    /\ Step("capset", ok, "ambient")
    /\ todo' = spec.ambient
    /\ IF ok THEN Change([cred[on] EXCEPT !.permitted = spec.permitted,
                                          !.effective = spec.effective,
                                          !.inheritable = spec.inheritable])
             ELSE UNCHANGED cred
    /\ UNCHANGED <<spec, host, on, limited>>

AfterCaps == IF spec.noNewPrivs THEN "noNewPrivs" ELSE IF spec.seccomp THEN "seccomp" ELSE "exec"

RaiseAmbient ==
    /\ IF todo = {} THEN Step("ambient", TRUE, AfterCaps) /\ UNCHANGED <<todo, cred>>
       ELSE LET cap == CHOOSE cap \in todo : TRUE
                ok == cap \in cred[on].permitted \cap cred[on].inheritable IN
            /\ Step("ambient", ok, "ambient")
            /\ todo' = todo \ {cap}
            /\ IF ok THEN Change([cred[on] EXCEPT !.ambient = @ \cup {cap}]) ELSE UNCHANGED cred
    /\ UNCHANGED <<spec, host, on, limited>>

SetNoNewPrivs ==
    /\ Step("noNewPrivs", TRUE, IF spec.seccomp THEN "seccomp" ELSE "exec")
    /\ Change([cred[on] EXCEPT !.noNewPrivs = TRUE])
    /\ UNCHANGED <<spec, host, on, limited, todo>>

\* The filter goes to all threads, and no_new_privs of this one with it.
ApplySeccomp ==
    LET ok == /\ spec.wrong # "seccomp"
              /\ cred[on].noNewPrivs \/ "SYS_ADMIN" \in cred[on].effective IN
    /\ Step("seccomp", ok, "exec")
    /\ IF ok THEN ChangeAll(LAMBDA c :
                      [c EXCEPT !.filter = TRUE, !.noNewPrivs = @ \/ cred[on].noNewPrivs])
             ELSE UNCHANGED cred
    /\ UNCHANGED <<spec, host, on, limited, todo>>

Exec ==
    /\ Step("exec", TRUE, "user")
    /\ Change(AfterExec(cred[on]))
    /\ UNCHANGED <<spec, host, on, limited, todo>>

\* The Go scheduler continues the goroutine on another thread.
Migrate ==
    /\ pc \in MovesAt
    /\ on' \in Threads \ {on}
    /\ UNCHANGED <<spec, host, pc, cred, limited, todo>>

SetupUser == KeepCaps \/ Setgroups \/ Setgid \/ Setuid \/ UnkeepCaps
ApplyCapabilities ==
    ResolveCapabilities \/ DropBounding \/ ClearAmbient \/ Capset \/ RaiseAmbient

Next ==
    \/ ResolveBinary \/ ApplyProcessLimits \/ SetupUser \/ ApplyCapabilities
    \/ SetNoNewPrivs \/ ApplySeccomp \/ Exec \/ Migrate

Spec == Init /\ [][Next]_vars

----------------------------------------------------------------------------
(* Properties *)

\* Every variable has its type, and a change of uid keeps capabilities only
\* inside setupUser.
TypeOK ==
    /\ spec \in SpecType /\ host \in HostType
    /\ pc \in Steps \cup {"user", "failed"} /\ on \in Threads
    /\ cred \in [Threads -> CredType]
    /\ \A t \in Threads : cred[t].keepCaps => pc \in {"groups", "gid", "uid", "unkeepCaps", "failed"}
    /\ limited \in BOOLEAN /\ todo \subseteq Caps

\* "ApplyCapabilities reduces the process to exactly what the spec asks for":
\* the user's command runs as the spec's user, its bounding set is the spec's,
\* it can do no more than the spec's sets allow (under no_new_privs no more than
\* the permitted set), and no_new_privs, the filter and the limits are in force.
Confined ==
    pc = "user" =>
        LET c == cred[on] IN
        /\ c.uid = spec.uid /\ c.gid = spec.gid
        /\ spec.groups # {} => c.groups = spec.groups /\ ~c.inherited
        /\ c.bounding = spec.bounding
        /\ c.permitted \subseteq spec.bounding \cup spec.inheritable \cup spec.ambient
        /\ spec.noNewPrivs \/ spec.uid # 0 => c.permitted \subseteq spec.permitted
        /\ c.noNewPrivs = spec.noNewPrivs /\ c.filter = spec.seccomp
        /\ limited

\* The ambient set is what survives execve: the user's command has all of it,
\* whoever it runs as.
AmbientSurvives == pc = "user" => spec.ambient \subseteq cred[on].effective

\* The spec's capability sets fit together.
Consistent ==
    /\ spec.effective \subseteq spec.permitted
    /\ spec.ambient \subseteq spec.permitted \cap spec.inheritable
    /\ spec.inheritable \subseteq spec.bounding
    /\ spec.seccomp => spec.noNewPrivs \/ "SYS_ADMIN" \in spec.effective

Permitted ==
    /\ spec.wrong = "nothing" /\ Consistent
    /\ spec.raises => host.initial
    /\ spec.groups # {} => host.setgroups

\* A spec that fits together, on a host that permits it, is not refused, if it
\* keeps root or leaves the bounding set alone.
RefusedForCause ==
    pc = "failed" => ~Permitted \/ (spec.uid # 0 /\ spec.bounding # Caps)

\* "Bounding first, while we still hold CAP_SETPCAP" (capabilities.go) and "KEEPCAPS
\* first so caps survive" (init.go): a user other than root is no reason either.
OtherUsersRun == pc = "failed" => ~Permitted

\* A command has no groups but those of its spec.
NoInheritedGroups == pc = "user" => ~cred[on].inherited
=============================================================================

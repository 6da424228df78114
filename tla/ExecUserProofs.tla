--------------------------- MODULE ExecUserProofs ---------------------------
(***************************************************************************)
(* If the scheduler moves the goroutine only before its first change of    *)
(* credentials, then for every spec, host and set of capabilities the      *)
(* user's command is confined as the spec asks and has its ambient         *)
(* capabilities, and init fails only for cause.  IInv says what each step  *)
(* has set for the ones after it, RInv which privileges it has left them.  *)
(*                                                                         *)
(* Wherever it moves the goroutine, the command's seccomp filter is in     *)
(* force and decides on every system call as its profile says, for every   *)
(* profile that compiles and every table of system calls.                  *)
(***************************************************************************)
EXTENDS Sandbox, SequenceTheorems, FiniteSetTheorems, WellFoundedInduction, TLAPS

Early == {"resolve", "limits"}

MovesEarly == MovesAt \subseteq Early

Typed ==
    /\ spec \in SpecType /\ on \in Threads
    /\ pc \in Steps \cup {"user", "failed"}
    /\ cred \in [Threads -> CredType]
    /\ todo \subseteq Caps

\* The steps by what comes before them.
UserPart == {"keepCaps", "groups", "gid", "uid", "unkeepCaps"}
CapsPart == {"policy", "bounding", "clearAmbient", "capset", "ambient"}
LastPart == {"noNewPrivs", "seccomp", "exec"}
Switched == CapsPart \cup LastPart

\* The user: groups before gid before uid.
UserSet(c) ==
    /\ pc \in {"gid", "uid", "unkeepCaps"} \cup Switched =>
          (spec.groups # {} => c.groups = spec.groups /\ ~c.inherited)
    /\ pc \in {"uid", "unkeepCaps"} \cup Switched => c.gid = spec.gid
    /\ pc \in {"unkeepCaps"} \cup Switched => c.uid = spec.uid

\* The capabilities: bounding before capset before ambient.
CapsSet(c) ==
    /\ pc \in Early \cup UserPart \cup {"policy"} => c.bounding = Caps
    /\ pc = "bounding" => c.bounding = spec.bounding \cup todo /\ todo \cap spec.bounding = {}
    /\ pc \in {"clearAmbient", "capset", "ambient"} \cup LastPart => c.bounding = spec.bounding
    /\ pc = "capset" => c.ambient = {}
    /\ pc = "ambient" => c.ambient \cup todo = spec.ambient
    /\ pc \in {"ambient"} \cup LastPart =>
          /\ c.permitted = spec.permitted /\ c.inheritable = spec.inheritable
          /\ c.ambient \subseteq c.permitted \cap c.inheritable
    /\ pc \in LastPart => c.ambient = spec.ambient

\* no_new_privs and the filter come last.
LastSet(c) ==
    /\ pc \in Early \cup UserPart \cup CapsPart \cup {"noNewPrivs"} => ~c.noNewPrivs
    /\ pc \in Early \cup UserPart \cup CapsPart \cup {"noNewPrivs", "seccomp"} => ~c.filter
    /\ pc \in {"seccomp", "exec"} => c.noNewPrivs = spec.noNewPrivs
    /\ pc = "noNewPrivs" => spec.noNewPrivs
    /\ pc = "seccomp" => spec.seccomp
    /\ pc = "exec" => c.filter = spec.seccomp

IInv ==
    /\ Typed
    /\ pc \in Early => cred = [t \in Threads |-> Root]
    /\ pc \in UserPart \cup Switched => limited
    /\ UserSet(cred[on]) /\ CapsSet(cred[on]) /\ LastSet(cred[on])
    /\ Confined

\* The initial credentials are credentials.
LEMMA RootTyped == Root \in CredType
  BY DEF Root, CredType

\* The initial states satisfy the invariant.
LEMMA InitInductive == Init => IInv
  BY RootTyped, SpecsAssumption
  DEF Init, IInv, Typed, Steps, Early, UserPart, CapsPart, LastPart, Switched,
      UserSet, CapsSet, LastSet, Confined, Root

\* Moving the goroutine before any change of credentials changes nothing.
LEMMA MigrateInductive == ASSUME MovesEarly, IInv, Migrate PROVE IInv'
  BY DEF MovesEarly, IInv, Migrate, Typed, Early, UserPart, CapsPart, LastPart, Switched,
      UserSet, CapsSet, LastSet, Confined

\* The steps up to the limits leave the credentials alone.
LEMMA EarlyInductive ==
  ASSUME IInv, ResolveBinary \/ ApplyProcessLimits PROVE IInv'
<1>1. CASE ResolveBinary
  BY <1>1 DEF ResolveBinary, Step, IInv, Typed, Steps, Early, UserPart, CapsPart, LastPart, Switched,
      UserSet, CapsSet, LastSet, Confined
<1>2. CASE ApplyProcessLimits
  BY <1>2 DEF ApplyProcessLimits, AfterLimits, Step, IInv, Typed, Steps, Early, UserPart, CapsPart,
      LastPart, Switched, UserSet, CapsSet, LastSet, Confined, Root
<1> QED
  BY <1>1, <1>2

\* What a step leaves alone of the credentials.
SameUser(c, d) ==
    d.uid = c.uid /\ d.gid = c.gid /\ d.groups = c.groups /\ d.inherited = c.inherited
SameSets(c, d) ==
    d.permitted = c.permitted /\ d.inheritable = c.inheritable /\ d.ambient = c.ambient
SameLast(c, d) == d.noNewPrivs = c.noNewPrivs /\ d.filter = c.filter

\* The credentials after each change of a field.
LEMMA KeepCapsChange ==
  ASSUME NEW c \in CredType, NEW b \in BOOLEAN
  PROVE  LET d == [c EXCEPT !.keepCaps = b] IN
         /\ d \in CredType /\ SameUser(c, d) /\ d.bounding = c.bounding
         /\ SameSets(c, d) /\ SameLast(c, d)
  BY DEF CredType, SameUser, SameSets, SameLast

\* setgroups (init.go:284) sets the groups, and no others are left.
LEMMA GroupsChange ==
  ASSUME NEW c \in CredType, NEW G \in SUBSET Nat
  PROVE  LET d == [c EXCEPT !.groups = G, !.inherited = FALSE] IN
         /\ d \in CredType /\ d.groups = G /\ ~d.inherited
         /\ d.bounding = c.bounding /\ SameLast(c, d)
  BY DEF CredType, SameLast

\* setgid (init.go:290) sets the group.
LEMMA GidChange ==
  ASSUME NEW c \in CredType, NEW g \in Nat
  PROVE  LET d == [c EXCEPT !.gid = g] IN
         /\ d \in CredType /\ d.gid = g
         /\ d.groups = c.groups /\ d.inherited = c.inherited
         /\ d.bounding = c.bounding /\ SameLast(c, d)
  BY DEF CredType, SameLast

\* A drop takes one capability from the bounding set.
LEMMA BoundingChange ==
  ASSUME NEW c \in CredType, NEW cap
  PROVE  LET d == [c EXCEPT !.bounding = @ \ {cap}] IN
         /\ d \in CredType /\ SameUser(c, d) /\ d.bounding = c.bounding \ {cap}
         /\ SameLast(c, d)
  BY DEF CredType, SameUser, SameLast

\* PR_CAP_AMBIENT changes the ambient set.
LEMMA AmbientChange ==
  ASSUME NEW c \in CredType, NEW A \in SUBSET Caps
  PROVE  LET d == [c EXCEPT !.ambient = A] IN
         /\ d \in CredType /\ SameUser(c, d) /\ d.bounding = c.bounding /\ d.ambient = A
         /\ d.permitted = c.permitted /\ d.inheritable = c.inheritable /\ SameLast(c, d)
  BY DEF CredType, SameUser, SameLast

\* PR_SET_NO_NEW_PRIVS sets the flag.
LEMMA NoNewPrivsChange ==
  ASSUME NEW c \in CredType
  PROVE  LET d == [c EXCEPT !.noNewPrivs = TRUE] IN
         /\ d \in CredType /\ SameUser(c, d) /\ d.bounding = c.bounding
         /\ SameSets(c, d) /\ d.noNewPrivs = TRUE /\ d.filter = c.filter
  BY DEF CredType, SameUser, SameSets

\* A change of one thread's credentials.
LEMMA ChangeTyped ==
  ASSUME cred \in [Threads -> CredType], on \in Threads, NEW c \in CredType, Change(c)
  PROVE  cred' \in [Threads -> CredType] /\ cred'[on] = c
  BY DEF Change

\* The steps of setupUser set groups, gid and uid and leave the bounding set,
\* no_new_privs and the filter alone.
LEMMA UserInductive == ASSUME IInv, SetupUser PROVE IInv'
<1> DEFINE c == cred[on]
           d == cred'[on]
<1> SUFFICES /\ cred' \in [Threads -> CredType]
             /\ d.bounding = c.bounding /\ SameLast(c, d)
             /\ \/ UNCHANGED cred /\ pc' = "failed"
                \/ KeepCaps /\ SameUser(c, d)
                \/ Setgroups /\ pc' = "gid" /\ d.groups = spec.groups /\ ~d.inherited
                \/ /\ Setgid /\ pc' = "uid" /\ d.gid = spec.gid
                   /\ d.groups = c.groups /\ d.inherited = c.inherited
                \/ /\ Setuid /\ pc' = "unkeepCaps" /\ d.uid = spec.uid /\ d.gid = c.gid
                   /\ d.groups = c.groups /\ d.inherited = c.inherited
                \/ UnkeepCaps /\ SameUser(c, d)
  <2>1. /\ UNCHANGED <<spec, on, limited, todo>> /\ limited
        /\ pc \in UserPart /\ pc' \in UserPart \cup {"policy", "failed"}
    BY DEF SetupUser, KeepCaps, Setgroups, Setgid, Setuid, UnkeepCaps, Step, UserPart, IInv
  <2>2. Typed' /\ Confined'
    BY <2>1 DEF IInv, Typed, Steps, UserPart, Confined
  <2>3. CapsSet(cred[on])' /\ LastSet(cred[on])'
    BY <2>1 DEF IInv, CapsSet, LastSet, UserPart, CapsPart, LastPart, Early, SameLast
  <2>4. UserSet(cred[on])'
    BY <2>1 DEF IInv, UserSet, UserPart, Switched, CapsPart, LastPart, SameUser,
               KeepCaps, Setgroups, Setgid, Setuid, UnkeepCaps, Step
  <2> QED
    BY <2>1, <2>2, <2>3, <2>4 DEF IInv, UserPart, Early
<1>0. /\ cred \in [Threads -> CredType] /\ on \in Threads /\ c \in CredType
      /\ spec.groups \in SUBSET Nat /\ spec.gid \in Nat /\ spec.uid \in Nat
  BY DEF IInv, Typed, SpecType
<1>1. CASE KeepCaps
  BY <1>0, <1>1, KeepCapsChange, ChangeTyped DEF KeepCaps
<1>2. CASE Setgroups
  <2>1. CASE UNCHANGED cred /\ pc' = "failed"
    BY <1>0, <2>1 DEF SameLast
  <2>2. CASE /\ pc' = "gid"
             /\ cred' = [t \in Threads |-> [cred[t] EXCEPT !.groups = spec.groups,
                                                           !.inherited = FALSE]]
    <3>1. ASSUME NEW t \in Threads
          PROVE  cred'[t] \in CredType
      BY <1>0, <2>2, GroupsChange
    <3>2. cred' \in [Threads -> CredType]
      BY <2>2, <3>1
    <3> QED
      BY <1>0, <1>2, <2>2, <3>2, GroupsChange
  <2> QED
    BY <1>2, <2>1, <2>2 DEF Setgroups, Step, ChangeAll
<1>3. CASE Setgid
  <2>1. CASE UNCHANGED cred /\ pc' = "failed"
    BY <1>0, <2>1 DEF SameLast
  <2>2. CASE pc' = "uid" /\ cred' = [t \in Threads |-> [cred[t] EXCEPT !.gid = spec.gid]]
    <3>1. ASSUME NEW t \in Threads
          PROVE  cred'[t] \in CredType
      BY <1>0, <2>2, GidChange
    <3>2. cred' \in [Threads -> CredType]
      BY <2>2, <3>1
    <3> QED
      BY <1>0, <1>3, <2>2, <3>2, GidChange
  <2> QED
    BY <1>3, <2>1, <2>2 DEF Setgid, Step, ChangeAll
<1>4. CASE Setuid
  <2>1. CASE UNCHANGED cred /\ pc' = "failed"
    BY <1>0, <2>1 DEF SameLast
  <2>2. CASE pc' = "unkeepCaps" /\ cred' = [t \in Threads |-> AfterSetuid(cred[t], spec.uid)]
    <3>1. ASSUME NEW e \in CredType
          PROVE  LET f == AfterSetuid(e, spec.uid) IN
                 /\ f \in CredType /\ f.uid = spec.uid /\ f.gid = e.gid
                 /\ f.groups = e.groups /\ f.inherited = e.inherited
                 /\ f.bounding = e.bounding /\ SameLast(e, f)
      BY <1>0 DEF AfterSetuid, CredType, SameLast
    <3> QED
      BY <1>0, <1>4, <2>2, <3>1
  <2> QED
    BY <1>4, <2>1, <2>2 DEF Setuid, Step, ChangeAll
<1>5. CASE UnkeepCaps
  BY <1>0, <1>5, KeepCapsChange, ChangeTyped DEF UnkeepCaps
<1> QED
  BY <1>1, <1>2, <1>3, <1>4, <1>5 DEF SetupUser

\* The steps of ApplyCapabilities leave the five sets as the spec has them.
LEMMA CapsInductive == ASSUME IInv, ApplyCapabilities PROVE IInv'
<1> DEFINE c == cred[on]
           d == cred'[on]
<1> SUFFICES /\ cred' \in [Threads -> CredType] /\ todo' \subseteq Caps
             /\ SameUser(c, d) /\ SameLast(c, d) /\ CapsSet(cred[on])'
  <2>1. /\ UNCHANGED <<spec, on, limited>> /\ limited
        /\ pc \in CapsPart /\ pc' \in CapsPart \cup LastPart \cup {"failed"}
        /\ pc' = "noNewPrivs" => spec.noNewPrivs
        /\ pc' = "seccomp" => spec.seccomp /\ ~spec.noNewPrivs
        /\ pc' = "exec" => ~spec.seccomp /\ ~spec.noNewPrivs
    BY DEF ApplyCapabilities, ResolveCapabilities, DropBounding, ClearAmbient, Capset, RaiseAmbient,
           AfterCaps, Step, CapsPart, LastPart, Switched, IInv
  <2>2. Typed' /\ Confined'
    BY <2>1 DEF IInv, Typed, Steps, CapsPart, LastPart, Confined
  <2>3. UserSet(cred[on])'
    BY <2>1 DEF IInv, UserSet, Switched, CapsPart, LastPart, SameUser
  <2>4. spec.noNewPrivs \in BOOLEAN /\ spec.seccomp \in BOOLEAN
        /\ d.noNewPrivs \in BOOLEAN /\ d.filter \in BOOLEAN
        /\ c.noNewPrivs \in BOOLEAN /\ c.filter \in BOOLEAN
    BY <2>1 DEF IInv, Typed, SpecType, CredType
  <2>5. LastSet(cred[on])'
    BY <2>1, <2>4 DEF IInv, LastSet, UserPart, CapsPart, LastPart, Early, SameLast
  <2> QED
    BY <2>1, <2>2, <2>3, <2>5 DEF IInv, CapsPart, LastPart, Early
<1>0. /\ cred \in [Threads -> CredType] /\ on \in Threads /\ c \in CredType
      /\ spec.bounding \in SUBSET Caps /\ spec.permitted \in SUBSET Caps
      /\ spec.effective \in SUBSET Caps /\ spec.inheritable \in SUBSET Caps
      /\ spec.ambient \in SUBSET Caps
      /\ c.bounding \subseteq Caps /\ c.ambient \subseteq Caps /\ todo \subseteq Caps
      /\ CapsSet(c)
  BY DEF IInv, Typed, SpecType, CredType
<1> USE DEF Early, UserPart, LastPart
<1>6. CASE UNCHANGED cred /\ todo' \subseteq Caps /\ pc' = "failed"
  BY <1>0, <1>6 DEF SameUser, SameLast, CapsSet
<1>1. CASE ResolveCapabilities
  BY <1>0, <1>1 DEF ResolveCapabilities, Step, SameUser, SameLast, CapsSet
<1>2. CASE DropBounding
  <2>1. CASE todo = {}
    BY <1>0, <1>2, <2>1 DEF DropBounding, Step, SameUser, SameLast, CapsSet
  <2>2. CASE todo # {} /\ pc' # "failed"
    <3>1. PICK cap \in todo : /\ todo' = todo \ {cap} /\ Change([c EXCEPT !.bounding = @ \ {cap}])
                              /\ pc = "bounding" /\ pc' = "bounding" /\ UNCHANGED <<spec, on>>
      BY <1>2, <2>2 DEF DropBounding, Step
    <3> DEFINE e == [c EXCEPT !.bounding = @ \ {cap}]
    <3>2. e \in CredType /\ e.bounding = c.bounding \ {cap} /\ SameUser(c, e) /\ SameLast(c, e)
      BY <1>0, BoundingChange
    <3>3. cred' \in [Threads -> CredType] /\ d = e
      BY <1>0, <3>1, <3>2, ChangeTyped
    <3> QED
      BY <1>0, <3>1, <3>2, <3>3 DEF CapsSet
  <2>3. CASE todo # {} /\ pc' = "failed"
    BY <1>0, <1>2, <1>6, <2>3 DEF DropBounding, Step
  <2> QED
    BY <2>1, <2>2, <2>3
<1>3. CASE ClearAmbient
  <2> DEFINE e == [c EXCEPT !.ambient = {}]
  <2>1. e \in CredType /\ e.ambient = {} /\ SameUser(c, e) /\ SameLast(c, e) /\ e.bounding = c.bounding
    BY <1>0, AmbientChange
  <2>2. cred' \in [Threads -> CredType] /\ d = e
    BY <1>0, <1>3, <2>1, ChangeTyped DEF ClearAmbient
  <2> QED
    BY <1>0, <1>3, <2>1, <2>2 DEF ClearAmbient, Step, CapsSet
<1>4. CASE Capset
  <2>1. CASE pc' = "failed"
    BY <1>0, <1>4, <1>6, <2>1 DEF Capset, Step
  <2>2. CASE /\ pc = "capset" /\ pc' = "ambient" /\ todo' = spec.ambient /\ UNCHANGED <<spec, on>>
             /\ Change([c EXCEPT !.permitted = spec.permitted,
                            !.effective = spec.effective, !.inheritable = spec.inheritable])
    <3> DEFINE e == [c EXCEPT !.permitted = spec.permitted,
                            !.effective = spec.effective, !.inheritable = spec.inheritable]
    <3>1. /\ e \in CredType /\ SameUser(c, e) /\ SameLast(c, e) /\ e.bounding = c.bounding
          /\ e.permitted = spec.permitted /\ e.inheritable = spec.inheritable
          /\ e.ambient = c.ambient
      BY <1>0 DEF CredType, SameUser, SameLast
    <3>2. cred' \in [Threads -> CredType] /\ d = e
      BY <1>0, <2>2, <3>1, ChangeTyped
    <3> QED
      BY <1>0, <2>2, <3>1, <3>2 DEF CapsSet
  <2> QED
    BY <1>4, <2>1, <2>2 DEF Capset, Step
<1>5. CASE RaiseAmbient
  <2>1. CASE todo = {}
    BY <1>0, <1>5, <2>1 DEF RaiseAmbient, AfterCaps, Step, SameUser, SameLast, CapsSet
  <2>2. CASE todo # {} /\ pc' # "failed"
    <3>1. PICK cap \in todo : /\ todo' = todo \ {cap} /\ Change([c EXCEPT !.ambient = @ \cup {cap}])
                              /\ pc = "ambient" /\ pc' = "ambient" /\ UNCHANGED <<spec, on>>
                              /\ cap \in c.permitted \cap c.inheritable
      BY <1>5, <2>2 DEF RaiseAmbient, Step
    <3>2. c.ambient \cup {cap} \in SUBSET Caps
      BY <1>0
    <3> DEFINE P == c.ambient \cup {cap}
               e == [c EXCEPT !.ambient = P]
    <3>3. /\ e \in CredType /\ e.ambient = P /\ SameUser(c, e) /\ SameLast(c, e)
          /\ e.bounding = c.bounding /\ e.permitted = c.permitted /\ e.inheritable = c.inheritable
      BY <1>0, <3>2, AmbientChange
    <3>4. cred' \in [Threads -> CredType] /\ d = e
      BY <1>0, <3>1, <3>3, ChangeTyped
    <3> QED
      BY <1>0, <3>1, <3>3, <3>4 DEF CapsSet
  <2>3. CASE todo # {} /\ pc' = "failed"
    BY <1>0, <1>5, <1>6, <2>3 DEF RaiseAmbient, Step
  <2> QED
    BY <2>1, <2>2, <2>3
<1> QED
  BY <1>1, <1>2, <1>3, <1>4, <1>5 DEF ApplyCapabilities

\* no_new_privs, the filter and execve.
LEMMA LastInductive == ASSUME IInv, SetNoNewPrivs \/ ApplySeccomp \/ Exec PROVE IInv'
<1> DEFINE c == cred[on]
           d == cred'[on]
<1>0. /\ cred \in [Threads -> CredType] /\ on \in Threads /\ c \in CredType /\ spec \in SpecType
      /\ spec.noNewPrivs \in BOOLEAN /\ spec.seccomp \in BOOLEAN
      /\ c.noNewPrivs \in BOOLEAN /\ c.filter \in BOOLEAN
  BY DEF IInv, Typed, SpecType, CredType
<1>4. ASSUME /\ UNCHANGED <<spec, on, limited, todo>> /\ cred' \in [Threads -> CredType]
             /\ SameUser(c, d) /\ d.bounding = c.bounding /\ SameSets(c, d)
             /\ pc \in LastPart /\ pc' \in (LastPart \ {"noNewPrivs"}) \cup {"failed"}
             /\ LastSet(cred[on])'
      PROVE  IInv'
  <2>1. Typed' /\ Confined'
    BY <1>4 DEF IInv, Typed, Steps, LastPart, Confined
  <2>2. UserSet(cred[on])'
    BY <1>4 DEF IInv, UserSet, Switched, LastPart, CapsPart, SameUser
  <2>3. CapsSet(cred[on])'
    BY <1>4 DEF IInv, CapsSet, UserPart, LastPart, Early, SameSets
  <2> QED
    BY <1>4, <2>1, <2>2, <2>3 DEF IInv, Switched, LastPart, Early
<1>1. CASE SetNoNewPrivs
  <2>1. /\ cred' \in [Threads -> CredType] /\ SameUser(c, d) /\ d.bounding = c.bounding
        /\ SameSets(c, d) /\ d.noNewPrivs = TRUE /\ d.filter = c.filter
    BY <1>0, <1>1, NoNewPrivsChange, ChangeTyped DEF SetNoNewPrivs
  <2>2. LastSet(cred[on])'
    BY <1>0, <1>1, <2>1 DEF SetNoNewPrivs, Step, IInv, LastSet, Early, UserPart, CapsPart
  <2> QED
    BY <1>1, <1>4, <2>1, <2>2 DEF SetNoNewPrivs, Step, LastPart
<1>2. CASE ApplySeccomp
  <2>1. CASE UNCHANGED cred /\ pc' = "failed"
    <3>1. LastSet(cred[on])'
      BY <2>1 DEF LastSet, Early, UserPart, CapsPart
    <3>2. SameUser(c, d) /\ d.bounding = c.bounding /\ SameSets(c, d) /\ cred' \in [Threads -> CredType]
      BY <1>0, <1>2, <2>1 DEF ApplySeccomp, SameUser, SameSets
    <3> QED
      <4>1. UNCHANGED <<spec, on, limited, todo>> /\ pc \in LastPart
        BY <1>2 DEF ApplySeccomp, Step, LastPart
      <4>2. pc' \in (LastPart \ {"noNewPrivs"}) \cup {"failed"}
        BY <2>1
      <4> QED
        BY <1>4, <3>1, <3>2, <4>1, <4>2
  <2>2. CASE /\ pc' = "exec"
             /\ cred' = [t \in Threads |-> [cred[t] EXCEPT !.filter = TRUE,
                                              !.noNewPrivs = @ \/ cred[on].noNewPrivs]]
    <3>1. ASSUME NEW e \in CredType, NEW b \in BOOLEAN
          PROVE  LET f == [e EXCEPT !.filter = TRUE, !.noNewPrivs = b] IN
                 /\ f \in CredType /\ SameUser(e, f) /\ f.bounding = e.bounding
                 /\ SameSets(e, f) /\ f.noNewPrivs = b /\ f.filter = TRUE
      BY DEF CredType, SameUser, SameSets
    <3>2. ASSUME NEW t \in Threads
          PROVE  /\ cred'[t] = [cred[t] EXCEPT !.filter = TRUE,
                                   !.noNewPrivs = cred[t].noNewPrivs \/ c.noNewPrivs]
                 /\ (cred[t].noNewPrivs \/ c.noNewPrivs) \in BOOLEAN
      BY <1>0, <2>2
    <3>3. ASSUME NEW t \in Threads
          PROVE  cred'[t] \in CredType
      <4> DEFINE b == cred[t].noNewPrivs \/ c.noNewPrivs
      <4>1. [cred[t] EXCEPT !.filter = TRUE, !.noNewPrivs = b] \in CredType
        BY <1>0, <3>1, <3>2
      <4> QED
        BY <3>2, <4>1
    <3>4. cred' \in [Threads -> CredType]
      BY <1>0, <2>2, <3>3
    <3>5. d = [c EXCEPT !.filter = TRUE, !.noNewPrivs = c.noNewPrivs]
      BY <1>0, <3>2
    <3>6. /\ SameUser(c, d) /\ d.bounding = c.bounding
          /\ SameSets(c, d) /\ d.noNewPrivs = c.noNewPrivs /\ d.filter = TRUE
      <4>1. LET f == [c EXCEPT !.filter = TRUE, !.noNewPrivs = c.noNewPrivs] IN
            /\ SameUser(c, f) /\ f.bounding = c.bounding
            /\ SameSets(c, f) /\ f.noNewPrivs = c.noNewPrivs /\ f.filter = TRUE
        BY <1>0, <3>1
      <4> QED
        BY <3>5, <4>1
    <3>7. LastSet(cred[on])'
      BY <1>0, <1>2, <2>2, <3>6
      DEF ApplySeccomp, Step, IInv, LastSet, Early, UserPart, CapsPart
    <3> QED
      BY <1>2, <1>4, <2>2, <3>4, <3>6, <3>7 DEF ApplySeccomp, Step, LastPart
  <2> QED
    BY <1>2, <2>1, <2>2 DEF ApplySeccomp, Step, ChangeAll
<1>3. CASE Exec
  <2>1. d = AfterExec(c) /\ pc = "exec" /\ pc' = "user" /\ UNCHANGED <<spec, on, limited, todo>>
    BY <1>0, <1>3 DEF Exec, Change, Step
  <2>2. ASSUME NEW e \in CredType
        PROVE  LET f == AfterExec(e) IN
               /\ f \in CredType /\ SameUser(e, f) /\ f.bounding = e.bounding /\ SameLast(e, f)
               /\ f.permitted \subseteq e.bounding \cup e.inheritable \cup e.ambient
               /\ e.noNewPrivs \/ e.uid # 0 => f.permitted \subseteq e.permitted \cup e.ambient
    BY DEF AfterExec, CredType, SameUser, SameLast
  <2>3. cred' \in [Threads -> CredType]
    BY <1>0, <1>3, <2>2 DEF Exec, Change
  <2>4. Confined'
    <3>1. /\ SameUser(c, d) /\ d.bounding = c.bounding /\ SameLast(c, d)
          /\ d.permitted \subseteq c.bounding \cup c.inheritable \cup c.ambient
          /\ c.noNewPrivs \/ c.uid # 0 => d.permitted \subseteq c.permitted \cup c.ambient
      BY <1>0, <2>1, <2>2
    <3>2. /\ c.uid = spec.uid /\ c.gid = spec.gid
          /\ spec.groups # {} => c.groups = spec.groups /\ ~c.inherited
          /\ c.bounding = spec.bounding /\ c.permitted = spec.permitted
          /\ c.inheritable = spec.inheritable /\ c.ambient = spec.ambient
          /\ c.ambient \subseteq c.permitted
          /\ c.noNewPrivs = spec.noNewPrivs /\ c.filter = spec.seccomp /\ limited
      BY <2>1 DEF IInv, UserSet, CapsSet, LastSet, Switched, LastPart
    <3> QED
      BY <2>1, <3>1, <3>2 DEF Confined, SameUser, SameLast
  <2> QED
    BY <1>0, <2>1, <2>3, <2>4 DEF IInv, Typed, Steps, UserSet, CapsSet, LastSet,
                                  Early, UserPart, CapsPart, LastPart, Switched
<1> QED
  BY <1>1, <1>2, <1>3

\* Every step preserves the invariant.
LEMMA StepInductive == MovesEarly /\ IInv /\ [Next]_vars => IInv'
<1> SUFFICES ASSUME MovesEarly, IInv, [Next]_vars PROVE IInv'
  OBVIOUS
<1>1. CASE UNCHANGED vars
  BY <1>1 DEF vars, IInv, Typed, UserSet, CapsSet, LastSet, Confined
<1> QED
  BY <1>1, MigrateInductive, EarlyInductive, UserInductive, CapsInductive, LastInductive DEF Next

\* "ApplyCapabilities reduces the process to exactly what the spec asks for", and
\* with it user, limits, no_new_privs and filter, whatever the spec is, as long as
\* the goroutine stays on its thread once it changes credentials.
THEOREM CommandIsConfined == MovesEarly => (Spec => []Confined)
<1> SUFFICES ASSUME MovesEarly PROVE Spec => []Confined
  OBVIOUS
<1>1. IInv => Confined
  BY DEF IInv
<1> QED
  BY InitInductive, StepInductive, <1>1, PTL DEF Spec
----------------------------------------------------------------------------
(* Refusals *)

\* The specs that the model promises to run.
Runnable == Permitted /\ (spec.uid = 0 \/ spec.bounding = Caps)

\* What the steps to come need: the user part all privileges on every thread,
\* capset the permitted set that KEEPCAPS saves, the drops from the bounding set
\* SETPCAP, unless there is nothing to drop.
Capable ==
    /\ pc \in {"keepCaps", "groups", "gid", "uid"} =>
          \A t \in Threads : /\ cred[t].uid = 0 /\ cred[t].effective = Caps
                             /\ cred[t].permitted = Caps
    /\ pc \in {"groups", "gid", "uid"} => cred[on].keepCaps
    /\ pc = "groups" => spec.groups # {}
    /\ pc \in {"unkeepCaps", "policy", "bounding", "clearAmbient", "capset"} =>
          /\ cred[on].permitted = Caps
          /\ spec.uid = 0 => cred[on].effective = Caps
    /\ pc = "bounding" => todo \subseteq Caps \ spec.bounding
    /\ pc = "ambient" => todo \subseteq spec.ambient
    /\ pc \in {"ambient"} \cup LastPart => cred[on].effective = spec.effective

\* Only the thread that changes the user has KEEPCAPS, and only meanwhile.
KeepsCaps ==
    \A t \in Threads : cred[t].keepCaps =>
        t = on /\ pc \in {"groups", "gid", "uid", "unkeepCaps", "failed"}

RInv ==
    /\ host \in HostType /\ limited \in BOOLEAN
    /\ KeepsCaps /\ Capable
    /\ AmbientSurvives /\ RefusedForCause

\* Root's credentials are all there is to have.
LEMMA RootCapable ==
  Root.uid = 0 /\ Root.effective = Caps /\ Root.permitted = Caps /\ ~Root.keepCaps
  BY DEF Root

\* A refusal is one of a spec that is not runnable; and once init has failed or
\* become the user's command, nothing changes.
LEMMA RefusalOfRunnable == RefusedForCause <=> (pc = "failed" => ~Runnable)
  BY DEF RefusedForCause, Runnable

\* Root's credentials have what all steps need.
LEMMA RInvInit == Init => RInv
<1> SUFFICES ASSUME Init PROVE RInv
  OBVIOUS
<1>1. \A t \in Threads : cred[t] = Root
  BY DEF Init
<1> QED
  BY <1>1, RootCapable, HostsAssumption
  DEF Init, RInv, KeepsCaps, Capable, LastPart, AmbientSurvives, RefusedForCause

\* What a change of one thread's credentials says of all.
LEMMA ChangeOne ==
  ASSUME cred \in [Threads -> CredType], on \in Threads, NEW c, Change(c)
  PROVE  /\ cred'[on] = c
         /\ \A t \in Threads : t # on => cred'[t] = cred[t]
  BY DEF Change

\* The steps up to the limits, and the moves before them.
LEMMA EarlyRefused ==
  ASSUME IInv, RInv, MovesEarly, ResolveBinary \/ ApplyProcessLimits \/ Migrate PROVE RInv'
<1>1. \A t \in Threads : pc \in Early => cred[t] = Root
  BY DEF IInv
<1>2. on \in Threads /\ on' \in Threads
  BY DEF IInv, Typed, ResolveBinary, ApplyProcessLimits, Migrate
<1>3. UNCHANGED <<spec, host, cred>> /\ pc \in Early /\ pc' \in Early \cup {"keepCaps", "policy", "failed"}
  BY DEF ResolveBinary, ApplyProcessLimits, AfterLimits, Step, Migrate, MovesEarly, Early
<1>4. limited' \in BOOLEAN
  BY DEF RInv, ResolveBinary, ApplyProcessLimits, Migrate
<1>5. pc' = "failed" => ~Runnable'
  <2>1. CASE ResolveBinary
    BY <2>1 DEF ResolveBinary, Step, Runnable, Permitted
  <2>2. CASE ApplyProcessLimits
    <3>1. "SYS_RESOURCE" \in cred[on].effective
      BY <1>1, <1>2, <1>3, RootCapable, CapsAssumption DEF Needed
    <3> QED
      BY <2>2, <3>1 DEF ApplyProcessLimits, AfterLimits, Step, Runnable, Permitted
  <2>3. CASE Migrate
    BY <1>3, <2>3 DEF Migrate, Early
  <2> QED
    BY <2>1, <2>2, <2>3
<1>6. KeepsCaps' /\ Capable' /\ AmbientSurvives'
  BY <1>1, <1>2, <1>3, RootCapable DEF KeepsCaps, Capable, AmbientSurvives, Early, LastPart
<1>7. RefusedForCause'
  BY <1>3, <1>5 DEF Runnable, Permitted, Consistent, RefusedForCause
<1> QED
  BY <1>3, <1>4, <1>6, <1>7 DEF RInv

\* Of a change to credentials: what privileges are left.
SamePrivileges(c, d) ==
    d.uid = c.uid /\ d.effective = c.effective /\ d.permitted = c.permitted

\* PR_SET_KEEPCAPS changes nothing but the flag.
LEMMA KeepCapsKeeps ==
  ASSUME NEW c \in CredType, NEW b \in BOOLEAN
  PROVE  LET d == [c EXCEPT !.keepCaps = b] IN SamePrivileges(c, d) /\ d.keepCaps = b
  BY DEF CredType, SamePrivileges

\* setgroups takes no privileges.
LEMMA GroupsKeep ==
  ASSUME NEW c \in CredType, NEW G
  PROVE  LET d == [c EXCEPT !.groups = G, !.inherited = FALSE] IN
         SamePrivileges(c, d) /\ d.keepCaps = c.keepCaps
  BY DEF CredType, SamePrivileges

\* setgid takes no privileges.
LEMMA GidKeeps ==
  ASSUME NEW c \in CredType, NEW g
  PROVE  LET d == [c EXCEPT !.gid = g] IN SamePrivileges(c, d) /\ d.keepCaps = c.keepCaps
  BY DEF CredType, SamePrivileges

\* setuid leaves the permitted set under KEEPCAPS, and root everything.
LEMMA SetuidKeeps ==
  ASSUME NEW c \in CredType, NEW u \in Nat
  PROVE  LET d == AfterSetuid(c, u) IN
         /\ d.keepCaps = c.keepCaps
         /\ c.keepCaps \/ u = 0 => d.permitted = c.permitted
         /\ u = 0 => d.effective = c.effective
  BY DEF CredType, AfterSetuid

\* The user: root of its namespace may set groups, gid and uid.
LEMMA UserRefused == ASSUME IInv, RInv, SetupUser PROVE RInv'
<1>1. /\ cred \in [Threads -> CredType] /\ on \in Threads /\ spec \in SpecType
      /\ spec.uid \in Nat /\ spec.gid \in Nat /\ spec.groups \in SUBSET Nat
  BY DEF IInv, Typed, SpecType
<1>2. UNCHANGED <<spec, host, on, limited>>
  BY DEF SetupUser, KeepCaps, Setgroups, Setgid, Setuid, UnkeepCaps
<1>3. ASSUME pc' = "failed" => ~Runnable, KeepsCaps', Capable', pc' # "user" PROVE RInv'
  BY <1>2, <1>3 DEF RInv, AmbientSurvives, RefusedForCause, Runnable, Permitted, Consistent
<1>4. {"SETGID", "SETUID"} \subseteq Caps
  BY CapsAssumption DEF Needed
<1>c. KeepsCaps /\ Capable
  BY DEF RInv
<1>5. CASE KeepCaps
  <2>1. /\ pc = "keepCaps" /\ pc' \in {"groups", "gid"} /\ (pc' = "groups" => spec.groups # {})
        /\ cred'[on] = [cred[on] EXCEPT !.keepCaps = TRUE]
        /\ \A t \in Threads : t # on => cred'[t] = cred[t]
    BY <1>1, <1>5, ChangeOne DEF KeepCaps, Step
  <2>2. SamePrivileges(cred[on], cred'[on]) /\ cred'[on].keepCaps = TRUE
    BY <1>1, <2>1, KeepCapsKeeps
  <2> QED
    BY <1>c, <1>1, <1>2, <1>3, <2>1, <2>2 DEF KeepsCaps, Capable, LastPart, SamePrivileges
<1>6. CASE Setgroups
  <2>1. \A t \in Threads : "SETGID" \in cred[t].effective
    BY <1>c, <1>4, <1>6 DEF Setgroups, Step, Capable
  <2>2. pc = "groups" /\ pc' \in {"gid", "failed"} /\ (pc' = "failed" => ~Runnable)
    BY <1>c, <1>6, <2>1 DEF Setgroups, Step, Capable, Runnable, Permitted
  <2>3. \A t \in Threads : /\ SamePrivileges(cred[t], cred'[t])
                           /\ cred'[t].keepCaps = cred[t].keepCaps
    <3>1. CASE cred' = cred
      BY <3>1 DEF SamePrivileges
    <3>2. CASE cred' = [t \in Threads |-> [cred[t] EXCEPT !.groups = spec.groups, !.inherited = FALSE]]
      <4>1. \A t \in Threads : /\ cred[t] \in CredType
                               /\ cred'[t] = [cred[t] EXCEPT !.groups = spec.groups, !.inherited = FALSE]
        BY <1>1, <3>2
      <4>2. ASSUME NEW t \in Threads
            PROVE  SamePrivileges(cred[t], cred'[t]) /\ cred'[t].keepCaps = cred[t].keepCaps
        <5>1. cred[t] \in CredType /\ cred'[t] = [cred[t] EXCEPT !.groups = spec.groups, !.inherited = FALSE]
          BY <4>1
        <5>2. LET d == [cred[t] EXCEPT !.groups = spec.groups, !.inherited = FALSE] IN
              SamePrivileges(cred[t], d) /\ d.keepCaps = cred[t].keepCaps
          BY <5>1, GroupsKeep
        <5> QED
          BY <5>1, <5>2
      <4> QED
        BY <4>2
    <3> QED
      BY <1>6, <3>1, <3>2 DEF Setgroups, ChangeAll
  <2> QED
    BY <1>c, <1>1, <1>2, <1>3, <2>2, <2>3 DEF KeepsCaps, Capable, LastPart, SamePrivileges
<1>7. CASE Setgid
  <2>1. \A t \in Threads : "SETGID" \in cred[t].effective
    BY <1>c, <1>4, <1>7 DEF Setgid, Step, Capable
  <2>2. pc = "gid" /\ pc' = "uid"
    BY <1>7, <2>1 DEF Setgid, Step, MaySetgid
  <2>3. \A t \in Threads : /\ SamePrivileges(cred[t], cred'[t])
                           /\ cred'[t].keepCaps = cred[t].keepCaps
    <3>1. CASE cred' = cred
      BY <3>1 DEF SamePrivileges
    <3>2. CASE cred' = [t \in Threads |-> [cred[t] EXCEPT !.gid = spec.gid]]
      <4>1. \A t \in Threads : /\ cred[t] \in CredType
                               /\ cred'[t] = [cred[t] EXCEPT !.gid = spec.gid]
        BY <1>1, <3>2
      <4>2. ASSUME NEW t \in Threads
            PROVE  SamePrivileges(cred[t], cred'[t]) /\ cred'[t].keepCaps = cred[t].keepCaps
        <5>1. cred[t] \in CredType /\ cred'[t] = [cred[t] EXCEPT !.gid = spec.gid]
          BY <4>1
        <5>2. LET d == [cred[t] EXCEPT !.gid = spec.gid] IN
              SamePrivileges(cred[t], d) /\ d.keepCaps = cred[t].keepCaps
          BY <5>1, GidKeeps
        <5> QED
          BY <5>1, <5>2
      <4> QED
        BY <4>2
    <3> QED
      BY <1>7, <3>1, <3>2 DEF Setgid, ChangeAll
  <2> QED
    BY <1>c, <1>1, <1>2, <1>3, <2>2, <2>3 DEF KeepsCaps, Capable, LastPart, SamePrivileges
<1>8. CASE Setuid
  <2>1. \A t \in Threads : "SETUID" \in cred[t].effective
    BY <1>c, <1>4, <1>8 DEF Setuid, Step, Capable
  <2>2. pc = "uid" /\ pc' = "unkeepCaps" /\ cred' = [t \in Threads |-> AfterSetuid(cred[t], spec.uid)]
    BY <1>8, <2>1 DEF Setuid, Step, MaySetuid, ChangeAll
  <2>3. /\ \A t \in Threads : cred'[t].keepCaps = cred[t].keepCaps
        /\ cred[on].keepCaps \/ spec.uid = 0 => cred'[on].permitted = cred[on].permitted
        /\ spec.uid = 0 => cred'[on].effective = cred[on].effective
    <3>1. \A t \in Threads : cred[t] \in CredType /\ cred'[t] = AfterSetuid(cred[t], spec.uid)
      BY <1>1, <2>2
    <3> QED
      BY <1>1, <3>1, SetuidKeeps
  <2> QED
    BY <1>c, <1>1, <1>2, <1>3, <2>2, <2>3 DEF KeepsCaps, Capable, LastPart, SamePrivileges
<1>9. CASE UnkeepCaps
  <2>1. /\ pc = "unkeepCaps" /\ pc' = "policy"
        /\ cred'[on] = [cred[on] EXCEPT !.keepCaps = FALSE]
        /\ \A t \in Threads : t # on => cred'[t] = cred[t]
    BY <1>1, <1>9, ChangeOne DEF UnkeepCaps, Step
  <2>2. SamePrivileges(cred[on], cred'[on]) /\ cred'[on].keepCaps = FALSE
    BY <1>1, <2>1, KeepCapsKeeps
  <2> QED
    BY <1>c, <1>1, <1>2, <1>3, <2>1, <2>2 DEF KeepsCaps, Capable, LastPart, SamePrivileges
<1> QED
  BY <1>5, <1>6, <1>7, <1>8, <1>9 DEF SetupUser

\* The changes of the capability sets leave the others and KEEPCAPS as they are.
LEMMA SetsKept ==
  ASSUME NEW c \in CredType, NEW A \in SUBSET Caps
  PROVE  /\ LET d == [c EXCEPT !.bounding = A] IN
            d.effective = c.effective /\ d.permitted = c.permitted /\ d.keepCaps = c.keepCaps
         /\ LET d == [c EXCEPT !.ambient = A] IN
            d.effective = c.effective /\ d.permitted = c.permitted /\ d.keepCaps = c.keepCaps
         /\ LET d == [c EXCEPT !.permitted = spec.permitted, !.effective = spec.effective,
                               !.inheritable = spec.inheritable] IN
            d.effective = spec.effective /\ d.keepCaps = c.keepCaps
  BY DEF CredType

\* The capabilities: with SETPCAP, or nothing to drop, every step is allowed to a
\* spec whose sets fit together.
LEMMA CapsRefused == ASSUME IInv, RInv, ApplyCapabilities PROVE RInv'
<1> DEFINE c == cred[on]
           d == cred'[on]
<1>1. /\ cred \in [Threads -> CredType] /\ on \in Threads /\ c \in CredType /\ spec \in SpecType
      /\ todo \subseteq Caps
      /\ spec.bounding \subseteq Caps /\ spec.permitted \subseteq Caps /\ spec.effective \subseteq Caps
      /\ spec.inheritable \subseteq Caps /\ spec.ambient \subseteq Caps
      /\ c.bounding \subseteq Caps /\ c.ambient \subseteq Caps
  BY DEF IInv, Typed, SpecType, CredType
<1>2. UNCHANGED <<spec, host, on, limited>> /\ pc \in CapsPart
  BY DEF ApplyCapabilities, ResolveCapabilities, DropBounding, ClearAmbient, Capset, RaiseAmbient,
         Step, CapsPart
<1>c. KeepsCaps /\ Capable /\ CapsSet(c)
  BY DEF RInv, IInv
<1>4. "SETPCAP" \in Caps
  BY CapsAssumption DEF Needed
<1> HIDE DEF c, d
<1>3. ASSUME pc' = "failed" => ~Runnable, Capable', pc' # "user", d.keepCaps = c.keepCaps,
             \A t \in Threads : t # on => cred'[t] = cred[t]
      PROVE  RInv'
  <2>1. KeepsCaps'
    BY <1>c, <1>2, <1>3 DEF KeepsCaps, CapsPart, c, d
  <2> QED
    BY <1>2, <1>3, <2>1 DEF RInv, AmbientSurvives, RefusedForCause, Runnable, Permitted, Consistent
<1>5. CASE ResolveCapabilities
  BY <1>c, <1>1, <1>2, <1>3, <1>5
  DEF ResolveCapabilities, Step, Runnable, Permitted, Capable, LastPart, c, d
<1>6. CASE DropBounding
  <2>1. CASE todo = {}
    <3>1. pc = "bounding" /\ pc' = "clearAmbient" /\ UNCHANGED <<todo, cred>>
      BY <1>6, <2>1 DEF DropBounding, Step
    <3> QED
      BY <1>c, <1>2, <1>3, <3>1 DEF Capable, LastPart, c, d
  <2>2. CASE todo # {}
    <3> DEFINE cap == CHOOSE cap \in todo : TRUE
               A == c.bounding \ {cap}
    <3>1. /\ pc = "bounding" /\ todo' = todo \ {cap}
          /\ pc' = IF "SETPCAP" \in c.effective THEN "bounding" ELSE "failed"
          /\ IF "SETPCAP" \in c.effective THEN Change([c EXCEPT !.bounding = A])
             ELSE UNCHANGED cred
      BY <1>6, <2>2 DEF DropBounding, Step, c
    <3> HIDE DEF cap
    <3>2. CASE "SETPCAP" \notin c.effective
      <4>1. ~Runnable
        BY <1>c, <1>4, <2>2, <3>1, <3>2 DEF Capable, Runnable, c
      <4> QED
        BY <1>c, <1>2, <1>3, <3>1, <3>2, <4>1 DEF Capable, LastPart, c, d
    <3>3. CASE "SETPCAP" \in c.effective
      <4>1. d = [c EXCEPT !.bounding = A] /\ \A t \in Threads : t # on => cred'[t] = cred[t]
        BY <1>1, <3>1, <3>3, ChangeOne DEF d
      <4>2. d.effective = c.effective /\ d.permitted = c.permitted /\ d.keepCaps = c.keepCaps
        BY <1>1, <4>1, SetsKept
      <4> QED
        BY <1>c, <1>2, <1>3, <3>1, <3>3, <4>1, <4>2 DEF Capable, LastPart, c, d
    <3> QED
      BY <3>2, <3>3
  <2> QED
    BY <2>1, <2>2
<1>7. CASE ClearAmbient
  <2>1. /\ pc = "clearAmbient" /\ pc' = "capset" /\ d = [c EXCEPT !.ambient = {}]
        /\ \A t \in Threads : t # on => cred'[t] = cred[t]
    BY <1>1, <1>7, ChangeOne DEF ClearAmbient, Step, c, d
  <2>2. d.effective = c.effective /\ d.permitted = c.permitted /\ d.keepCaps = c.keepCaps
    BY <1>1, <2>1, SetsKept
  <2> QED
    BY <1>c, <1>2, <1>3, <2>1, <2>2 DEF Capable, LastPart, c, d
<1>8. CASE Capset
  <2>1. CASE ~MayCapset(c, spec)
    <3>1. pc = "capset" /\ pc' = "failed" /\ UNCHANGED cred
      BY <1>8, <2>1 DEF Capset, Step, c
    <3>2. c.permitted = Caps /\ c.bounding = spec.bounding
      BY <1>c, <3>1 DEF Capable, CapsSet, c
    <3>3. ~Consistent
      BY <1>1, <2>1, <3>2 DEF MayCapset, Consistent
    <3> QED
      BY <1>3, <3>1, <3>3 DEF Capable, LastPart, Runnable, Permitted, c, d
  <2>2. CASE MayCapset(c, spec)
    <3>1. /\ pc = "capset" /\ pc' = "ambient" /\ todo' = spec.ambient
          /\ Change([c EXCEPT !.permitted = spec.permitted, !.effective = spec.effective,
                              !.inheritable = spec.inheritable])
      BY <1>8, <2>2 DEF Capset, Step, c
    <3>2. /\ d = [c EXCEPT !.permitted = spec.permitted, !.effective = spec.effective,
                           !.inheritable = spec.inheritable]
          /\ \A t \in Threads : t # on => cred'[t] = cred[t]
      BY <1>1, <3>1, ChangeOne DEF d
    <3>3. d.effective = spec.effective /\ d.keepCaps = c.keepCaps
      BY <1>1, <3>2, SetsKept
    <3> QED
      BY <1>2, <1>3, <3>1, <3>2, <3>3 DEF Capable, LastPart, d
  <2> QED
    BY <2>1, <2>2
<1>9. CASE RaiseAmbient
  <2>1. CASE todo = {}
    <3>1. pc = "ambient" /\ pc' \in LastPart /\ UNCHANGED <<todo, cred>>
      BY <1>9, <2>1 DEF RaiseAmbient, Step, AfterCaps, LastPart
    <3> QED
      BY <1>c, <1>2, <1>3, <3>1 DEF Capable, LastPart, c, d
  <2>2. CASE todo # {}
    <3> DEFINE cap == CHOOSE cap \in todo : TRUE
               A == c.ambient \cup {cap}
               ok == cap \in c.permitted \cap c.inheritable
    <3>1. /\ pc = "ambient" /\ todo' = todo \ {cap} /\ cap \in todo
          /\ pc' = IF ok THEN "ambient" ELSE "failed"
          /\ IF ok THEN Change([c EXCEPT !.ambient = A]) ELSE UNCHANGED cred
      BY <1>9, <2>2 DEF RaiseAmbient, Step, c
    <3> HIDE DEF cap
    <3>2. CASE ~ok
      <4>1. ~Consistent
        BY <1>c, <3>1, <3>2 DEF Capable, CapsSet, Consistent
      <4> QED
        BY <1>c, <1>2, <1>3, <3>1, <3>2, <4>1 DEF Capable, LastPart, Runnable, Permitted, c, d
    <3>3. CASE ok
      <4>1. d = [c EXCEPT !.ambient = A] /\ \A t \in Threads : t # on => cred'[t] = cred[t]
        BY <1>1, <3>1, <3>3, ChangeOne DEF d
      <4>2. d.effective = c.effective /\ d.permitted = c.permitted /\ d.keepCaps = c.keepCaps
        BY <1>1, <3>1, <4>1, SetsKept
      <4> QED
        BY <1>c, <1>2, <1>3, <3>1, <3>3, <4>1, <4>2 DEF Capable, LastPart, c, d
    <3> QED
      BY <3>2, <3>3
  <2> QED
    BY <2>1, <2>2
<1> QED
  BY <1>5, <1>6, <1>7, <1>8, <1>9 DEF ApplyCapabilities

\* no_new_privs, the filter and execve: what was asked for permits the filter,
\* and the ambient set survives.
LEMMA LastRefused == ASSUME IInv, RInv, SetNoNewPrivs \/ ApplySeccomp \/ Exec PROVE RInv'
<1> DEFINE c == cred[on]
           d == cred'[on]
<1>1. cred \in [Threads -> CredType] /\ on \in Threads /\ c \in CredType
  BY DEF IInv, Typed
<1>2. UNCHANGED <<spec, host, on, limited>> /\ pc \in LastPart
  BY DEF SetNoNewPrivs, ApplySeccomp, Exec, Step, LastPart
<1>c. KeepsCaps /\ Capable /\ CapsSet(c) /\ LastSet(c)
  BY DEF RInv, IInv
<1>k. \A t \in Threads : ~cred[t].keepCaps
  BY <1>c, <1>2 DEF KeepsCaps, LastPart
<1> HIDE DEF c, d
<1>3. ASSUME pc' = "failed" => ~Runnable, pc' \in LastPart \cup {"user", "failed"},
             d.effective = c.effective \/ pc' = "user",
             \A t \in Threads : ~cred'[t].keepCaps, AmbientSurvives'
      PROVE  RInv'
  <2>1. Capable'
    BY <1>c, <1>2, <1>3 DEF Capable, LastPart, c, d
  <2>2. KeepsCaps'
    BY <1>3 DEF KeepsCaps
  <2> QED
    BY <1>2, <1>3, <2>1, <2>2 DEF RInv, RefusedForCause, Runnable, Permitted, Consistent
<1>4. CASE SetNoNewPrivs
  <2>1. /\ pc' \in {"seccomp", "exec"} /\ d = [c EXCEPT !.noNewPrivs = TRUE]
        /\ \A t \in Threads : t # on => cred'[t] = cred[t]
    BY <1>1, <1>4, ChangeOne DEF SetNoNewPrivs, Step, c, d
  <2>2. d.effective = c.effective /\ d.keepCaps = c.keepCaps
    BY <1>1, <2>1 DEF CredType
  <2> QED
    BY <1>1, <1>k, <1>3, <2>1, <2>2 DEF AmbientSurvives, LastPart, c, d
<1>5. CASE ApplySeccomp
  <2>1. pc = "seccomp" /\ pc' \in {"exec", "failed"}
    BY <1>5 DEF ApplySeccomp, Step
  <2>2. pc' = "failed" => ~Runnable
    <3> SUFFICES ASSUME pc' = "failed", Runnable PROVE FALSE
      OBVIOUS
    <3>1. spec.wrong # "seccomp" /\ (spec.noNewPrivs \/ "SYS_ADMIN" \in spec.effective)
      BY <1>c, <2>1 DEF Runnable, Permitted, Consistent, LastSet
    <3>2. c.noNewPrivs = spec.noNewPrivs /\ c.effective = spec.effective
      BY <1>c, <2>1 DEF LastSet, Capable, LastPart, c
    <3> QED
      BY <1>5, <3>1, <3>2 DEF ApplySeccomp, Step, c
  <2>3. \A t \in Threads : cred'[t].effective = cred[t].effective /\ cred'[t].keepCaps = cred[t].keepCaps
    <3>1. ASSUME NEW e \in CredType, NEW b
          PROVE  LET f == [e EXCEPT !.filter = TRUE, !.noNewPrivs = b] IN
                 f.effective = e.effective /\ f.keepCaps = e.keepCaps
      BY DEF CredType
    <3>2. CASE cred' = cred
      BY <3>2
    <3>3. CASE cred' = [t \in Threads |-> [cred[t] EXCEPT !.filter = TRUE,
                                              !.noNewPrivs = @ \/ cred[on].noNewPrivs]]
      <4>1. \A t \in Threads : cred'[t] = [cred[t] EXCEPT !.filter = TRUE,
                                   !.noNewPrivs = cred[t].noNewPrivs \/ cred[on].noNewPrivs]
        BY <1>1, <3>3
      <4>2. ASSUME NEW t \in Threads
            PROVE  cred'[t].effective = cred[t].effective /\ cred'[t].keepCaps = cred[t].keepCaps
        <5> DEFINE b == cred[t].noNewPrivs \/ cred[on].noNewPrivs
        <5>1. LET f == [cred[t] EXCEPT !.filter = TRUE, !.noNewPrivs = b] IN
              f.effective = cred[t].effective /\ f.keepCaps = cred[t].keepCaps
          BY <1>1, <3>1
        <5> QED
          BY <4>1, <5>1
      <4> QED
        BY <4>2
    <3> QED
      BY <1>5, <3>2, <3>3 DEF ApplySeccomp, ChangeAll
  <2> QED
    BY <1>1, <1>k, <1>3, <2>1, <2>2, <2>3 DEF AmbientSurvives, LastPart, c, d
<1>6. CASE Exec
  <2>1. /\ pc = "exec" /\ pc' = "user" /\ d = AfterExec(c)
        /\ \A t \in Threads : t # on => cred'[t] = cred[t]
    BY <1>1, <1>6, ChangeOne DEF Exec, Step, c, d
  <2>2. c.ambient \subseteq d.effective /\ ~d.keepCaps
    BY <1>1, <2>1 DEF AfterExec, CredType
  <2>3. c.ambient = spec.ambient
    BY <1>c, <2>1 DEF CapsSet, LastPart
  <2> QED
    BY <1>1, <1>2, <1>k, <1>3, <2>1, <2>2, <2>3 DEF AmbientSurvives, c, d
<1> QED
  BY <1>4, <1>5, <1>6

\* Every step preserves the invariant.
LEMMA RefusalsInductive == MovesEarly /\ IInv /\ RInv /\ [Next]_vars => RInv'
<1> SUFFICES ASSUME MovesEarly, IInv, RInv, [Next]_vars PROVE RInv'
  OBVIOUS
<1>1. CASE UNCHANGED vars
  BY <1>1 DEF vars, RInv, KeepsCaps, Capable, AmbientSurvives, RefusedForCause, Permitted, Consistent
<1> QED
  BY <1>1, EarlyRefused, UserRefused, CapsRefused, LastRefused DEF Next

\* Both invariants hold in every reachable state.
THEOREM Invariance == MovesEarly => (Spec => [](IInv /\ RInv))
<1> SUFFICES ASSUME MovesEarly PROVE Spec => [](IInv /\ RInv)
  OBVIOUS
<1>1. Init => IInv /\ RInv
  BY InitInductive, RInvInit
<1>2. IInv /\ RInv /\ [Next]_vars => (IInv /\ RInv)'
  BY StepInductive, RefusalsInductive
<1> QED
  BY <1>1, <1>2, PTL DEF Spec

\* Every variable has its type, and KEEPCAPS does not outlive setupUser.
THEOREM TypeCorrect == MovesEarly => (Spec => []TypeOK)
<1> SUFFICES ASSUME MovesEarly PROVE Spec => []TypeOK
  OBVIOUS
<1>1. IInv /\ RInv => TypeOK
  BY DEF IInv, RInv, Typed, KeepsCaps, TypeOK
<1> QED
  BY <1>1, Invariance, PTL

\* The ambient set is what survives execve: the user's command has all of it,
\* whoever it runs as.
THEOREM AmbientIsKept == MovesEarly => (Spec => []AmbientSurvives)
<1> SUFFICES ASSUME MovesEarly PROVE Spec => []AmbientSurvives
  OBVIOUS
<1>1. IInv /\ RInv => AmbientSurvives
  BY DEF RInv
<1> QED
  BY <1>1, Invariance, PTL

\* A spec that fits together, on a host that permits it, is not refused, if it
\* keeps root or leaves the bounding set alone.
THEOREM RefusalsHaveCauses == MovesEarly => (Spec => []RefusedForCause)
<1> SUFFICES ASSUME MovesEarly PROVE Spec => []RefusedForCause
  OBVIOUS
<1>1. IInv /\ RInv => RefusedForCause
  BY DEF RInv
<1> QED
  BY <1>1, Invariance, PTL
----------------------------------------------------------------------------
(* The filter *)

\* Induction up to a number.
LEMMA Upward ==
  ASSUME NEW n \in Nat, NEW S, 0 \in S, \A i \in 0..n : i < n /\ i \in S => i + 1 \in S
  PROVE  0..n \subseteq S
<1> DEFINE Rest == {i \in 0..n : i \notin S}
           Lower(k) == {i \in Rest : i < k}
           T == {Lower(k) : k \in Rest}
<1> SUFFICES ASSUME Rest # {} PROVE FALSE
  OBVIOUS
<1>1. PICK A \in T : \A B \in T : <<B, A>> \notin StrictSubsetOrdering(Rest)
  <2>1. T \subseteq SUBSET Rest /\ T # {}
    OBVIOUS
  <2>2. IsFiniteSet(Rest)
    <3>1. Rest \subseteq 0..n /\ IsFiniteSet(0..n)
      BY FS_Interval
    <3> HIDE DEF Rest
    <3> QED
      BY <3>1, FS_Subset
  <2>3. IsWellFoundedOn(StrictSubsetOrdering(Rest), SUBSET Rest)
    <3> HIDE DEF Rest
    <3> QED
      BY <2>2, FS_StrictSubsetOrderingWellFounded, FS_FiniteSubsetsOfFinite
  <2> HIDE DEF T, Rest
  <2> QED
    BY <2>1, <2>3, WFMin
<1>2. PICK k \in Rest : A = Lower(k)
  BY <1>1
<1>3. k \in Nat /\ k # 0
  OBVIOUS
<1>4. k - 1 \in Rest
  BY <1>3
<1>5. Lower(k - 1) \in T
  BY <1>4
<1>6. Lower(k - 1) \subseteq Lower(k)
  BY <1>3
<1>7. k - 1 \in Lower(k) /\ k - 1 \notin Lower(k - 1)
  BY <1>3, <1>4
<1> QED
  BY <1>1, <1>2, <1>5, <1>6, <1>7 DEF StrictSubsetOrdering

\* g is handed on from place to place where F is not, and F is not before m.
HandedOn(n, g, F, m) ==
    /\ \A i \in 1..n : i \notin F => g[i] = g[i + 1]
    /\ \A i \in 1..n : i < m => i \notin F

\* What is handed on arrives.
LEMMA Chain ==
  ASSUME NEW n \in Nat, NEW g, NEW F, NEW m \in 1..n + 1, HandedOn(n, g, F, m)
  PROVE  g[1] = g[m]
<1> DEFINE S == {i \in Nat : i < m => g[1] = g[i + 1]}
<1>1. 0 \in S
  OBVIOUS
<1>2. \A i \in 0..n : i < n /\ i \in S => i + 1 \in S
  BY DEF HandedOn
<1>3. 0..n \subseteq S
  <2> HIDE DEF S
  <2> QED
    BY <1>1, <1>2, Upward
<1>4. m - 1 \in S
  BY <1>3
<1> QED
  BY <1>4


\* The parts a flattened sequence is built from, one after the other.
LEMMA FlatSteps ==
  ASSUME NEW S, NEW seqs \in Seq(Seq(S))
  PROVE  \E G \in [0..Len(seqs) -> Seq(S)] :
            /\ G[0] = <<>> /\ G[Len(seqs)] = FlattenSeq(seqs)
            /\ \A i \in 1..Len(seqs) : G[i] = G[i - 1] \o seqs[i]
<1> DEFINE n == Len(seqs)
           Part(f, j) == IF j = 1 THEN seqs[j] ELSE f[j - 1] \o seqs[j]
           flatten == CHOOSE f : f = [k \in 1..n |-> Part(f, k)]
           G == [i \in 0..n |-> IF i = 0 THEN <<>> ELSE flatten[i]]
<1>0. n \in Nat /\ \A i \in 1..n : seqs[i] \in Seq(S)
  BY ElementOfSeq
<1>1. \E f : f = [i \in 1..n |-> Part(f, i)]
  <2> DEFINE Partial(m) == \E f : f = [i \in 1..m |-> Part(f, i)]
             P == {m \in Nat : m <= n => Partial(m)}
  <2>0. \A m \in Nat : m \in P <=> (m <= n => Partial(m))
    <3> HIDE DEF Partial
    <3> QED
      OBVIOUS
  <2>1. 0 \in P
    <3>1. [i \in 1..0 |-> <<>>] = [i \in 1..0 |-> Part([k \in 1..0 |-> <<>>], i)]
      OBVIOUS
    <3> QED
      BY <2>0, <3>1
  <2>2. ASSUME NEW m \in 0..n, m < n, m \in P PROVE m + 1 \in P
    <3>1. PICK f : f = [i \in 1..m |-> Part(f, i)]
      <4>1. Partial(m)
        <5> HIDE DEF Partial, P
        <5> QED
          BY <1>0, <2>0, <2>2
      <4> QED
        BY <4>1
    <3>0. \A i \in 1..m : f[i] = Part(f, i)
      <4> HIDE DEF Part
      <4> QED
        BY <3>1
    <3> DEFINE g == [i \in 1..m + 1 |-> IF i <= m THEN f[i] ELSE Part(f, m + 1)]
    <3>2. \A i \in 1..m + 1 : g[i] = Part(g, i)
      <4> SUFFICES ASSUME NEW i \in 1..m + 1 PROVE g[i] = Part(g, i)
        OBVIOUS
      <4>1. CASE i <= m
        <5>1. i \in 1..m /\ g[i] = f[i] /\ f[i] = Part(f, i)
          BY <3>0, <4>1
        <5>2. i = 1 \/ g[i - 1] = f[i - 1]
          BY <4>1
        <5> HIDE DEF g
        <5> QED
          BY <5>1, <5>2
      <4>2. CASE i = m + 1
        <5>1. g[i] = Part(f, i)
          BY <4>2
        <5>2. i = 1 \/ g[i - 1] = f[i - 1]
          BY <4>2
        <5> HIDE DEF g
        <5> QED
          BY <5>1, <5>2
      <4> QED
        BY <4>1, <4>2
    <3>3. g = [i \in 1..m + 1 |-> Part(g, i)]
      <4> HIDE DEF Part
      <4> QED
        BY <3>2
    <3> HIDE DEF g, Part
    <3> QED
      BY <2>0, <3>3
  <2>3. 0..n \subseteq P
    <3> HIDE DEF P
    <3> QED
      BY <1>0, <2>1, <2>2, Upward
  <2>4. n \in P
    <3> HIDE DEF P
    <3> QED
      BY <1>0, <2>3
  <2> HIDE DEF P, Part
  <2> QED
    BY <1>0, <2>0, <2>4
<1>2. \A i \in 1..n : flatten[i] = Part(flatten, i)
  <2>1. flatten = [i \in 1..n |-> Part(flatten, i)]
    <3> HIDE DEF Part
    <3> QED
      BY <1>1
  <2> HIDE DEF flatten
  <2> QED
    BY <2>1
<1>3. FlattenSeq(seqs) = G[n]
  <2>1. CASE n = 0
    BY <2>1, EmptySeq DEF FlattenSeq
  <2>2. CASE n # 0
    BY <1>0, <2>2 DEF FlattenSeq
  <2> QED
    BY <2>1, <2>2
<1> HIDE DEF flatten
<1>4. \A i \in 1..n : G[i] = G[i - 1] \o seqs[i]
  <2> SUFFICES ASSUME NEW i \in 1..n PROVE G[i] = G[i - 1] \o seqs[i]
    OBVIOUS
  <2>1. G[i] = flatten[i] /\ flatten[i] = Part(flatten, i)
    BY <1>0, <1>2
  <2>2. CASE i = 1
    <3>1. G[i - 1] = <<>>
      BY <1>0, <2>2
    <3>2. <<>> \o seqs[i] = seqs[i]
      BY <1>0, ConcatEmptySeq
    <3> HIDE DEF G
    <3> QED
      BY <2>1, <2>2, <3>1, <3>2
  <2>3. CASE i # 1
    <3>1. G[i - 1] = flatten[i - 1]
      BY <1>0, <2>3
    <3> HIDE DEF G
    <3> QED
      BY <2>1, <2>3, <3>1
  <2> QED
    BY <2>2, <2>3
<1> HIDE DEF G
<1>5. G \in [0..n -> Seq(S)]
  <2> DEFINE P == {i \in Nat : i <= n => G[i] \in Seq(S)}
  <2>1. 0 \in P
    BY DEF G
  <2>2. \A i \in 0..n : i < n /\ i \in P => i + 1 \in P
    <3> SUFFICES ASSUME NEW i \in 0..n, i < n, G[i] \in Seq(S) PROVE G[i + 1] \in Seq(S)
      BY <1>0
    <3>1. i + 1 \in 1..n /\ (i + 1) - 1 = i
      BY <1>0
    <3>2. G[i + 1] = G[i] \o seqs[i + 1] /\ seqs[i + 1] \in Seq(S)
      BY <1>0, <1>4, <3>1
    <3> QED
      BY <3>2, ConcatProperties
  <2>3. 0..n \subseteq P
    <3> HIDE DEF P
    <3> QED
      BY <1>0, <2>1, <2>2, Upward
  <2>4. \A i \in 0..n : G[i] \in Seq(S)
    BY <2>3, <1>0
  <2> QED
    BY <2>4 DEF G
<1>6. G[0] = <<>>
  BY <1>0 DEF G
<1> QED
  BY <1>3, <1>4, <1>5, <1>6

\* r has the elements of s and then those of t.
Joined(s, t, r) ==
    /\ Len(r) = Len(s) + Len(t)
    /\ \A k \in 1..Len(s) : r[k] = s[k]
    /\ \A j \in 1..Len(t) : r[Len(s) + j] = t[j]

\* Where the parts of a concatenation are in it.
LEMMA ConcatAt ==
  ASSUME NEW S, NEW s \in Seq(S), NEW t \in Seq(S)
  PROVE  s \o t \in Seq(S) /\ Joined(s, t, s \o t)
<1>1. Len(s) \in Nat /\ Len(t) \in Nat
  OBVIOUS
<1>2. /\ s \o t \in Seq(S) /\ Len(s \o t) = Len(s) + Len(t)
      /\ \A k \in 1..Len(s) + Len(t) : (s \o t)[k] = IF k <= Len(s) THEN s[k] ELSE t[k - Len(s)]
  BY ConcatProperties
<1>3. ASSUME NEW k \in 1..Len(s) PROVE k \in 1..Len(s) + Len(t) /\ k <= Len(s)
  BY <1>1
<1>4. ASSUME NEW j \in 1..Len(t)
      PROVE  /\ Len(s) + j \in 1..Len(s) + Len(t) /\ ~(Len(s) + j <= Len(s))
             /\ (Len(s) + j) - Len(s) = j
  BY <1>1
<1>5. \A k \in 1..Len(s) : (s \o t)[k] = s[k]
  BY <1>2, <1>3
<1>6. \A j \in 1..Len(t) : (s \o t)[Len(s) + j] = t[j]
  BY <1>2, <1>4
<1> QED
  BY <1>2, <1>5, <1>6 DEF Joined

\* Where each part of a flattened sequence is in it.
LEMMA Flattened ==
  ASSUME NEW S, NEW seqs \in Seq(Seq(S))
  PROVE  /\ FlattenSeq(seqs) \in Seq(S)
         /\ \E off \in [1..Len(seqs) + 1 -> Nat] :
               /\ off[1] = 0 /\ off[Len(seqs) + 1] = Len(FlattenSeq(seqs))
               /\ \A i \in 1..Len(seqs) :
                     /\ off[i + 1] = off[i] + Len(seqs[i])
                     /\ \A j \in 1..Len(seqs[i]) :
                           /\ off[i] + j <= Len(FlattenSeq(seqs))
                           /\ FlattenSeq(seqs)[off[i] + j] = seqs[i][j]
<1> DEFINE n == Len(seqs)
<1>0. n \in Nat /\ \A i \in 1..n : seqs[i] \in Seq(S)
  BY ElementOfSeq
<1>1. PICK G \in [0..n -> Seq(S)] :
         /\ G[0] = <<>> /\ G[n] = FlattenSeq(seqs)
         /\ \A i \in 1..n : G[i] = G[i - 1] \o seqs[i]
  BY FlatSteps
<1> HIDE DEF n
<1> DEFINE off == [i \in 1..n + 1 |-> Len(G[i - 1])]
           There(m, i, j) == off[i] + j <= Len(G[m]) /\ G[m][off[i] + j] = seqs[i][j]
           P == {m \in Nat : m <= n => \A i \in 1..m : \A j \in 1..Len(seqs[i]) : There(m, i, j)}
<1>2. \A m \in 0..n : G[m] \in Seq(S) /\ Len(G[m]) \in Nat
  BY <1>0
<1>3. ASSUME NEW i \in 1..n
      PROVE  off[i] = Len(G[i - 1]) /\ off[i + 1] = Len(G[i]) /\ Joined(G[i - 1], seqs[i], G[i])
  <2>1. off[i] = Len(G[i - 1]) /\ off[i + 1] = Len(G[(i + 1) - 1])
    BY <1>0
  <2>2. (i + 1) - 1 = i /\ i - 1 \in 0..n /\ i \in 0..n
    BY <1>0
  <2>3. G[i - 1] \in Seq(S) /\ seqs[i] \in Seq(S)
    BY <1>0, <1>2, <2>2
  <2>4. G[i] = G[i - 1] \o seqs[i]
    BY <1>1
  <2>5. Joined(G[i - 1], seqs[i], G[i])
    BY <2>3, <2>4, ConcatAt
  <2> HIDE DEF off
  <2> QED
    BY <2>1, <2>2, <2>5
<1>4. off \in [1..n + 1 -> Nat]
  <2>1. \A i \in 1..n + 1 : i - 1 \in 0..n
    BY <1>0
  <2> QED
    BY <1>2, <2>1
<1>5. off[1] = 0 /\ off[n + 1] = Len(FlattenSeq(seqs))
  <2>1. 1 \in 1..n + 1 /\ n + 1 \in 1..n + 1 /\ (n + 1) - 1 = n /\ 1 - 1 = 0
    BY <1>0
  <2>2. off[1] = Len(G[1 - 1]) /\ off[n + 1] = Len(G[(n + 1) - 1])
    BY <2>1
  <2>3. Len(G[0]) = 0
    BY <1>1
  <2> HIDE DEF off
  <2> QED
    BY <1>1, <2>1, <2>2, <2>3
<1> HIDE DEF off
<1>6. 0 \in P
  OBVIOUS
<1>7. ASSUME NEW m \in 0..n, m < n, m \in P PROVE m + 1 \in P
  <2>1. m + 1 \in 1..n /\ (m + 1) - 1 = m /\ m + 1 \in Nat /\ m <= n
    BY <1>0, <1>7
  <2>2. ASSUME NEW i \in 1..m + 1, NEW j \in 1..Len(seqs[i]) PROVE There(m + 1, i, j)
    <3>0. i \in 1..n /\ seqs[i] \in Seq(S) /\ Len(seqs[i]) \in Nat /\ off[i] \in Nat
      BY <1>0, <1>4, <2>1
    <3>1. CASE i = m + 1
      <4>0. i - 1 = m
        BY <1>0, <3>1
      <4>1. off[i] = Len(G[m]) /\ Len(G[m + 1]) = Len(G[m]) + Len(seqs[i])
        BY <1>3, <3>0, <3>1, <4>0 DEF Joined
      <4>2. G[m + 1][off[i] + j] = seqs[i][j]
        <5>1. off[m + 1] = Len(G[m]) /\ Joined(G[m], seqs[m + 1], G[m + 1])
          BY <1>3, <2>1
        <5> QED
          BY <3>1, <5>1 DEF Joined
      <4>3. off[i] + j <= Len(G[m + 1])
        BY <3>0, <4>1
      <4> QED
        BY <4>2, <4>3
    <3>2. CASE i \in 1..m
      <4>1. There(m, i, j)
        BY <1>7, <2>1, <3>2
      <4>2. Len(G[m]) \in Nat /\ off[i] + j \in 1..Len(G[m])
        BY <1>2, <3>0, <4>1
      <4>3. Joined(G[m], seqs[m + 1], G[m + 1]) /\ Len(seqs[m + 1]) \in Nat
        BY <1>0, <1>3, <2>1
      <4>4. G[m + 1][off[i] + j] = G[m][off[i] + j]
        BY <4>2, <4>3 DEF Joined
      <4>5. Len(G[m + 1]) = Len(G[m]) + Len(seqs[m + 1])
        BY <4>3 DEF Joined
      <4>6. off[i] + j <= Len(G[m + 1])
        BY <4>2, <4>3, <4>5
      <4> QED
        BY <4>1, <4>4, <4>6
    <3> QED
      BY <3>1, <3>2
  <2> HIDE DEF There
  <2> QED
    BY <2>1, <2>2
<1>8. 0..n \subseteq P
  <2> HIDE DEF P
  <2> QED
    BY <1>0, <1>6, <1>7, Upward
<1>9. \A i \in 1..n : \A j \in 1..Len(seqs[i]) : There(n, i, j)
  <2>1. n \in P
    <3> HIDE DEF P
    <3> QED
      BY <1>0, <1>8
  <2> HIDE DEF There
  <2> QED
    BY <1>0, <2>1
<1>10. \A i \in 1..n : off[i + 1] = off[i] + Len(seqs[i])
  BY <1>3, <1>4 DEF Joined
<1>11. FlattenSeq(seqs) = G[n] /\ FlattenSeq(seqs) \in Seq(S)
  BY <1>0, <1>1, <1>2
<1> QED
  BY <1>4, <1>5, <1>9, <1>10, <1>11 DEF n

\* What the compiler writes: verdicts and instructions.  A jump skips at most one.
VerdictType == [action : Actions, data : Nat]
Instruction ==
    [op : {"load"}, field : {"arch", "nr"}] \cup
    [op : {"jeq", "jge"}, k : Nat, jt : {0, 1}, jf : {0, 1}] \cup
    [op : {"ret"}, verdict : VerdictType]

\* An instruction leads to the next one or to that after it.
LEMMA LaterVerdicts ==
  ASSUME NEW program \in Seq(Instruction), NEW call \in CallType,
         NEW k \in 1..Len(program) + 2, NEW f, NEW g,
         k <= Len(program) => f[k + 1] = g[k + 1] /\ f[k + 2] = g[k + 2]
  PROVE  Verdicts(program, call, f, k) = Verdicts(program, call, g, k)
<1>0. Len(program) \in Nat /\ k \in Nat
  OBVIOUS
<1>1. CASE k > Len(program)
  BY <1>1 DEF Verdicts
<1>2. CASE ~(k > Len(program))
  <2>1. k \in 1..Len(program) /\ program[k] \in Instruction
    BY <1>0, <1>2, ElementOfSeq
  <2>2. f[k + 1] = g[k + 1] /\ f[k + 2] = g[k + 2]
    BY <1>0, <1>2
  <2> DEFINE i == program[k]
  <2>3. CASE i.op = "ret"
    BY <1>2, <2>3 DEF Verdicts
  <2>4. CASE i.op = "load"
    BY <1>2, <2>2, <2>4 DEF Verdicts
  <2>5. CASE i.op \in {"jeq", "jge"}
    <3>1. i.jt \in {0, 1} /\ i.jf \in {0, 1}
      BY <2>1, <2>5 DEF Instruction
    <3>2. \A j \in {0, 1} : f[k + 1 + j] = g[k + 1 + j]
      <4>1. k + 1 + 0 = k + 1 /\ k + 1 + 1 = k + 2
        BY <1>0
      <4> QED
        BY <2>2, <4>1
    <3>3. \A B : f[k + 1 + (IF B THEN i.jt ELSE i.jf)] = g[k + 1 + (IF B THEN i.jt ELSE i.jf)]
      BY <3>1, <3>2
    <3>4. CASE i.op = "jeq"
      BY <1>2, <3>3, <3>4 DEF Verdicts
    <3>5. CASE i.op = "jge"
      BY <1>2, <3>3, <3>5 DEF Verdicts
    <3> QED
      BY <2>5, <3>4, <3>5
  <2> QED
    BY <2>1, <2>3, <2>4, <2>5 DEF Instruction
<1> QED
  BY <1>1, <1>2

\* f has the verdicts from every instruction of a program on.
Runs(program, call, f) ==
    \A k \in 1..Len(program) + 2 : f[k] = Verdicts(program, call, f, k)

\* The machine runs a program to its verdict.
LEMMA RunSteps ==
  ASSUME NEW program \in Seq(Instruction), NEW call \in CallType
  PROVE  \E from :
            Run(program, call) = from[1][0] /\ Runs(program, call, from)
<1> DEFINE L == Len(program)
           Part(f, k) == Verdicts(program, call, f, k)
           Lo(m) == (L + 3) - m
           Partial(m) == \E f : f = [k \in Lo(m)..L + 2 |-> Part(f, k)]
           P == {m \in Nat : m <= L + 2 => Partial(m)}
           from == CHOOSE f : f = [k \in 1..L + 2 |-> Part(f, k)]
<1>0. L \in Nat
  OBVIOUS
<1>1. \A m \in Nat : m \in P <=> (m <= L + 2 => Partial(m))
  <2> HIDE DEF Partial
  <2> QED
    OBVIOUS
<1>2. 0 \in P
  <2> DEFINE f == [k \in Lo(0)..L + 2 |-> <<>>]
  <2>1. Lo(0)..L + 2 = {}
    BY <1>0
  <2>2. f = [k \in Lo(0)..L + 2 |-> Part(f, k)]
    <3> HIDE DEF Lo, Part
    <3> QED
      BY <2>1
  <2> QED
    BY <1>1, <2>2
<1>3. ASSUME NEW m \in 0..L + 2, m < L + 2, m \in P PROVE m + 1 \in P
  <2>0. Lo(m + 1) \in 1..L + 2 /\ Lo(m) = Lo(m + 1) + 1 /\ Lo(m) \in Nat
    BY <1>0, <1>3
  <2>1. PICK f : f = [k \in Lo(m)..L + 2 |-> Part(f, k)]
    <3>1. Partial(m)
      <4> HIDE DEF Partial, P
      <4> QED
        BY <1>0, <1>1, <1>3
    <3> QED
      BY <3>1
  <2> HIDE DEF Lo
  <2>2. \A k \in Lo(m)..L + 2 : f[k] = Part(f, k)
    <3> HIDE DEF Part
    <3> QED
      BY <2>1
  <2> DEFINE g == [k \in Lo(m + 1)..L + 2 |-> IF k >= Lo(m) THEN f[k] ELSE Part(f, k)]
  <2>3. \A k \in Lo(m + 1)..L + 2 : g[k] = Part(g, k)
    <3> SUFFICES ASSUME NEW k \in Lo(m + 1)..L + 2 PROVE g[k] = Part(g, k)
      OBVIOUS
    <3>1. k \in 1..L + 2
      BY <1>0, <2>0
    <3>2. g[k] = Part(f, k)
      <4> HIDE DEF Part
      <4> QED
        BY <1>0, <2>0, <2>2
    <3>3. k <= L => f[k + 1] = g[k + 1] /\ f[k + 2] = g[k + 2]
      <4> HIDE DEF Part
      <4> QED
        BY <1>0, <2>0
    <3> HIDE DEF g
    <3> QED
      BY <3>1, <3>2, <3>3, LaterVerdicts
  <2>4. g = [k \in Lo(m + 1)..L + 2 |-> Part(g, k)]
    <3> HIDE DEF Part
    <3> QED
      BY <2>3
  <2>5. Partial(m + 1)
    <3> HIDE DEF g, Part
    <3> QED
      BY <2>4
  <2> HIDE DEF Partial, P
  <2> QED
    BY <1>1, <2>5
<1>4. L + 2 \in P
  <2>1. 0..L + 2 \subseteq P
    <3> HIDE DEF P
    <3> QED
      BY <1>0, <1>2, <1>3, Upward
  <2> HIDE DEF P
  <2> QED
    BY <1>0, <2>1
<1>5. \E f : f = [k \in 1..L + 2 |-> Part(f, k)]
  <2>1. Partial(L + 2)
    <3> HIDE DEF P, Partial
    <3> QED
      BY <1>0, <1>1, <1>4
  <2>2. Lo(L + 2) = 1
    BY <1>0
  <2> HIDE DEF Lo, Part
  <2> QED
    BY <2>1, <2>2
<1>6. \A k \in 1..L + 2 : from[k] = Part(from, k)
  <2>1. from = [k \in 1..L + 2 |-> Part(from, k)]
    <3> HIDE DEF Part
    <3> QED
      BY <1>5
  <2> HIDE DEF from, Part
  <2> QED
    BY <2>1
<1>7. Run(program, call) = from[1][0]
  BY DEF Run
<1> HIDE DEF from
<1> QED
  BY <1>6, <1>7 DEF Runs

\* m is the least of F.
IsLeast(m, F) == m \in F /\ \A j \in F : m <= j

\* A set of numbers up to n has a least one.
LEMMA Least ==
  ASSUME NEW n \in Nat, NEW F \in SUBSET (1..n), F # {}
  PROVE  \E m : IsLeast(m, F)
<1> SUFFICES ASSUME \A m \in F : \E j \in F : ~(m <= j) PROVE FALSE
  BY DEF IsLeast
<1> DEFINE S == {i \in Nat : \A j \in F : i < j}
<1>1. \A j \in F : j \in Nat /\ j \in 1..n
  OBVIOUS
<1>2. 0 \in S
  BY <1>1
<1>3. ASSUME NEW i \in 0..n, i < n, i \in S PROVE i + 1 \in S
  <2>1. i + 1 \notin F
    <3> SUFFICES ASSUME i + 1 \in F PROVE FALSE
      OBVIOUS
    <3>1. PICK j \in F : ~(i + 1 <= j)
      OBVIOUS
    <3> QED
      BY <1>1, <1>3, <3>1
  <2> QED
    BY <1>1, <1>3, <2>1
<1>4. n \in S
  <2>1. 0..n \subseteq S
    <3> HIDE DEF S
    <3> QED
      BY <1>2, <1>3, Upward
  <2> QED
    BY <2>1
<1>5. PICK j \in F : TRUE
  OBVIOUS
<1> QED
  BY <1>1, <1>4, <1>5

\* What an instruction does.
LEMMA Effects ==
  ASSUME NEW program \in Seq(Instruction), NEW call \in CallType, NEW f, Runs(program, call, f),
         NEW k \in 1..Len(program), NEW acc \in Accs(call)
  PROVE  /\ \A v : program[k] = Return(v) => f[k][acc] = v
         /\ \A field : program[k] = Load(field) => f[k][acc] = f[k + 1][call[field]]
         /\ \A n, jt, jf \in Nat : program[k] = JumpEqual(n, jt, jf) =>
               f[k][acc] = IF acc = n THEN f[k + 1 + jt][acc] ELSE f[k + 1 + jf][acc]
         /\ \A n, jt, jf \in Nat : program[k] = JumpGE(n, jt, jf) =>
               f[k][acc] = IF acc >= n THEN f[k + 1 + jt][acc] ELSE f[k + 1 + jf][acc]
<1>1. Len(program) \in Nat /\ k \in Nat /\ k \in 1..Len(program) + 2 /\ ~(k > Len(program))
  OBVIOUS
<1>2. f[k] = Verdicts(program, call, f, k)
  BY <1>1 DEF Runs
<1>3. ASSUME NEW v, program[k] = Return(v) PROVE f[k][acc] = v
  BY <1>1, <1>2, <1>3 DEF Verdicts, Return
<1>4. ASSUME NEW field, program[k] = Load(field) PROVE f[k][acc] = f[k + 1][call[field]]
  BY <1>1, <1>2, <1>4 DEF Verdicts, Load
<1>5. ASSUME NEW n \in Nat, NEW jt \in Nat, NEW jf \in Nat, program[k] = JumpEqual(n, jt, jf)
      PROVE  f[k][acc] = IF acc = n THEN f[k + 1 + jt][acc] ELSE f[k + 1 + jf][acc]
  BY <1>1, <1>2, <1>5 DEF Verdicts, JumpEqual
<1>6. ASSUME NEW n \in Nat, NEW jt \in Nat, NEW jf \in Nat, program[k] = JumpGE(n, jt, jf)
      PROVE  f[k][acc] = IF acc >= n THEN f[k + 1 + jt][acc] ELSE f[k + 1 + jf][acc]
  BY <1>1, <1>2, <1>6 DEF Verdicts, JumpGE
<1> QED
  BY <1>3, <1>4, <1>5, <1>6

\* A block of instructions is in a program, after base others.
At(program, base, block) ==
    \A j \in 1..Len(block) : base + j \in 1..Len(program) /\ program[base + j] = block[j]

\* A name of the build is a system call's.
Hits(name, nr) == name \in DOMAIN SyscallNumbers /\ SyscallNumbers[name] = nr

\* The instructions for one name are well formed.
LEMMA CallTyped ==
  ASSUME NEW name, NEW v \in VerdictType
  PROVE  OneCall(name, v) \in Seq(Instruction)
<1>1. CASE name \notin DOMAIN SyscallNumbers
  BY <1>1 DEF OneCall
<1>2. CASE name \in DOMAIN SyscallNumbers
  <2>1. JumpEqual(SyscallNumbers[name], 0, 1) \in Instruction
    BY <1>2, BuildAssumption DEF JumpEqual, Instruction
  <2>2. Return(v) \in Instruction
    BY DEF Return, Instruction
  <2> QED
    BY <1>2, <2>1, <2>2 DEF OneCall
<1> QED
  BY <1>1, <1>2

\* They return the verdict for the call of that name, and pass on any other.
LEMMA CallVerdict ==
  ASSUME NEW program \in Seq(Instruction), NEW call \in CallType, NEW f, Runs(program, call, f),
         NEW base \in Nat, NEW name, NEW v \in VerdictType, At(program, base, OneCall(name, v))
  PROVE  f[base + 1][call.nr] =
            IF Hits(name, call.nr) THEN v ELSE f[base + Len(OneCall(name, v)) + 1][call.nr]
<1>0. call.nr \in Accs(call) /\ call.nr \in Nat
  BY DEF Accs, CallType
<1>1. CASE name \notin DOMAIN SyscallNumbers
  <2>1. Len(OneCall(name, v)) = 0
    BY <1>1 DEF OneCall
  <2> QED
    BY <1>1, <2>1 DEF Hits
<1>2. CASE name \in DOMAIN SyscallNumbers
  <2> DEFINE n == SyscallNumbers[name]
  <2>1. n \in Nat /\ OneCall(name, v) = <<JumpEqual(n, 0, 1), Return(v)>>
    BY <1>2, BuildAssumption DEF OneCall
  <2>2. Len(OneCall(name, v)) = 2
    BY <2>1
  <2>3. /\ base + 1 \in 1..Len(program) /\ program[base + 1] = JumpEqual(n, 0, 1)
        /\ base + 2 \in 1..Len(program) /\ program[base + 2] = Return(v)
    BY <2>1, <2>2 DEF At
  <2>4. f[base + 1][call.nr] =
           IF call.nr = n THEN f[base + 1 + 1 + 0][call.nr] ELSE f[base + 1 + 1 + 1][call.nr]
    <3> HIDE DEF n
    <3> QED
      BY <1>0, <2>1, <2>3, Effects
  <2>5. f[base + 2][call.nr] = v
    <3> HIDE DEF n
    <3> QED
      BY <1>0, <2>3, Effects
  <2>6. base + 1 + 1 + 0 = base + 2 /\ base + 1 + 1 + 1 = base + 2 + 1
    OBVIOUS
  <2> QED
    BY <1>2, <2>2, <2>4, <2>5, <2>6 DEF Hits
<1> QED
  BY <1>1, <1>2

\* Blocks one after the other, each at its offset.
LEMMA Blocks ==
  ASSUME NEW program \in Seq(Instruction), NEW base \in Nat, NEW blocks \in Seq(Seq(Instruction)),
         At(program, base, FlattenSeq(blocks))
  PROVE  \E off \in [1..Len(blocks) + 1 -> Nat] :
            /\ off[1] = 0 /\ off[Len(blocks) + 1] = Len(FlattenSeq(blocks))
            /\ \A i \in 1..Len(blocks) :
                  /\ off[i + 1] = off[i] + Len(blocks[i])
                  /\ At(program, base + off[i], blocks[i])
<1> DEFINE n == Len(blocks)
           flat == FlattenSeq(blocks)
<1>1. PICK off \in [1..n + 1 -> Nat] :
         /\ off[1] = 0 /\ off[n + 1] = Len(flat)
         /\ \A i \in 1..n :
               /\ off[i + 1] = off[i] + Len(blocks[i])
               /\ \A j \in 1..Len(blocks[i]) :
                     off[i] + j <= Len(flat) /\ flat[off[i] + j] = blocks[i][j]
  BY Flattened
<1>2. flat \in Seq(Instruction)
  BY Flattened
<1> HIDE DEF flat
<1>3. Len(flat) \in Nat /\ n \in Nat
  BY <1>2
<1>4. \A k \in 1..Len(flat) : base + k \in 1..Len(program) /\ program[base + k] = flat[k]
  BY DEF At, flat
<1>5. ASSUME NEW i \in 1..n PROVE At(program, base + off[i], blocks[i])
  <2>1. off[i] \in Nat /\ blocks[i] \in Seq(Instruction)
    <3>1. i \in 1..n + 1
      BY <1>3
    <3>2. off[i] \in Nat
      BY <1>1, <3>1
    <3>3. blocks[i] \in Seq(Instruction)
      BY ElementOfSeq
    <3> QED
      BY <3>2, <3>3
  <2>2. ASSUME NEW j \in 1..Len(blocks[i])
        PROVE  /\ (base + off[i]) + j \in 1..Len(program)
               /\ program[(base + off[i]) + j] = blocks[i][j]
    <3>1. Len(blocks[i]) \in Nat /\ j \in Nat /\ j >= 1
      BY <2>1
    <3>2. off[i] + j <= Len(flat) /\ flat[off[i] + j] = blocks[i][j]
      BY <1>1
    <3>3. off[i] + j \in 1..Len(flat) /\ (base + off[i]) + j = base + (off[i] + j)
      BY <1>3, <2>1, <3>1, <3>2
    <3> QED
      BY <1>4, <3>2, <3>3
  <2> QED
    BY <2>2 DEF At
<1>6. /\ off[1] = 0 /\ off[n + 1] = Len(FlattenSeq(blocks))
      /\ \A i \in 1..n : off[i + 1] = off[i] + Len(blocks[i])
  BY <1>1 DEF flat
<1> QED
  BY <1>1, <1>5, <1>6

\* The blocks of F return the verdicts v for a call, wherever they are; the others
\* pass it on.
Decide(program, f, nr, blocks, F, v) ==
    /\ F \in SUBSET (1..Len(blocks))
    /\ \A i \in 1..Len(blocks) : \A b \in Nat : At(program, b, blocks[i]) =>
          f[b + 1][nr] = IF i \in F THEN v[i] ELSE f[b + Len(blocks[i]) + 1][nr]

\* Of blocks one after the other that each return or pass on, the first one that
\* returns decides.
LEMMA FirstDecides ==
  ASSUME NEW program \in Seq(Instruction), NEW base \in Nat, NEW blocks \in Seq(Seq(Instruction)),
         At(program, base, FlattenSeq(blocks)), NEW f, NEW nr, NEW v, NEW F,
         Decide(program, f, nr, blocks, F, v)
  PROVE  /\ F = {} => f[base + 1][nr] = f[base + Len(FlattenSeq(blocks)) + 1][nr]
         /\ \A m : IsLeast(m, F) => f[base + 1][nr] = v[m]
<1> DEFINE n == Len(blocks)
<1>0. n \in Nat
  OBVIOUS
<1>1. PICK off \in [1..n + 1 -> Nat] :
         /\ off[1] = 0 /\ off[n + 1] = Len(FlattenSeq(blocks))
         /\ \A i \in 1..n :
               off[i + 1] = off[i] + Len(blocks[i]) /\ At(program, base + off[i], blocks[i])
  BY Blocks
<1> DEFINE g == [i \in 1..n + 1 |-> f[(base + off[i]) + 1][nr]]
<1>2. ASSUME NEW i \in 1..n PROVE g[i] = IF i \in F THEN v[i] ELSE g[i + 1]
  <2>1. i \in 1..n + 1 /\ i + 1 \in 1..n + 1
    BY <1>0
  <2>2. off[i] \in Nat /\ base + off[i] \in Nat /\ Len(blocks[i]) \in Nat
    <3>1. blocks[i] \in Seq(Instruction)
      BY ElementOfSeq DEF n
    <3>2. off[i] \in Nat
      BY <1>1, <2>1
    <3> QED
      BY <3>1, <3>2
  <2>3. f[(base + off[i]) + 1][nr] =
           IF i \in F THEN v[i] ELSE f[(base + off[i]) + Len(blocks[i]) + 1][nr]
    BY <1>1, <2>2 DEF Decide
  <2>4. (base + off[i]) + Len(blocks[i]) + 1 = (base + off[i + 1]) + 1
    BY <1>1, <2>2
  <2> QED
    BY <2>1, <2>3, <2>4
<1>3. g[1] = f[base + 1][nr]
  BY <1>0, <1>1
<1>4. g[n + 1] = f[base + Len(FlattenSeq(blocks)) + 1][nr]
  <2>1. n + 1 \in 1..n + 1
    BY <1>0
  <2>2. off[n + 1] = Len(FlattenSeq(blocks))
    BY <1>1
  <2>3. g[n + 1] = f[(base + off[n + 1]) + 1][nr]
    BY <2>1
  <2> HIDE DEF g, n
  <2> QED
    BY <2>2, <2>3
<1> HIDE DEF g, n
<1>5. \A i \in 1..n : i \notin F => g[i] = g[i + 1]
  BY <1>2
<1>6. CASE F = {}
  <2>1. n + 1 \in 1..n + 1 /\ \A i \in 1..n : i < n + 1 => i \notin F
    BY <1>0, <1>6
  <2>2. HandedOn(n, g, F, n + 1)
    BY <1>5, <2>1 DEF HandedOn
  <2>3. g[1] = g[n + 1]
    BY <1>0, <2>1, <2>2, Chain
  <2> QED
    BY <1>3, <1>4, <1>6, <2>3 DEF IsLeast
<1>7. ASSUME NEW m, IsLeast(m, F) PROVE f[base + 1][nr] = v[m]
  <2>1. m \in F /\ m \in 1..n /\ m \in 1..n + 1
    BY <1>0, <1>7 DEF n, IsLeast, Decide
  <2>2. \A i \in 1..n : i < m => i \notin F
    BY <1>0, <1>7, <2>1 DEF IsLeast
  <2>3. HandedOn(n, g, F, m)
    BY <1>5, <2>2 DEF HandedOn
  <2>4. g[1] = g[m]
    BY <1>0, <2>1, <2>3, Chain
  <2> QED
    BY <1>2, <1>3, <2>1, <2>4
<1> QED
  BY <1>6, <1>7

\* The value of an action is a verdict.
LEMMA ValueTyped ==
  ASSUME NEW action \in Actions, NEW errno \in ErrnoRet
  PROVE  ActionValue(action, errno) \in VerdictType
<1>1. CASE action # "errno"
  BY <1>1 DEF ActionValue, Verdict, VerdictType
<1>2. CASE action = "errno" /\ errno = <<>>
  BY <1>2 DEF ActionValue, Verdict, VerdictType
<1>3. CASE action = "errno" /\ errno # <<>>
  <2>1. errno \in Seq(Nat)
    BY <1>3 DEF ErrnoRet
  <2>2. 1 \in 1..Len(errno)
    BY <1>3, <2>1, EmptySeq
  <2>3. errno[1] \in Nat
    BY <2>1, <2>2, ElementOfSeq
  <2>4. errno[1] % 65536 \in Nat
    BY <2>3
  <2> QED
    BY <1>3, <2>4 DEF ActionValue, Verdict, VerdictType
<1> QED
  BY <1>1, <1>2, <1>3

\* The rules that the compiler takes.
Compilable(rule) == rule \in Rule /\ rule.action \in Actions /\ ~rule.conditional

\* The instructions for one rule, name by name.
NamesOf(rule) ==
    [k \in DOMAIN rule.names |-> OneCall(rule.names[k], ActionValue(rule.action, rule.errno))]

\* They are well formed, a block for each name.
LEMMA RuleTyped ==
  ASSUME NEW rule, Compilable(rule)
  PROVE  /\ NamesOf(rule) \in Seq(Seq(Instruction)) /\ OneRule(rule) \in Seq(Instruction)
         /\ Len(NamesOf(rule)) = Len(rule.names) /\ DOMAIN rule.names = 1..Len(rule.names)
<1>1. rule.names \in Seq(STRING) /\ rule.action \in Actions /\ rule.errno \in ErrnoRet
  BY DEF Compilable, Rule
<1>2. DOMAIN rule.names = 1..Len(rule.names) /\ Len(rule.names) \in Nat
  BY <1>1
<1>3. ActionValue(rule.action, rule.errno) \in VerdictType
  BY <1>1, ValueTyped
<1>4. NamesOf(rule) \in [1..Len(rule.names) -> Seq(Instruction)]
  BY <1>2, <1>3, CallTyped DEF NamesOf
<1>5. NamesOf(rule) \in Seq(Seq(Instruction)) /\ Len(NamesOf(rule)) = Len(rule.names)
  BY <1>2, <1>4
<1> QED
  BY <1>2, <1>5, Flattened DEF OneRule, NamesOf

\* A rule speaks of a call.
Speaks(rule, nr) == \E j \in DOMAIN rule.names : Hits(rule.names[j], nr)

\* The instructions for a rule return its verdict for the calls it names, and pass
\* on any other.
LEMMA RuleVerdict ==
  ASSUME NEW program \in Seq(Instruction), NEW call \in CallType, NEW f, Runs(program, call, f),
         NEW base \in Nat, NEW rule, Compilable(rule), At(program, base, OneRule(rule))
  PROVE  f[base + 1][call.nr] =
            IF Speaks(rule, call.nr) THEN ActionValue(rule.action, rule.errno)
            ELSE f[base + Len(OneRule(rule)) + 1][call.nr]
<1> DEFINE value == ActionValue(rule.action, rule.errno)
           blocks == NamesOf(rule)
           F == {j \in DOMAIN rule.names : Hits(rule.names[j], call.nr)}
           v == [j \in DOMAIN rule.names |-> value]
<1>1. /\ blocks \in Seq(Seq(Instruction)) /\ OneRule(rule) \in Seq(Instruction)
      /\ Len(blocks) = Len(rule.names) /\ DOMAIN rule.names = 1..Len(rule.names)
  BY RuleTyped
<1>2. value \in VerdictType
  BY ValueTyped DEF Compilable, Rule
<1>3. OneRule(rule) = FlattenSeq(blocks)
  BY DEF OneRule, NamesOf
<1>4. Len(rule.names) \in Nat
  BY DEF Compilable, Rule
<1>5. ASSUME NEW i \in 1..Len(blocks), NEW b \in Nat, At(program, b, blocks[i])
      PROVE  f[b + 1][call.nr] = IF i \in F THEN v[i] ELSE f[b + Len(blocks[i]) + 1][call.nr]
  <2>1. i \in DOMAIN rule.names
    BY <1>1
  <2>2. blocks[i] = OneCall(rule.names[i], value)
    BY <2>1 DEF NamesOf
  <2>3. v[i] = value
    BY <2>1
  <2>4. i \in F <=> Hits(rule.names[i], call.nr)
    BY <2>1
  <2> HIDE DEF value, v, F, blocks
  <2>5. At(program, b, OneCall(rule.names[i], value))
    BY <1>5, <2>2
  <2>6. f[b + 1][call.nr] = IF Hits(rule.names[i], call.nr) THEN value
                            ELSE f[b + Len(OneCall(rule.names[i], value)) + 1][call.nr]
    BY <1>2, <2>5, CallVerdict
  <2> QED
    BY <2>2, <2>3, <2>4, <2>6
<1>6. F \in SUBSET (1..Len(blocks))
  BY <1>1
<1> HIDE DEF F, v, blocks
<1>7. /\ F = {} => f[base + 1][call.nr] = f[base + Len(FlattenSeq(blocks)) + 1][call.nr]
      /\ \A m : IsLeast(m, F) => f[base + 1][call.nr] = v[m]
  <2>1. Decide(program, f, call.nr, blocks, F, v)
    BY <1>5, <1>6 DEF Decide
  <2>2. At(program, base, FlattenSeq(blocks)) /\ blocks \in Seq(Seq(Instruction))
    BY <1>1, <1>3
  <2> QED
    BY <2>1, <2>2, FirstDecides
<1>8. CASE F = {}
  BY <1>3, <1>7, <1>8 DEF F, Speaks
<1>9. CASE F # {}
  <2>1. PICK m : IsLeast(m, F)
    BY <1>1, <1>4, <1>6, <1>9, Least
  <2>2. v[m] = value /\ Speaks(rule, call.nr)
    BY <2>1 DEF F, v, Speaks, IsLeast
  <2> QED
    BY <1>7, <2>1, <2>2
<1> QED
  BY <1>8, <1>9

\* The instructions of a profile, rule by rule.
RulesOf(prof) == [k \in DOMAIN prof.rules |-> OneRule(prof.rules[k])]

\* What Compiles asks of a profile but its length.
Sound(prof) ==
    prof \in ProfileType /\ prof.action \in Actions /\
    \A k \in DOMAIN prof.rules : Compilable(prof.rules[k])

\* They are well formed.
LEMMA RulesTyped ==
  ASSUME NEW prof, Sound(prof)
  PROVE  /\ RulesOf(prof) \in Seq(Seq(Instruction))
         /\ FlattenSeq(RulesOf(prof)) \in Seq(Instruction)
         /\ Len(RulesOf(prof)) = Len(prof.rules)
         /\ DOMAIN prof.rules = 1..Len(prof.rules) /\ Len(prof.rules) \in Nat
<1>1. prof.rules \in Seq(Rule)
  BY DEF Sound, ProfileType
<1>2. DOMAIN prof.rules = 1..Len(prof.rules) /\ Len(prof.rules) \in Nat
  BY <1>1
<1>3. RulesOf(prof) \in [1..Len(prof.rules) -> Seq(Instruction)]
  BY <1>2, RuleTyped DEF RulesOf, Sound
<1>4. RulesOf(prof) \in Seq(Seq(Instruction)) /\ Len(RulesOf(prof)) = Len(prof.rules)
  BY <1>2, <1>3
<1> QED
  BY <1>2, <1>4, Flattened

\* The first rule for a call decides, and what follows the rules if there is none.
LEMMA RulesVerdict ==
  ASSUME NEW program \in Seq(Instruction), NEW call \in CallType, NEW f, Runs(program, call, f),
         NEW base \in Nat, NEW prof, Sound(prof),
         At(program, base, FlattenSeq(RulesOf(prof)))
  PROVE  LET F == {k \in DOMAIN prof.rules : Speaks(prof.rules[k], call.nr)} IN
         /\ F = {} => f[base + 1][call.nr] =
                      f[base + Len(FlattenSeq(RulesOf(prof))) + 1][call.nr]
         /\ \A m : IsLeast(m, F) => f[base + 1][call.nr] =
               ActionValue(prof.rules[m].action, prof.rules[m].errno)
<1> DEFINE blocks == RulesOf(prof)
           F == {k \in DOMAIN prof.rules : Speaks(prof.rules[k], call.nr)}
           v == [k \in DOMAIN prof.rules |->
                    ActionValue(prof.rules[k].action, prof.rules[k].errno)]
<1>1. /\ blocks \in Seq(Seq(Instruction))
      /\ Len(blocks) = Len(prof.rules) /\ DOMAIN prof.rules = 1..Len(prof.rules)
  BY RulesTyped
<1>2. ASSUME NEW i \in 1..Len(blocks), NEW b \in Nat, At(program, b, blocks[i])
      PROVE  f[b + 1][call.nr] = IF i \in F THEN v[i] ELSE f[b + Len(blocks[i]) + 1][call.nr]
  <2>1. i \in DOMAIN prof.rules
    BY <1>1
  <2>2. blocks[i] = OneRule(prof.rules[i]) /\ Compilable(prof.rules[i])
    BY <2>1 DEF RulesOf, Sound
  <2>3. v[i] = ActionValue(prof.rules[i].action, prof.rules[i].errno)
    BY <2>1
  <2>4. i \in F <=> Speaks(prof.rules[i], call.nr)
    BY <2>1
  <2> HIDE DEF v, F, blocks
  <2> QED
    BY <1>2, <2>2, <2>3, <2>4, RuleVerdict
<1>3. F \in SUBSET (1..Len(blocks))
  BY <1>1
<1>4. \A m \in F : v[m] = ActionValue(prof.rules[m].action, prof.rules[m].errno)
  OBVIOUS
<1>5. At(program, base, FlattenSeq(blocks))
  OBVIOUS
<1> HIDE DEF F, v, blocks
<1>6. Decide(program, f, call.nr, blocks, F, v)
  BY <1>2, <1>3 DEF Decide
<1>7. blocks \in Seq(Seq(Instruction))
  BY <1>1
<1>8. /\ F = {} => f[base + 1][call.nr] = f[base + Len(FlattenSeq(blocks)) + 1][call.nr]
      /\ \A m : IsLeast(m, F) => f[base + 1][call.nr] = v[m]
  BY <1>5, <1>6, <1>7, FirstDecides
<1>9. \A m : IsLeast(m, F) => f[base + 1][call.nr] =
         ActionValue(prof.rules[m].action, prof.rules[m].errno)
  BY <1>4, <1>8 DEF IsLeast
<1> QED
  BY <1>8, <1>9 DEF F, blocks

\* The header: pin the architecture, load the number, and refuse x32 where there is
\* one.
LEMMA HeaderIs ==
    /\ Header \in Seq(Instruction) /\ Len(Header) \in Nat /\ Len(Header) >= 4
    /\ Header[1] = Load("arch") /\ Header[2] = JumpEqual(AuditArch, 1, 0)
    /\ Header[3] = Return(Kill) /\ Header[4] = Load("nr")
<1> DEFINE pin == <<Load("arch"), JumpEqual(AuditArch, 1, 0), Return(Kill), Load("nr")>>
           guard == IF GuardX32 THEN <<JumpGE(X32Bit, 0, 1), Return(Kill)>> ELSE <<>>
<1>1. /\ Load("arch") \in Instruction /\ Load("nr") \in Instruction
      /\ JumpEqual(AuditArch, 1, 0) \in Instruction /\ JumpGE(X32Bit, 0, 1) \in Instruction
  BY BuildAssumption DEF Load, JumpEqual, JumpGE, Instruction
<1>2. Return(Kill) \in Instruction
  BY DEF Return, Kill, Verdict, Instruction, VerdictType, Actions
<1>3. /\ pin \in Seq(Instruction) /\ Len(pin) = 4
      /\ pin[1] = Load("arch") /\ pin[2] = JumpEqual(AuditArch, 1, 0)
      /\ pin[3] = Return(Kill) /\ pin[4] = Load("nr")
  BY <1>1, <1>2
<1>4. guard \in Seq(Instruction)
  BY <1>1, <1>2
<1>5. Header = pin \o guard
  BY DEF Header
<1> HIDE DEF pin, guard
<1>6. Header \in Seq(Instruction) /\ Joined(pin, guard, Header)
  BY <1>3, <1>4, <1>5, ConcatAt
<1>7. Len(Header) = 4 + Len(guard) /\ Len(guard) \in Nat
  BY <1>3, <1>4, <1>6 DEF Joined
<1>8. \A k \in 1..4 : Header[k] = pin[k]
  BY <1>3, <1>6 DEF Joined
<1> QED
  BY <1>3, <1>6, <1>7, <1>8

\* Without x32 that is all.
LEMMA HeaderShort == ASSUME GuardX32 = FALSE PROVE Len(Header) = 4
<1> DEFINE pin == <<Load("arch"), JumpEqual(AuditArch, 1, 0), Return(Kill), Load("nr")>>
<1>1. Header = pin \o <<>>
  BY DEF Header
<1>2. pin \in Seq({Load("arch"), JumpEqual(AuditArch, 1, 0), Return(Kill), Load("nr")})
  OBVIOUS
<1>3. pin \o <<>> = pin
  <2> HIDE DEF pin
  <2> QED
    BY <1>2, ConcatEmptySeq
<1>4. Len(pin) = 4
  OBVIOUS
<1> QED
  BY <1>1, <1>3, <1>4

\* With it there are two instructions more.
LEMMA HeaderLong ==
  ASSUME GuardX32 = TRUE
  PROVE  Len(Header) = 6 /\ Header[5] = JumpGE(X32Bit, 0, 1) /\ Header[6] = Return(Kill)
<1> DEFINE pin == <<Load("arch"), JumpEqual(AuditArch, 1, 0), Return(Kill), Load("nr")>>
           guard == <<JumpGE(X32Bit, 0, 1), Return(Kill)>>
           S == {Load("arch"), JumpEqual(AuditArch, 1, 0), Return(Kill), Load("nr"),
                 JumpGE(X32Bit, 0, 1)}
<1>1. Header = pin \o guard
  BY DEF Header
<1>2. /\ pin \in Seq(S) /\ Len(pin) = 4 /\ guard \in Seq(S) /\ Len(guard) = 2
      /\ guard[1] = JumpGE(X32Bit, 0, 1) /\ guard[2] = Return(Kill)
  OBVIOUS
<1> HIDE DEF pin, guard, S
<1>3. Joined(pin, guard, Header)
  BY <1>1, <1>2, ConcatAt
<1>4. Len(Header) = 4 + 2
  BY <1>2, <1>3 DEF Joined
<1>5. Header[4 + 1] = guard[1] /\ Header[4 + 2] = guard[2]
  BY <1>2, <1>3 DEF Joined
<1> QED
  BY <1>2, <1>4, <1>5

\* The parts of a program: the header, the rules, the default.
LEMMA ProgramIs ==
  ASSUME NEW prof, Sound(prof)
  PROVE  LET program == Program(prof)
             body == FlattenSeq(RulesOf(prof))
         IN  /\ program \in Seq(Instruction)
             /\ Len(program) = Len(Header) + Len(body) + 1
             /\ At(program, 0, Header) /\ At(program, Len(Header), body)
             /\ program[Len(Header) + Len(body) + 1] =
                   Return(ActionValue(prof.action, prof.errno))
<1> DEFINE program == Program(prof)
           body == FlattenSeq(RulesOf(prof))
           default == <<Return(ActionValue(prof.action, prof.errno))>>
<1>1. Header \in Seq(Instruction) /\ body \in Seq(Instruction)
  BY HeaderIs, RulesTyped
<1>2. ActionValue(prof.action, prof.errno) \in VerdictType
  BY ValueTyped DEF Sound, ProfileType
<1>3. default \in Seq(Instruction) /\ Len(default) = 1
      /\ default[1] = Return(ActionValue(prof.action, prof.errno))
  BY <1>2 DEF Return, Instruction
<1>4. program = (Header \o body) \o default
  BY DEF Program, RulesOf
<1> HIDE DEF program, body, default
<1>5. Header \o body \in Seq(Instruction) /\ Joined(Header, body, Header \o body)
  BY <1>1, ConcatAt
<1>6. program \in Seq(Instruction) /\ Joined(Header \o body, default, program)
  BY <1>3, <1>4, <1>5, ConcatAt
<1>7. Len(Header) \in Nat /\ Len(body) \in Nat /\ Len(Header \o body) = Len(Header) + Len(body)
  BY <1>1, <1>5 DEF Joined
<1>8. Len(program) = Len(Header) + Len(body) + 1
  BY <1>3, <1>6, <1>7 DEF Joined
<1>9. \A k \in 1..Len(Header) + Len(body) : program[k] = (Header \o body)[k]
  BY <1>6, <1>7 DEF Joined
<1>10. At(program, 0, Header)
  <2> SUFFICES ASSUME NEW j \in 1..Len(Header)
               PROVE  0 + j \in 1..Len(program) /\ program[0 + j] = Header[j]
    BY DEF At
  <2>1. 0 + j = j /\ j \in 1..Len(Header) + Len(body) /\ j \in 1..Len(program)
    BY <1>7, <1>8
  <2>2. (Header \o body)[j] = Header[j]
    BY <1>5 DEF Joined
  <2> QED
    BY <1>9, <2>1, <2>2
<1>11. At(program, Len(Header), body)
  <2> SUFFICES ASSUME NEW j \in 1..Len(body)
               PROVE  /\ Len(Header) + j \in 1..Len(program)
                      /\ program[Len(Header) + j] = body[j]
    BY DEF At
  <2>1. /\ Len(Header) + j \in 1..Len(Header) + Len(body)
        /\ Len(Header) + j \in 1..Len(program)
    BY <1>7, <1>8
  <2>2. (Header \o body)[Len(Header) + j] = body[j]
    BY <1>5 DEF Joined
  <2> QED
    BY <1>9, <2>1, <2>2
<1>12. program[Len(Header) + Len(body) + 1] = default[1]
  BY <1>3, <1>6, <1>7 DEF Joined
<1> QED
  BY <1>3, <1>6, <1>8, <1>10, <1>11, <1>12 DEF program, body

\* What the header does with a call.
LEMMA HeaderVerdict ==
  ASSUME NEW program \in Seq(Instruction), NEW call \in CallType, NEW f, Runs(program, call, f),
         At(program, 0, Header)
  PROVE  f[1][0] = IF call.arch # AuditArch \/ (GuardX32 /\ call.nr >= X32Bit) THEN Kill
                   ELSE f[Len(Header) + 1][call.nr]
<1>0. /\ call.arch \in Accs(call) /\ call.nr \in Accs(call) /\ 0 \in Accs(call)
      /\ call.nr \in Nat /\ call.arch \in Nat
  BY DEF Accs, CallType
<1>1. \A k \in 1..Len(Header) : k \in 1..Len(program) /\ program[k] = Header[k]
  BY HeaderIs DEF At
<1>2. /\ 1 \in 1..Len(program) /\ program[1] = Load("arch")
      /\ 2 \in 1..Len(program) /\ program[2] = JumpEqual(AuditArch, 1, 0)
      /\ 3 \in 1..Len(program) /\ program[3] = Return(Kill)
      /\ 4 \in 1..Len(program) /\ program[4] = Load("nr")
  BY <1>1, HeaderIs
<1>3. f[1][0] = f[2][call.arch]
  <2>1. f[1][0] = f[1 + 1][call["arch"]]
    BY <1>0, <1>2, Effects
  <2> QED
    BY <2>1
<1>4. f[2][call.arch] = IF call.arch = AuditArch THEN f[4][call.arch] ELSE f[3][call.arch]
  <2>1. f[2][call.arch] =
           IF call.arch = AuditArch THEN f[2 + 1 + 1][call.arch] ELSE f[2 + 1 + 0][call.arch]
    <3>1. ASSUME NEW acc \in Accs(call), NEW n \in Nat, program[2] = JumpEqual(n, 1, 0)
          PROVE  f[2][acc] = IF acc = n THEN f[2 + 1 + 1][acc] ELSE f[2 + 1 + 0][acc]
      BY <1>2, <3>1, Effects
    <3> QED
      BY <1>0, <1>2, <3>1, BuildAssumption
  <2> QED
    BY <2>1
<1>5. f[3][call.arch] = Kill
  <2>1. ASSUME NEW acc \in Accs(call) PROVE f[3][acc] = Kill
    BY <1>2, Effects
  <2> QED
    BY <1>0, <2>1
<1>6. f[4][call.arch] = f[5][call.nr]
  <2>1. f[4][call.arch] = f[4 + 1][call["nr"]]
    BY <1>0, <1>2, Effects
  <2> QED
    BY <2>1
<1>7. CASE GuardX32 = FALSE
  <2>1. Len(Header) + 1 = 5
    <3>1. Len(Header) = 4
      BY <1>7, HeaderShort
    <3> QED
      BY <3>1
  <2> QED
    BY <1>3, <1>4, <1>5, <1>6, <1>7, <2>1
<1>8. CASE GuardX32 = TRUE
  <2>1. /\ Len(Header) + 1 = 7
        /\ 5 \in 1..Len(program) /\ program[5] = JumpGE(X32Bit, 0, 1)
        /\ 6 \in 1..Len(program) /\ program[6] = Return(Kill)
    <3>1. Len(Header) = 6 /\ Header[5] = JumpGE(X32Bit, 0, 1) /\ Header[6] = Return(Kill)
      BY <1>8, HeaderLong
    <3> QED
      BY <1>1, <3>1
  <2>2. f[5][call.nr] = IF call.nr >= X32Bit THEN f[6][call.nr] ELSE f[7][call.nr]
    <3>1. f[5][call.nr] =
             IF call.nr >= X32Bit THEN f[5 + 1 + 0][call.nr] ELSE f[5 + 1 + 1][call.nr]
      BY <1>0, <2>1, BuildAssumption, Effects
    <3> QED
      BY <3>1
  <2>3. f[6][call.nr] = Kill
    BY <1>0, <2>1, Effects
  <2> QED
    BY <1>3, <1>4, <1>5, <1>6, <1>8, <2>1, <2>2, <2>3
<1> QED
  BY <1>7, <1>8, BuildAssumption

\* "A mis-compiled filter is a silently weakened sandbox" (seccomp.go): the program
\* of every profile that compiles says of every call what the profile means.
THEOREM CompilerIsCorrect ==
  ASSUME NEW prof \in ProfileType, Compiles(prof), NEW call \in CallType
  PROVE  Run(Program(prof), call) = Meaning(prof, call)
<1> DEFINE program == Program(prof)
           body == FlattenSeq(RulesOf(prof))
           F == {k \in DOMAIN prof.rules : Speaks(prof.rules[k], call.nr)}
           after == Len(Header) + Len(body) + 1
<1>1. Sound(prof)
  <2>1. prof.rules \in Seq(Rule)
    BY DEF ProfileType
  <2>2. \A k \in DOMAIN prof.rules : prof.rules[k] \in Rule
    BY <2>1, ElementOfSeq
  <2> QED
    BY <2>2 DEF Sound, Compilable, Compiles
<1>2. /\ program \in Seq(Instruction) /\ Len(program) = after
      /\ At(program, 0, Header) /\ At(program, Len(Header), body)
      /\ program[after] = Return(ActionValue(prof.action, prof.errno))
  BY <1>1, ProgramIs
<1>3. /\ Len(Header) \in Nat /\ Len(body) \in Nat
      /\ DOMAIN prof.rules = 1..Len(prof.rules) /\ Len(prof.rules) \in Nat
  <2>1. Header \in Seq(Instruction) /\ body \in Seq(Instruction)
    BY <1>1, HeaderIs, RulesTyped
  <2> HIDE DEF body
  <2> QED
    BY <1>1, <2>1, RulesTyped
<1> HIDE DEF program
<1>4. PICK f : Run(program, call) = f[1][0] /\ Runs(program, call, f)
  BY <1>2, RunSteps
<1>5. f[1][0] = IF call.arch # AuditArch \/ (GuardX32 /\ call.nr >= X32Bit) THEN Kill
                ELSE f[Len(Header) + 1][call.nr]
  BY <1>2, <1>4, HeaderVerdict
<1>6. /\ F = {} => f[Len(Header) + 1][call.nr] = f[after][call.nr]
      /\ \A m : IsLeast(m, F) => f[Len(Header) + 1][call.nr] =
            ActionValue(prof.rules[m].action, prof.rules[m].errno)
  <2>1. program \in Seq(Instruction) /\ Runs(program, call, f) /\ Len(Header) \in Nat
    BY <1>2, <1>3, <1>4
  <2>2. At(program, Len(Header), FlattenSeq(RulesOf(prof)))
    BY <1>2
  <2> QED
    BY <1>1, <2>1, <2>2, RulesVerdict
<1>7. f[after][call.nr] = ActionValue(prof.action, prof.errno)
  <2>1. after \in 1..Len(program)
    BY <1>2, <1>3
  <2>2. call.nr \in Accs(call)
    BY DEF Accs
  <2> HIDE DEF after
  <2> QED
    BY <1>2, <1>4, <2>1, <2>2, Effects
<1>8. RulesFor(prof, call) = F
  BY DEF RulesFor, Speaks, Hits, Compiles
<1> HIDE DEF F, after, body
<1>9. CASE call.arch # AuditArch \/ (GuardX32 /\ call.nr >= X32Bit)
  BY <1>4, <1>5, <1>9 DEF Meaning, program
<1>10. CASE ~(call.arch # AuditArch \/ (GuardX32 /\ call.nr >= X32Bit)) /\ F = {}
  BY <1>4, <1>5, <1>6, <1>7, <1>8, <1>10 DEF Meaning, program
<1>11. CASE ~(call.arch # AuditArch \/ (GuardX32 /\ call.nr >= X32Bit)) /\ F # {}
  <2> DEFINE First(k) == \A j \in F : k <= j
             least == CHOOSE k \in F : First(k)
  <2>1. \E m : IsLeast(m, F)
    <3>1. F \in SUBSET (1..Len(prof.rules))
      BY <1>3 DEF F
    <3> QED
      BY <1>3, <1>11, <3>1, Least
  <2>2. IsLeast(least, F)
    <3>1. \E k \in F : First(k)
      BY <2>1 DEF IsLeast
    <3>2. least \in F /\ First(least)
      <4> HIDE DEF First
      <4> QED
        BY <3>1
    <3> HIDE DEF least
    <3> QED
      BY <3>2 DEF IsLeast
  <2>3. Meaning(prof, call) =
           ActionValue(prof.rules[least].action, prof.rules[least].errno)
    BY <1>8, <1>11 DEF Meaning
  <2> HIDE DEF least
  <2> QED
    BY <1>4, <1>5, <1>6, <1>11, <2>2, <2>3 DEF program
<1> QED
  BY <1>9, <1>10, <1>11

----------------------------------------------------------------------------
(* The sandbox *)

\* No step changes the type of a variable, wherever the goroutine is moved.
LEMMA TypedStep == ASSUME Typed, [Next]_vars PROVE Typed'
<1>0. /\ \A t \in Threads : cred[t] \in CredType
      /\ cred \in [Threads -> CredType] /\ on \in Threads /\ cred[on] \in CredType
      /\ spec \in SpecType
  BY DEF Typed
<1>1. CASE UNCHANGED vars
  BY <1>1 DEF vars, Typed
<1>2. CASE ResolveBinary
  BY <1>2 DEF ResolveBinary, Step, Typed, Steps
<1>3. CASE ApplyProcessLimits
  BY <1>3 DEF ApplyProcessLimits, AfterLimits, Step, Typed, Steps
<1>4. CASE KeepCaps
  <2>1. cred' \in [Threads -> CredType]
    BY <1>0, <1>4, KeepCapsChange, ChangeTyped DEF KeepCaps
  <2> QED
    BY <1>4, <2>1 DEF KeepCaps, Step, Typed, Steps
<1>5. CASE Setgroups
  <2>1. ASSUME NEW t \in Threads
        PROVE  [cred[t] EXCEPT !.groups = spec.groups, !.inherited = FALSE] \in CredType
    BY <1>0 DEF SpecType, CredType
  <2>2. cred' \in [Threads -> CredType]
    BY <1>0, <1>5, <2>1 DEF Setgroups, ChangeAll
  <2> QED
    BY <1>5, <2>2 DEF Setgroups, Step, Typed, Steps
<1>6. CASE Setgid
  <2>1. ASSUME NEW t \in Threads PROVE [cred[t] EXCEPT !.gid = spec.gid] \in CredType
    BY <1>0 DEF SpecType, CredType
  <2>2. cred' \in [Threads -> CredType]
    BY <1>0, <1>6, <2>1 DEF Setgid, ChangeAll
  <2> QED
    BY <1>6, <2>2 DEF Setgid, Step, Typed, Steps
<1>7. CASE Setuid
  <2>1. ASSUME NEW t \in Threads PROVE AfterSetuid(cred[t], spec.uid) \in CredType
    BY <1>0 DEF AfterSetuid, SpecType, CredType
  <2>2. cred' \in [Threads -> CredType]
    BY <1>0, <1>7, <2>1 DEF Setuid, ChangeAll
  <2> QED
    BY <1>7, <2>2 DEF Setuid, Step, Typed, Steps
<1>8. CASE UnkeepCaps
  <2>1. cred' \in [Threads -> CredType]
    BY <1>0, <1>8, KeepCapsChange, ChangeTyped DEF UnkeepCaps
  <2> QED
    BY <1>8, <2>1 DEF UnkeepCaps, Step, Typed, Steps
<1>9. CASE ResolveCapabilities
  BY <1>9 DEF ResolveCapabilities, Step, Typed, Steps
<1>10. CASE DropBounding
  BY <1>10 DEF DropBounding, Step, Change, Typed, Steps, CredType
<1>11. CASE ClearAmbient
  BY <1>11 DEF ClearAmbient, Step, Change, Typed, Steps, CredType
<1>12. CASE Capset
  <2>1. [cred[on] EXCEPT !.permitted = spec.permitted, !.effective = spec.effective,
                         !.inheritable = spec.inheritable] \in CredType
    BY <1>0 DEF SpecType, CredType
  <2>2. cred' \in [Threads -> CredType]
    BY <1>0, <1>12, <2>1, ChangeTyped DEF Capset
  <2>3. todo' \subseteq Caps
    BY <1>0, <1>12 DEF Capset, SpecType
  <2> QED
    BY <1>12, <2>2, <2>3 DEF Capset, Step, Typed, Steps
<1>13. CASE RaiseAmbient
  BY <1>13 DEF RaiseAmbient, Step, Change, AfterCaps, Typed, Steps, CredType
<1>14. CASE SetNoNewPrivs
  <2>1. cred' \in [Threads -> CredType]
    BY <1>0, <1>14, NoNewPrivsChange, ChangeTyped DEF SetNoNewPrivs
  <2> QED
    BY <1>14, <2>1 DEF SetNoNewPrivs, Step, Typed, Steps
<1>15. CASE ApplySeccomp
  <2>1. ASSUME NEW t \in Threads
        PROVE  [cred[t] EXCEPT !.filter = TRUE,
                               !.noNewPrivs = @ \/ cred[on].noNewPrivs] \in CredType
    BY <1>0 DEF CredType
  <2>2. cred' \in [Threads -> CredType]
    BY <1>0, <1>15, <2>1 DEF ApplySeccomp, ChangeAll
  <2> QED
    BY <1>15, <2>2 DEF ApplySeccomp, Step, Typed, Steps
<1>16. CASE Exec
  <2>1. AfterExec(cred[on]) \in CredType
    BY <1>0 DEF AfterExec, CredType
  <2>2. cred' \in [Threads -> CredType]
    BY <1>0, <1>16, <2>1, ChangeTyped DEF Exec
  <2> QED
    BY <1>16, <2>2 DEF Exec, Step, Typed, Steps
<1>17. CASE Migrate
  BY <1>17 DEF Migrate, Typed
<1> QED
  BY <1>1, <1>2, <1>3, <1>4, <1>5, <1>6, <1>7, <1>8, <1>9, <1>10, <1>11, <1>12, <1>13,
     <1>14, <1>15, <1>16, <1>17 DEF Next, SetupUser, ApplyCapabilities

\* The profile is one that the compiler takes or the reason why ApplySeccomp fails,
\* and once it has not failed every thread has the filter.
Filtered ==
    /\ spec.seccomp => profile \in ProfileType
    /\ spec.seccomp => (Compiles(profile) <=> spec.wrong # "seccomp")
    /\ pc \in {"exec", "user"} /\ spec.seccomp =>
          spec.wrong # "seccomp" /\ \A t \in Threads : cred[t].filter

\* ApplySeccomp comes before Exec if there is a profile, and sets the filter of all
\* threads; Exec keeps it.
LEMMA FilteredStep == ASSUME Typed, Filtered, [Next]_vars, UNCHANGED profile PROVE Filtered'
<1>0. /\ \A t \in Threads : cred[t] \in CredType
      /\ cred \in [Threads -> CredType] /\ on \in Threads
  BY DEF Typed
<1>1. spec' = spec /\ profile' = profile
  BY DEF vars, Next, SetupUser, ApplyCapabilities, ResolveBinary, ApplyProcessLimits, KeepCaps,
         Setgroups, Setgid, Setuid, UnkeepCaps, ResolveCapabilities, DropBounding, ClearAmbient,
         Capset, RaiseAmbient, SetNoNewPrivs, ApplySeccomp, Exec, Migrate
<1> SUFFICES ASSUME pc' \in {"exec", "user"}, spec.seccomp
             PROVE  spec.wrong # "seccomp" /\ \A t \in Threads : cred'[t].filter
  BY <1>1 DEF Filtered
<1>2. CASE UNCHANGED vars \/ Migrate
  BY <1>2 DEF vars, Migrate, Filtered
<1>3. CASE ResolveBinary \/ ApplyProcessLimits \/ SetupUser \/ ApplyCapabilities \/ SetNoNewPrivs
  <2>1. pc' \notin {"exec", "user"}
    BY <1>3 DEF SetupUser, ApplyCapabilities, ResolveBinary, ApplyProcessLimits, AfterLimits,
                KeepCaps, Setgroups, Setgid, Setuid, UnkeepCaps, ResolveCapabilities,
                DropBounding, ClearAmbient, Capset, RaiseAmbient, AfterCaps, SetNoNewPrivs, Step
  <2> QED
    BY <2>1
<1>4. CASE ApplySeccomp
  <2>1. /\ spec.wrong # "seccomp"
        /\ cred' = [t \in Threads |-> [cred[t] EXCEPT !.filter = TRUE,
                                                      !.noNewPrivs = @ \/ cred[on].noNewPrivs]]
    BY <1>4 DEF ApplySeccomp, Step, ChangeAll
  <2>2. \A t \in Threads : [cred[t] EXCEPT !.filter = TRUE,
                                           !.noNewPrivs = @ \/ cred[on].noNewPrivs].filter
    BY <1>0 DEF CredType
  <2> QED
    BY <2>1, <2>2
<1>5. CASE Exec
  <2>1. pc = "exec" /\ cred' = [cred EXCEPT ![on] = AfterExec(cred[on])]
    BY <1>5 DEF Exec, Step, Change
  <2>2. AfterExec(cred[on]).filter = cred[on].filter
    BY <1>0 DEF AfterExec, CredType
  <2> QED
    BY <1>0, <2>1, <2>2 DEF Filtered
<1> QED
  BY <1>2, <1>3, <1>4, <1>5 DEF Next

\* Initially the profile is one that the spec comes with.
LEMMA FilteredInit == SandboxInit => Typed /\ Filtered
<1> SUFFICES ASSUME SandboxInit PROVE Typed /\ Filtered
  OBVIOUS
<1>1. Typed
  BY RootTyped, SpecsAssumption DEF SandboxInit, Init, Typed, Steps
<1>2. spec.seccomp => profile \in ProfileType
  BY ProfilesOfAssumption DEF SandboxInit, Init
<1> QED
  BY <1>1, <1>2 DEF SandboxInit, Init, Filtered

\* Whatever call the user's command makes, and wherever the goroutine was moved on
\* the way, its filter is in force and decides as the profile says.
THEOREM FilterIsMeant == SandboxSpec => []FilterMatches
<1>1. Typed /\ Filtered => FilterMatches
  <2> SUFFICES ASSUME Typed, Filtered, pc = "user", spec.seccomp
               PROVE  /\ cred[on].filter
                      /\ \A call \in Calls : Run(Program(profile), call) = Meaning(profile, call)
    BY DEF FilterMatches
  <2>1. cred[on].filter /\ profile \in ProfileType /\ Compiles(profile)
    BY DEF Typed, Filtered
  <2>2. ASSUME NEW call \in Calls PROVE Run(Program(profile), call) = Meaning(profile, call)
    BY <2>1, CompilerIsCorrect, CallsAssumption
  <2> QED
    BY <2>1, <2>2
<1>2. Typed /\ Filtered /\ [SandboxNext]_<<vars, profile>> => (Typed /\ Filtered)'
  <2> SUFFICES ASSUME Typed, Filtered, [SandboxNext]_<<vars, profile>>
               PROVE  Typed' /\ Filtered'
    OBVIOUS
  <2>1. [Next]_vars /\ UNCHANGED profile
    BY DEF SandboxNext
  <2> QED
    BY <2>1, TypedStep, FilteredStep
<1> QED
  BY <1>1, <1>2, FilteredInit, PTL DEF SandboxSpec
=============================================================================

---------------------------- MODULE CgroupProofs ----------------------------
(***************************************************************************)
(* For all containers, ids, paths, resources and hosts: the limits a spec  *)
(* asks for are in force while its container runs, nothing is written at   *)
(* the root, and what is refused is refused for a cause.                   *)
(***************************************************************************)
EXTENDS Cgroups, SequenceTheorems, TLAPS

----------------------------------------------------------------------------
(* The tree *)

\* The i-th of the cgroups on the way to a container's own.
Level(c, i) == SubSeq(Leaf[c], 1, i)

\* The tree is made of the levels of the paths.
LEMMA LevelIsPath ==
  ASSUME NEW c \in Conts, NEW i \in 1..Len(Leaf[c])
  PROVE  /\ Level(c, i) \in Seq(STRING) /\ Len(Level(c, i)) = i
         /\ Level(c, i) \in Dirs /\ Level(c, i) # <<>>
<1>1. Leaf[c] \in Seq(STRING)
  BY LeafAssumption
<1>2. \A j \in 1..i : Leaf[c][j] \in STRING
  BY <1>1
<1>3. Level(c, i) \in Seq(STRING) /\ Len(Level(c, i)) = i
  BY <1>1, <1>2, SubSeqProperties DEF Level
<1> QED
  BY <1>3 DEF Dirs, Level

\* The first level of an accepted path is the root, the last its leaf.
LEMMA LevelEnds ==
  ASSUME NEW c \in Conts, Accepted(c)
  PROVE  /\ Len(Leaf[c]) \in Nat /\ 1 < Len(Leaf[c]) /\ Leaf[c] \in Dirs
         /\ Leaf[c] # Root /\ Leaf[c] # <<>>
         /\ Level(c, 1) = Root /\ Level(c, Len(Leaf[c])) = Leaf[c]
<1>1. Leaf[c] \in Seq(STRING) /\ Len(Leaf[c]) \in Nat
  BY LeafAssumption
<1>2. Len(Root) = 1 /\ SubSeq(Root, 1, 1) = Root
  <2>1. Root \in Seq({"root"}) /\ Len(Root) = 1
    BY DEF Root
  <2> QED
    BY <2>1, SubSeqFull
<1>3. IsPrefix(Root, Leaf[c]) /\ Leaf[c] # Root
  BY DEF Accepted, Leaf, IsStrictPrefix
<1>4. 1 <= Len(Leaf[c]) /\ Level(c, 1) = Root
  BY <1>2, <1>3 DEF IsPrefix, Level
<1>5. Level(c, Len(Leaf[c])) = Leaf[c]
  BY <1>1, SubSeqFull DEF Level
<1>6. Len(Leaf[c]) # 1
  BY <1>3, <1>4, <1>5
<1> QED
  BY <1>1, <1>3, <1>4, <1>5, <1>6, LevelIsPath

\* Each level lies in the one before it.
LEMMA FrontOfLevel ==
  ASSUME NEW c \in Conts, NEW i \in 2..Len(Leaf[c])
  PROVE  Front(Level(c, i)) = Level(c, i - 1)
<1>1. Leaf[c] \in Seq(STRING) /\ Len(Leaf[c]) \in Nat
  BY LeafAssumption
<1>2. Len(Level(c, i)) = i
  BY <1>1, LevelIsPath
<1> QED
  BY <1>1, <1>2, SubSeqOfSubSeq DEF Front, Level

\* Two levels of a path are two cgroups.
LEMMA LevelsDiffer ==
  ASSUME NEW c \in Conts, NEW i \in 1..Len(Leaf[c]), NEW j \in 1..Len(Leaf[c]), i # j
  PROVE  Level(c, i) # Level(c, j)
  BY LevelIsPath

\* What MkdirAll makes on the way to a level is in the tree.
LEMMA AncestorsOfLevel ==
  ASSUME NEW c \in Conts, NEW i \in 1..Len(Leaf[c])
  PROVE  Ancestors(Level(c, i)) \subseteq Dirs /\ Level(c, i) \in Ancestors(Level(c, i))
<1>1. Leaf[c] \in Seq(STRING) /\ Len(Leaf[c]) \in Nat /\ Len(Root) = 1
  BY LeafAssumption DEF Root
<1>2. Len(Level(c, i)) = i /\ Level(c, i) \in Seq(STRING)
  BY LevelIsPath
<1>3. ASSUME NEW k \in 1..i PROVE SubSeq(Level(c, i), 1, k) \in Dirs
  <2>1. SubSeq(Level(c, i), 1, k) = Level(c, k)
    BY <1>1, <1>3, SubSeqOfSubSeq DEF Level
  <2> QED
    <3>1. k \in 1..Len(Leaf[c])
      BY <1>1
    <3> QED
      BY <2>1, <3>1, LevelIsPath
<1>4. SubSeq(Level(c, i), 1, i) = Level(c, i)
  BY <1>2, SubSeqFull
<1>5. Ancestors(Level(c, i)) = {SubSeq(Level(c, i), 1, k) : k \in 1..i}
  BY <1>1, <1>2 DEF Ancestors
<1>6. i \in 1..i
  BY <1>1
<1> QED
  BY <1>3, <1>4, <1>5, <1>6

\* A cgroup on the way to a container's own that is another's lies above it.
LEMMA LeafOnTheWay ==
  ASSUME NEW c \in Conts, NEW d \in Conts, NEW i \in 1..Len(Leaf[c]),
         i < Len(Leaf[c]), Level(c, i) = Leaf[d]
  PROVE  Related(c, d)
<1>1. Leaf[c] \in Seq(STRING) /\ Len(Leaf[c]) \in Nat
  BY LeafAssumption
<1>2. Len(Leaf[d]) = i /\ Leaf[d] \in Seq(STRING)
  BY LevelIsPath
<1>3. SubSeq(Leaf[d], 1, i) = Leaf[d]
  BY <1>2, SubSeqFull
<1> QED
  BY <1>1, <1>2, <1>3 DEF Related, IsStrictPrefix, IsPrefix, Level

\* The files are the eight, and each has one place in their order.
LEMMA FilesAre ==
  Files = {"memory.max", "memory.low", "memory.swap.max", "cpu.max", "cpu.weight",
           "cpuset.cpus", "cpuset.mems", "pids.max"}
<1>1. DOMAIN FileOrder = 1..8
  BY DEF FileOrder
<1> QED
  BY <1>1, SMTT(30) DEF Files, FileOrder, ToSet

\* What SetResources writes is a value of the file.
LEMMA ValueTyped ==
  ASSUME NEW c \in Conts, NEW f \in Writes(c)
  PROVE  ValueFor(Asks[c], f) \in ValuesOf(f)
<1> DEFINE r == Asks[c]
<1>1. \A k \in Keys : r[k] \in Int \cup {Unset}
  BY AsksAssumption
<1>2. \A v \in Int : FormatLimit(v) \in Int \cup {Unlimited} /\ SharesToWeight(v) \in Int
  BY DEF FormatLimit, SharesToWeight
<1>3. f \in Files /\ ValueFor(r, f) # Unset
  BY DEF Writes
<1> HIDE DEF r
<1>4. SwapMax(r) # Unset => SwapMax(r) \in Int \cup {Unlimited}
  BY <1>1, <1>2 DEF SwapMax, Keys
<1>5. Period(r) \in Int
  BY <1>1 DEF Period, Keys
<1>6. CASE f = "cpu.max"
  <2>1. r["quota"] # Unset /\ ValueFor(r, f) = <<FormatLimit(r["quota"]), Period(r)>>
    BY <1>3, <1>6 DEF ValueFor
  <2>2. FormatLimit(r["quota"]) \in Int \cup {Unlimited}
    BY <1>1, <1>2, <2>1 DEF Keys
  <2> QED
    BY <1>5, <1>6, <2>1, <2>2 DEF ValuesOf, r
<1>7. CASE f # "cpu.max"
  <2>1. ValueFor(r, f) \in Int \cup {Unlimited}
    BY <1>1, <1>2, <1>3, <1>4, <1>7, FilesAre DEF ValueFor, Keys
  <2> QED
    BY <1>7, <2>1 DEF ValuesOf, r
<1> QED
  BY <1>6, <1>7

----------------------------------------------------------------------------
(* The invariant *)

Values == UNION {ValuesOf(f) : f \in Files}

\* Each file has values of its own.
ValuesFit == \A d \in Dirs, f \in Files : value[d][f] \in ValuesOf(f)

\* The types, and the values the loops and the joins keep to.
Typed ==
    /\ host \in Hosts /\ dirs \subseteq Dirs /\ Root \in dirs
    /\ subtree \in [Dirs -> SUBSET Controllers]
    /\ value \in [Dirs -> [Files -> Values]]
    /\ member = [c \in Conts |-> member[c]]
    /\ pc \in [Conts -> PCs]
    /\ level = [c \in Conts |-> level[c]]
    /\ \A c \in Conts : Accepted(c) => level[c] \in 1..Len(Leaf[c])
    /\ \A c \in Conts : pc[c] = "idle" => level[c] = 1
    /\ todo = [c \in Conts |-> todo[c]]

\* Only a create whose path lies below the root gets past NewCgroupManager.
BelowRoot == \A c \in Conts : pc[c] \notin {"idle", "failed"} => Accepted(c)

\* Where a container has no process in a cgroup.
Outside == {"idle", "enable", "newLeaf", "check", "apply", "rmLeaf", "failed"}

\* A container's processes are in its own cgroup, from Apply on until they end.
Joined ==
    \A c \in Conts :
        /\ member[c] # <<>> => member[c] = Leaf[c] /\ Leaf[c] \in dirs
        /\ pc[c] \in Outside => member[c] = <<>>
        /\ pc[c] \in {"write", "running"} => member[c] = Leaf[c]

\* Of the containers with one id, one at most is between create and delete.
OneAtATime ==
    \A c, d \in Conts : c # d /\ Id[c] = Id[d] /\ InProgress(c) => ~InProgress(d)

\* No other id names the container's cgroup; NewCgroupManager takes any path below
\* the root.
OwnPath(c) == \A d \in Conts : Leaf[d] = Leaf[c] => Id[d] = Id[c]

\* SetResources keeps to the order of the files, and what it has written is in
\* them, unless the cgroup is another id's too.
Written ==
    \A c \in Conts :
        /\ todo[c] \subseteq Writes(c)
        /\ \A f \in todo[c], g \in Writes(c) : Precedes(f, g) => g \in todo[c]
        /\ OwnPath(c) /\ pc[c] \in {"write", "running"} =>
              \A f \in Writes(c) \ todo[c] : value[Leaf[c]][f] = ValueFor(Asks[c], f)
        /\ pc[c] = "running" => todo[c] = {}

\* Nothing stands in the way of a create: neither its path nor what the host
\* has to offer nor a container in its cgroup, above or below it.
Asked(c) == Needed(c) \cup {ControllerOf(f) : f \in Writes(c)}
Unhindered(c) ==
    /\ Accepted(c) /\ OwnPath(c) /\ Asked(c) \subseteq Offered
    /\ \A d \in Conts : Accepted(d) /\ Related(c, d) => pc[d] = "idle"

\* Then all levels above the one enableControllers has come to pass on what
\* the root has to offer, the leaf keeps what it needs, and nothing is refused.
PassOn(c, n) == \A i \in 1..n : host.controllers \subseteq subtree[Level(c, i)]
Smooth(c) ==
    /\ pc[c] \notin {"abort", "rmLeaf", "failed"}
    /\ subtree[Leaf[c]] = {}
    /\ pc[c] \in {"check", "apply", "write"} => Leaf[c] \in dirs
    /\ Offered # {} =>
          /\ pc[c] = "enable" => PassOn(c, level[c] - 1)
          /\ pc[c] \in {"newLeaf", "check", "apply", "write"} => PassOn(c, Len(Leaf[c]) - 1)
Unrefused ==
    /\ host.enabled \subseteq subtree[Root]
    /\ \A c \in Conts : Unhindered(c) => Smooth(c)

IInv == Typed /\ ValuesFit /\ BelowRoot /\ Joined /\ OneAtATime /\ Written /\ RootUntouched /\ Unrefused

----------------------------------------------------------------------------
(* What a step does to the tree *)

\* mkdir -p only adds cgroups, and they are of the tree.
LEMMA MkdirAdds ==
  ASSUME Typed, NEW c \in Conts, NEW i \in 1..Len(Leaf[c]), MkdirAll(Level(c, i))
  PROVE  dirs' \subseteq Dirs /\ dirs \subseteq dirs' /\ Level(c, i) \in dirs'
  BY AncestorsOfLevel DEF Typed, MkdirAll

\* rmdir takes away one cgroup without processes, if any, and what it was told.
LEMMA RmdirTakesOne ==
  ASSUME Typed, NEW c \in Conts, Accepted(c), Rmdir(Leaf[c])
  PROVE  /\ dirs' \subseteq Dirs /\ Root \in dirs'
         /\ subtree' \in [Dirs -> SUBSET Controllers]
         /\ value' \in [Dirs -> [Files -> Values]]
         /\ \A d \in Dirs : \/ d = Leaf[c] /\ ~\E e \in Conts : member[e] = d
                            \/ /\ d \in dirs => d \in dirs'
                               /\ subtree'[d] = subtree[d] /\ value'[d] = value[d]
         /\ subtree'[Leaf[c]] \subseteq subtree[Leaf[c]]
<1>1. Leaf[c] \in Dirs /\ Leaf[c] # Root
  BY LevelEnds
<1>2. NoLimits \in [Files -> Values]
  BY DEF NoLimits, Values, ValuesOf
<1>3. CASE UNCHANGED tree
  BY <1>1, <1>3 DEF Typed, tree
<1>4. CASE ~UNCHANGED tree
  <2>1. ~\E e \in Conts : member[e] = Leaf[c]
    BY <1>4 DEF Rmdir
  <2>2. /\ dirs' = dirs \ {Leaf[c]}
        /\ subtree' = [subtree EXCEPT ![Leaf[c]] = {}]
        /\ value' = [value EXCEPT ![Leaf[c]] = NoLimits]
    BY <1>4 DEF Rmdir
  <2> QED
    BY <1>1, <1>2, <2>1, <2>2 DEF Typed
<1> QED
  BY <1>3, <1>4

\* Enabling controllers for a level takes none away.
LEMMA EnableAdds ==
  ASSUME Typed, NEW c \in Conts, pc[c] = "enable", Accepted(c), EnableLevel(c)
  PROVE  \/ /\ level[c] < Len(Leaf[c]) /\ host.controllers # {}
            /\ dirs' \subseteq Dirs /\ dirs \subseteq dirs'
            /\ subtree' = [subtree EXCEPT ![Level(c, level[c])] =
                               AfterEnable(Level(c, level[c]), host.controllers)]
            /\ subtree[Level(c, level[c])] \subseteq
                    AfterEnable(Level(c, level[c]), host.controllers)
            /\ subtree' \in [Dirs -> SUBSET Controllers]
            /\ level' = [level EXCEPT ![c] = @ + 1] /\ pc' = pc
         \/ /\ ~(level[c] < Len(Leaf[c]) /\ host.controllers # {})
            /\ Goto(c, "newLeaf") /\ UNCHANGED <<dirs, subtree, level>>
<1> DEFINE d == Level(c, level[c])
<1>1. level[c] \in 1..Len(Leaf[c])
  BY DEF Typed
<1>2. CASE level[c] < Len(Leaf[c]) /\ host.controllers # {}
  <2>1. /\ MkdirAll(d) /\ subtree' = [subtree EXCEPT ![d] = AfterEnable(d, host.controllers)]
        /\ level' = [level EXCEPT ![c] = @ + 1] /\ pc' = pc
    BY <1>2 DEF EnableLevel, Level
  <2>2. dirs' \subseteq Dirs /\ dirs \subseteq dirs' /\ d \in Dirs
    BY <1>1, <2>1, MkdirAdds, LevelIsPath
  <2>3. host.controllers \subseteq Controllers
    BY HostsAssumption DEF Typed, HostType
  <2>4. subtree[d] \subseteq AfterEnable(d, host.controllers)
        /\ AfterEnable(d, host.controllers) \subseteq Controllers
    BY <2>2, <2>3 DEF Typed, AfterEnable
  <2> QED
    BY <1>2, <2>1, <2>2, <2>4 DEF Typed
<1>3. CASE ~(level[c] < Len(Leaf[c]) /\ host.controllers # {})
  BY <1>3 DEF EnableLevel
<1> QED
  BY <1>2, <1>3

----------------------------------------------------------------------------
(* It is inductive *)

\* The initial states satisfy the invariant.
LEMMA InitInductive == Init => IInv
<1> SUFFICES ASSUME Init PROVE IInv
  OBVIOUS
<1>1. \A c \in Conts : pc[c] = "idle" /\ member[c] = <<>> /\ level[c] = 1 /\ todo[c] = {}
  BY DEF Init, Root
<1>2. Root \in Dirs /\ Root # <<>>
  BY DEF Dirs, Root
<1>3. Typed
  <2>1. host.enabled \subseteq Controllers
    BY HostsAssumption DEF Init, HostType
  <2>2. \A c \in Conts : Accepted(c) => 1 \in 1..Len(Leaf[c])
    BY LevelEnds
  <2>3. NoLimits \in [Files -> Values]
    BY DEF NoLimits, Values, ValuesOf
  <2> QED
    BY <1>1, <1>2, <2>1, <2>2, <2>3 DEF Init, Typed, PCs
<1>4. Unrefused
  <2>1. host.enabled \subseteq subtree[Root]
    BY <1>2 DEF Init
  <2>2. \A c \in Conts : Accepted(c) => subtree[Leaf[c]] = {}
    BY LevelEnds DEF Init
  <2> QED
    BY <1>1, <2>1, <2>2 DEF Unrefused, Unhindered, Smooth, PassOn
<1>5. ValuesFit
  BY DEF Init, ValuesFit, NoLimits, ValuesOf
<1> QED
  BY <1>1, <1>2, <1>3, <1>4, <1>5 DEF IInv, Init, BelowRoot, Joined, OneAtATime, InProgress, Ended,
     Written, RootUntouched

\* Types.
LEMMA TypedNext == IInv /\ [Next]_vars => Typed'
<1> SUFFICES ASSUME IInv, [Next]_vars PROVE Typed'
  OBVIOUS
<1> USE DEF IInv
<1>0. Typed /\ BelowRoot
  OBVIOUS
<1>1. CASE UNCHANGED vars
  BY <1>0, <1>1 DEF vars, Typed, Accepted
<1>2. ASSUME NEW c \in Conts, Begin(c) PROVE Typed'
  BY <1>0, <1>2 DEF Begin, Goto, tree, Typed, Accepted, PCs, Creating, Ended
<1>3. ASSUME NEW c \in Conts, EnableLevel(c) PROVE Typed'
  <2>1. pc[c] = "enable" /\ Accepted(c)
    BY <1>0, <1>3 DEF EnableLevel, BelowRoot
  <2>2. level[c] \in 1..Len(Leaf[c]) /\ Len(Leaf[c]) \in Nat
    BY <1>0, <2>1, LevelEnds DEF Typed
  <2>3. UNCHANGED <<host, value, member, todo>>
    BY <1>3 DEF EnableLevel
  <2>4. CASE ~(level[c] < Len(Leaf[c]) /\ host.controllers # {})
    <3>1. Goto(c, "newLeaf") /\ UNCHANGED <<dirs, subtree, level>>
      BY <1>0, <1>3, <2>1, <2>4, EnableAdds
    <3> QED
      BY <1>0, <2>3, <3>1 DEF Goto, Typed, Accepted, PCs, Creating
  <2>5. CASE level[c] < Len(Leaf[c]) /\ host.controllers # {}
    <3>1. /\ dirs' \subseteq Dirs /\ dirs \subseteq dirs'
          /\ subtree' \in [Dirs -> SUBSET Controllers]
          /\ level' = [level EXCEPT ![c] = @ + 1] /\ pc' = pc
      BY <1>0, <1>3, <2>1, <2>5, EnableAdds
    <3>2. level[c] + 1 \in 1..Len(Leaf[c])
      BY <2>2, <2>5
    <3>3. \A d \in Conts : Accepted(d) => level'[d] \in 1..Len(Leaf[d])
      BY <1>0, <3>1, <3>2 DEF Typed
    <3> QED
      BY <1>0, <2>1, <2>3, <3>1, <3>3 DEF Typed, Accepted
  <2> QED
    BY <2>4, <2>5
<1>4. ASSUME NEW c \in Conts, NewLeaf(c) PROVE Typed'
  <2>1. pc[c] = "newLeaf" /\ Accepted(c)
    BY <1>0, <1>4 DEF NewLeaf, BelowRoot
  <2>2. Len(Leaf[c]) \in 1..Len(Leaf[c]) /\ Level(c, Len(Leaf[c])) = Leaf[c]
        /\ 1 \in 1..Len(Leaf[c])
    BY <2>1, LevelEnds
  <2>3. dirs' \subseteq Dirs /\ dirs \subseteq dirs'
    BY <1>0, <1>4, <2>2, MkdirAdds DEF NewLeaf
  <2> QED
    BY <1>0, <1>4, <2>1, <2>2, <2>3 DEF NewLeaf, Goto, Typed, Accepted, PCs, Creating, Root
<1>5. ASSUME NEW c \in Conts, CheckControllers(c) PROVE Typed'
  BY <1>0, <1>5 DEF CheckControllers, Goto, tree, Typed, Accepted, PCs, Creating
<1>6. ASSUME NEW c \in Conts, Apply(c) PROVE Typed'
  BY <1>0, <1>6 DEF Apply, Goto, tree, Typed, Accepted, PCs, Creating
<1>7. ASSUME NEW c \in Conts, WriteFile(c) PROVE Typed'
  <2>1. CASE Goto(c, "abort") /\ UNCHANGED <<value, todo>>
    BY <1>0, <1>7, <2>1 DEF WriteFile, Goto, Typed, Accepted, PCs
  <2>2. ASSUME NEW f \in todo[c],
               value' = [value EXCEPT ![Leaf[c]][f] = ValueFor(Asks[c], f)],
               todo' = [todo EXCEPT ![c] = @ \ {f}], UNCHANGED pc
        PROVE  Typed'
    <3>1. ValueFor(Asks[c], f) \in Values
      BY <2>2, ValueTyped DEF Written, Writes, Values
    <3>2. value' \in [Dirs -> [Files -> Values]]
      BY <1>0, <2>2, <3>1 DEF Typed
    <3> QED
      BY <1>0, <1>7, <2>2, <3>2 DEF WriteFile, Typed, Accepted
  <2> QED
    BY <1>7, <2>1, <2>2 DEF WriteFile
<1>8. ASSUME NEW c \in Conts, Release(c) PROVE Typed'
  BY <1>0, <1>8 DEF Release, Goto, tree, Typed, Accepted, PCs
<1>9. ASSUME NEW c \in Conts, Abort(c) PROVE Typed'
  BY <1>0, <1>9 DEF Abort, Goto, tree, Typed, Accepted, PCs
<1>10. ASSUME NEW c \in Conts, Cleanup(c) PROVE Typed'
  <2>1. Accepted(c) /\ Rmdir(Leaf[c])
    BY <1>0, <1>10 DEF Cleanup, BelowRoot
  <2> QED
    BY <1>0, <1>10, <2>1, RmdirTakesOne DEF Cleanup, Goto, Typed, Accepted, PCs, Ended
<1>11. ASSUME NEW c \in Conts, Stop(c) PROVE Typed'
  BY <1>0, <1>11 DEF Stop, Goto, tree, Typed, Accepted, PCs
<1>12. ASSUME NEW c \in Conts, Vanish(c) PROVE Typed'
  BY <1>0, <1>12 DEF Vanish, tree, Typed, Accepted
<1>13. ASSUME NEW c \in Conts, CreatorDies(c) PROVE Typed'
  <2>1. Accepted(c) => Len(Root) \in 1..Len(Leaf[c])
    BY LevelEnds DEF Root
  <2> QED
    BY <1>0, <1>13, <2>1 DEF CreatorDies, Goto, tree, Typed, Accepted, PCs, Ended
<1> QED
  BY <1>1, <1>2, <1>3, <1>4, <1>5, <1>6, <1>7, <1>8, <1>9, <1>10, <1>11, <1>12, <1>13 DEF Next

\* The files keep to their values.
LEMMA ValuesFitNext == IInv /\ [Next]_vars => ValuesFit'
<1> SUFFICES ASSUME IInv, [Next]_vars PROVE ValuesFit'
  OBVIOUS
<1>0. Typed /\ ValuesFit /\ BelowRoot /\ Written
  BY DEF IInv
<1>1. CASE UNCHANGED value
  BY <1>0, <1>1 DEF ValuesFit
<1>2. ASSUME NEW c \in Conts, WriteFile(c), ~UNCHANGED value PROVE ValuesFit'
  <2>1. PICK f \in todo[c] : value' = [value EXCEPT ![Leaf[c]][f] = ValueFor(Asks[c], f)]
    BY <1>2 DEF WriteFile
  <2>2. ValueFor(Asks[c], f) \in ValuesOf(f)
    BY <1>0, ValueTyped DEF Written
  <2> QED
    BY <1>0, <2>1, <2>2 DEF ValuesFit, Typed
<1>3. ASSUME NEW c \in Conts, Cleanup(c), ~UNCHANGED value PROVE ValuesFit'
  <2>1. value' = [value EXCEPT ![Leaf[c]] = NoLimits]
    BY <1>3 DEF Cleanup, Rmdir, tree
  <2> QED
    BY <1>0, <2>1 DEF ValuesFit, Typed, NoLimits, ValuesOf
<1>4. UNCHANGED value \/ \E c \in Conts : WriteFile(c) \/ Cleanup(c)
  BY DEF Next, vars, tree, Begin, EnableLevel, NewLeaf, CheckControllers, Apply, Release,
         Abort, Stop, Vanish, CreatorDies
<1> QED
  BY <1>1, <1>2, <1>3, <1>4

\* Only accepted paths get on, one container of an id at a time.
LEMMA PlacesNext == IInv /\ [Next]_vars => BelowRoot' /\ OneAtATime'
<1> SUFFICES ASSUME IInv, [Next]_vars PROVE BelowRoot' /\ OneAtATime'
  OBVIOUS
<1>0. Typed /\ BelowRoot /\ OneAtATime
  BY DEF IInv
<1> USE <1>0 DEF Typed, BelowRoot, OneAtATime, Accepted, InProgress, Ended, Goto
<1>1. CASE UNCHANGED vars
  BY <1>1 DEF vars
<1>2. ASSUME NEW c \in Conts, Begin(c) PROVE BelowRoot' /\ OneAtATime'
  BY <1>2 DEF Begin
<1>3. ASSUME NEW c \in Conts, EnableLevel(c) PROVE BelowRoot' /\ OneAtATime'
  <2>1. pc[c] = "enable" /\ (pc' = pc \/ pc' = [pc EXCEPT ![c] = "newLeaf"])
    BY <1>3 DEF EnableLevel
  <2> QED
    BY <2>1
<1>4. ASSUME NEW c \in Conts, NewLeaf(c) PROVE BelowRoot' /\ OneAtATime'
  BY <1>4 DEF NewLeaf
<1>5. ASSUME NEW c \in Conts, CheckControllers(c) PROVE BelowRoot' /\ OneAtATime'
  <2>1. pc[c] = "check" /\ (\/ pc' = [pc EXCEPT ![c] = "apply"]
                            \/ pc' = [pc EXCEPT ![c] = "rmLeaf"])
    BY <1>5 DEF CheckControllers
  <2> QED
    BY <2>1
<1>6. ASSUME NEW c \in Conts, Apply(c) PROVE BelowRoot' /\ OneAtATime'
  <2>1. pc[c] = "apply" /\ (\/ pc' = [pc EXCEPT ![c] = "write"]
                            \/ pc' = [pc EXCEPT ![c] = "abort"])
    BY <1>6 DEF Apply
  <2> QED
    BY <2>1
<1>7. ASSUME NEW c \in Conts, WriteFile(c) PROVE BelowRoot' /\ OneAtATime'
  <2>1. pc[c] = "write" /\ (pc' = pc \/ pc' = [pc EXCEPT ![c] = "abort"])
    BY <1>7 DEF WriteFile
  <2> QED
    BY <2>1
<1>8. ASSUME NEW c \in Conts, Release(c) PROVE BelowRoot' /\ OneAtATime'
  BY <1>8 DEF Release
<1>9. ASSUME NEW c \in Conts, Abort(c) PROVE BelowRoot' /\ OneAtATime'
  BY <1>9 DEF Abort
<1>10. ASSUME NEW c \in Conts, Cleanup(c) PROVE BelowRoot' /\ OneAtATime'
  BY <1>10 DEF Cleanup
<1>11. ASSUME NEW c \in Conts, Stop(c) PROVE BelowRoot' /\ OneAtATime'
  BY <1>11 DEF Stop
<1>12. ASSUME NEW c \in Conts, Vanish(c) PROVE BelowRoot' /\ OneAtATime'
  BY <1>12 DEF Vanish
<1>13. ASSUME NEW c \in Conts, CreatorDies(c) PROVE BelowRoot' /\ OneAtATime'
  BY <1>13 DEF CreatorDies, Creating
<1> QED
  BY <1>1, <1>2, <1>3, <1>4, <1>5, <1>6, <1>7, <1>8, <1>9, <1>10, <1>11, <1>12, <1>13 DEF Next

\* Where the containers' processes are.
LEMMA JoinedNext == IInv /\ [Next]_vars => Joined'
<1> SUFFICES ASSUME IInv, [Next]_vars PROVE Joined'
  OBVIOUS
<1>0. Typed /\ BelowRoot /\ Joined
  BY DEF IInv
<1> USE <1>0 DEF Typed, Joined, Outside, Goto, tree
<1>1. CASE UNCHANGED vars
  BY <1>1 DEF vars
<1>2. ASSUME NEW c \in Conts, Begin(c) PROVE Joined'
  BY <1>2 DEF Begin
<1>3. ASSUME NEW c \in Conts, EnableLevel(c) PROVE Joined'
  <2>1. Accepted(c) /\ pc[c] = "enable" /\ member' = member
    BY <1>3 DEF EnableLevel, BelowRoot
  <2>2. dirs \subseteq dirs' /\ (pc' = pc \/ pc' = [pc EXCEPT ![c] = "newLeaf"])
    BY <1>3, <2>1, EnableAdds
  <2> QED
    BY <2>1, <2>2
<1>4. ASSUME NEW c \in Conts, NewLeaf(c) PROVE Joined'
  BY <1>4 DEF NewLeaf, MkdirAll
<1>5. ASSUME NEW c \in Conts, CheckControllers(c) PROVE Joined'
  BY <1>5 DEF CheckControllers
<1>6. ASSUME NEW c \in Conts, Apply(c) PROVE Joined'
  BY <1>6 DEF Apply, MayJoin
<1>7. ASSUME NEW c \in Conts, WriteFile(c) PROVE Joined'
  <2>1. pc[c] = "write" /\ (pc' = pc \/ pc' = [pc EXCEPT ![c] = "abort"])
        /\ UNCHANGED <<dirs, member>>
    BY <1>7 DEF WriteFile
  <2> QED
    BY <2>1
<1>8. ASSUME NEW c \in Conts, Release(c) PROVE Joined'
  BY <1>8 DEF Release
<1>9. ASSUME NEW c \in Conts, Abort(c) PROVE Joined'
  BY <1>9 DEF Abort
<1>10. ASSUME NEW c \in Conts, Cleanup(c) PROVE Joined'
  <2>1. Accepted(c) /\ Rmdir(Leaf[c]) /\ member' = member
    BY <1>10 DEF Cleanup, BelowRoot
  <2>2. \A d \in Conts : member[d] # <<>> => Leaf[d] \in dirs'
    BY <2>1, RmdirTakesOne
  <2> QED
    BY <1>10, <2>1, <2>2 DEF Cleanup
<1>11. ASSUME NEW c \in Conts, Stop(c) PROVE Joined'
  BY <1>11 DEF Stop
<1>12. ASSUME NEW c \in Conts, Vanish(c) PROVE Joined'
  BY <1>12 DEF Vanish
<1>13. ASSUME NEW c \in Conts, CreatorDies(c) PROVE Joined'
  BY <1>13 DEF CreatorDies
<1> QED
  BY <1>1, <1>2, <1>3, <1>4, <1>5, <1>6, <1>7, <1>8, <1>9, <1>10, <1>11, <1>12, <1>13 DEF Next

\* Of two containers between create and delete the one whose path is its own has
\* its cgroup to itself.
LEMMA LeavesApart ==
  ASSUME IInv, NEW c \in Conts, NEW d \in Conts, c # d, OwnPath(c), InProgress(c), InProgress(d)
  PROVE  Leaf[c] # Leaf[d]
  BY DEF IInv, OneAtATime, OwnPath

\* What has been written stays, and the root is left alone.
LEMMA WrittenNext == IInv /\ [Next]_vars => Written' /\ RootUntouched'
<1> SUFFICES ASSUME IInv, [Next]_vars PROVE Written' /\ RootUntouched'
  OBVIOUS
<1>0. Typed /\ BelowRoot /\ Joined /\ Written /\ RootUntouched
  BY DEF IInv
<1>r. Root \in Dirs
  BY DEF Dirs
<1> USE <1>0, <1>r DEF Typed, Joined, Written, RootUntouched, Outside, Goto, tree
<1>1. CASE UNCHANGED vars
  BY <1>1 DEF vars
<1>2. ASSUME NEW c \in Conts, Begin(c) PROVE Written' /\ RootUntouched'
  BY <1>2 DEF Begin
<1>3. ASSUME NEW c \in Conts, EnableLevel(c) PROVE Written' /\ RootUntouched'
  <2>1. (pc' = pc \/ pc' = [pc EXCEPT ![c] = "newLeaf"]) /\ UNCHANGED <<value, member, todo>>
    BY <1>3 DEF EnableLevel
  <2> QED
    BY <2>1
<1>4. ASSUME NEW c \in Conts, NewLeaf(c) PROVE Written' /\ RootUntouched'
  BY <1>4 DEF NewLeaf
<1>5. ASSUME NEW c \in Conts, CheckControllers(c) PROVE Written' /\ RootUntouched'
  BY <1>5 DEF CheckControllers
<1>6. ASSUME NEW c \in Conts, Apply(c) PROVE Written' /\ RootUntouched'
  <2>1. Accepted(c) /\ Leaf[c] # Root
    BY <1>6, LevelEnds DEF Apply, BelowRoot
  <2>2. CASE MayJoin(Leaf[c])
    <3>1. /\ todo' = [todo EXCEPT ![c] = Writes(c)] /\ pc' = [pc EXCEPT ![c] = "write"]
          /\ member' = [member EXCEPT ![c] = Leaf[c]] /\ UNCHANGED value
      BY <1>6, <2>2 DEF Apply
    <3> QED
      BY <2>1, <3>1
  <2>3. CASE ~MayJoin(Leaf[c])
    BY <1>6, <2>3 DEF Apply
  <2> QED
    BY <2>2, <2>3
<1>7. ASSUME NEW c \in Conts, WriteFile(c) PROVE Written' /\ RootUntouched'
  <2>1. CASE Goto(c, "abort") /\ UNCHANGED <<value, todo>>
    BY <1>7, <2>1 DEF WriteFile
  <2>2. ASSUME NEW f \in todo[c], IsNext(f, todo[c]), Leaf[c] \in dirs,
               value' = [value EXCEPT ![Leaf[c]][f] = ValueFor(Asks[c], f)],
               todo' = [todo EXCEPT ![c] = @ \ {f}], UNCHANGED pc
        PROVE  Written' /\ RootUntouched'
    <3>1. pc[c] = "write" /\ Accepted(c) /\ Leaf[c] \in Dirs /\ Leaf[c] # Root
          /\ UNCHANGED <<member, dirs>>
      BY <1>7, LevelEnds DEF WriteFile, BelowRoot
    <3>2. \A d \in Conts : d # c /\ OwnPath(d) /\ pc[d] \in {"write", "running"} => Leaf[d] # Leaf[c]
      BY <3>1, LeavesApart DEF InProgress, Ended
    <3>3. \A d \in Dirs : d # Leaf[c] => value'[d] = value[d]
      BY <2>2
    <3>4. f \in Files
      BY <2>2 DEF Writes
    <3>5. \A g \in Files : value'[Leaf[c]][g] = IF g = f THEN ValueFor(Asks[c], f)
                                                  ELSE value[Leaf[c]][g]
      BY <2>2, <3>1, <3>4
    <3>6. \A d \in Conts : pc[d] \in {"write", "running"} => Leaf[d] \in Dirs
      BY LevelEnds DEF BelowRoot
    <3>7. Writes(c) \subseteq Files
      BY DEF Writes
    <3>8. RootUntouched'
      BY <3>1, <3>3
    <3>9. ASSUME NEW d \in Conts
          PROVE /\ todo'[d] \subseteq Writes(d)
                /\ \A e \in todo'[d], g \in Writes(d) : Precedes(e, g) => g \in todo'[d]
                /\ OwnPath(d) /\ pc'[d] \in {"write", "running"} =>
                      \A g \in Writes(d) \ todo'[d] : value'[Leaf[d]][g] = ValueFor(Asks[d], g)
                /\ pc'[d] = "running" => todo'[d] = {}
      <4>1. CASE d = c
        BY <2>2, <3>1, <3>5, <3>7, <4>1 DEF IsNext
      <4>2. CASE d # c
        BY <2>2, <3>2, <3>3, <3>6, <4>2
      <4> QED
        BY <4>1, <4>2
    <3> QED
      BY <3>8, <3>9
  <2> QED
    BY <1>7, <2>1, <2>2 DEF WriteFile
<1>8. ASSUME NEW c \in Conts, Release(c) PROVE Written' /\ RootUntouched'
  BY <1>8 DEF Release
<1>9. ASSUME NEW c \in Conts, Abort(c) PROVE Written' /\ RootUntouched'
  <2>1. Root # <<>>
    BY DEF Root
  <2> QED
    BY <1>9, <2>1 DEF Abort
<1>10. ASSUME NEW c \in Conts, Cleanup(c) PROVE Written' /\ RootUntouched'
  <2>1. Accepted(c) /\ Rmdir(Leaf[c]) /\ Leaf[c] # Root /\ UNCHANGED <<member, todo>>
    BY <1>10, LevelEnds DEF Cleanup, BelowRoot
  <2>2. \A d \in Conts : pc[d] \in {"write", "running"} =>
            Leaf[d] \in Dirs /\ value'[Leaf[d]] = value[Leaf[d]]
    BY <2>1, LevelEnds, RmdirTakesOne DEF BelowRoot
  <2>3. value'[Root] = value[Root]
    BY <2>1, RmdirTakesOne
  <2> QED
    BY <1>10, <2>1, <2>2, <2>3 DEF Cleanup
<1>11. ASSUME NEW c \in Conts, Stop(c) PROVE Written' /\ RootUntouched'
  <2>1. Root # <<>>
    BY DEF Root
  <2> QED
    BY <1>11, <2>1 DEF Stop
<1>12. ASSUME NEW c \in Conts, Vanish(c) PROVE Written' /\ RootUntouched'
  <2>1. Root # <<>>
    BY DEF Root
  <2> QED
    BY <1>12, <2>1 DEF Vanish
<1>13. ASSUME NEW c \in Conts, CreatorDies(c) PROVE Written' /\ RootUntouched'
  BY <1>13 DEF CreatorDies
<1> QED
  BY <1>1, <1>2, <1>3, <1>4, <1>5, <1>6, <1>7, <1>8, <1>9, <1>10, <1>11, <1>12, <1>13 DEF Next

\* Nobody goes back to where nothing has begun, and the host stays as it is.
LEMMA BegunStaysBegun ==
  ASSUME IInv, [Next]_vars
  PROVE  /\ host' = host
         /\ \A c \in Conts : pc'[c] = "idle" => pc[c] = "idle"
         /\ \A c \in Conts : Unhindered(c)' => Unhindered(c)
<1>1. pc \in [Conts -> PCs]
  BY DEF IInv, Typed
<1>2. host' = host
  BY DEF Next, vars, Begin, EnableLevel, NewLeaf, CheckControllers, Apply, WriteFile, Release,
         Abort, Cleanup, Stop, Vanish, CreatorDies
<1>3. \A c \in Conts : pc'[c] = "idle" => pc[c] = "idle"
  <2>1. ASSUME NEW c \in Conts, NEW l, l # "idle", pc' = [pc EXCEPT ![c] = l]
        PROVE  \A d \in Conts : pc'[d] = "idle" => pc[d] = "idle"
    BY <1>1, <2>1
  <2>2. pc' = pc \/ \E c \in Conts : \E l \in PCs \ {"idle"} : pc' = [pc EXCEPT ![c] = l]
    BY DEF Next, vars, Begin, EnableLevel, NewLeaf, CheckControllers, Apply, WriteFile, Release,
           Abort, Cleanup, Stop, Vanish, CreatorDies, Goto, PCs, Creating, Ended
  <2> QED
    BY <2>1, <2>2
<1> QED
  BY <1>2, <1>3 DEF Unhindered, Offered, Accepted, OwnPath, Related, Asked, Needed, Section, Writes

\* A step that leaves the tree alone disturbs at most the one who takes it.
LEMMA TreeKept ==
  ASSUME IInv, [Next]_vars, UNCHANGED <<dirs, subtree>>, NEW c \in Conts,
         \A d \in Conts \ {c} : pc'[d] = pc[d] /\ level'[d] = level[d],
         Unhindered(c) => Smooth(c)'
  PROVE  Unrefused'
<1>1. host' = host /\ \A d \in Conts : Unhindered(d)' => Unhindered(d)
  BY BegunStaysBegun
<1>2. ASSUME NEW d \in Conts, d # c, Unhindered(d) PROVE Smooth(d)'
  <2>1. Smooth(d) /\ pc'[d] = pc[d] /\ level'[d] = level[d]
    BY <1>2 DEF IInv, Unrefused
  <2> QED
    BY <1>1, <2>1 DEF Smooth, PassOn, Offered
<1> QED
  BY <1>1, <1>2 DEF IInv, Unrefused

\* Whoever is on the way through another's cgroup stands in its way.
LEMMA OtherLevels ==
  ASSUME NEW c \in Conts, NEW d \in Conts, Unhindered(d), Accepted(c), pc[c] # "idle"
  PROVE  /\ \A i \in 1..(Len(Leaf[c]) - 1) : Level(c, i) # Leaf[d]
         /\ \A i \in 1..(Len(Leaf[d]) - 1) : Level(d, i) # Leaf[c]
<1>1. ~Related(c, d) /\ ~Related(d, c)
  BY DEF Unhindered, Related
<1>2. Len(Leaf[c]) \in Nat /\ Len(Leaf[d]) \in Nat
  BY LevelEnds DEF Unhindered
<1> QED
  BY <1>1, <1>2, LeafOnTheWay

\* What has to be enabled at the next level can be.
LEMMA EnablingSucceeds ==
  ASSUME IInv, NEW c \in Conts, pc[c] = "enable", Unhindered(c), Offered # {},
         level[c] < Len(Leaf[c])
  PROVE  host.controllers \subseteq AfterEnable(Level(c, level[c]), host.controllers)
<1> DEFINE l == level[c]
           d == Level(c, l)
<1>1. Accepted(c) /\ Typed /\ Smooth(c) /\ Joined
  BY DEF IInv, Unhindered, Unrefused
<1>2. l \in 1..Len(Leaf[c]) /\ Len(Leaf[c]) \in Nat /\ d \in Dirs /\ Level(c, 1) = Root
  BY <1>1, LevelEnds, LevelIsPath DEF Typed
<1>3. ~(d # Root /\ \E e \in Conts : member[e] = d)
  <2> SUFFICES ASSUME d # Root, NEW e \in Conts, member[e] = d PROVE FALSE
    OBVIOUS
  <2>1. d # <<>>
    BY <1>2, LevelIsPath
  <2>2. Leaf[e] = d /\ pc[e] \notin Outside
    BY <1>1, <2>1 DEF Joined
  <2>3. Accepted(e) /\ pc[e] # "idle"
    BY <2>2 DEF IInv, BelowRoot, Outside
  <2>4. Related(c, e)
    BY <1>2, <2>2, LeafOnTheWay
  <2> QED
    BY <2>3, <2>4 DEF Unhindered
<1>4. CASE l = 1
  <2>1. d = Root
    BY <1>2, <1>4
  <2>2. host.enabled \subseteq subtree[Root] /\ (host.busy => host.enabled = host.controllers)
    BY DEF IInv, Unrefused, Offered
  <2>3. host.controllers \subseteq AfterEnable(d, host.controllers)
    <3> HIDE DEF d
    <3> QED
      BY <1>3, <2>1, <2>2 DEF AfterEnable, Available, Holds
  <2> QED
    BY <2>3
<1>5. CASE l # 1
  <2>1. l \in 2..Len(Leaf[c]) /\ l - 1 \in 1..(l - 1)
    BY <1>2, <1>5
  <2>2. Front(d) = Level(c, l - 1) /\ d # Root
    BY <1>2, <2>1, FrontOfLevel, LevelsDiffer
  <2>3. host.controllers \subseteq subtree[Level(c, l - 1)]
    BY <1>1, <2>1 DEF Smooth, PassOn
  <2>4. host.controllers \subseteq AfterEnable(d, host.controllers)
    <3> DEFINE up == Level(c, l - 1)
    <3> HIDE DEF d, up
    <3>1. Front(d) = up /\ d # Root /\ host.controllers \subseteq subtree[up]
      BY <2>2, <2>3 DEF up
    <3> QED
      BY <1>3, <3>1 DEF AfterEnable, Available, Holds
  <2> QED
    BY <2>4
<1> QED
  BY <1>4, <1>5

\* A create that nothing stands in the way of is not refused.
LEMMA UnrefusedNext == IInv /\ [Next]_vars => Unrefused'
<1> SUFFICES ASSUME IInv, [Next]_vars PROVE Unrefused'
  OBVIOUS
<1>0. Typed /\ BelowRoot /\ Joined /\ Written /\ Unrefused
  BY DEF IInv
<1>h. host' = host /\ Offered' = Offered /\ \A d \in Conts : Unhindered(d)' => Unhindered(d)
  BY BegunStaysBegun DEF Offered
<1>s. \A d \in Conts : Unhindered(d) => Smooth(d) /\ Accepted(d)
  BY <1>0 DEF Unrefused, Unhindered
<1>1. CASE UNCHANGED vars
  BY <1>0, <1>1, <1>h DEF vars, tree, Unrefused, Smooth, PassOn
<1>2. ASSUME NEW c \in Conts, Begin(c) PROVE Unrefused'
  <2>1. Unhindered(c) => Smooth(c)'
    BY <1>0, <1>2, <1>h, <1>s DEF Begin, Goto, Typed, Smooth, PassOn, tree
  <2> QED
    BY <1>0, <1>2, <2>1, TreeKept DEF Begin, Goto, Typed, tree
<1>3. ASSUME NEW c \in Conts, EnableLevel(c) PROVE Unrefused'
  <2> DEFINE l == level[c]
  <2>1. pc[c] = "enable" /\ Accepted(c) /\ l \in 1..Len(Leaf[c]) /\ Len(Leaf[c]) \in Nat
    BY <1>0, <1>3, LevelEnds DEF EnableLevel, BelowRoot, Typed
  <2>2. CASE ~(l < Len(Leaf[c]) /\ host.controllers # {})
    <3>1. pc' = [pc EXCEPT ![c] = "newLeaf"] /\ UNCHANGED <<dirs, subtree, level>>
      BY <1>0, <1>3, <2>1, <2>2, EnableAdds DEF Goto
    <3>2. Offered # {} => l = Len(Leaf[c])
      BY <2>1, <2>2 DEF Offered
    <3>3. Unhindered(c) => Smooth(c)'
      BY <1>0, <1>h, <1>s, <2>1, <3>1, <3>2 DEF Typed, Smooth, PassOn
    <3> QED
      BY <1>0, <3>1, <3>3, TreeKept DEF Typed
  <2>3. CASE l < Len(Leaf[c]) /\ host.controllers # {}
    <3> DEFINE e == Level(c, l)
               new == AfterEnable(e, host.controllers)
    <3>1. /\ dirs \subseteq dirs' /\ subtree' = [subtree EXCEPT ![e] = new]
          /\ subtree[e] \subseteq new
          /\ level' = [level EXCEPT ![c] = l + 1] /\ pc' = pc
      BY <1>0, <1>3, <2>1, <2>3, EnableAdds
    <3>2. ASSUME NEW d \in Conts, Unhindered(d) PROVE Leaf[d] # e
      <4>1. CASE d = c
        BY <2>1, <2>3, <4>1, LevelEnds, LevelsDiffer
      <4>2. CASE d # c
        BY <2>1, <2>3, <3>2, <4>2, OtherLevels
      <4> QED
        BY <4>1, <4>2
    <3>3. Unhindered(c) /\ Offered # {} => host.controllers \subseteq new
      BY <2>1, <2>3, EnablingSucceeds
    <3>4. e \in Dirs
      BY <2>1, LevelIsPath
    <3> HIDE DEF e, new
    <3>5. \A x \in Dirs : subtree[x] \subseteq subtree'[x] /\ (x # e => subtree'[x] = subtree[x])
      BY <1>0, <3>1 DEF Typed
    <3>6. host.enabled \subseteq subtree'[Root]
      BY <1>0, <3>5 DEF Unrefused, Typed
    <3>7. ASSUME NEW d \in Conts, Unhindered(d) PROVE Smooth(d)'
      <4>1. Smooth(d) /\ Leaf[d] \in Dirs /\ \A i \in 1..Len(Leaf[d]) : Level(d, i) \in Dirs
        BY <1>s, <3>7, LevelEnds, LevelIsPath
      <4>2. subtree'[Leaf[d]] = {}
        BY <3>2, <3>5, <3>7, <4>1 DEF Smooth
      <4>3. Len(Leaf[d]) \in Nat
        BY LeafAssumption
      <4>4. CASE d # c
        <5>1. level'[d] = level[d]
          BY <1>0, <3>1, <4>4 DEF Typed
        <5>2. pc[d] = "enable" => level[d] \in 1..Len(Leaf[d])
          BY <1>0, <1>s, <3>7 DEF Typed
        <5> QED
          BY <1>h, <3>1, <3>5, <4>1, <4>2, <4>3, <5>1, <5>2 DEF Smooth, PassOn
      <4>5. CASE d = c
        <5>1. level'[c] = l + 1 /\ pc'[c] = "enable"
          BY <1>0, <2>1, <3>1 DEF Typed
        <5>2. Offered # {} => host.controllers \subseteq subtree'[e]
          BY <1>0, <3>1, <3>3, <3>4, <3>7, <4>5 DEF Typed
        <5>3. ASSUME Offered # {}, NEW i \in 1..l
              PROVE  host.controllers \subseteq subtree'[Level(c, i)]
          <6>1. CASE i = l
            BY <5>2, <5>3, <6>1 DEF e
          <6>2. CASE i # l
            <7>1. i \in 1..(l - 1) /\ i \in 1..Len(Leaf[c])
              BY <2>1, <5>3, <6>2
            <7> QED
              BY <2>1, <3>5, <4>1, <4>5, <5>3, <7>1 DEF Smooth, PassOn
          <6> QED
            BY <6>1, <6>2
        <5>4. level'[c] - 1 = l
          BY <2>1, <5>1
        <5>5. Offered # {} => PassOn(c, level[c] - 1)'
          BY <1>h, <5>3, <5>4 DEF PassOn
        <5> QED
          BY <1>h, <4>1, <4>2, <4>5, <5>1, <5>5 DEF Smooth
      <4> QED
        BY <4>4, <4>5
    <3> QED
      BY <1>h, <3>6, <3>7 DEF Unrefused
  <2> QED
    BY <2>2, <2>3
<1>4. ASSUME NEW c \in Conts, NewLeaf(c) PROVE Unrefused'
  <2>1. /\ pc' = [pc EXCEPT ![c] = "check"] /\ dirs \subseteq dirs' /\ Leaf[c] \in dirs'
        /\ subtree' = subtree /\ pc[c] = "newLeaf" /\ Accepted(c)
        /\ level' = [level EXCEPT ![c] = Len(Root)]
    <3>1. pc[c] = "newLeaf" /\ Accepted(c) /\ MkdirAll(Leaf[c])
      BY <1>0, <1>4 DEF NewLeaf, BelowRoot
    <3>2. dirs \subseteq dirs' /\ Leaf[c] \in dirs'
      BY <1>0, <3>1, LevelEnds, MkdirAdds
    <3> QED
      BY <1>4, <3>1, <3>2 DEF NewLeaf, Goto
  <2>2. ASSUME NEW d \in Conts, Unhindered(d) PROVE Smooth(d)'
    BY <1>0, <1>h, <1>s, <2>1, <2>2 DEF Typed, Smooth, PassOn
  <2> QED
    BY <1>0, <1>h, <2>1, <2>2 DEF Unrefused
<1>5. ASSUME NEW c \in Conts, CheckControllers(c) PROVE Unrefused'
  <2>1. ASSUME Unhindered(c) PROVE Smooth(c)'
    <3>1. Smooth(c) /\ Accepted(c) /\ pc[c] = "check" /\ UNCHANGED <<dirs, subtree>>
      BY <1>s, <1>5, <2>1 DEF CheckControllers, tree
    <3>2. Len(Leaf[c]) \in 2..Len(Leaf[c]) /\ Len(Leaf[c]) - 1 \in 1..(Len(Leaf[c]) - 1)
          /\ Leaf[c] # Root /\ Front(Leaf[c]) = Level(c, Len(Leaf[c]) - 1)
      BY <3>1, LevelEnds, FrontOfLevel
    <3>3. Needed(c) \subseteq Offered
      BY <2>1 DEF Unhindered, Asked
    <3>4. Needed(c) = {} \/ (Leaf[c] \in dirs /\ Needed(c) \subseteq Available(Leaf[c]))
      BY <3>1, <3>2, <3>3 DEF Smooth, PassOn, Available, Offered
    <3>5. pc' = [pc EXCEPT ![c] = "apply"]
      BY <1>5, <3>4 DEF CheckControllers, Goto
    <3> QED
      BY <1>0, <1>h, <3>1, <3>5 DEF Typed, Smooth, PassOn
  <2> QED
    BY <1>0, <1>5, <2>1, TreeKept DEF CheckControllers, Goto, Typed, tree
<1>6. ASSUME NEW c \in Conts, Apply(c) PROVE Unrefused'
  <2>1. ASSUME Unhindered(c) PROVE Smooth(c)'
    <3>1. Smooth(c) /\ pc[c] = "apply" /\ UNCHANGED <<dirs, subtree>>
      BY <1>s, <1>6, <2>1 DEF Apply, tree
    <3>2. MayJoin(Leaf[c])
      BY <3>1 DEF Smooth, MayJoin
    <3>3. pc' = [pc EXCEPT ![c] = "write"]
      BY <1>6, <3>2 DEF Apply, Goto
    <3> QED
      BY <1>0, <1>h, <3>1, <3>3 DEF Typed, Smooth, PassOn
  <2> QED
    BY <1>0, <1>6, <2>1, TreeKept DEF Apply, Goto, Typed, tree
<1>7. ASSUME NEW c \in Conts, WriteFile(c) PROVE Unrefused'
  <2>1. ASSUME Unhindered(c) PROVE Smooth(c)'
    <3>1. Smooth(c) /\ Accepted(c) /\ pc[c] = "write" /\ UNCHANGED <<dirs, subtree, level>>
      BY <1>s, <1>7, <2>1 DEF WriteFile
    <3>2. Len(Leaf[c]) \in 2..Len(Leaf[c]) /\ Len(Leaf[c]) - 1 \in 1..(Len(Leaf[c]) - 1)
          /\ Leaf[c] # Root /\ Front(Leaf[c]) = Level(c, Len(Leaf[c]) - 1)
      BY <3>1, LevelEnds, FrontOfLevel
    <3>3. \A f \in todo[c] : ControllerOf(f) \in Offered
      BY <1>0, <2>1 DEF Unhindered, Asked, Written
    <3>4. \A f \in todo[c] : Leaf[c] \in dirs /\ ControllerOf(f) \in Available(Leaf[c])
      BY <3>1, <3>2, <3>3 DEF Smooth, PassOn, Available, Offered
    <3>5. pc' = pc
      BY <1>7, <3>4 DEF WriteFile
    <3> QED
      BY <1>h, <3>1, <3>5 DEF Smooth, PassOn
  <2>2. \A d \in Conts \ {c} : pc'[d] = pc[d]
    BY <1>0, <1>7 DEF WriteFile, Goto, Typed
  <2> QED
    BY <1>7, <2>1, <2>2, TreeKept DEF WriteFile
<1>8. ASSUME NEW c \in Conts, Release(c) PROVE Unrefused'
  <2>1. Unhindered(c) => Smooth(c)'
    BY <1>0, <1>h, <1>s, <1>8 DEF Release, Goto, Typed, Smooth, tree
  <2> QED
    BY <1>0, <1>8, <2>1, TreeKept DEF Release, Goto, Typed, tree
<1>9. ASSUME NEW c \in Conts, Abort(c) PROVE Unrefused'
  <2>1. ~Unhindered(c)
    BY <1>s, <1>9 DEF Abort, Smooth
  <2> QED
    BY <1>0, <1>9, <2>1, TreeKept DEF Abort, Goto, Typed, tree
<1>10. ASSUME NEW c \in Conts, Cleanup(c) PROVE Unrefused'
  <2>1. /\ Accepted(c) /\ Rmdir(Leaf[c]) /\ pc[c] \in {"rmLeaf", "cleanup"}
        /\ pc' = [pc EXCEPT ![c] = IF pc[c] = "rmLeaf" THEN "failed" ELSE "stopped"]
        /\ UNCHANGED <<member, level>>
    BY <1>0, <1>10 DEF Cleanup, BelowRoot, Goto
  <2>2. /\ \A e \in Dirs : e # Leaf[c] => /\ e \in dirs => e \in dirs'
                                         /\ subtree'[e] = subtree[e]
        /\ subtree'[Leaf[c]] \subseteq subtree[Leaf[c]]
    BY <1>0, <2>1, RmdirTakesOne
  <2>3. host.enabled \subseteq subtree'[Root]
    BY <1>0, <2>1, <2>2, LevelEnds DEF Unrefused, Typed
  <2>4. ASSUME NEW d \in Conts, Unhindered(d) PROVE Smooth(d)'
    <3>1. Smooth(d) /\ Accepted(d) /\ Leaf[d] \in Dirs /\ Len(Leaf[d]) \in Nat
      BY <1>s, <2>4, LevelEnds
    <3>2. subtree'[Leaf[d]] = {}
      BY <2>2, <3>1 DEF Smooth
    <3>3. \A i \in 1..(Len(Leaf[d]) - 1) : subtree'[Level(d, i)] = subtree[Level(d, i)]
      BY <2>1, <2>2, <2>4, <3>1, OtherLevels, LevelIsPath
    <3>4. CASE d = c
      BY <1>0, <2>1, <3>1, <3>2, <3>4 DEF Typed, Smooth
    <3>5. CASE d # c
      <4>1. pc'[d] = pc[d] /\ level'[d] = level[d]
        BY <1>0, <2>1, <3>5 DEF Typed
      <4>2. pc[d] \in {"check", "apply", "write"} => Leaf[d] \in dirs'
        <5> SUFFICES ASSUME pc[d] \in {"check", "apply", "write"} PROVE Leaf[d] \in dirs'
          OBVIOUS
        <5>1. InProgress(d) /\ InProgress(c)
          BY <2>1 DEF InProgress, Ended
        <5> QED
          BY <2>2, <2>4, <3>1, <3>5, <5>1, LeavesApart DEF Smooth, Unhindered
      <4>3. pc[d] = "enable" => level[d] - 1 \in 0..(Len(Leaf[d]) - 1)
        BY <1>0, <3>1 DEF Typed
      <4>4. pc[d] = "enable" /\ Offered # {} => PassOn(d, level[d] - 1)'
        BY <1>h, <3>1, <3>3, <4>1, <4>3 DEF Smooth, PassOn
      <4>5. PassOn(d, Len(Leaf[d]) - 1) => PassOn(d, Len(Leaf[d]) - 1)'
        BY <1>h, <3>3 DEF PassOn
      <4> QED
        BY <1>h, <3>1, <3>2, <4>1, <4>2, <4>4, <4>5 DEF Smooth, PassOn
    <3> QED
      BY <3>4, <3>5
  <2> QED
    BY <1>h, <2>3, <2>4 DEF Unrefused
<1>11. ASSUME NEW c \in Conts, Stop(c) PROVE Unrefused'
  <2>1. Unhindered(c) => Smooth(c)'
    BY <1>0, <1>h, <1>s, <1>11 DEF Stop, Goto, Typed, Smooth, tree
  <2> QED
    BY <1>0, <1>11, <2>1, TreeKept DEF Stop, Goto, Typed, tree
<1>12. ASSUME NEW c \in Conts, Vanish(c) PROVE Unrefused'
  BY <1>0, <1>h, <1>12 DEF Vanish, Unrefused, Smooth, PassOn, tree
<1>13. ASSUME NEW c \in Conts, CreatorDies(c) PROVE Unrefused'
  <2>1. Unhindered(c) => Smooth(c)'
    BY <1>0, <1>h, <1>s, <1>13 DEF CreatorDies, Goto, Typed, Smooth, tree
  <2> QED
    BY <1>0, <1>13, <2>1, TreeKept DEF CreatorDies, Goto, Typed, tree
<1> QED
  BY <1>1, <1>2, <1>3, <1>4, <1>5, <1>6, <1>7, <1>8, <1>9, <1>10, <1>11, <1>12, <1>13 DEF Next

\* The invariant is inductive.
LEMMA NextInductive == IInv /\ [Next]_vars => IInv'
  BY TypedNext, ValuesFitNext, PlacesNext, JoinedNext, WrittenNext, UnrefusedNext DEF IInv

----------------------------------------------------------------------------
(* The theorems *)

\* The invariant holds in every reachable state.
THEOREM Invariance == Spec => []IInv
  BY InitInductive, NextInductive, PTL DEF Spec

\* Every variable has its type, processes are in cgroups that exist, and
\* SetResources keeps to its order.
THEOREM TypeCorrect == Spec => []TypeOK
<1>1. IInv => TypeOK
  <2>1. ASSUME IInv, NEW d \in Dirs PROVE DOMAIN value[d] = Files
    BY <2>1 DEF IInv, Typed
  <2> QED
    BY <2>1 DEF IInv, Typed, ValuesFit, Joined, Written, TypeOK, Root
<1> QED
  BY <1>1, Invariance, PTL

\* "Limits written at the root apply to everything on the host, us included":
\* for all containers, ids, cgroupsPaths, resources and hosts, the root's files
\* are never written and no container's process is moved there.
THEOREM RootIsUntouched == Spec => []RootUntouched
<1>1. IInv => RootUntouched
  BY DEF IInv
<1> QED
  BY <1>1, Invariance, PTL

\* The limits of a container whose cgroup no other id names.
LEMMA LimitsWritten ==
  ASSUME IInv, NEW c \in Conts, OwnPath(c) PROVE LimitsOf(c)
<1> DEFINE r == Asks[c]
           v == value[Leaf[c]]
<1> SUFFICES ASSUME pc[c] = "running"
             PROVE  /\ member[c] = Leaf[c]
                    /\ AtMost(v["memory.max"], r["limit"])
                    /\ r["quota"] # Unset /\ r["quota"] > 0 => v["cpu.max"] = <<r["quota"], Period(r)>>
                    /\ AtMost(v["pids.max"], r["pids"])
                    /\ r["cpus"] # Unset => v["cpuset.cpus"] = r["cpus"]
                    /\ r["mems"] # Unset => v["cpuset.mems"] = r["mems"]
                    /\ Unset \notin {r["limit"], r["swap"]} /\ r["limit"] > 0
                       /\ r["swap"] > r["limit"] =>
                           v["memory.swap.max"] # Unlimited
                           /\ v["memory.max"] + v["memory.swap.max"] <= r["swap"]
  BY DEF LimitsOf
<1>1. member[c] = Leaf[c]
  BY DEF IInv, Joined
<1>2. \A f \in Files : ValueFor(r, f) # Unset => v[f] = ValueFor(r, f)
  BY DEF IInv, Written, Writes
<1>3. \A k \in Keys : r[k] \in Int \cup {Unset}
  BY AsksAssumption
<1> HIDE DEF r, v
<1> USE FilesAre, ValuesAssumption DEF Keys
<1>4. r["limit"] # Unset => v["memory.max"] = FormatLimit(r["limit"])
  BY <1>2, <1>3 DEF ValueFor, FormatLimit
<1>5. r["quota"] # Unset /\ r["quota"] > 0 => v["cpu.max"] = <<r["quota"], Period(r)>>
  <2> SUFFICES ASSUME r["quota"] # Unset, r["quota"] > 0
               PROVE  v["cpu.max"] = <<r["quota"], Period(r)>>
    OBVIOUS
  <2>1. FormatLimit(r["quota"]) = r["quota"]
    BY <1>3 DEF FormatLimit
  <2>2. ValueFor(r, "cpu.max") = <<r["quota"], Period(r)>>
    BY <2>1 DEF ValueFor
  <2>3. ValueFor(r, "cpu.max") # Unset
    <3>1. r["quota"] \in Int /\ Period(r) \in Int
      BY <1>3 DEF Period
    <3> QED
      BY <2>2, <3>1
  <2> QED
    BY <1>2, <2>2, <2>3
<1>6. r["pids"] # Unset => v["pids.max"] = FormatLimit(r["pids"])
  BY <1>2, <1>3 DEF ValueFor, FormatLimit
<1>7. /\ r["cpus"] # Unset => v["cpuset.cpus"] = r["cpus"]
      /\ r["mems"] # Unset => v["cpuset.mems"] = r["mems"]
  BY <1>2 DEF ValueFor
<1>8. Unset \notin {r["limit"], r["swap"]} /\ r["limit"] > 0 /\ r["swap"] > r["limit"] =>
          v["memory.swap.max"] = r["swap"] - r["limit"]
  BY <1>2, <1>3 DEF ValueFor, SwapMax, FormatLimit
<1> QED
  BY <1>1, <1>3, <1>4, <1>5, <1>6, <1>7, <1>8 DEF AtMost, FormatLimit

\* "A container asked to stay under 64MB that silently got no limit is worse
\* than one that refused to start": a container whose cgroup no other id names
\* has every limit of its spec in force while it runs, for all resources and
\* whatever else is in the tree, other ids that share their cgroups included.
THEOREM OwnLimitsAreInForce == Spec => [](\A c \in Conts : OwnPath(c) => LimitsOf(c))
<1> DEFINE Own == \A c \in Conts : OwnPath(c) => LimitsOf(c)
<1>1. IInv => Own
  BY LimitsWritten
<1> HIDE DEF Own
<1>2. Spec => []Own
  BY <1>1, Invariance, PTL
<1> QED
  BY <1>2 DEF Own

\* The code accepts one cgroupsPath for two ids; these are the containers for which
\* no spec does.
OwnPaths == \A c \in Conts : Accepted(c) => OwnPath(c)

\* If no two ids name one cgroup, the limits are in force for every container.
THEOREM LimitsAreInForce == OwnPaths => (Spec => []LimitsHold)
<1> SUFFICES ASSUME OwnPaths PROVE Spec => []LimitsHold
  OBVIOUS
<1>1. IInv => LimitsHold
  <2>1. ASSUME IInv, NEW c \in Conts PROVE LimitsOf(c)
    <3>1. CASE Accepted(c)
      BY <2>1, <3>1, LimitsWritten DEF OwnPaths
    <3>2. CASE ~Accepted(c)
      BY <2>1, <3>2 DEF IInv, BelowRoot, LimitsOf
    <3> QED
      BY <3>1, <3>2
  <2> QED
    BY <2>1 DEF LimitsHold
<1> QED
  BY <1>1, Invariance, PTL

\* A create whose cgroup no other id names is refused only for its path, for a
\* controller that the host does not have or cannot pass on, or for a container
\* above or below it, other ids that share their cgroups included.
THEOREM OwnRefusalsHaveCauses ==
  Spec => [](\A c \in Conts : OwnPath(c) /\ pc[c] = "failed" => HasCause(c))
<1> DEFINE Own == \A c \in Conts : OwnPath(c) /\ pc[c] = "failed" => HasCause(c)
<1>1. IInv => Own
  BY DEF IInv, Unrefused, Smooth, Unhindered, Asked, HasCause
<1> HIDE DEF Own
<1>2. Spec => []Own
  BY <1>1, Invariance, PTL
<1> QED
  BY <1>2 DEF Own

\* If no two ids name one cgroup, no create is refused without such a cause.
THEOREM RefusalsHaveCauses == OwnPaths => (Spec => []RefusedForCause)
<1> SUFFICES ASSUME OwnPaths PROVE Spec => []RefusedForCause
  OBVIOUS
<1>1. IInv => RefusedForCause
  BY DEF IInv, Unrefused, Smooth, Unhindered, Asked, HasCause, RefusedForCause, OwnPaths
<1> QED
  BY <1>1, Invariance, PTL

\* A create that fails leaves its cgroup only to processes in it or to a cgroup
\* below it.
THEOREM FailureIsClean == Spec => FailureLeavesNoCgroup
<1> DEFINE Clean1(c) == pc[c] # "failed" /\ pc'[c] = "failed" =>
             \/ Leaf[c] \notin dirs' \/ ~Accepted(c)
             \/ \E d \in Conts \ {c} : member[d] = Leaf[c]
             \/ \E e \in dirs' : IsStrictPrefix(Leaf[c], e)
<1>1. ASSUME IInv, [Next]_vars, NEW c \in Conts, pc[c] # "failed", pc'[c] = "failed"
      PROVE  ~Accepted(c) \/ (pc[c] = "rmLeaf" /\ Cleanup(c))
  <2>1. pc \in [Conts -> PCs]
    BY <1>1 DEF IInv, Typed
  <2>2. ASSUME NEW d \in Conts, NEW l, l # "failed", Goto(d, l) PROVE FALSE
    BY <1>1, <2>1, <2>2 DEF Goto
  <2>3. pc' # pc
    BY <1>1
  <2>4. CASE \E d \in Conts : Begin(d)
    <3>1. PICK d \in Conts : pc' = [pc EXCEPT ![d] = IF Accepted(d) THEN "enable" ELSE "failed"]
      BY <2>4 DEF Begin, Goto
    <3>2. d = c
      BY <1>1, <2>1, <3>1
    <3>3. CASE Accepted(c)
      <4>1. pc' = [pc EXCEPT ![c] = "enable"]
        BY <3>1, <3>2, <3>3
      <4> QED
        BY <2>2, <4>1 DEF Goto
    <3> QED
      BY <3>3
  <2>5. CASE \E d \in Conts : Cleanup(d)
    BY <1>1, <2>1, <2>2, <2>5 DEF Cleanup, Goto
  <2>6. CASE \E d \in Conts : EnableLevel(d) \/ NewLeaf(d) \/ CheckControllers(d)
    BY <2>2, <2>3, <2>6 DEF EnableLevel, NewLeaf, CheckControllers
  <2>7. CASE \E d \in Conts : Apply(d) \/ WriteFile(d) \/ Release(d) \/ Abort(d)
    BY <2>2, <2>3, <2>7 DEF Apply, WriteFile, Release, Abort
  <2>8. CASE \E d \in Conts : Stop(d) \/ Vanish(d) \/ CreatorDies(d)
    BY <2>2, <2>3, <2>8 DEF Stop, Vanish, CreatorDies
  <2> QED
    BY <1>1, <2>3, <2>4, <2>5, <2>6, <2>7, <2>8 DEF Next, vars
<1>2. ASSUME IInv, NEW c \in Conts, pc[c] = "rmLeaf", Cleanup(c)
      PROVE  \/ Leaf[c] \notin dirs'
             \/ \E d \in Conts \ {c} : member[d] = Leaf[c]
             \/ \E e \in dirs' : IsStrictPrefix(Leaf[c], e)
  <2>1. Rmdir(Leaf[c]) /\ Leaf[c] # Root /\ Leaf[c] # <<>> /\ member[c] = <<>>
    BY <1>2, LevelEnds DEF Cleanup, IInv, BelowRoot, Joined, Outside
  <2> QED
    BY <2>1 DEF Rmdir, tree
<1>3. IInv /\ [Next]_vars => [\A c \in Conts : Clean1(c)]_vars
  BY <1>1, <1>2
<1> QED
  BY <1>3, Invariance, PTL DEF Spec, FailureLeavesNoCgroup
=============================================================================

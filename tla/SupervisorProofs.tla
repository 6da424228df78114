-------------------------- MODULE SupervisorProofs --------------------------
(***************************************************************************)
(* A foreground run ends clean and forwards what came, for every set of    *)
(* signals, capacity of the channel and world of hooks and workloads.  The *)
(* invariant ties init and the forwarder to where the run is, and counts   *)
(* each signal on its way through mask, channel and goroutine.             *)
(***************************************************************************)
EXTENDS Supervisor, FiniteSetTheorems, TLAPS

Over == {"saveStopped", "stop", "poststop", "rmRecord"}

Typed ==
    /\ world \in Worlds /\ pc \in PCs /\ code \in 0..255
    /\ init \in Live \cup {"none", "exited"} /\ reaped \in BOOLEAN /\ status \in -1..2
    /\ record \in {"absent", "creating", "created", "running", "stopped"}
    /\ hook \in {"idle", "running", "succeeded", "failed"} /\ held \in BOOLEAN
    /\ pending \subseteq Signals /\ notified \in BOOLEAN
    /\ channel \in Seq(Signals) /\ Len(channel) <= Capacity
    /\ forward \in {"off", "select", "stopped"}
    /\ sent \in [Signals -> 0..MaxSends] /\ got \in [Signals -> Nat]

\* A hook only runs where the lists have one.
HookWhere == hook # "idle" => pc \in world.hooks \cup {"killed"}

\* How far init can be, by where the run is.
InitWhere ==
    /\ pc = "claim"     => init = "none"
    /\ init = "none"    => pc \in {"claim", "killed"}
    /\ init = "setup"   => pc \in {"prestart", "saveCreated", "abort", "killed"}
    /\ init = "parked"  => pc \in {"saveCreated", "start", "release", "abort", "killed"}
    /\ init \in Released =>
          /\ pc \in {"saveRunning", "poststart", "notify", "wait", "killed"}
          /\ record \in {"created", "running"}
    /\ pc \in {"start", "release"} => record = "created"
    /\ pc \in Over => reaped
    /\ reaped => init = "exited"
    /\ pc = "exited" => init = "exited"

\* The forwarder is at work from notify on, and such a run ends as it should.
ForwardWhere ==
    forward # "off" =>
        /\ pc \in {"wait"} \cup Over \cup Ended
        /\ pc = "exited" => reaped /\ record = "absent" /\ code = status % 256

\* How often a signal is in a channel.
Queued(ch, s) == Cardinality({k \in DOMAIN ch : ch[k] = s})

\* Whether a signal is pending; one more of its kind is lost in it.
Waiting(s) == IF s \in pending THEN 1 ELSE 0

\* What waits, is in the channel or was passed on has been sent.
Counted == \A s \in Signals : got[s] + Queued(channel, s) + Waiting(s) <= sent[s]

\* The run and init go together; and so do the stations of a signal.
Where == Typed /\ HookWhere /\ InitWhere /\ ForwardWhere
IInv == Where /\ Counted

----------------------------------------------------------------------------
(* Counting in a channel *)

\* The places of a signal in a channel are finitely many.
LEMMA QueuedFinite ==
    ASSUME NEW ch \in Seq(Signals), NEW s
    PROVE  /\ IsFiniteSet({k \in DOMAIN ch : ch[k] = s})
           /\ Queued(ch, s) \in Nat
<1>1. Len(ch) \in Nat /\ DOMAIN ch = 1..Len(ch)
    OBVIOUS
<1>2. IsFiniteSet(1..Len(ch))
    BY <1>1, FS_Interval
<1>3. {k \in DOMAIN ch : ch[k] = s} \in SUBSET (1..Len(ch))
    BY <1>1
<1>4. IsFiniteSet({k \in DOMAIN ch : ch[k] = s})
    BY <1>2, <1>3, FS_Subset
<1> QED
    BY <1>4, FS_CardinalityType DEF Queued

\* An empty channel has none of any signal.
LEMMA QueuedEmpty == ASSUME NEW s PROVE Queued(<<>>, s) = 0
<1>1. {k \in DOMAIN <<>> : <<>>[k] = s} = {}
    OBVIOUS
<1> QED
    BY <1>1, FS_EmptySet DEF Queued

\* A signal put into the channel is one more of its kind.
LEMMA QueuedAppend ==
    ASSUME NEW ch \in Seq(Signals), NEW x \in Signals, NEW s
    PROVE  Queued(Append(ch, x), s) = Queued(ch, s) + (IF x = s THEN 1 ELSE 0)
<1> DEFINE old == {k \in DOMAIN ch : ch[k] = s}
           new == {k \in DOMAIN Append(ch, x) : Append(ch, x)[k] = s}
           n   == Len(ch) + 1
<1>0. Queued(ch, s) = Cardinality(old) /\ Queued(Append(ch, x), s) = Cardinality(new)
    BY Zenon DEF Queued
<1>1. n \in Nat /\ DOMAIN ch = 1..(n - 1) /\ DOMAIN Append(ch, x) = 1..n
    OBVIOUS
<1>2. Append(ch, x)[n] = x /\ \A k \in 1..(n - 1) : Append(ch, x)[k] = ch[k]
    OBVIOUS
<1>3. n \notin old
    BY <1>1
<1>4. CASE x = s
  <2>1. new = old \cup {n}
      BY <1>1, <1>2, <1>4
  <2>2. IsFiniteSet(old)
      BY QueuedFinite
  <2>3. Cardinality(old \cup {n}) = Cardinality(old) + 1
      BY <1>3, <2>2, FS_AddElement
  <2>4. Cardinality(new) = Cardinality(old) + 1
      BY <2>1, <2>3
  <2> QED
      BY <1>0, <1>4, <2>4
<1>5. CASE x # s
  <2>1. new = old
      BY <1>1, <1>2, <1>5
  <2>2. Queued(ch, s) \in Nat
      BY QueuedFinite
  <2>3. Queued(Append(ch, x), s) = Queued(ch, s)
      BY <1>0, <2>1
  <2> QED
      BY <1>5, <2>2, <2>3
<1> QED
    BY <1>4, <1>5

\* A signal taken out of the channel is one less of its kind: its other places
\* move up by one.
LEMMA QueuedTail ==
    ASSUME NEW ch \in Seq(Signals), ch # <<>>, NEW s
    PROVE  Queued(ch, s) = Queued(Tail(ch), s) + (IF Head(ch) = s THEN 1 ELSE 0)
<1> DEFINE old  == {k \in DOMAIN ch : ch[k] = s}
           rest == old \ {1}
           new  == {k \in DOMAIN Tail(ch) : Tail(ch)[k] = s}
           up   == [k \in new |-> k + 1]
<1>0. Queued(ch, s) = Cardinality(old) /\ Queued(Tail(ch), s) = Cardinality(new)
    BY Zenon DEF Queued
<1>1. Len(ch) \in Nat \ {0} /\ DOMAIN ch = 1..Len(ch)
    OBVIOUS
<1>2. /\ Tail(ch) \in Seq(Signals) /\ DOMAIN Tail(ch) = 1..(Len(ch) - 1)
      /\ \A k \in 1..(Len(ch) - 1) : Tail(ch)[k] = ch[k + 1]
    BY <1>1
<1>3. IsFiniteSet(old) /\ IsFiniteSet(new) /\ Queued(Tail(ch), s) \in Nat
    BY <1>2, QueuedFinite
<1>4. ExistsBijection(new, rest)
  <2>1. \A k \in new : k \in Int /\ k + 1 \in rest
      BY <1>1, <1>2
  <2>2. up \in [new -> rest]
      BY <2>1
  <2>3. \A a, b \in new : up[a] = up[b] => a = b
      BY <2>1
  <2>4. \A r \in rest : r - 1 \in new /\ up[r - 1] = r
      BY <1>1, <1>2
  <2>5. up \in Bijection(new, rest)
    <3>1. up \in Injection(new, rest)
        BY <2>2, <2>3 DEF Injection, IsInjective
    <3>2. up \in Surjection(new, rest)
        BY <2>2, <2>4 DEF Surjection
    <3> QED
        BY <3>1, <3>2 DEF Bijection
  <2> QED
      BY <2>5 DEF ExistsBijection
<1>5. Cardinality(rest) = Cardinality(new)
    BY <1>3, <1>4, FS_Bijection
<1>6. Cardinality(old) \in Nat
    BY <1>3, FS_CardinalityType
<1>7. 1 \in old <=> Head(ch) = s
    BY <1>1
<1>8. Cardinality(rest) = IF Head(ch) = s THEN Cardinality(old) - 1 ELSE Cardinality(old)
    BY <1>3, <1>7, FS_RemoveElement
<1> QED
  <2> HIDE DEF old, rest, new
  <2> QED
      BY <1>0, <1>3, <1>5, <1>6, <1>8

----------------------------------------------------------------------------
(* The run, its init and its hooks *)

\* A run begins with nothing at all (container.go:119-129).
LEMMA WhereInit == Init => Where
<1> SUFFICES ASSUME Init PROVE Where
    OBVIOUS
<1>1. channel \in Seq(Signals) /\ Len(channel) <= Capacity
    BY CapacityAssumption DEF Init
<1>2. sent \in [Signals -> 0..MaxSends] /\ got \in [Signals -> Nat]
    BY SendsAssumption DEF Init
<1>3. reaped \in BOOLEAN /\ held \in BOOLEAN /\ notified \in BOOLEAN
    BY Zenon DEF Init
<1>4. Typed
    BY <1>1, <1>2, <1>3 DEF Init, Typed, PCs, Ended, HookPoints, Live
<1> QED
    BY <1>4 DEF Init, Where, HookWhere, InitWhere, ForwardWhere, Released, Over, HookPoints

\* Every step leaves the run, its init, its hooks and its forwarder in places
\* that go together.
LEMMA WhereKept == Where /\ [Next]_vars => Where'
<1> SUFFICES ASSUME Where, [Next]_vars PROVE Where'
    OBVIOUS
<1>a. world.hooks \subseteq HookPoints /\ world.handles \subseteq Signals
    BY WorldsAssumption DEF Where, Typed, WorldType
<1>b. hook # "idle" => pc \in HookPoints \cup {"killed"}
    BY <1>a DEF Where, HookWhere
<1>c. code \in 0..255 /\ got \in [Signals -> Nat]
    BY DEF Where, Typed
<1> USE <1>a, <1>b, CapacityAssumption, SendsAssumption
    DEF Where, Typed, HookWhere, InitWhere, ForwardWhere, Over, PCs, Ended,
        HookPoints, Live, Released, container, hooks, relay
<1>0. CASE UNCHANGED vars
    BY <1>0 DEF vars
<1>1. CASE Claim /\ UNCHANGED world
  <2>1. Typed'
      BY <1>1 DEF Claim
  <2>2. HookWhere'
      BY <1>1 DEF Claim
  <2>3. InitWhere'
      BY <1>1 DEF Claim
  <2>4. ForwardWhere'
      BY <1>1 DEF Claim
  <2> QED
      BY <2>1, <2>2, <2>3, <2>4
<1>2. CASE SaveCreated /\ UNCHANGED world
    BY <1>2 DEF SaveCreated, Save
<1>3. CASE Abort /\ UNCHANGED world
    BY <1>3 DEF Abort
<1>4. CASE Start /\ UNCHANGED world
  <2>1. Typed'
    <3>1. \/ pc' = "release" /\ UNCHANGED code
          \/ pc' = "exited" /\ code' = 1
        BY <1>4, Zenon DEF Start
    <3>2. code' \in 0..255
      <4> HIDE DEF Where
      <4> QED
          BY <1>c, <3>1
    <3>3. pc' \in PCs
        BY <3>1
    <3> QED
        BY <1>4, <3>2, <3>3 DEF Start
  <2>2. HookWhere'
      BY <1>4 DEF Start
  <2>3. InitWhere'
      BY <1>4 DEF Start
  <2>4. ForwardWhere'
      BY <1>4 DEF Start
  <2> QED
      BY <2>1, <2>2, <2>3, <2>4
<1>5. CASE Release /\ UNCHANGED world
    BY <1>5 DEF Release
<1>6. CASE SaveRunning /\ UNCHANGED world
    BY <1>6 DEF SaveRunning, Save
<1>7. CASE Notify /\ UNCHANGED world
    BY <1>7 DEF Notify
<1>8. CASE Wait /\ UNCHANGED world
    BY <1>8 DEF Wait
<1>9. CASE SaveStopped /\ UNCHANGED world
    BY <1>9 DEF SaveStopped, Save
<1>10. CASE StopForwarding /\ UNCHANGED world
  <2>1. Typed'
      BY <1>10 DEF StopForwarding
  <2>2. HookWhere'
      BY <1>10 DEF StopForwarding
  <2>3. InitWhere'
      BY <1>10 DEF StopForwarding
  <2>4. ForwardWhere'
      BY <1>10 DEF StopForwarding
  <2> QED
      BY <2>1, <2>2, <2>3, <2>4
<1>11. CASE RemoveRecord /\ UNCHANGED world
  <2>1. Typed'
      BY <1>11 DEF RemoveRecord
  <2>2. HookWhere'
      BY <1>11 DEF RemoveRecord
  <2>3. InitWhere'
      BY <1>11 DEF RemoveRecord
  <2>4. ForwardWhere'
      BY <1>11 DEF RemoveRecord
  <2> QED
      BY <2>1, <2>2, <2>3, <2>4
<1>12. CASE NoHook /\ UNCHANGED world
    BY <1>12 DEF NoHook, AfterHook
<1>13. CASE StartHook /\ UNCHANGED world
    BY <1>13 DEF StartHook
<1>14. CASE HookReturns /\ UNCHANGED world
    BY <1>14 DEF HookReturns, AfterHook
<1>15. CASE Forward /\ UNCHANGED world
  <2>1. Typed'
    <3>1. channel' \in Seq(Signals) /\ Len(channel') <= Capacity
        BY <1>15 DEF Forward
    <3>2. Head(channel) \in Signals
        BY <1>15 DEF Forward
    <3>3. \/ UNCHANGED got
          \/ got' = [got EXCEPT ![Head(channel)] = @ + 1]
        BY <1>15, Zenon DEF Forward
    <3>4. got' \in [Signals -> Nat]
      <4> HIDE DEF Where
      <4> QED
          BY <1>c, <3>2, <3>3
    <3>5. init' \in Live \cup {"none", "exited"} /\ status' \in -1..2
        BY <1>15 DEF Forward, Hit
    <3> QED
        BY <1>15, <3>1, <3>4, <3>5 DEF Forward
  <2>2. HookWhere'
      BY <1>15 DEF Forward, Hit
  <2>3. InitWhere'
      BY <1>15 DEF Forward, Hit
  <2>4. ForwardWhere'
      BY <1>15 DEF Forward, Hit
  <2> QED
      BY <2>1, <2>2, <2>3, <2>4
<1>16. CASE ForwarderStops /\ UNCHANGED world
    BY <1>16 DEF ForwarderStops
<1>17. CASE SignalLoop /\ UNCHANGED world
    BY <1>17 DEF SignalLoop, SeeSignal
<1>18. CASE HookTimesOut /\ UNCHANGED world
    BY <1>18 DEF HookTimesOut
<1>19. CASE HookExits /\ UNCHANGED world
    BY <1>19 DEF HookExits
<1>20. CASE HookForks /\ UNCHANGED world
    BY <1>20 DEF HookForks
<1>21. CASE ChildEnds /\ UNCHANGED world
  <2>1. Typed'
    <3>1. held' \in BOOLEAN
        BY <1>21, Zenon DEF ChildEnds
    <3> QED
        BY <1>21, <3>1 DEF ChildEnds
  <2>2. HookWhere'
      BY <1>21 DEF ChildEnds
  <2>3. InitWhere'
      BY <1>21 DEF ChildEnds
  <2>4. ForwardWhere'
      BY <1>21 DEF ChildEnds
  <2> QED
      BY <2>1, <2>2, <2>3, <2>4
<1>22. CASE SetupFails /\ UNCHANGED world
    BY <1>22 DEF SetupFails
<1>23. CASE Killed /\ UNCHANGED world
    BY <1>23 DEF Killed
<1>24. CASE Park /\ UNCHANGED world
    BY <1>24 DEF Park, InitStep
<1>25. CASE ExecUser /\ UNCHANGED world
    BY <1>25 DEF ExecUser, InitStep
<1>26. CASE Orphaned /\ UNCHANGED world
    BY <1>26 DEF Orphaned, InitStep
<1>27. CASE InitEnds /\ UNCHANGED world
  <2>1. Typed'
      BY <1>27 DEF InitEnds
  <2>2. HookWhere'
      BY <1>27 DEF InitEnds
  <2>3. InitWhere'
      BY <1>27 DEF InitEnds
  <2>4. ForwardWhere'
      BY <1>27 DEF InitEnds
  <2> QED
      BY <2>1, <2>2, <2>3, <2>4
<1>28. CASE (\E s \in Signals : Send(s)) /\ UNCHANGED world
    BY <1>28 DEF Send
<1> QED
    BY <1>0, <1>1, <1>2, <1>3, <1>4, <1>5, <1>6, <1>7, <1>8, <1>9, <1>10,
       <1>11, <1>12, <1>13, <1>14, <1>15, <1>16, <1>17, <1>18, <1>19, <1>20,
       <1>21, <1>22, <1>23, <1>24, <1>25, <1>26, <1>27, <1>28
    DEF Next, Run, Forwarder

----------------------------------------------------------------------------
(* The signals on their way *)

\* The stations count in natural numbers.
LEMMA CountedTypes ==
    ASSUME Where, NEW s \in Signals
    PROVE  /\ got[s] \in Nat /\ sent[s] \in Nat /\ sent[s] <= MaxSends
           /\ Queued(channel, s) \in Nat /\ Waiting(s) \in {0, 1}
<1>1. got[s] \in Nat /\ sent[s] \in 0..MaxSends /\ channel \in Seq(Signals)
    BY DEF Where, Typed
<1>2. Queued(channel, s) \in Nat
    BY <1>1, QueuedFinite
<1> QED
    BY <1>1, <1>2, SendsAssumption DEF Waiting

\* No signal has been sent to a lightpod that has just begun.
LEMMA CountedInit == Init => Counted
<1> SUFFICES ASSUME Init, NEW s \in Signals
             PROVE  got[s] + Queued(channel, s) + Waiting(s) <= sent[s]
    BY Zenon DEF Counted
<1>1. Queued(channel, s) = 0
    BY QueuedEmpty DEF Init
<1>2. got[s] = 0 /\ sent[s] = 0 /\ Waiting(s) = 0
    BY DEF Init, Waiting
<1> QED
    BY <1>1, <1>2

\* The mask, the channel and the goroutine pass a signal on at most once.
LEMMA CountedKept == IInv /\ [Next]_vars => Counted'
<1> SUFFICES ASSUME IInv, [Next]_vars, NEW s \in Signals
             PROVE  got'[s] + Queued(channel, s)' + Waiting(s)' <= sent'[s]
    BY Zenon DEF Counted
<1>1. got[s] + Queued(channel, s) + Waiting(s) <= sent[s]
    BY Zenon DEF IInv, Counted
<1>2. /\ got[s] \in Nat /\ sent[s] \in Nat
      /\ Queued(channel, s) \in Nat /\ Waiting(s) \in {0, 1}
    BY CountedTypes DEF IInv
<1>3. channel \in Seq(Signals) /\ sent \in [Signals -> 0..MaxSends] /\ got \in [Signals -> Nat]
    BY DEF IInv, Where, Typed
<1>4. CASE UNCHANGED <<pending, channel, sent, got>>
  <2>1. /\ got'[s] = got[s] /\ sent'[s] = sent[s]
        /\ Queued(channel, s)' = Queued(channel, s) /\ Waiting(s)' = Waiting(s)
      BY <1>4, Zenon DEF Queued, Waiting
  <2> QED
      BY <1>1, <2>1
<1>5. CASE Forward
  <2>1. channel # <<>> /\ channel' = Tail(channel) /\ UNCHANGED <<sent, Waiting(s)>>
      BY <1>5 DEF Forward, Waiting
  <2>2. Queued(channel, s) = Queued(channel, s)' + (IF Head(channel) = s THEN 1 ELSE 0)
      BY <1>3, <2>1, QueuedTail DEF Queued
  <2>3. UNCHANGED got \/ got' = [got EXCEPT ![Head(channel)] = @ + 1]
      BY <1>5, Zenon DEF Forward
  <2>4. got'[s] = got[s] \/ got'[s] = got[s] + (IF Head(channel) = s THEN 1 ELSE 0)
      BY <1>2, <1>3, <2>3
  <2>5. Queued(channel, s)' \in Nat
    <3>1. Tail(channel) \in Seq(Signals)
        BY <1>3, <2>1
    <3>2. Queued(Tail(channel), s) \in Nat
        BY <3>1, QueuedFinite
    <3> QED
        BY <2>1, <3>2 DEF Queued
  <2> QED
      BY <1>1, <1>2, <2>1, <2>2, <2>4, <2>5
<1>6. ASSUME NEW x \in Signals, SeeSignal(x)
      PROVE  got'[s] + Queued(channel, s)' + Waiting(s)' <= sent'[s]
  <2>1. x \in pending /\ pending' = pending \ {x} /\ UNCHANGED <<sent, got>>
      BY <1>6 DEF SeeSignal
  <2>2. Waiting(s) = Waiting(s)' + (IF x = s THEN 1 ELSE 0) /\ Waiting(s)' \in {0, 1}
      BY <2>1 DEF Waiting
  <2>3. UNCHANGED channel \/ channel' = Append(channel, x)
      BY <1>6, Zenon DEF SeeSignal
  <2>4. \/ Queued(channel, s)' = Queued(channel, s)
        \/ Queued(channel, s)' = Queued(channel, s) + (IF x = s THEN 1 ELSE 0)
    <3>1. CASE UNCHANGED channel
        BY <3>1, Zenon DEF Queued
    <3>2. CASE channel' = Append(channel, x)
      <4>1. Queued(Append(channel, x), s) = Queued(channel, s) + (IF x = s THEN 1 ELSE 0)
          BY <1>3, QueuedAppend
      <4> QED
          BY <3>2, <4>1 DEF Queued
    <3> QED
        BY <2>3, <3>1, <3>2
  <2> QED
      BY <1>1, <1>2, <2>1, <2>2, <2>4
<1>7. ASSUME NEW x \in Signals, Send(x)
      PROVE  got'[s] + Queued(channel, s)' + Waiting(s)' <= sent'[s]
  <2>1. /\ pending' = pending \cup {x} /\ sent' = [sent EXCEPT ![x] = @ + 1]
        /\ UNCHANGED <<got, channel>>
      BY <1>7 DEF Send
  <2>2. sent'[s] = sent[s] + (IF x = s THEN 1 ELSE 0)
      BY <1>2, <1>3, <2>1
  <2>3. Waiting(s)' <= Waiting(s) + (IF x = s THEN 1 ELSE 0) /\ Waiting(s)' \in {0, 1}
      BY <2>1 DEF Waiting
  <2>4. Queued(channel, s)' = Queued(channel, s)
      BY <2>1, Zenon DEF Queued
  <2> QED
      BY <1>1, <1>2, <2>1, <2>2, <2>3, <2>4
<1>8. CASE Run \/ ForwarderStops \/ HookTimesOut \/ HookExits \/ HookForks \/ ChildEnds
  <2>1. UNCHANGED <<pending, channel, sent, got>>
      BY <1>8 DEF Run, Claim, SaveCreated, Abort, Start, Release, SaveRunning, Notify, Wait,
                  SaveStopped, Save, StopForwarding, RemoveRecord, NoHook, StartHook,
                  HookReturns, ForwarderStops, HookTimesOut, HookExits, HookForks, ChildEnds,
                  relay
  <2> QED
      BY <2>1, <1>4
<1>9. CASE SetupFails \/ Killed \/ Park \/ ExecUser \/ Orphaned \/ InitEnds
  <2>1. UNCHANGED <<pending, channel, sent, got>>
      BY <1>9 DEF SetupFails, Killed, Park, ExecUser, Orphaned, InitStep, InitEnds, relay
  <2> QED
      BY <2>1, <1>4
<1>10. CASE UNCHANGED vars
  <2>1. UNCHANGED <<pending, channel, sent, got>>
      BY <1>10 DEF vars
  <2> QED
      BY <2>1, <1>4
<1> QED
    BY <1>5, <1>6, <1>7, <1>8, <1>9, <1>10 DEF Next, Forwarder, SignalLoop

----------------------------------------------------------------------------
(* Theorems *)

\* Run, init, hooks and forwarder stay where they go together, and no signal is
\* counted twice (container.go:329-358, hooks.go:39-85).
THEOREM Invariance == Spec => []IInv
<1>1. Init => IInv
    BY WhereInit, CountedInit DEF IInv
<1>2. IInv /\ [Next]_vars => IInv'
    BY WhereKept, CountedKept DEF IInv
<1> QED
    BY <1>1, <1>2, PTL DEF Spec

\* Every variable has its type: the channel never overflows, and os.Process has
\* taken the status only of what has exited (tty.go:21-43).
THEOREM TypeCorrect == Spec => []TypeOK
<1>1. IInv => TypeOK
  <2> SUFFICES ASSUME IInv PROVE TypeOK
      OBVIOUS
  <2>1. \A s \in Signals : got[s] <= sent[s] /\ sent[s] <= MaxSends /\ got[s] \in Nat
    <3> SUFFICES ASSUME NEW s \in Signals
                 PROVE  got[s] <= sent[s] /\ sent[s] <= MaxSends /\ got[s] \in Nat
        OBVIOUS
    <3>1. got[s] + Queued(channel, s) + Waiting(s) <= sent[s]
        BY Zenon DEF IInv, Counted
    <3> QED
        BY <3>1, CountedTypes DEF IInv
  <2>2. sent \in [Signals -> 0..MaxSends] /\ got \in [Signals -> Nat]
      BY DEF IInv, Where, Typed
  <2>3. got \in [Signals -> 0..MaxSends]
      BY <2>1, <2>2, SendsAssumption
  <2> QED
      BY <2>3 DEF TypeOK, IInv, Where, Typed, HookWhere, InitWhere
<1> QED
    BY <1>1, Invariance, PTL

\* A run whose workload was released returns with its code, has reaped it and
\* leaves no record; a killed one leaves a record to find it by
\* (container.go:329-358, run.go:118-125).
THEOREM RunEndsClean == Spec => []EndsClean
<1>1. IInv => EndsClean
    BY DEF EndsClean, IInv, Where, InitWhere, ForwardWhere
<1> QED
    BY <1>1, Invariance, PTL

\* No signal is made up, doubled, or sent to a pid init no longer has
\* (tty.go:21-43).
THEOREM SignalsForwarded == Spec => ForwardsWhatCame
<1>1. IInv => \A s \in Signals : got[s] <= sent[s]
  <2> SUFFICES ASSUME IInv, NEW s \in Signals PROVE got[s] <= sent[s]
      OBVIOUS
  <2>1. got[s] + Queued(channel, s) + Waiting(s) <= sent[s]
      BY Zenon DEF IInv, Counted
  <2> QED
      BY <2>1, CountedTypes DEF IInv
<1>2. [Next]_vars => [got' # got => ~reaped]_vars
  <2> SUFFICES ASSUME [Next]_vars, got' # got PROVE ~reaped
      BY DEF vars
  <2>1. ~(Run \/ ForwarderStops \/ HookTimesOut \/ HookExits \/ HookForks \/ ChildEnds)
      BY DEF Run, Claim, SaveCreated, Abort, Start, Release, SaveRunning, Notify, Wait,
             SaveStopped, Save, StopForwarding, RemoveRecord, NoHook, StartHook,
             HookReturns, ForwarderStops, HookTimesOut, HookExits, HookForks, ChildEnds,
             relay
  <2>2. ~(SetupFails \/ Killed \/ Park \/ ExecUser \/ Orphaned \/ InitEnds)
      BY DEF SetupFails, Killed, Park, ExecUser, Orphaned, InitStep, InitEnds, relay
  <2>3. ~(SignalLoop \/ \E s \in Signals : Send(s)) /\ ~(UNCHANGED vars)
      BY DEF SignalLoop, SeeSignal, Send, vars
  <2>4. Forward
      BY <2>1, <2>2, <2>3 DEF Next, Forwarder
  <2> QED
      BY <2>4 DEF Forward
<1> QED
    BY <1>1, <1>2, Invariance, PTL DEF ForwardsWhatCame, Spec
=============================================================================

--------------------------- MODULE LifecycleProofs ---------------------------
(***************************************************************************)
(* An id stands for one container and its record follows it, for every set *)
(* of commands, if each caller is Orderly: it issues one command at a time *)
(* or none that takes the record away from another.                        *)
(***************************************************************************)
EXTENDS Lifecycle, TLAPS

\* One command at a time; or no delete and prune, and no start beside a run,
\* which deletes what it has run.  Any fault may happen.
Orderly ==
    \A c \in Callers :
        \/ c.serial
        \/ \A p \in c.issues : Command[p] \in {"create", "start", "kill"}
        \/ \A p \in c.issues : Command[p] \in {"create", "run", "kill"}

\* Where each kind of command may be.
Creating  == {"mkfifo", "spawn", "budget", "await", "saveCreated", "abort"}
Starting  == {"open", "opening", "saveRunning"}
Finishing == {"wait", "loadStopped", "saveStopped"}
Removing  == {"rmCgroup", "rmRecord"}

Places(kind) == {"idle"} \cup Ended \cup
    (CASE kind = "create"      -> Creating \cup Removing
       [] kind = "run"         -> Creating \cup {"load"} \cup Starting \cup Finishing
                                  \cup {"loadDelete", "killInit"} \cup Removing
       [] kind = "start"       -> Starting
       [] kind = "kill"        -> {"signal"}
       [] kind = "delete"      -> Removing
       [] kind = "forceDelete" -> {"killInit"} \cup Removing
       [] kind = "prune"       -> {"loadDelete"} \cup Removing)

Issued ==
    \A p \in Procs :
        /\ pc[p] \in Places(Command[p])
        /\ InProgress(p) => p \in caller.issues

\* Beside one command, only a start or a kill is at work, and none in series.
Turns ==
    /\ caller.serial => \A p, q \in Procs : InProgress(p) /\ InProgress(q) => p = q
    /\ \A p, q \in Creators : InProgress(p) /\ InProgress(q) => p = q

\* What the record says while somebody is at work on it.
Recorded ==
    /\ \A p \in Creators : InProgress(p) => rec.status # "absent"
    /\ \A p \in Procs :
        /\ pc[p] \in Creating => rec.status = "creating"
        /\ Command[p] = "create" /\ pc[p] \in Removing => rec.status = "creating"
        /\ pc[p] \in Starting =>
              /\ rec.status \in {"created", "running"}
              /\ loc[p].status = "created" /\ loc[p].pid = rec.pid
        /\ Command[p] = "run" /\ pc[p] \in {"load"} \cup Starting \cup Finishing => rec.pid = p
        /\ pc[p] = "killInit" => loc[p].pid = rec.pid /\ rec.pid # NoPid
        /\ pc[p] \in Removing => rec.pid = NoPid \/ init[rec.pid] \notin Live

\* A FIFO bears the name of the create that made it, for its own init.
Fifos ==
    /\ rec.status = "absent" => fifo = NoPid
    /\ rec.pid # NoPid => fifo = rec.pid
    /\ \A p \in Procs :
        /\ pc[p] = "mkfifo" => fifo = NoPid
        /\ pc[p] = "spawn" => fifo = p
        /\ init[p] # "none" => initFifo[p] = p
        /\ pc[p] \in {"budget", "await", "saveCreated"} => fifo = p
        /\ pc[p] \in {"budget", "await", "saveCreated", "abort"} => initFifo[p] = p
        /\ pc[p] = "opening" => opened[p] = rec.pid

\* How far the init of each creator is.
Inits ==
    \A p \in Procs :
        /\ pc[p] \in {"idle", "mkfifo", "spawn"} => init[p] = "none"
        /\ pc[p] \in Creating => init[p] \notin Started
        /\ pc[p] \in {"loadStopped", "saveStopped"} => init[p] = "gone"

\* Where no command is killed, an init is the record's or at the hands of its
\* creator, and so is a cgroup, until whoever removes them has removed it.
Handled ==
    /\ \A p \in Creators : pc[p] # "dead"
    /\ \A q \in Procs : init[q] \in Live =>
          rec.pid = q \/ pc[q] \in {"budget", "await", "saveCreated", "abort"}
Charged ==
    /\ rec.status \in {"absent", "creating"} => ~rec.cg
    /\ \A p \in Procs : pc[p] \in {"saveStopped", "rmCgroup"} /\ rec.cg => loc[p].cg
Holds(p) == pc[p] \in {"await", "saveCreated", "abort", "rmCgroup"} /\ loc[p].cg
Swept ==
    cgDir => \/ rec.cg /\ \A p \in Procs : pc[p] # "rmRecord"
             \/ \E p \in Creators : Holds(p)
Tidy == "commandDies" \notin caller.faults => Handled /\ Charged /\ Swept

Data == TypeOK /\ Recorded /\ Fifos /\ Inits /\ LiveIsRecorded
IInv == Issued /\ Turns /\ Data /\ Tidy

----------------------------------------------------------------------------
(* Loading, and whose turn it is *)

\* What Load makes of a record: it forgets a process that is gone.
LEMMA LoadedRecord ==
    ASSUME TypeOK
    PROVE  /\ Loaded \in Records
           /\ Loaded.status = "absent" <=> rec.status = "absent"
           /\ Loaded.status # "stopped" => Loaded = rec
           /\ (Loaded.cg <=> rec.cg)
           /\ Loaded.pid # NoPid => Loaded = rec
           /\ Loaded.status = "stopped" => rec.pid = NoPid \/ init[rec.pid] \notin Live
<1>1. rec \in Records /\ init \in [Procs -> InitStates]
    BY DEF TypeOK
<1>2. CASE rec.status \in {"created", "running"} /\ ~ProcessAlive(rec.pid)
  <2>1. Loaded = [rec EXCEPT !.status = "stopped", !.pid = NoPid]
      BY <1>2 DEF Loaded
  <2>2. rec.pid \in Procs /\ init[rec.pid] \notin Live
      BY <1>1, <1>2 DEF Records, ProcessAlive
  <2>3. Loaded.status = "stopped" /\ Loaded.pid = NoPid /\ Loaded \in Records
      BY <1>1, <2>1 DEF Records, Statuses
  <2>4. Loaded.cg <=> rec.cg
      BY <1>1, <2>1 DEF Records
  <2> QED
      BY <1>2, <2>2, <2>3, <2>4
<1>3. CASE ~(rec.status \in {"created", "running"} /\ ~ProcessAlive(rec.pid))
  <2>1. Loaded = rec
      BY <1>3, Zenon DEF Loaded
  <2> QED
      BY <1>1, <2>1 DEF Records
<1> QED
    BY <1>2, <1>3

\* A command at work that goes on leaves all commands where they may be.
LEMMA Advance ==
    ASSUME Issued, Turns, pc \in [Procs -> PCs], UNCHANGED caller,
           NEW p \in Procs, InProgress(p),
           NEW l \in Places(Command[p]), Goto(p, l)
    PROVE  (Issued /\ Turns)'
<1>1. \A q \in Procs : pc'[q] = IF q = p THEN l ELSE pc[q]
    BY DEF Goto
<1>2. \A q \in Procs : InProgress(q)' => InProgress(q)
    BY <1>1 DEF InProgress
<1>3. Issued'
    BY <1>1, <1>2 DEF Issued
<1>4. Turns'
    BY <1>2 DEF Turns, Creators
<1> QED
    BY <1>3, <1>4

\* A command begins when it is its turn; a creator when there is no other.
LEMMA Begin ==
    ASSUME Issued, Turns, pc \in [Procs -> PCs], UNCHANGED caller,
           NEW p \in Procs, NEW kinds, Begins(p, kinds),
           NEW l \in Places(Command[p]), Goto(p, l),
           p \in Creators /\ l \notin Ended => \A q \in Creators : ~InProgress(q)
    PROVE  (Issued /\ Turns)'
<1>1. \A q \in Procs : pc'[q] = IF q = p THEN l ELSE pc[q]
    BY DEF Goto
<1>2. \A q \in Procs : InProgress(q)' => InProgress(q) \/ q = p
    BY <1>1 DEF InProgress
<1>3. p \in caller.issues /\ (caller.serial => \A q \in Procs : ~InProgress(q))
    BY DEF Begins
<1>4. Issued'
    BY <1>1, <1>2, <1>3 DEF Issued
<1>5. Turns'
  <2>1. caller.serial => \A q, r \in Procs : InProgress(q)' /\ InProgress(r)' => q = r
      BY <1>2, <1>3
  <2>2. ASSUME NEW q \in Creators, NEW r \in Creators, InProgress(q)', InProgress(r)'
        PROVE  q = r
      BY <1>1, <1>2, <2>2 DEF Turns, Creators, InProgress
  <2> QED
      BY <2>1, <2>2 DEF Turns, Creators
<1> QED
    BY <1>4, <1>5

\* Commands stay where they may be and take their turns.
LEMMA ControlKept == IInv /\ [Next]_vars => (Issued /\ Turns)'
<1> SUFFICES ASSUME IInv, [Next]_vars PROVE (Issued /\ Turns)'
    OBVIOUS
<1> USE DEF Places, Ended, Creating, Starting, Finishing, Removing
<1>1. Issued /\ Turns /\ pc \in [Procs -> PCs] /\ Command \in [Procs -> Kinds]
    BY CommandAssumption DEF IInv, Data, TypeOK
<1>2. CASE UNCHANGED vars
    BY <1>1, <1>2 DEF vars, Issued, Turns, InProgress
<1>3. ASSUME NEW p \in Procs, UNCHANGED caller, Issue(p)
      PROVE  (Issued /\ Turns)'
  <2>1. rec.status = "absent" => \A q \in Creators : ~InProgress(q)
      BY DEF IInv, Data, Recorded
  <2>2. CASE Claim(p)
    <3>1. PICK l \in {"mkfifo", "done"} : Goto(p, l) /\ (l = "mkfifo" => rec.status = "absent")
        BY <2>2, LoadedRecord DEF Claim, IInv, Data
    <3>2. Begins(p, {"create", "run"}) /\ l \in Places(Command[p])
        BY <2>2 DEF Claim, Begins
    <3> QED
        BY <1>1, <1>3, <2>1, <3>1, <3>2, Begin
  <2>3. CASE LoadToKill(p)
    <3>1. PICK l \in {"signal", "done"} : Goto(p, l)
        BY <2>3 DEF LoadToKill
    <3>2. Begins(p, {"kill"}) /\ l \in Places(Command[p]) /\ p \notin Creators
        BY <2>3 DEF LoadToKill, Begins, Creators
    <3> QED
        BY <1>1, <1>3, <3>1, <3>2, Begin
  <2>4. CASE ListToPrune(p)
    <3>1. PICK l \in {"loadDelete", "done"} : Goto(p, l)
        BY <2>4 DEF ListToPrune
    <3>2. Begins(p, {"prune"}) /\ l \in Places(Command[p]) /\ p \notin Creators
        BY <2>4 DEF ListToPrune, Begins, Creators
    <3> QED
        BY <1>1, <1>3, <3>1, <3>2, Begin
  <2>5. CASE pc[p] = "idle" /\ LoadToStart(p)
    <3>1. PICK l \in {"open", "done"} : Goto(p, l)
        BY <2>5 DEF LoadToStart
    <3>2. Begins(p, {"start"}) /\ l \in Places(Command[p]) /\ p \notin Creators
        BY <2>5 DEF LoadToStart, Begins, Creators
    <3> QED
        BY <1>1, <1>3, <3>1, <3>2, Begin
  <2>6. CASE pc[p] = "idle" /\ LoadToDelete(p)
    <3>1. PICK l \in {"killInit", "rmCgroup", "done"} :
              Goto(p, l) /\ (l = "killInit" => Command[p] # "delete")
        BY <2>6 DEF LoadToDelete, MayDelete, Forced
    <3>2. Begins(p, {"delete", "forceDelete"}) /\ p \notin Creators
        BY <2>6 DEF LoadToDelete, Begins, Creators
    <3>3. l \in Places(Command[p])
        BY <3>1, <3>2 DEF Begins
    <3> QED
        BY <1>1, <1>3, <3>1, <3>2, <3>3, Begin
  <2> QED
      BY <1>3, <2>2, <2>3, <2>4, <2>5, <2>6 DEF Issue
<1>4. ASSUME NEW p \in Procs, UNCHANGED caller, CommandStep(p) \/ CreateFails(p) \/ CommandDies(p)
      PROVE  (Issued /\ Turns)'
  <2>1. pc[p] \in Places(Command[p]) /\ Command[p] \in Kinds
      BY <1>1 DEF Issued
  <2>2. InProgress(p) /\ \E l \in Places(Command[p]) : Goto(p, l)
    <3>1. CASE Mkfifo(p) \/ Spawn(p)
        BY <2>1, <3>1 DEF InProgress, Kinds, Mkfifo, Spawn
    <3>2. CASE Budget(p) \/ AwaitReady(p) \/ SaveCreated(p) \/ Abort(p)
        BY <2>1, <3>2 DEF InProgress, Kinds, Budget, AwaitReady, SaveCreated, Abort
    <3>3. CASE RemoveCgroup(p) \/ RemoveRecord(p) \/ Signal(p) \/ KillInit(p)
        BY <2>1, <3>3 DEF InProgress, Kinds, RemoveCgroup, RemoveRecord, Signal,
           KillInit
    <3>4. CASE OpenFifo(p) \/ SaveRunning(p)
        BY <2>1, <3>4 DEF InProgress, Kinds, OpenFifo, SaveRunning
    <3>5. CASE WaitWorkload(p) \/ LoadStopped(p) \/ SaveStopped(p)
        BY <2>1, <3>5 DEF InProgress, Kinds, WaitWorkload, LoadStopped, SaveStopped
    <3>6. CASE pc[p] # "idle" /\ LoadToStart(p)
        BY <2>1, <3>6 DEF InProgress, Kinds, LoadToStart, Begins
    <3>7. CASE pc[p] # "idle" /\ LoadToDelete(p)
        BY <2>1, <3>7 DEF InProgress, Kinds, LoadToDelete, MayDelete, Forced, Begins
    <3>8. CASE CreateFails(p) \/ CommandDies(p)
        BY <2>1, <3>8 DEF InProgress, Kinds, CreateFails, CommandDies
    <3> QED
        BY <1>4, <3>1, <3>2, <3>3, <3>4, <3>5, <3>6, <3>7, <3>8 DEF CommandStep
  <2> QED
      BY <1>1, <1>4, <2>2, Advance
<1>5. ASSUME NEW q \in Procs, UNCHANGED caller, Meet(q)
      PROVE  (Issued /\ Turns)'
  <2>1. \A p \in Procs : pc'[p] = pc[p] \/ (pc[p] = "opening" /\ pc'[p] = "saveRunning")
      BY <1>5 DEF Meet
  <2>2. \A p \in Procs : InProgress(p)' = InProgress(p)
      BY <2>1 DEF InProgress
  <2>3. Issued'
      BY <1>1, <1>5, <2>1, <2>2 DEF Issued, Kinds
  <2>4. Turns'
      BY <1>1, <1>5, <2>2 DEF Turns, Creators
  <2> QED
      BY <2>3, <2>4
<1>6. ASSUME NEW q \in Procs, UNCHANGED caller,
             Park(q) \/ Orphaned(q) \/ ExecUser(q) \/ InitExits(q)
      PROVE  (Issued /\ Turns)'
  <2>1. UNCHANGED <<caller, pc>>
      BY <1>6 DEF Park, Orphaned, ExecUser, InitExits
  <2> QED
      BY <1>1, <2>1 DEF Issued, Turns, InProgress
<1> QED
    BY <1>2, <1>3, <1>4, <1>5, <1>6 DEF Next, InitStep

\* Which commands may be at a place.
LEMMA WhoIsWhere ==
    ASSUME Issued, NEW p \in Procs
    PROVE  /\ pc[p] \in Creating => p \in Creators /\ InProgress(p)
           /\ pc[p] \in Starting => Command[p] \in {"start", "run"} /\ InProgress(p)
           /\ pc[p] \in {"load"} \cup Finishing => Command[p] = "run" /\ InProgress(p)
           /\ pc[p] = "killInit" => Command[p] \in {"run", "forceDelete"} /\ InProgress(p)
           /\ pc[p] = "signal" => Command[p] = "kill" /\ InProgress(p)
           /\ pc[p] = "loadDelete" => Command[p] \in {"run", "prune"} /\ InProgress(p)
           /\ pc[p] \in Removing => Command[p] \notin {"start", "kill"} /\ InProgress(p)
<1>1. pc[p] \in Places(Command[p]) /\ Command[p] \in Kinds
    BY CommandAssumption DEF Issued
<1> QED
    BY <1>1 DEF Places, Kinds, Ended, Creating, Starting, Finishing, Removing,
       Creators, InProgress

\* Who may be at work beside a command: nobody beside one that deletes, and
\* nobody who relies on the record beside one that takes it away.
LEMMA Company ==
    ASSUME Orderly, IInv, NEW p \in Procs, NEW q \in Procs, p # q, InProgress(p), InProgress(q)
    PROVE  /\ Command[p] \in {"create", "run", "start", "kill"}
           /\ Command[p] = "run" => Command[q] = "kill"
           /\ Command[p] = "create" => Command[q] \in {"start", "kill"}
<1>1. caller \in Callers /\ ~caller.serial /\ p \in caller.issues /\ q \in caller.issues
    BY DEF IInv, Data, TypeOK, Turns, Issued
<1>2. ~(p \in Creators /\ q \in Creators)
    BY DEF IInv, Data, Turns
<1>3. \/ Command[p] \in {"create", "start", "kill"} /\ Command[q] \in {"create", "start", "kill"}
      \/ Command[p] \in {"create", "run", "kill"} /\ Command[q] \in {"create", "run", "kill"}
    BY <1>1 DEF Orderly
<1> QED
    BY <1>2, <1>3 DEF Creators

\* Record, FIFO and init go together, whoever makes a step.
LEMMA DataKept == Orderly /\ IInv /\ [Next]_vars => Data'
<1> SUFFICES ASSUME Orderly, IInv, [Next]_vars PROVE Data'
    OBVIOUS
<1>w. TypeOK /\ Recorded /\ Fifos /\ Inits /\ LiveIsRecorded /\ Issued
    BY DEF IInv, Data
<1> USE <1>w, WhoIsWhere, NoPidAssumption
    DEF Records, Statuses, PCs, Ended, InitStates, Live, Started,
        Creating, Starting, Finishing, Removing, disk, local, procs, Goto
<1>0. CASE UNCHANGED vars
    BY <1>0 DEF vars, Data, TypeOK, Recorded, Fifos, Inits, LiveIsRecorded, InProgress
<1>1. ASSUME NEW p \in Procs, Claim(p), UNCHANGED caller PROVE Data'
  <2>1. TypeOK'
    <3>1. UNCHANGED rec \/ rec' = [status |-> "creating", pid |-> NoPid, cg |-> FALSE]
        BY <1>1, Zenon DEF Claim, Absent
    <3>2. rec \in Records /\ [status |-> "creating", pid |-> NoPid, cg |-> FALSE] \in Records
        BY DEF TypeOK
    <3>3. rec' \in Records
        BY <3>1, <3>2, Zenon
    <3> QED
        BY <1>1, <3>3 DEF Claim, TypeOK
  <2>2. Recorded'
      BY <1>1, LoadedRecord DEF Claim, Absent, TypeOK, Recorded
  <2>3. Fifos'
      BY <1>1, LoadedRecord DEF Claim, Absent, TypeOK, Fifos
  <2>4. Inits'
      BY <1>1 DEF Claim, Begins, TypeOK, Inits
  <2>5. LiveIsRecorded'
      BY <1>1, LoadedRecord DEF Claim, Begins, TypeOK, Recorded, LiveIsRecorded
  <2> QED
      BY <2>1, <2>2, <2>3, <2>4, <2>5 DEF Data
<1>2. ASSUME NEW p \in Procs, Mkfifo(p), UNCHANGED caller PROVE Data'
  <2>1. TypeOK'
      BY <1>2 DEF Mkfifo, TypeOK
  <2>2. Recorded'
      BY <1>2 DEF Mkfifo, TypeOK, Recorded
  <2>3. Fifos'
      BY <1>2, Company DEF Mkfifo, TypeOK, Recorded, Fifos, Creators
  <2>4. Inits'
      BY <1>2 DEF Mkfifo, TypeOK, Inits
  <2>5. LiveIsRecorded'
      BY <1>2 DEF Mkfifo, TypeOK, Recorded, LiveIsRecorded
  <2> QED
      BY <2>1, <2>2, <2>3, <2>4, <2>5 DEF Data
<1>3. ASSUME NEW p \in Procs, Spawn(p), UNCHANGED caller PROVE Data'
  <2>1. TypeOK'
    <3>1. /\ init' \in [Procs -> InitStates]
          /\ initFifo' \in [Procs -> Procs \cup {NoPid}]
        BY <1>3 DEF Spawn, TypeOK
    <3> QED
        BY <1>3, <3>1 DEF Spawn, TypeOK
  <2>2. Recorded'
      BY <1>3 DEF Spawn, TypeOK, Recorded
  <2>3. Fifos'
      BY <1>3 DEF Spawn, TypeOK, Fifos
  <2>4. Inits'
      BY <1>3 DEF Spawn, TypeOK, Inits
  <2>5. LiveIsRecorded'
      BY <1>3 DEF Spawn, TypeOK, Recorded, LiveIsRecorded
  <2> QED
      BY <2>1, <2>2, <2>3, <2>4, <2>5 DEF Data
<1>4. ASSUME NEW p \in Procs, Budget(p), UNCHANGED caller PROVE Data'
  <2>1. TypeOK'
      BY <1>4 DEF Budget, TypeOK
  <2>2. Recorded'
      BY <1>4 DEF Budget, Recorded
  <2>3. Fifos'
      BY <1>4 DEF Budget, Fifos
  <2>4. Inits'
      BY <1>4 DEF Budget, Inits
  <2>5. LiveIsRecorded'
      BY <1>4 DEF Budget, Recorded, LiveIsRecorded
  <2> QED
      BY <2>1, <2>2, <2>3, <2>4, <2>5 DEF Data
<1>5. ASSUME NEW p \in Procs, AwaitReady(p), UNCHANGED caller PROVE Data'
  <2>1. TypeOK'
      BY <1>5 DEF AwaitReady, TypeOK
  <2>2. Recorded'
      BY <1>5 DEF AwaitReady, Recorded
  <2>3. Fifos'
      BY <1>5 DEF AwaitReady, Fifos
  <2>4. Inits'
      BY <1>5 DEF AwaitReady, Inits
  <2>5. LiveIsRecorded'
      BY <1>5 DEF AwaitReady, Recorded, LiveIsRecorded
  <2> QED
      BY <2>1, <2>2, <2>3, <2>4, <2>5 DEF Data
<1>6. ASSUME NEW p \in Procs, SaveCreated(p), UNCHANGED caller PROVE Data'
  <2>1. TypeOK'
      BY <1>6 DEF SaveCreated, TypeOK
  <2>2. Recorded'
      BY <1>6, Company DEF SaveCreated, TypeOK, Recorded, Creators
  <2>3. Fifos'
      BY <1>6 DEF SaveCreated, Recorded, Fifos
  <2>4. Inits'
      BY <1>6 DEF SaveCreated, Inits
  <2>5. LiveIsRecorded'
      BY <1>6 DEF SaveCreated, TypeOK, Recorded, LiveIsRecorded
  <2> QED
      BY <2>1, <2>2, <2>3, <2>4, <2>5 DEF Data
<1>7. ASSUME NEW p \in Procs, CreateFails(p), UNCHANGED caller PROVE Data'
  <2>1. TypeOK'
      BY <1>7 DEF CreateFails, TypeOK
  <2>2. Recorded'
      BY <1>7 DEF CreateFails, TypeOK, Recorded
  <2>3. Fifos'
      BY <1>7 DEF CreateFails, TypeOK, Fifos
  <2>4. Inits'
      BY <1>7 DEF CreateFails, TypeOK, Inits
  <2>5. LiveIsRecorded'
      BY <1>7 DEF CreateFails, TypeOK, Recorded, LiveIsRecorded
  <2> QED
      BY <2>1, <2>2, <2>3, <2>4, <2>5 DEF Data
<1>8. ASSUME NEW p \in Procs, Abort(p), UNCHANGED caller PROVE Data'
  <2>1. TypeOK'
      BY <1>8 DEF Abort, TypeOK
  <2>2. Recorded'
      BY <1>8 DEF Abort, TypeOK, Recorded
  <2>3. Fifos'
      BY <1>8 DEF Abort, Fifos
  <2>4. Inits'
      BY <1>8 DEF Abort, Inits
  <2>5. LiveIsRecorded'
      BY <1>8 DEF Abort, TypeOK, Recorded, LiveIsRecorded
  <2> QED
      BY <2>1, <2>2, <2>3, <2>4, <2>5 DEF Data
<1>9. ASSUME NEW p \in Procs, RemoveCgroup(p), UNCHANGED caller PROVE Data'
  <2>1. TypeOK'
      BY <1>9 DEF RemoveCgroup, TypeOK
  <2>2. Recorded'
      BY <1>9 DEF RemoveCgroup, Recorded, InProgress
  <2>3. Fifos'
      BY <1>9 DEF RemoveCgroup, Fifos
  <2>4. Inits'
      BY <1>9 DEF RemoveCgroup, Inits
  <2>5. LiveIsRecorded'
      BY <1>9 DEF RemoveCgroup, Recorded, LiveIsRecorded
  <2> QED
      BY <2>1, <2>2, <2>3, <2>4, <2>5 DEF Data
<1>10. ASSUME NEW p \in Procs, RemoveRecord(p), UNCHANGED caller PROVE Data'
  <2>1. TypeOK'
      BY <1>10 DEF RemoveRecord, Absent, TypeOK
  <2>2. Recorded'
      BY <1>10, Company DEF RemoveRecord, TypeOK, Recorded, InProgress, Creators
  <2>3. Fifos'
      BY <1>10, Company DEF RemoveRecord, Absent, Recorded, Fifos, Creators
  <2>4. Inits'
      BY <1>10 DEF RemoveRecord, Inits
  <2>5. LiveIsRecorded'
      BY <1>10 DEF RemoveRecord, Recorded, LiveIsRecorded
  <2> QED
      BY <2>1, <2>2, <2>3, <2>4, <2>5 DEF Data
<1>11. ASSUME NEW p \in Procs, LoadToStart(p), UNCHANGED caller PROVE Data'
  <2>1. TypeOK'
      BY <1>11, LoadedRecord DEF LoadToStart, TypeOK
  <2>2. Recorded'
      BY <1>11, LoadedRecord DEF LoadToStart, Begins, TypeOK, Recorded, InProgress,
         Creators
  <2>3. Fifos'
      BY <1>11 DEF LoadToStart, TypeOK, Fifos
  <2>4. Inits'
      BY <1>11 DEF LoadToStart, TypeOK, Inits
  <2>5. LiveIsRecorded'
      BY <1>11 DEF LoadToStart, Begins, TypeOK, Recorded, LiveIsRecorded
  <2> QED
      BY <2>1, <2>2, <2>3, <2>4, <2>5 DEF Data
<1>12. ASSUME NEW p \in Procs, OpenFifo(p), UNCHANGED caller PROVE Data'
  <2>1. TypeOK'
      BY <1>12 DEF OpenFifo, TypeOK
  <2>2. Recorded'
      BY <1>12 DEF OpenFifo, Recorded
  <2>3. Fifos'
      BY <1>12 DEF OpenFifo, TypeOK, Recorded, Fifos
  <2>4. Inits'
      BY <1>12 DEF OpenFifo, Inits
  <2>5. LiveIsRecorded'
      BY <1>12 DEF OpenFifo, Recorded, LiveIsRecorded
  <2> QED
      BY <2>1, <2>2, <2>3, <2>4, <2>5 DEF Data
<1>13. ASSUME NEW p \in Procs, Meet(p), UNCHANGED caller PROVE Data'
  <2>1. TypeOK'
      BY <1>13 DEF Meet, TypeOK
  <2>2. Recorded'
      BY <1>13 DEF Meet, TypeOK, Recorded
  <2>3. Fifos'
      BY <1>13 DEF Meet, Fifos
  <2>4. Inits'
      BY <1>13 DEF Meet, Recorded, Inits
  <2>5. LiveIsRecorded'
      BY <1>13 DEF Meet, Recorded, Fifos, LiveIsRecorded
  <2> QED
      BY <2>1, <2>2, <2>3, <2>4, <2>5 DEF Data
<1>14. ASSUME NEW p \in Procs, SaveRunning(p), UNCHANGED caller PROVE Data'
  <2>1. TypeOK'
      BY <1>14 DEF SaveRunning, TypeOK, Recorded
  <2>2. Recorded'
      BY <1>14 DEF SaveRunning, Recorded
  <2>3. Fifos'
      BY <1>14 DEF SaveRunning, Recorded, Fifos
  <2>4. Inits'
      BY <1>14 DEF SaveRunning, Inits
  <2>5. LiveIsRecorded'
      BY <1>14 DEF SaveRunning, Recorded, LiveIsRecorded
  <2> QED
      BY <2>1, <2>2, <2>3, <2>4, <2>5 DEF Data
<1>15. ASSUME NEW p \in Procs, WaitWorkload(p), UNCHANGED caller PROVE Data'
  <2>1. TypeOK'
      BY <1>15 DEF WaitWorkload, TypeOK
  <2>2. Recorded'
      BY <1>15 DEF WaitWorkload, TypeOK, Recorded
  <2>3. Fifos'
      BY <1>15 DEF WaitWorkload, Fifos
  <2>4. Inits'
      BY <1>15 DEF WaitWorkload, TypeOK, Inits
  <2>5. LiveIsRecorded'
      BY <1>15 DEF WaitWorkload, Recorded, LiveIsRecorded
  <2> QED
      BY <2>1, <2>2, <2>3, <2>4, <2>5 DEF Data
<1>16. ASSUME NEW p \in Procs, LoadStopped(p), UNCHANGED caller PROVE Data'
  <2>1. TypeOK'
      BY <1>16, LoadedRecord DEF LoadStopped, TypeOK
  <2>2. Recorded'
      BY <1>16 DEF LoadStopped, TypeOK, Recorded
  <2>3. Fifos'
      BY <1>16 DEF LoadStopped, Fifos
  <2>4. Inits'
      BY <1>16 DEF LoadStopped, Inits
  <2>5. LiveIsRecorded'
      BY <1>16 DEF LoadStopped, Recorded, LiveIsRecorded
  <2> QED
      BY <2>1, <2>2, <2>3, <2>4, <2>5 DEF Data
<1>17. ASSUME NEW p \in Procs, SaveStopped(p), UNCHANGED caller PROVE Data'
  <2>1. TypeOK'
    <3>1. loc[p] \in Records
        BY DEF TypeOK
    <3>2. rec' = [loc[p] EXCEPT !.status = "stopped", !.pid = NoPid]
        BY <1>17 DEF SaveStopped
    <3>3. rec' \in Records
        BY <3>1, <3>2
    <3> QED
        BY <1>17, <3>3 DEF SaveStopped, TypeOK
  <2>2. Recorded'
      BY <1>17, Company DEF SaveStopped, TypeOK, Recorded
  <2>3. Fifos'
      BY <1>17, Company DEF SaveStopped, Fifos
  <2>4. Inits'
      BY <1>17 DEF SaveStopped, Inits
  <2>5. LiveIsRecorded'
      BY <1>17 DEF SaveStopped, Recorded, Inits, LiveIsRecorded
  <2> QED
      BY <2>1, <2>2, <2>3, <2>4, <2>5 DEF Data
<1>18. ASSUME NEW p \in Procs, LoadToKill(p), UNCHANGED caller PROVE Data'
  <2>1. TypeOK'
      BY <1>18, LoadedRecord DEF LoadToKill, TypeOK
  <2>2. Recorded'
      BY <1>18 DEF LoadToKill, Begins, TypeOK, Recorded, InProgress, Creators
  <2>3. Fifos'
      BY <1>18 DEF LoadToKill, TypeOK, Fifos
  <2>4. Inits'
      BY <1>18 DEF LoadToKill, TypeOK, Inits
  <2>5. LiveIsRecorded'
      BY <1>18 DEF LoadToKill, Begins, TypeOK, Recorded, LiveIsRecorded
  <2> QED
      BY <2>1, <2>2, <2>3, <2>4, <2>5 DEF Data
<1>19. ASSUME NEW p \in Procs, Signal(p), UNCHANGED caller PROVE Data'
  <2>1. TypeOK'
      BY <1>19 DEF Signal, Exit, TypeOK
  <2>2. Recorded'
    <3>1. \A q \in Procs : init'[q] \in Live => init[q] \in Live
        BY <1>19 DEF Signal, Exit, TypeOK
    <3>2. \E l \in Ended : pc' = [pc EXCEPT ![p] = l]
        BY <1>19 DEF Signal
    <3>3. UNCHANGED <<rec, loc>>
        BY <1>19 DEF Signal
    <3> QED
        BY <3>1, <3>2, <3>3 DEF TypeOK, Recorded, InProgress
  <2>3. Fifos'
      BY <1>19 DEF Signal, Exit, TypeOK, Fifos
  <2>4. Inits'
      BY <1>19 DEF Signal, Exit, TypeOK, Inits
  <2>5. LiveIsRecorded'
      BY <1>19 DEF Signal, Exit, TypeOK, Recorded, LiveIsRecorded
  <2> QED
      BY <2>1, <2>2, <2>3, <2>4, <2>5 DEF Data
<1>20. ASSUME NEW p \in Procs, LoadToDelete(p), UNCHANGED caller PROVE Data'
  <2>1. TypeOK'
      BY <1>20, LoadedRecord DEF LoadToDelete, TypeOK
  <2>2. Recorded'
    <3>1. UNCHANGED <<rec, init>> /\ Command[p] # "create" /\ (p \in Creators => InProgress(p))
        BY <1>20 DEF LoadToDelete, Begins, Creators
    <3>2. CASE pc' = [pc EXCEPT ![p] = "done"] /\ UNCHANGED loc
        BY <3>1, <3>2 DEF Recorded, InProgress
    <3>3. CASE /\ pc' = [pc EXCEPT ![p] = "killInit"]
               /\ loc' = [loc EXCEPT ![p] = Loaded] /\ Loaded.pid # NoPid
        BY <3>1, <3>3, LoadedRecord DEF TypeOK, Recorded
    <3>4. CASE /\ pc' = [pc EXCEPT ![p] = "rmCgroup"]
               /\ loc' = [loc EXCEPT ![p] = Loaded]
               /\ Loaded.status = "stopped" \/ Loaded.pid = NoPid
        BY <3>1, <3>4, LoadedRecord DEF TypeOK, Recorded, InProgress
    <3> QED
        BY <1>20, <3>2, <3>3, <3>4 DEF LoadToDelete
  <2>3. Fifos'
      BY <1>20 DEF LoadToDelete, TypeOK, Fifos
  <2>4. Inits'
      BY <1>20 DEF LoadToDelete, TypeOK, Inits
  <2>5. LiveIsRecorded'
      BY <1>20 DEF LoadToDelete, Begins, TypeOK, Recorded, LiveIsRecorded
  <2> QED
      BY <2>1, <2>2, <2>3, <2>4, <2>5 DEF Data
<1>21. ASSUME NEW p \in Procs, KillInit(p), UNCHANGED caller PROVE Data'
  <2>1. TypeOK'
      BY <1>21 DEF KillInit, Exit, TypeOK
  <2>2. Recorded'
      BY <1>21 DEF KillInit, Exit, TypeOK, Recorded
  <2>3. Fifos'
      BY <1>21 DEF KillInit, Exit, Fifos
  <2>4. Inits'
      BY <1>21 DEF KillInit, Exit, Inits
  <2>5. LiveIsRecorded'
      BY <1>21 DEF KillInit, Exit, Recorded, LiveIsRecorded
  <2> QED
      BY <2>1, <2>2, <2>3, <2>4, <2>5 DEF Data
<1>22. ASSUME NEW p \in Procs, ListToPrune(p), UNCHANGED caller PROVE Data'
  <2>1. TypeOK'
      BY <1>22 DEF ListToPrune, TypeOK
  <2>2. Recorded'
      BY <1>22 DEF ListToPrune, Begins, Recorded, InProgress, Creators
  <2>3. Fifos'
      BY <1>22 DEF ListToPrune, Fifos
  <2>4. Inits'
      BY <1>22 DEF ListToPrune, Inits
  <2>5. LiveIsRecorded'
      BY <1>22 DEF ListToPrune, Begins, Recorded, LiveIsRecorded
  <2> QED
      BY <2>1, <2>2, <2>3, <2>4, <2>5 DEF Data
<1>23. ASSUME NEW p \in Procs, Park(p), UNCHANGED caller PROVE Data'
  <2>1. TypeOK'
      BY <1>23 DEF Park, TypeOK
  <2>2. Recorded'
      BY <1>23 DEF Park, Recorded
  <2>3. Fifos'
      BY <1>23 DEF Park, Fifos
  <2>4. Inits'
      BY <1>23 DEF Park, Inits
  <2>5. LiveIsRecorded'
      BY <1>23 DEF Park, Recorded, LiveIsRecorded
  <2> QED
      BY <2>1, <2>2, <2>3, <2>4, <2>5 DEF Data
<1>24. ASSUME NEW p \in Procs, Orphaned(p), UNCHANGED caller PROVE Data'
  <2>1. TypeOK'
      BY <1>24 DEF Orphaned, Exit, TypeOK
  <2>2. Recorded'
      BY <1>24 DEF Orphaned, Exit, Recorded, InProgress
  <2>3. Fifos'
      BY <1>24 DEF Orphaned, Exit, Fifos
  <2>4. Inits'
      BY <1>24 DEF Orphaned, Exit, Inits
  <2>5. LiveIsRecorded'
      BY <1>24 DEF Orphaned, Exit, Recorded, LiveIsRecorded
  <2> QED
      BY <2>1, <2>2, <2>3, <2>4, <2>5 DEF Data
<1>25. ASSUME NEW p \in Procs, ExecUser(p), UNCHANGED caller PROVE Data'
  <2>1. TypeOK'
      BY <1>25 DEF ExecUser, TypeOK
  <2>2. Recorded'
      BY <1>25 DEF ExecUser, Recorded, InProgress
  <2>3. Fifos'
      BY <1>25 DEF ExecUser, Fifos
  <2>4. Inits'
      BY <1>25 DEF ExecUser, Inits
  <2>5. LiveIsRecorded'
      BY <1>25 DEF ExecUser, Recorded, LiveIsRecorded
  <2> QED
      BY <2>1, <2>2, <2>3, <2>4, <2>5 DEF Data
<1>26. ASSUME NEW p \in Procs, InitExits(p), UNCHANGED caller PROVE Data'
  <2>1. TypeOK'
      BY <1>26 DEF InitExits, Exit, TypeOK
  <2>2. Recorded'
      BY <1>26 DEF InitExits, Exit, Recorded, InProgress
  <2>3. Fifos'
      BY <1>26 DEF InitExits, Exit, Fifos
  <2>4. Inits'
      BY <1>26 DEF InitExits, Exit, Inits
  <2>5. LiveIsRecorded'
      BY <1>26 DEF InitExits, Exit, Recorded, LiveIsRecorded
  <2> QED
      BY <2>1, <2>2, <2>3, <2>4, <2>5 DEF Data
<1>27. ASSUME NEW p \in Procs, CommandDies(p), UNCHANGED caller PROVE Data'
  <2>1. TypeOK'
      BY <1>27 DEF CommandDies, TypeOK
  <2>2. Recorded'
      BY <1>27 DEF CommandDies, InProgress, Recorded
  <2>3. Fifos'
      BY <1>27 DEF CommandDies, Fifos
  <2>4. Inits'
      BY <1>27 DEF CommandDies, Inits
  <2>5. LiveIsRecorded'
      BY <1>27 DEF CommandDies, Recorded, Inits, LiveIsRecorded
  <2> QED
      BY <2>1, <2>2, <2>3, <2>4, <2>5 DEF Data
<1> QED
    BY <1>0, <1>1, <1>2, <1>3, <1>4, <1>5, <1>6, <1>7, <1>8, <1>9, <1>10, <1>11,
       <1>12, <1>13, <1>14, <1>15, <1>16, <1>17, <1>18, <1>19, <1>20, <1>21, <1>22,
       <1>23, <1>24, <1>25, <1>26, <1>27
    DEF Next, Issue, CommandStep, InitStep

\* Nothing is left to nobody, unless a command is killed.
LEMMA TidyKept == Orderly /\ IInv /\ [Next]_vars => Tidy'
<1> SUFFICES ASSUME Orderly, IInv, [Next]_vars, "commandDies" \notin caller'.faults
             PROVE  (Handled /\ Charged /\ Swept)'
    BY DEF Tidy
<1>w. TypeOK /\ Recorded /\ Fifos /\ Inits /\ Issued
    BY DEF IInv, Data
<1>c. caller' = caller
    BY DEF Next, vars
<1>t. "commandDies" \notin caller.faults /\ Handled /\ Charged /\ Swept
    BY <1>c DEF IInv, Tidy
<1> USE <1>w, <1>t, WhoIsWhere, NoPidAssumption
    DEF Records, Statuses, PCs, Ended, InitStates, Live,
        Creating, Starting, Finishing, Removing, disk, local, procs, Goto
<1>0. CASE UNCHANGED vars
    BY <1>0 DEF vars, Handled, Charged, Swept, Holds
<1>1. ASSUME NEW p \in Procs, Claim(p) PROVE (Handled /\ Charged /\ Swept)'
  <2>1. Handled'
      BY <1>1, LoadedRecord DEF Claim, Begins, Absent, Handled, TypeOK, Creators
  <2>2. Charged'
      BY <1>1 DEF Claim, Absent, Charged, TypeOK
  <2>3. Swept'
      BY <1>1, LoadedRecord DEF Claim, Begins, Swept, Charged, Holds, TypeOK, Creators
  <2> QED
      BY <2>1, <2>2, <2>3
<1>2. ASSUME NEW p \in Procs, Mkfifo(p) PROVE (Handled /\ Charged /\ Swept)'
  <2>1. Handled'
      BY <1>2 DEF Mkfifo, Handled, TypeOK, Creators
  <2>2. Charged'
      BY <1>2 DEF Mkfifo, Charged, TypeOK
  <2>3. Swept'
      BY <1>2 DEF Mkfifo, Absent, Swept, Holds, TypeOK, Creators
  <2> QED
      BY <2>1, <2>2, <2>3
<1>3. ASSUME NEW p \in Procs, Spawn(p) PROVE (Handled /\ Charged /\ Swept)'
  <2>1. Handled'
      BY <1>3 DEF Spawn, Handled, TypeOK, Creators
  <2>2. Charged'
      BY <1>3 DEF Spawn, Charged, TypeOK
  <2>3. Swept'
      BY <1>3 DEF Spawn, Swept, Charged, Holds, TypeOK, Recorded, Creators
  <2> QED
      BY <2>1, <2>2, <2>3
<1>4. ASSUME NEW p \in Procs, Budget(p) PROVE (Handled /\ Charged /\ Swept)'
  <2>1. Handled'
      BY <1>4 DEF Budget, Handled
  <2>2. Charged'
      BY <1>4 DEF Budget, Charged
  <2>3. Swept'
      BY <1>4 DEF Budget, Swept, Holds, TypeOK
  <2> QED
      BY <2>1, <2>2, <2>3
<1>5. ASSUME NEW p \in Procs, AwaitReady(p) PROVE (Handled /\ Charged /\ Swept)'
  <2>1. Handled'
      BY <1>5 DEF AwaitReady, Handled
  <2>2. Charged'
      BY <1>5 DEF AwaitReady, Charged
  <2>3. Swept'
      BY <1>5 DEF AwaitReady, Swept, Holds
  <2> QED
      BY <2>1, <2>2, <2>3
<1>6. ASSUME NEW p \in Procs, SaveCreated(p) PROVE (Handled /\ Charged /\ Swept)'
  <2>1. Handled'
      BY <1>6 DEF SaveCreated, Handled, TypeOK, Recorded
  <2>2. Charged'
      BY <1>6, Company DEF SaveCreated, Charged, Creators
  <2>3. Swept'
      BY <1>6, Company DEF SaveCreated, Swept, Creators
  <2> QED
      BY <2>1, <2>2, <2>3
<1>7. ASSUME NEW p \in Procs, CreateFails(p) PROVE (Handled /\ Charged /\ Swept)'
  <2>1. Handled'
      BY <1>7 DEF CreateFails, Handled, TypeOK, Creators
  <2>2. Charged'
      BY <1>7 DEF CreateFails, Charged, TypeOK
  <2>3. Swept'
      BY <1>7 DEF CreateFails, Swept, Charged, Holds, TypeOK, Recorded, Creators
  <2> QED
      BY <2>1, <2>2, <2>3
<1>8. ASSUME NEW p \in Procs, Abort(p) PROVE (Handled /\ Charged /\ Swept)'
  <2>1. Handled'
      BY <1>8 DEF Abort, Handled, TypeOK
  <2>2. Charged'
      BY <1>8 DEF Abort, Charged, Recorded
  <2>3. Swept'
      BY <1>8 DEF Abort, Swept, Holds
  <2> QED
      BY <2>1, <2>2, <2>3
<1>9. ASSUME NEW p \in Procs, RemoveCgroup(p) PROVE (Handled /\ Charged /\ Swept)'
  <2>1. Handled'
      BY <1>9 DEF RemoveCgroup, Members, Handled
  <2>2. Charged'
      BY <1>9 DEF RemoveCgroup, Members, Charged
  <2>3. Swept'
    <3>1. Members = {}
        BY <1>9, Company DEF RemoveCgroup, Members, Handled, Recorded, Creators
    <3>2. \A q \in Creators : Holds(q) => q = p
        BY <1>9, Company DEF RemoveCgroup, Holds, Creators
    <3>3. cgDir' = (cgDir /\ ~loc[p].cg) /\ UNCHANGED <<rec, loc>>
        BY <1>9, <3>1 DEF RemoveCgroup
    <3>4. rec.cg => loc[p].cg
        BY <1>9 DEF RemoveCgroup, Charged
    <3> QED
        BY <3>2, <3>3, <3>4 DEF Swept, Holds
  <2> QED
      BY <2>1, <2>2, <2>3
<1>10. ASSUME NEW p \in Procs, RemoveRecord(p) PROVE (Handled /\ Charged /\ Swept)'
  <2>1. Handled'
      BY <1>10 DEF RemoveRecord, Handled, Recorded
  <2>2. Charged'
      BY <1>10 DEF RemoveRecord, Absent, Charged
  <2>3. Swept'
      BY <1>10 DEF RemoveRecord, Swept, Holds
  <2> QED
      BY <2>1, <2>2, <2>3
<1>11. ASSUME NEW p \in Procs, LoadToStart(p) PROVE (Handled /\ Charged /\ Swept)'
  <2>1. Handled'
      BY <1>11 DEF LoadToStart, Begins, Handled, TypeOK, Creators
  <2>2. Charged'
      BY <1>11 DEF LoadToStart, Charged, TypeOK
  <2>3. Swept'
      BY <1>11 DEF LoadToStart, Begins, Swept, Holds, TypeOK, Creators
  <2> QED
      BY <2>1, <2>2, <2>3
<1>12. ASSUME NEW p \in Procs, OpenFifo(p) PROVE (Handled /\ Charged /\ Swept)'
  <2>1. Handled'
      BY <1>12 DEF OpenFifo, Handled
  <2>2. Charged'
      BY <1>12 DEF OpenFifo, Charged
  <2>3. Swept'
      BY <1>12 DEF OpenFifo, Swept, Holds
  <2> QED
      BY <2>1, <2>2, <2>3
<1>13. ASSUME NEW p \in Procs, Meet(p) PROVE (Handled /\ Charged /\ Swept)'
  <2>1. Handled'
      BY <1>13 DEF Meet, Handled, Creators
  <2>2. Charged'
      BY <1>13 DEF Meet, Charged
  <2>3. Swept'
      BY <1>13 DEF Meet, Swept, Handled, Charged, TypeOK, Recorded
  <2> QED
      BY <2>1, <2>2, <2>3
<1>14. ASSUME NEW p \in Procs, SaveRunning(p) PROVE (Handled /\ Charged /\ Swept)'
  <2>1. Handled'
      BY <1>14 DEF SaveRunning, Handled, Recorded
  <2>2. Charged'
      BY <1>14 DEF SaveRunning, Charged, TypeOK, Recorded
  <2>3. Swept'
      BY <1>14 DEF SaveRunning, Swept, Holds, TypeOK, Recorded
  <2> QED
      BY <2>1, <2>2, <2>3
<1>15. ASSUME NEW p \in Procs, WaitWorkload(p) PROVE (Handled /\ Charged /\ Swept)'
  <2>1. Handled'
      BY <1>15 DEF WaitWorkload, Handled
  <2>2. Charged'
      BY <1>15 DEF WaitWorkload, Charged
  <2>3. Swept'
      BY <1>15 DEF WaitWorkload, Swept, Holds
  <2> QED
      BY <2>1, <2>2, <2>3
<1>16. ASSUME NEW p \in Procs, LoadStopped(p) PROVE (Handled /\ Charged /\ Swept)'
  <2>1. Handled'
      BY <1>16 DEF LoadStopped, Handled
  <2>2. Charged'
      BY <1>16, LoadedRecord DEF LoadStopped, Charged, TypeOK
  <2>3. Swept'
      BY <1>16 DEF LoadStopped, Swept, Holds
  <2> QED
      BY <2>1, <2>2, <2>3
<1>17. ASSUME NEW p \in Procs, SaveStopped(p) PROVE (Handled /\ Charged /\ Swept)'
  <2>1. Handled'
      BY <1>17 DEF SaveStopped, Handled, Recorded, Inits
  <2>2. Charged'
      BY <1>17 DEF SaveStopped, Charged, TypeOK, Recorded
  <2>3. Swept'
      BY <1>17 DEF SaveStopped, Swept, Charged, Holds
  <2> QED
      BY <2>1, <2>2, <2>3
<1>18. ASSUME NEW p \in Procs, LoadToKill(p) PROVE (Handled /\ Charged /\ Swept)'
  <2>1. Handled'
      BY <1>18 DEF LoadToKill, Begins, Handled, TypeOK, Creators
  <2>2. Charged'
      BY <1>18 DEF LoadToKill, Charged, TypeOK
  <2>3. Swept'
      BY <1>18 DEF LoadToKill, Begins, Swept, Holds, TypeOK, Creators
  <2> QED
      BY <2>1, <2>2, <2>3
<1>19. ASSUME NEW p \in Procs, Signal(p) PROVE (Handled /\ Charged /\ Swept)'
  <2>1. Handled'
      BY <1>19 DEF Signal, Exit, Handled, TypeOK, Creators
  <2>2. Charged'
      BY <1>19 DEF Signal, Charged, TypeOK
  <2>3. Swept'
      BY <1>19 DEF Signal, Swept, Holds, TypeOK, Creators
  <2> QED
      BY <2>1, <2>2, <2>3
<1>20. ASSUME NEW p \in Procs, LoadToDelete(p) PROVE (Handled /\ Charged /\ Swept)'
  <2>1. Handled'
      BY <1>20 DEF LoadToDelete, Begins, Handled, TypeOK, Creators
  <2>2. Charged'
      BY <1>20, LoadedRecord DEF LoadToDelete, Charged, TypeOK
  <2>3. Swept'
      BY <1>20 DEF LoadToDelete, Begins, Swept, Holds, TypeOK, Creators
  <2> QED
      BY <2>1, <2>2, <2>3
<1>21. ASSUME NEW p \in Procs, KillInit(p) PROVE (Handled /\ Charged /\ Swept)'
  <2>1. Handled'
      BY <1>21 DEF KillInit, Exit, Handled
  <2>2. Charged'
      BY <1>21 DEF KillInit, Charged, TypeOK, Recorded
  <2>3. Swept'
      BY <1>21 DEF KillInit, Swept, Holds
  <2> QED
      BY <2>1, <2>2, <2>3
<1>22. ASSUME NEW p \in Procs, ListToPrune(p) PROVE (Handled /\ Charged /\ Swept)'
  <2>1. Handled'
      BY <1>22 DEF ListToPrune, Begins, Handled
  <2>2. Charged'
      BY <1>22 DEF ListToPrune, Charged
  <2>3. Swept'
      BY <1>22 DEF ListToPrune, Begins, Swept, Holds
  <2> QED
      BY <2>1, <2>2, <2>3
<1>23. ASSUME NEW p \in Procs, Park(p) PROVE (Handled /\ Charged /\ Swept)'
  <2>1. Handled'
      BY <1>23 DEF Park, Handled
  <2>2. Charged'
      BY <1>23 DEF Park, Charged
  <2>3. Swept'
      BY <1>23 DEF Park, Swept, Holds
  <2> QED
      BY <2>1, <2>2, <2>3
<1>24. ASSUME NEW p \in Procs, Orphaned(p) PROVE (Handled /\ Charged /\ Swept)'
  <2>1. Handled'
      BY <1>24 DEF Orphaned, Exit, Handled
  <2>2. Charged'
      BY <1>24 DEF Orphaned, Charged
  <2>3. Swept'
      BY <1>24 DEF Orphaned, Swept, Holds
  <2> QED
      BY <2>1, <2>2, <2>3
<1>25. ASSUME NEW p \in Procs, ExecUser(p) PROVE (Handled /\ Charged /\ Swept)'
  <2>1. Handled'
      BY <1>25 DEF ExecUser, Handled
  <2>2. Charged'
      BY <1>25 DEF ExecUser, Charged
  <2>3. Swept'
      BY <1>25 DEF ExecUser, Swept, Holds
  <2> QED
      BY <2>1, <2>2, <2>3
<1>26. ASSUME NEW p \in Procs, InitExits(p) PROVE (Handled /\ Charged /\ Swept)'
  <2>1. Handled'
      BY <1>26 DEF InitExits, Exit, Handled
  <2>2. Charged'
      BY <1>26 DEF InitExits, Charged
  <2>3. Swept'
      BY <1>26 DEF InitExits, Swept, Holds
  <2> QED
      BY <2>1, <2>2, <2>3
<1>27. ASSUME NEW p \in Procs, CommandDies(p) PROVE (Handled /\ Charged /\ Swept)'
  <2>1. Handled'
      BY <1>27 DEF CommandDies, Handled
  <2>2. Charged'
      BY <1>27 DEF CommandDies, Charged
  <2>3. Swept'
      BY <1>27 DEF CommandDies, Swept
  <2> QED
      BY <2>1, <2>2, <2>3
<1> QED
    BY <1>0, <1>1, <1>2, <1>3, <1>4, <1>5, <1>6, <1>7, <1>8, <1>9, <1>10, <1>11,
       <1>12, <1>13, <1>14, <1>15, <1>16, <1>17, <1>18, <1>19, <1>20, <1>21, <1>22,
       <1>23, <1>24, <1>25, <1>26, <1>27
    DEF Next, Issue, CommandStep, InitStep

----------------------------------------------------------------------------
(* Theorems *)

\* Record, FIFOs, inits and commands stay where they go together, with any
\* fault at any step (container.go:119-404).
THEOREM Invariance == Orderly => (Spec => []IInv)
<1> SUFFICES ASSUME Orderly PROVE Spec => []IInv
    OBVIOUS
<1>1. Init => IInv
  <2> SUFFICES ASSUME Init PROVE IInv
      OBVIOUS
  <2>1. Absent \in Records
      BY DEF Absent, Records, Statuses
  <2>2. TypeOK
      BY <2>1 DEF Init, TypeOK, PCs, InitStates
  <2>3. Issued /\ Turns
      BY DEF Init, Issued, Turns, Places, InProgress, Creators
  <2>4. Recorded /\ Fifos /\ Inits /\ LiveIsRecorded
      BY DEF Init, Absent, Recorded, Fifos, Inits, LiveIsRecorded, Started, Creating,
         Starting,
             Finishing, Removing, InProgress, Creators
  <2>5. Tidy
      BY DEF Init, Absent, Tidy, Handled, Charged, Swept, Creators, Live
  <2> QED
      BY <2>2, <2>3, <2>4, <2>5 DEF IInv, Data
<1>2. IInv /\ [Next]_vars => IInv'
    BY ControlKept, DataKept, TidyKept DEF IInv
<1> QED
    BY <1>1, <1>2, PTL DEF Spec

\* Every variable has its type: a record names a process exactly while it says
\* created or running (store.go:123-156).
THEOREM TypeCorrect == Orderly => (Spec => []TypeOK)
<1> SUFFICES ASSUME Orderly PROVE Spec => []TypeOK
    OBVIOUS
<1>1. IInv => TypeOK
    BY DEF IInv, Data
<1> QED
    BY <1>1, Invariance, PTL

\* No container without a record to find it by, also after a crash of any
\* command; an orphan never runs its user's command (container.go:119-292).
THEOREM ContainersAreRecorded == Orderly => (Spec => []LiveIsRecorded)
<1> SUFFICES ASSUME Orderly PROVE Spec => []LiveIsRecorded
    OBVIOUS
<1>1. IInv => LiveIsRecorded
    BY DEF IInv, Data
<1> QED
    BY <1>1, Invariance, PTL

\* However many creates have tried, one workload runs under an id, and its FIFO
\* is the one start opens (container.go:119-156, 294-312).
THEOREM OneContainerPerId == Orderly => (Spec => []IdIsExclusive)
<1> SUFFICES ASSUME Orderly PROVE Spec => []IdIsExclusive
    OBVIOUS
<1>1. IInv => IdIsExclusive
  <2> SUFFICES ASSUME IInv PROVE IdIsExclusive
      OBVIOUS
  <2>1. \A q \in Procs : init[q] \in Started => rec.pid = q
      BY DEF IInv, Data, Inits, LiveIsRecorded, Creating, Started
  <2>2. OneWorkload
      BY <2>1 DEF OneWorkload
  <2>3. CreatedIsStartable
      BY NoPidAssumption DEF CreatedIsStartable, IInv, Data, TypeOK, Records, Fifos
  <2> QED
      BY <2>2, <2>3 DEF IdIsExclusive
<1> QED
    BY <1>1, Invariance, PTL

\* A record goes only when its init has ended, and comes back only by a claim
\* (container.go:119-129, 375-404, store.go:183-194).
THEOREM RecordsFollow == Orderly => (Spec => RecordFollowsContainer)
<1> SUFFICES ASSUME Orderly PROVE Spec => RecordFollowsContainer
    OBVIOUS
<1>1. IInv /\ [Next]_vars =>
          /\ [rec # Absent /\ rec' = Absent => rec.pid = NoPid \/ init[rec.pid] \notin Live]_vars
          /\ [rec = Absent /\ rec' # Absent => rec'.status = "creating"]_vars
  <2> SUFFICES ASSUME IInv, [Next]_vars, rec' # rec
               PROVE  /\ rec' = Absent => rec.pid = NoPid \/ init[rec.pid] \notin Live
                      /\ rec = Absent => rec'.status = "creating"
      BY DEF vars
  <2>1. PICK p \in Procs : Claim(p) \/ SaveCreated(p) \/ RemoveRecord(p) \/ SaveRunning(p)
                           \/ SaveStopped(p)
      BY DEF Next, Issue, CommandStep, InitStep, vars, disk, LoadToKill, ListToPrune,
             LoadToStart, LoadToDelete, Mkfifo, Spawn, Budget, AwaitReady, Abort, RemoveCgroup,
             OpenFifo, WaitWorkload, LoadStopped, Signal, KillInit, CreateFails, Park,
             Orphaned, ExecUser, Meet, InitExits, CommandDies
  <2>2. rec \in Records /\ loc[p] \in Records
      BY DEF IInv, Data, TypeOK
  <2>3. CASE Claim(p)
      BY <2>2, <2>3 DEF Claim, Absent, Records
  <2>4. CASE SaveCreated(p)
      BY <2>4 DEF SaveCreated, Absent, IInv, Data, Recorded, Creating
  <2>5. CASE RemoveRecord(p)
      BY <2>5 DEF RemoveRecord, IInv, Data, Recorded, Removing
  <2>6. CASE SaveRunning(p)
      BY <2>2, <2>6 DEF SaveRunning, Absent, Records, IInv, Data, Recorded, Starting
  <2>7. CASE SaveStopped(p)
    <3>1. rec.pid = p /\ p # NoPid
        BY <2>7, WhoIsWhere, NoPidAssumption DEF SaveStopped, IInv, Data, Recorded,
           Finishing
    <3>2. rec'.status = "stopped"
        BY <2>2, <2>7 DEF SaveStopped, Records
    <3> QED
        BY <3>1, <3>2 DEF Absent
  <2> QED
      BY <2>1, <2>3, <2>4, <2>5, <2>6, <2>7
<1> QED
    BY <1>1, Invariance, PTL
    DEF Spec, RecordFollowsContainer, RemovedWhenStopped, ReappearsByClaim

\* When the id is free and no command is at work, and none was killed, nothing
\* of a container is left (container.go:192-197, 375-404).
THEOREM NothingStays == Orderly => (Spec => []NothingLeftBehind)
<1> SUFFICES ASSUME Orderly PROVE Spec => []NothingLeftBehind
    OBVIOUS
<1>1. IInv => NothingLeftBehind
  <2> SUFFICES ASSUME IInv, rec = Absent, "commandDies" \notin caller.faults,
                      \A p \in Procs : ~InProgress(p)
               PROVE  fifo = NoPid /\ ~cgDir /\ \A q \in Procs : init[q] \notin Live
      BY DEF NothingLeftBehind
  <2>1. \A p \in Procs : pc[p] \in Ended \cup {"idle"}
      BY DEF InProgress
  <2>2. rec.status = "absent" /\ rec.pid = NoPid /\ ~rec.cg
      BY DEF Absent
  <2>3. fifo = NoPid
      BY <2>2 DEF IInv, Data, Fifos
  <2>4. \A q \in Procs : init[q] \notin Live
      BY <2>1, <2>2, NoPidAssumption DEF IInv, Tidy, Handled, Ended
  <2>5. ~cgDir
      BY <2>1, <2>2 DEF IInv, Tidy, Swept, Holds, Creators, Ended
  <2> QED
      BY <2>3, <2>4, <2>5
<1> QED
    BY <1>1, Invariance, PTL

=============================================================================

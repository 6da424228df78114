----------------------------- MODULE StoreProofs -----------------------------
(***************************************************************************)
(* Proofs about Store for any number of processes and any record sizes.    *)
(*                                                                         *)
(* Creates and deletes hold the lock; if saves, which do not, are kept     *)
(* apart from other changes by their callers, then one process at most     *)
(* changes the files at a time, a read is whole and the files implement    *)
(* the register.  The invariant says who owns which file: the temporary    *)
(* file belongs to the one writer, and a file that was ever named          *)
(* state.json is written to no more.                                       *)
(***************************************************************************)
EXTENDS Store, TLAPS

\* Where a process can be, by its operation.
Placed == \A p \in Procs :
    /\ Op[p] = "load" => pc[p] \in {"lookup", "read"} \cup Ended
    /\ Op[p] = "save" => pc[p] \in {"mkdir", "open", "write", "rename"} \cup Ended
    /\ Op[p] = "delete" => pc[p] \in {"lock", "list", "unlink"} \cup Ended
    /\ Op[p] = "create" =>
          pc[p] \in {"lock", "lookup", "read", "mkdir", "open", "write", "rename"} \cup Ended

\* A create or delete under way has the lock, and nobody else changes the files.
Alone ==
    /\ \A p \in Procs : Changing(p) /\ Op[p] # "save" => lock = p
    /\ \A p, q \in Procs : Changing(p) /\ Changing(q) => p = q

\* The writer's file is the temporary file, it is not state.json's, and it holds
\* what the writer has got to; state.json holds a whole record.
Owned ==
    /\ \A p \in Procs : pc[p] \in {"write", "rename"} => tmp = fd[p] /\ fd[p] \in Files
    /\ \A p \in Procs : pc[p] = "write" => data[fd[p]] = Empty
    /\ \A p \in Procs : pc[p] = "rename" => data[fd[p]] = p
    /\ json # Nothing => json # tmp /\ data[json] \in Files

\* A file that a process has opened to read is whole and is not the temporary one.
Settled ==
    /\ \A p \in Procs : rd[p] # Nothing => rd[p] # tmp /\ data[rd[p]] \in Files
    /\ \A p \in Procs : got[p] \in Files \cup {Nothing}

\* A process that has not opened its temporary file yet has made no file.
Fresh == \A p \in Procs :
    pc[p] \in {"lock", "lookup", "read", "mkdir", "open"} =>
        tmp # p /\ json # p /\ \A q \in Procs : rd[q] # p

IInv == TypeOK /\ Placed /\ Alone /\ Owned /\ Settled /\ Fresh

\* What creates and deletes have found under the lock is still so: the id that
\* a create writes is free, and a delete has listed all there is.
Valid ==
    /\ \A p \in Procs : Op[p] = "create" /\ pc[p] = "read" => rd[p] = json
    /\ \A p \in Procs :
          Op[p] = "create" /\ pc[p] \in {"mkdir", "open", "write", "rename"} => json = Nothing
    /\ \A p \in Procs : pc[p] = "unlink" =>
          (tmp # Nothing => "tmp" \in listed[p]) /\ (json # Nothing => "json" \in listed[p])
    /\ DeleteSucceeds
    /\ Found = "nothing" =>
          /\ json # Nothing => data[json] # Old
          /\ \A p \in Procs : rd[p] # Nothing => data[rd[p]] # Old

----------------------------------------------------------------------------
(* Proofs *)

USE OpAssumption, SizeAssumption, FoundAssumption, BooleanAssumption, DistinctAssumption
USE DEF Files, Ops, Ended, PCs, names, local

\* Before any operation on the id, IInv holds, with a record there or not.
LEMMA InitInductive == Init => IInv
<1> SUFFICES ASSUME Init PROVE IInv
    OBVIOUS
<1> USE DEF Init, First
<1>1. TypeOK
  <2>1. dir \in BOOLEAN
    OBVIOUS
  <2>2. \A p \in Procs : First(p) \in PCs
    OBVIOUS
  <2> QED
    BY <2>1, <2>2 DEF TypeOK
<1>2. Placed /\ Alone /\ Owned /\ Settled /\ Fresh
    BY DEF Placed, Alone, Changing, InProgress, Owned, Settled, Fresh
<1> QED
    BY <1>1, <1>2 DEF IInv

\* Every system call of Create, Save, Load and Delete (store.go:67-194), and a
\* crash between any two of them, preserves IInv while writers are kept apart.
LEMMA StepInductive == SavesAlone /\ IInv /\ [Next]_vars => IInv'
<1> SUFFICES ASSUME SavesAlone, IInv, [Next]_vars PROVE IInv'
    OBVIOUS
<1> USE DEF IInv
<1>1. ASSUME NEW p \in Procs, Step(p) \/ Crash(p) PROVE IInv'
  <2> USE DEF Goto, Return
  <2>1. CASE Lock(p)
    <3>1. TypeOK'
      BY <2>1 DEF Lock, MayBegin, TypeOK
    <3>2. Placed'
      BY <2>1 DEF Lock, MayBegin, Placed, TypeOK
    <3>3. Alone'
      BY <2>1 DEF Lock, MayBegin, Alone, TypeOK, Placed, Changing, InProgress,
           First
    <3>4. Owned'
      BY <2>1 DEF Lock, MayBegin, Owned, TypeOK, Placed, Alone, Changing,
           InProgress, First, Fresh
    <3>5. Settled'
      BY <2>1 DEF Lock, MayBegin, Settled, Owned, Fresh, TypeOK
    <3>6. Fresh'
      BY <2>1 DEF Lock, MayBegin, Fresh, TypeOK
    <3> QED
      BY <3>1, <3>2, <3>3, <3>4, <3>5, <3>6
  <2>2. CASE Lookup(p)
    <3>1. TypeOK'
      BY <2>2 DEF Lookup, Decide, TypeOK
    <3>2. Placed'
      BY <2>2 DEF Lookup, Decide, Placed, TypeOK
    <3>3. Alone'
      BY <2>2 DEF Lookup, Decide, Alone, TypeOK, Placed, Changing, InProgress, First
    <3>4. Owned'
      BY <2>2 DEF Lookup, Decide, Owned, TypeOK, Placed, Alone, Changing,
           InProgress, First, Fresh
    <3>5. Settled'
      BY <2>2 DEF Lookup, Decide, Settled, Owned, Fresh, TypeOK
    <3>6. Fresh'
      BY <2>2 DEF Lookup, Decide, Fresh, TypeOK
    <3> QED
      BY <3>1, <3>2, <3>3, <3>4, <3>5, <3>6
  <2>3. CASE ReadFile(p)
    <3>1. TypeOK'
      BY <2>3 DEF ReadFile, Decide, TypeOK
    <3>2. Placed'
      BY <2>3 DEF ReadFile, Decide, Placed, TypeOK
    <3>3. Alone'
      BY <2>3 DEF ReadFile, Decide, Alone, TypeOK, Placed, Changing, InProgress, First
    <3>4. Owned'
      BY <2>3 DEF ReadFile, Decide, Owned, TypeOK, Placed, Alone, Changing,
           InProgress, First, Fresh
    <3>5. Settled'
      BY <2>3 DEF ReadFile, Decide, Settled, Owned, Fresh, TypeOK
    <3>6. Fresh'
      BY <2>3 DEF ReadFile, Decide, Fresh, TypeOK
    <3> QED
      BY <3>1, <3>2, <3>3, <3>4, <3>5, <3>6
  <2>4. CASE MkdirAll(p)
    <3>1. TypeOK'
      BY <2>4 DEF MkdirAll, MayBegin, TypeOK
    <3>2. Placed'
      BY <2>4 DEF MkdirAll, MayBegin, Placed, TypeOK
    <3>3. Alone'
      BY <2>4 DEF MkdirAll, MayBegin, Alone, TypeOK, Placed, Changing, InProgress,
           First
    <3>4. Owned'
      BY <2>4 DEF MkdirAll, MayBegin, Owned, TypeOK, Placed, Alone, Changing,
           InProgress, First, Fresh
    <3>5. Settled'
      BY <2>4 DEF MkdirAll, MayBegin, Settled, Owned, Fresh, TypeOK
    <3>6. Fresh'
      BY <2>4 DEF MkdirAll, MayBegin, Fresh, TypeOK
    <3> QED
      BY <3>1, <3>2, <3>3, <3>4, <3>5, <3>6
  <2>5. CASE OpenTmp(p)
    <3>1. TypeOK'
      BY <2>5 DEF OpenTmp, TypeOK
    <3>2. Placed'
      BY <2>5 DEF OpenTmp, Placed, TypeOK
    <3>3. Alone'
      BY <2>5 DEF OpenTmp, Alone, TypeOK, Placed, Changing, InProgress, First
    <3>4. Owned'
      BY <2>5 DEF OpenTmp, Owned, TypeOK, Placed, Alone, Changing, InProgress,
           First, Fresh
    <3>5. Settled'
      BY <2>5 DEF OpenTmp, Settled, Owned, Fresh, TypeOK
    <3>6. Fresh'
      BY <2>5 DEF OpenTmp, Fresh, TypeOK
    <3> QED
      BY <3>1, <3>2, <3>3, <3>4, <3>5, <3>6
  <2>6. CASE WriteTmp(p)
    <3>1. TypeOK'
      BY <2>6 DEF WriteTmp, Over, TypeOK
    <3>2. Placed'
      BY <2>6 DEF WriteTmp, Over, Placed, TypeOK
    <3>3. Alone'
      BY <2>6 DEF WriteTmp, Over, Alone, TypeOK, Placed, Changing, InProgress, First
    <3>4. Owned'
      BY <2>6 DEF WriteTmp, Over, Owned, TypeOK, Placed, Alone, Changing,
           InProgress, First, Fresh
    <3>5. Settled'
      BY <2>6 DEF WriteTmp, Over, Settled, Owned, Fresh, TypeOK
    <3>6. Fresh'
      BY <2>6 DEF WriteTmp, Over, Fresh, TypeOK
    <3> QED
      BY <3>1, <3>2, <3>3, <3>4, <3>5, <3>6
  <2>7. CASE Rename(p)
    <3>1. TypeOK'
      BY <2>7 DEF Rename, TypeOK
    <3>2. Placed'
      BY <2>7 DEF Rename, Placed, TypeOK
    <3>3. Alone'
      BY <2>7 DEF Rename, Alone, TypeOK, Placed, Changing, InProgress, First
    <3>4. Owned'
      BY <2>7 DEF Rename, Owned, TypeOK, Placed, Alone, Changing, InProgress, First,
           Fresh
    <3>5. Settled'
      BY <2>7 DEF Rename, Settled, Owned, Fresh, TypeOK
    <3>6. Fresh'
      BY <2>7 DEF Rename, Fresh, TypeOK
    <3> QED
      BY <3>1, <3>2, <3>3, <3>4, <3>5, <3>6
  <2>8. CASE List(p)
    <3>1. TypeOK'
      BY <2>8 DEF List, TypeOK
    <3>2. Placed'
      BY <2>8 DEF List, Placed, TypeOK
    <3>3. Alone'
      BY <2>8 DEF List, Alone, TypeOK, Placed, Changing, InProgress, First
    <3>4. Owned'
      BY <2>8 DEF List, Owned, TypeOK, Placed, Alone, Changing, InProgress, First, Fresh
    <3>5. Settled'
      BY <2>8 DEF List, Settled, Owned, Fresh, TypeOK
    <3>6. Fresh'
      BY <2>8 DEF List, Fresh, TypeOK
    <3> QED
      BY <3>1, <3>2, <3>3, <3>4, <3>5, <3>6
  <2>9. CASE Unlink(p)
    <3>1. TypeOK'
      BY <2>9 DEF Unlink, TypeOK
    <3>2. Placed'
      BY <2>9 DEF Unlink, Placed, TypeOK
    <3>3. Alone'
      BY <2>9 DEF Unlink, Alone, TypeOK, Placed, Changing, InProgress, First
    <3>4. Owned'
      BY <2>9 DEF Unlink, Owned, TypeOK, Placed, Alone, Changing, InProgress, First,
           Fresh
    <3>5. Settled'
      BY <2>9 DEF Unlink, Settled, Owned, Fresh, TypeOK
    <3>6. Fresh'
      BY <2>9 DEF Unlink, Fresh, TypeOK
    <3> QED
      BY <3>1, <3>2, <3>3, <3>4, <3>5, <3>6
  <2>10. CASE Rmdir(p)
    <3>1. TypeOK'
      <4>1. dir' \in BOOLEAN
        BY <2>10 DEF Rmdir, TypeOK
      <4>2. pc' \in [Procs -> PCs] /\ lock' \in Procs \cup {Nothing}
        BY <2>10 DEF Rmdir, TypeOK
      <4> QED
        BY <2>10, <4>1, <4>2 DEF Rmdir, TypeOK
    <3>2. Placed'
      BY <2>10 DEF Rmdir, Placed, TypeOK
    <3>3. Alone'
      BY <2>10 DEF Rmdir, Alone, TypeOK, Placed, Changing, InProgress, First
    <3>4. Owned'
      BY <2>10 DEF Rmdir, Owned, TypeOK, Placed, Alone, Changing, InProgress, First,
           Fresh
    <3>5. Settled'
      BY <2>10 DEF Rmdir, Settled, Owned, Fresh, TypeOK
    <3>6. Fresh'
      BY <2>10 DEF Rmdir, Fresh, TypeOK
    <3> QED
      BY <3>1, <3>2, <3>3, <3>4, <3>5, <3>6
  <2>11. CASE Crash(p)
    <3>1. TypeOK'
      BY <2>11 DEF Crash, TypeOK
    <3>2. Placed'
      BY <2>11 DEF Crash, Placed, TypeOK
    <3>3. Alone'
      BY <2>11 DEF Crash, Alone, TypeOK, Placed, Changing, InProgress, First
    <3>4. Owned'
      BY <2>11 DEF Crash, Owned, TypeOK, Placed, Alone, Changing, InProgress, First,
           Fresh
    <3>5. Settled'
      BY <2>11 DEF Crash, Settled, Owned, Fresh, TypeOK
    <3>6. Fresh'
      BY <2>11 DEF Crash, Fresh, TypeOK
    <3> QED
      BY <3>1, <3>2, <3>3, <3>4, <3>5, <3>6
  <2> QED
    BY <1>1, <2>1, <2>2, <2>3, <2>4, <2>5, <2>6, <2>7, <2>8, <2>9, <2>10, <2>11 DEF Step
<1>2. CASE UNCHANGED vars
    BY <1>2 DEF vars, TypeOK, Placed, Alone, Changing, InProgress, First, Owned,
         Settled, Fresh
<1> QED
    BY <1>1, <1>2 DEF Next

\* While writers are kept apart, by the lock or by taking turns, IInv holds
\* throughout.
THEOREM Invariance == SavesAlone => (Spec => []IInv)
<1> SUFFICES ASSUME SavesAlone PROVE Spec => []IInv
    OBVIOUS
<1>1. Init => IInv
    BY InitInductive
<1>2. IInv /\ [Next]_vars => IInv'
    BY StepInductive
<1> QED
    BY <1>1, <1>2, PTL DEF Spec

\* Save's rename (store.go:95-120): a reader gets a whole record, whichever
\* process crashes and whatever it leaves in the temporary file.
THEOREM ReadersSeeWholeRecords == SavesAlone => (Spec => []ReadsWhole)
<1> SUFFICES ASSUME SavesAlone PROVE Spec => []ReadsWhole
    OBVIOUS
<1>1. IInv => ReadsWhole
    BY DEF IInv, Settled, ReadsWhole
<1> QED
    BY <1>1, Invariance, PTL

\* Every variable of the store's files has its type: a reader or writer that goes
\* on has its file open (store.go:98-156).
THEOREM TypeCorrect == SavesAlone => (Spec => []TypeOK)
<1> SUFFICES ASSUME SavesAlone PROVE Spec => []TypeOK
    OBVIOUS
<1>1. IInv => TypeOK
    BY DEF IInv
<1> QED
    BY <1>1, Invariance, PTL

\* What a create or a delete has found under the lock stays so until it is done,
\* unless the record was one this lightpod cannot read (store.go:82-93, 184-194).
LEMMA ValidInductive ==
    ASSUME SavesAlone, Found # "newer"
    PROVE  /\ Init => Valid
           /\ IInv /\ Valid /\ [Next]_vars => Valid'
<1>1. Init => Valid
    BY DEF Init, First, Valid, DeleteSucceeds
<1>2. ASSUME IInv, Valid, [Next]_vars PROVE Valid'
  <2>1. ASSUME NEW p \in Procs, Step(p) \/ Crash(p) PROVE Valid'
    <3> USE <1>2 DEF IInv, TypeOK, Valid, DeleteSucceeds, Goto, Return, Alone, Placed,
                     Changing, InProgress, First
    <3>1. CASE Lock(p)
        BY <3>1 DEF Lock
    <3>2. CASE Lookup(p)
        BY <3>2 DEF Lookup, Decide
    <3>3. CASE ReadFile(p)
        BY <3>3 DEF ReadFile, Decide, Readable, Settled
    <3>4. CASE MkdirAll(p)
        BY <3>4 DEF MkdirAll
    <3>5. CASE OpenTmp(p)
        BY <3>5 DEF OpenTmp, Owned, Settled, Fresh
    <3>6. CASE WriteTmp(p)
        BY <3>6 DEF WriteTmp, Owned, Settled
    <3>7. CASE Rename(p)
        BY <3>7 DEF Rename, Owned
    <3>8. CASE List(p)
        BY <3>8 DEF List
    <3>9. CASE Unlink(p)
        BY <3>9 DEF Unlink
    <3>10. CASE Rmdir(p)
        BY <3>10 DEF Rmdir
    <3>11. CASE Crash(p)
        BY <3>11 DEF Crash
    <3> QED
        BY <2>1, <3>1, <3>2, <3>3, <3>4, <3>5, <3>6, <3>7, <3>8, <3>9, <3>10, <3>11
        DEF Step
  <2>2. CASE UNCHANGED vars
      BY <1>2, <2>2 DEF vars, Valid, DeleteSucceeds
  <2> QED
      BY <1>2, <2>1, <2>2 DEF Next
<1> QED
    BY <1>1, <1>2

\* What creates and deletes have found under the lock is so in every state.
LEMMA Validity == SavesAlone /\ Found # "newer" => (Spec => [](IInv /\ Valid))
<1> SUFFICES ASSUME SavesAlone, Found # "newer" PROVE Spec => [](IInv /\ Valid)
    OBVIOUS
<1>1. Init => Valid
    BY ValidInductive
<1>2. IInv /\ Valid /\ [Next]_vars => Valid'
    BY ValidInductive
<1> QED
    BY <1>1, <1>2, Invariance, PTL DEF Spec

\* Store.Delete under the lock (store.go:184-194): RemoveAll finds the directory
\* as it listed it and removes it.
THEOREM DeletesSucceed == SavesAlone /\ Found # "newer" => (Spec => []DeleteSucceeds)
<1> SUFFICES ASSUME SavesAlone, Found # "newer" PROVE Spec => []DeleteSucceeds
    OBVIOUS
<1>1. Valid => DeleteSucceeds
    BY DEF Valid
<1> QED
    BY <1>1, Validity, PTL

\* The system calls of Create, Save, Load and Delete (store.go:83-194) act on the
\* id's record like one step each, crashes included, while writers are kept apart.
THEOREM StoreImplementsRegister ==
    SavesAlone /\ Found # "newer" => (Spec => ImplementsRegister)
<1> SUFFICES ASSUME SavesAlone, Found # "newer" PROVE Spec => ImplementsRegister
    OBVIOUS
<1> DEFINE cell == IF json = Nothing THEN Nothing ELSE data[json]
           seen == [p \in Procs |-> IF rd[p] = Nothing THEN Nothing ELSE data[rd[p]]]
<1>1. Init => Cell!RInit
    BY DEF Init, Cell!RInit
<1>2. IInv /\ Valid /\ [Next]_vars => [Cell!RNext]_(Cell!rvars)
  <2> SUFFICES ASSUME IInv, Valid, [Next]_vars PROVE [Cell!RNext]_(Cell!rvars)
      OBVIOUS
  <2>1. ASSUME UNCHANGED cell, UNCHANGED seen PROVE UNCHANGED Cell!rvars
      BY <2>1 DEF Cell!rvars
  <2>2. ASSUME UNCHANGED <<json, data, rd>> PROVE UNCHANGED Cell!rvars
      BY <2>2, <2>1
  <2>3. ASSUME NEW p \in Procs, Step(p) \/ Crash(p) PROVE [Cell!RNext]_(Cell!rvars)
    <3>1. CASE Lock(p) \/ MkdirAll(p) \/ List(p) \/ Rmdir(p) \/ Crash(p) \/ ReadFile(p)
        BY <3>1, <2>2 DEF Lock, MkdirAll, List, Rmdir, Crash, ReadFile, names, local
    <3>2. CASE Lookup(p)
      <4>1. UNCHANGED cell
          BY <3>2 DEF Lookup, names
      <4>2. seen' = [seen EXCEPT ![p] = cell]
          BY <3>2 DEF Lookup, names, IInv, TypeOK
      <4> QED
          BY <4>1, <4>2 DEF Cell!RNext, Cell!Read
    <3>3. CASE OpenTmp(p)
      <4>1. ASSUME dir PROVE UNCHANGED Cell!rvars
        <5>1. PICK f : /\ f = IF tmp = Nothing THEN p ELSE tmp
                       /\ data' = [data EXCEPT ![f] = Empty]
            BY <3>3, <4>1 DEF OpenTmp
        <5>2. json # f /\ \A q \in Procs : rd[q] # Nothing => rd[q] # f
            BY <3>3, <5>1 DEF OpenTmp, IInv, Owned, Settled, Fresh
        <5>3. UNCHANGED <<json, rd>>
            BY <3>3 DEF OpenTmp
        <5>4. UNCHANGED cell
            BY <5>1, <5>2, <5>3 DEF IInv, TypeOK
        <5>5. UNCHANGED seen
            BY <5>1, <5>2, <5>3 DEF IInv, TypeOK
        <5> QED
            BY <5>4, <5>5, <2>1
      <4>2. ASSUME ~dir PROVE UNCHANGED Cell!rvars
          BY <3>3, <4>2, <2>2 DEF OpenTmp
      <4> QED
          BY <4>1, <4>2
    <3>4. CASE WriteTmp(p)
      <4>1. UNCHANGED <<json, rd>>
          BY <3>4 DEF WriteTmp, names, local
      <4>2. data' = [data EXCEPT ![fd[p]] = Over(@, p)]
          BY <3>4 DEF WriteTmp
      <4>3. json # fd[p] /\ \A q \in Procs : rd[q] # Nothing => rd[q] # fd[p]
          BY <3>4 DEF WriteTmp, IInv, Owned, Settled
      <4>4. UNCHANGED cell
          BY <4>1, <4>2, <4>3 DEF IInv, TypeOK
      <4>5. UNCHANGED seen
          BY <4>1, <4>2, <4>3 DEF IInv, TypeOK
      <4> QED
          BY <4>4, <4>5, <2>1
    <3>5. CASE Rename(p)
      <4>1. UNCHANGED seen
          BY <3>5 DEF Rename, local
      <4>2. cell' = p
          BY <3>5 DEF Rename, local, IInv, Owned
      <4>3. CASE Op[p] = "create"
        <5>1. cell = Nothing
            BY <3>5, <4>3 DEF Rename, Valid
        <5> QED
            BY <4>1, <4>2, <4>3, <5>1 DEF Cell!RNext, Cell!Claim
      <4>4. CASE Op[p] = "save"
          BY <4>1, <4>2, <4>4 DEF Cell!RNext, Cell!Put
      <4>5. Op[p] \in {"create", "save"}
          BY <3>5 DEF Rename, IInv, Placed
      <4> QED
          BY <4>3, <4>4, <4>5
    <3>6. CASE Unlink(p)
      <4>1. UNCHANGED seen
          BY <3>6 DEF Unlink
      <4>2. UNCHANGED cell \/ cell' = Nothing
          BY <3>6 DEF Unlink
      <4> QED
          BY <4>1, <4>2, <2>1 DEF Cell!RNext, Cell!Remove
    <3> QED
        BY <2>3, <3>1, <3>2, <3>3, <3>4, <3>5, <3>6 DEF Step
  <2>4. CASE UNCHANGED vars
      BY <2>4, <2>2 DEF vars
  <2> QED
      BY <2>3, <2>4 DEF Next
<1> QED
    BY <1>1, <1>2, Validity, PTL DEF Spec, ImplementsRegister, Cell!RSpec
=============================================================================

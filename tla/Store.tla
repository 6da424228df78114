-------------------------------- MODULE Store --------------------------------
(***************************************************************************)
(* The files of one container id in the state directory: what each system  *)
(* call of Store.Create, Save, Load and Delete does to them while several  *)
(* commands run.  Create and Delete hold the store's flock, Save outside   *)
(* of Create does not.  Lifecycle.tla takes each of them as one step.      *)
(*                                                                         *)
(* A file is an inode: a process that has it open goes on using it after   *)
(* a rename or an unlink.  A record is named by the process that wrote it. *)
(*                                                                         *)
(* The operators named Mutant... are not part of the model (README.md).    *)
(***************************************************************************)
EXTENDS Naturals

CONSTANTS
    Procs,    \* the processes, each with one operation on the id
    Op,       \* which operation
    Size,     \* length of the record each process writes
    Old,      \* names the record there may be at the beginning, and its file
    Found,    \* "nothing", "record" or "newer": what there is at the beginning
    SavesAlone, \* TRUE: a save is issued only while nobody else changes the
              \* id's files, and nobody begins to change them during a save
    Crashes,  \* TRUE: processes may be killed
    Nothing, Empty, Torn

Ops == {"create", "save", "load", "delete"}
Files == Procs \cup {Old}

ASSUME OpAssumption == Op \in [Procs -> Ops]
ASSUME SizeAssumption == Size \in [Files -> Nat]
ASSUME FoundAssumption == Found \in {"nothing", "record", "newer"}
ASSUME BooleanAssumption == SavesAlone \in BOOLEAN /\ Crashes \in BOOLEAN
ASSUME DistinctAssumption ==
    /\ Old \notin Procs
    /\ Nothing \notin Files \cup {Empty, Torn}
    /\ Empty \notin Files \cup {Torn} /\ Torn \notin Files

VARIABLES
    lock,   \* the process that holds the flock on .lock, or Nothing
    dir,    \* the id's directory exists
    tmp,    \* the file state.json.tmp names, or Nothing
    json,   \* the file state.json names, or Nothing
    data,   \* what each file holds: a whole record, Empty or Torn
    pc,     \* where each process is
    rd,     \* the file each process has opened to read, or Nothing
    fd,     \* the file each process has opened to write, or Nothing
    got,    \* what each process has read, Nothing if there was no file
    listed  \* which of the two names each delete has found in the directory

vars == <<lock, dir, tmp, json, data, pc, rd, fd, got, listed>>
names == <<dir, tmp, json>>
local == <<rd, fd, got, listed>>

First(p) == CASE Op[p] \in {"create", "delete"} -> "lock"
              [] Op[p] = "save" -> "mkdir"
              [] Op[p] = "load" -> "lookup"

Ended == {"done", "failed", "dead"}
PCs == Ended \cup {"lock", "lookup", "read", "mkdir", "open", "write", "rename",
                   "list", "unlink", "rmdir"}

Init ==
    /\ lock = Nothing
    /\ dir = (Found # "nothing") /\ tmp = Nothing
    /\ json = IF Found = "nothing" THEN Nothing ELSE Old
    /\ data = [f \in Files |-> IF f = Old THEN Old ELSE Empty]
    /\ pc = [p \in Procs |-> First(p)]
    /\ rd = [p \in Procs |-> Nothing] /\ fd = [p \in Procs |-> Nothing]
    /\ got = [p \in Procs |-> Nothing]
    /\ listed = [p \in Procs |-> {}]

Goto(p, l) == pc' = [pc EXCEPT ![p] = l]

\* An operation returns; withLock's deferred calls release the lock.
Return(p, how) ==
    /\ Goto(p, how)
    /\ lock' = IF lock = p THEN Nothing ELSE lock

InProgress(p) == pc[p] \notin Ended \cup {First(p)}

Changing(p) == Op[p] # "load" /\ InProgress(p)

\* An operation is issued; saves, which take no lock, are kept apart or not.
MayBegin(p) ==
    SavesAlone /\ pc[p] = First(p) =>
        \A q \in Procs : Changing(q) => Op[p] # "save" /\ Op[q] # "save"

\* Unmarshal takes a whole record, and the schema check refuses a newer one.
Readable(r) == r \in Procs \/ (r = Old /\ Found = "record")

----------------------------------------------------------------------------
(* withLock *)

MutantSharedLock(p) ==
    /\ pc[p] = "lock" /\ MayBegin(p)
    /\ lock' = p
    /\ Goto(p, IF Op[p] = "create" THEN "lookup" ELSE "list")
    /\ UNCHANGED <<names, data, local>>

Lock(p) ==
    /\ pc[p] = "lock" /\ MayBegin(p)
    /\ lock = Nothing
    /\ lock' = p
    /\ Goto(p, IF Op[p] = "create" THEN "lookup" ELSE "list")
    /\ UNCHANGED <<names, data, local>>

----------------------------------------------------------------------------
(* Load *)

\* Create goes on when Load returns an error, and is refused otherwise.
Decide(p, readable) ==
    IF Op[p] = "load" THEN Return(p, IF readable THEN "done" ELSE "failed")
    ELSE IF readable THEN Return(p, "failed")
    ELSE Goto(p, "mkdir") /\ UNCHANGED lock

MutantNotExistIgnored(p) ==
    /\ pc[p] = "lookup"
    /\ rd' = [rd EXCEPT ![p] = json]
    /\ Goto(p, "read")
    /\ UNCHANGED <<lock, names, data, fd, got, listed>>

\* Open state.json.
Lookup(p) ==
    /\ pc[p] = "lookup"
    /\ rd' = [rd EXCEPT ![p] = json]
    /\ IF json = Nothing THEN Decide(p, FALSE) ELSE Goto(p, "read") /\ UNCHANGED lock
    /\ UNCHANGED <<names, data, fd, got, listed>>

ReadFile(p) ==
    /\ pc[p] = "read"
    /\ got' = [got EXCEPT ![p] = data[rd[p]]]
    /\ Decide(p, Readable(data[rd[p]]))
    /\ UNCHANGED <<names, data, rd, fd, listed>>

----------------------------------------------------------------------------
(* Save *)

MkdirAll(p) ==
    /\ pc[p] = "mkdir" /\ MayBegin(p)
    /\ dir' = TRUE
    /\ Goto(p, "open")
    /\ UNCHANGED <<lock, tmp, json, data, local>>

MutantNoTruncate(p) ==
    /\ pc[p] = "open"
    /\ LET file == IF tmp = Nothing THEN p ELSE tmp IN
       /\ tmp' = file
       /\ fd' = [fd EXCEPT ![p] = file]
    /\ Goto(p, "write")
    /\ UNCHANGED <<lock, dir, json, data, rd, got, listed>>

\* os.WriteFile opens the temporary file with O_CREAT|O_TRUNC, so a file that
\* is there, another process's perhaps, is emptied and used.
OpenTmp(p) ==
    /\ pc[p] = "open"
    /\ IF dir
       THEN LET file == IF tmp = Nothing THEN p ELSE tmp IN
            /\ tmp' = file
            /\ fd' = [fd EXCEPT ![p] = file]
            /\ data' = [data EXCEPT ![file] = Empty]
            /\ Goto(p, "write") /\ UNCHANGED lock
       ELSE Return(p, "failed") /\ UNCHANGED <<tmp, fd, data>>
    /\ UNCHANGED <<dir, json, rd, got, listed>>

\* Each descriptor has its own offset, so a record is written over the start of
\* whatever the file holds by now and leaves the rest of a longer one behind it.
Over(r, p) ==
    IF r = Empty \/ (r \in Files /\ Size[r] <= Size[p]) THEN p ELSE Torn

WriteTmp(p) ==
    /\ pc[p] = "write"
    /\ data' = [data EXCEPT ![fd[p]] = Over(@, p)]
    /\ Goto(p, "rename")
    /\ UNCHANGED <<lock, names, local>>

\* The name is renamed, whoever made the file it names by now.
Rename(p) ==
    /\ pc[p] = "rename"
    /\ IF tmp = Nothing
       THEN Return(p, "failed") /\ UNCHANGED <<tmp, json>>
       ELSE json' = tmp /\ tmp' = Nothing /\ Return(p, "done")
    /\ UNCHANGED <<dir, data, local>>

----------------------------------------------------------------------------
(* Delete: os.RemoveAll lists the directory, unlinks what it listed in no
   particular order and removes the directory, if it is empty by then *)

List(p) ==
    /\ pc[p] = "list"
    /\ listed' = [listed EXCEPT ![p] =
            {n \in {"tmp", "json"} : (IF n = "tmp" THEN tmp ELSE json) # Nothing}]
    /\ IF dir THEN Goto(p, "unlink") /\ UNCHANGED lock ELSE Return(p, "done")
    /\ UNCHANGED <<names, data, rd, fd, got>>

Unlink(p) ==
    /\ pc[p] = "unlink"
    /\ \E n \in listed[p] :
          /\ listed' = [listed EXCEPT ![p] = @ \ {n}]
          /\ IF n = "tmp" THEN tmp' = Nothing /\ UNCHANGED json
             ELSE json' = Nothing /\ UNCHANGED tmp
    /\ UNCHANGED <<lock, dir, data, pc, rd, fd, got>>

Rmdir(p) ==
    /\ pc[p] = "unlink" /\ listed[p] = {}
    /\ IF tmp = Nothing /\ json = Nothing
       THEN dir' = FALSE /\ Return(p, "done")
       ELSE Return(p, "failed") /\ UNCHANGED dir
    /\ UNCHANGED <<tmp, json, data, local>>

----------------------------------------------------------------------------

\* The kernel drops the flock of a killed process.
Crash(p) ==
    /\ Crashes /\ InProgress(p)
    /\ Return(p, "dead")
    /\ UNCHANGED <<names, data, local>>

Step(p) == \/ Lock(p) \/ Lookup(p) \/ ReadFile(p)
           \/ MkdirAll(p) \/ OpenTmp(p) \/ WriteTmp(p) \/ Rename(p)
           \/ List(p) \/ Unlink(p) \/ Rmdir(p)

Next == \E p \in Procs : Step(p) \/ Crash(p)

Spec == Init /\ [][Next]_vars

----------------------------------------------------------------------------
(* Properties *)

\* Every variable has its type, and a process that reads or writes has a file
\* open.
TypeOK ==
    /\ lock \in Procs \cup {Nothing} /\ dir \in BOOLEAN
    /\ tmp \in Files \cup {Nothing} /\ json \in Files \cup {Nothing}
    /\ data \in [Files -> Files \cup {Empty, Torn}]
    /\ pc \in [Procs -> PCs]
    /\ rd \in [Procs -> Files \cup {Nothing}]
    /\ fd \in [Procs -> Files \cup {Nothing}]
    /\ got \in [Procs -> Files \cup {Nothing, Empty, Torn}]
    /\ listed \in [Procs -> SUBSET {"tmp", "json"}]
    /\ \A p \in Procs : /\ pc[p] = "read" => rd[p] \in Files
                        /\ pc[p] \in {"write", "rename"} => fd[p] \in Files

\* "A concurrent reader gets the old record or the new one, never a
\* half-written file."
ReadsWhole == \A p \in Procs : got[p] \notin {Empty, Torn}

\* A delete that has the lock finds the directory as it listed it and removes
\* it; it fails on no file that came up meanwhile.
DeleteSucceeds == \A p \in Procs : Op[p] = "delete" => pc[p] # "failed"

\* "A newer schema is refused rather than misinterpreted", and a create
\* "fails if it is taken": the record a create writes replaces no other.
CreateReplacesNothing ==
    [][\A p \in Procs : Op[p] = "create" /\ json' # json /\ pc'[p] = "done"
          /\ pc[p] = "rename" => json = Nothing]_vars

\* The files implement the register: the cell changes from one whole record to
\* another, and a read takes effect when it opens the file.
Cell == INSTANCE Register WITH
    Users    <- Procs,
    Claimers <- {p \in Procs : Op[p] = "create"},
    Writers  <- {p \in Procs : Op[p] = "save"},
    Found    <- IF Found = "nothing" THEN Nothing ELSE Old,
    cell     <- IF json = Nothing THEN Nothing ELSE data[json],
    seen     <- [p \in Procs |-> IF rd[p] = Nothing THEN Nothing ELSE data[rd[p]]]

ImplementsRegister == Cell!RSpec
=============================================================================

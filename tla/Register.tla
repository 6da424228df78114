------------------------------ MODULE Register ------------------------------
(***************************************************************************)
(* What Store promises for one id: a cell that is empty or holds one whole *)
(* record, and that every operation reads or changes in one step.          *)
(* Store.Create's comment: it "claims an id and writes the first record,   *)
(* failing if it is taken"; Store.Save's: it replaces "any previous one",  *)
(* and a reader gets "the old record or the new one".                      *)
(***************************************************************************)
CONSTANTS
    Users,    \* the processes; a record is named by the process that wrote it
    Claimers, \* those of them that create
    Writers,  \* those of them that save
    Found,    \* the record there is at the beginning, or Nothing
    Nothing

VARIABLES
    cell,     \* the record
    seen      \* what each process has read

rvars == <<cell, seen>>

RInit == cell = Found /\ seen = [u \in Users |-> Nothing]

Claim(u) == cell = Nothing /\ cell' = u /\ UNCHANGED seen
Put(u)   == cell' = u /\ UNCHANGED seen
Remove   == cell' = Nothing /\ UNCHANGED seen
Read(u)  == seen' = [seen EXCEPT ![u] = cell] /\ UNCHANGED cell

RNext == \/ \E u \in Claimers : Claim(u)
         \/ \E u \in Writers : Put(u)
         \/ \E u \in Users : Read(u)
         \/ Remove

RSpec == RInit /\ [][RNext]_rvars
=============================================================================

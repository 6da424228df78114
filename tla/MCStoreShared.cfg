\* Creates and deletes race, saves are kept apart from them; any may be killed.
SPECIFICATION Spec
CONSTANTS
    c1 = c1
    c2 = c2
    c3 = c3
    v1 = v1
    v2 = v2
    l1 = l1
    l2 = l2
    d1 = d1
    d2 = d2
    Old = Old
    Nothing = Nothing
    Empty = Empty
    Torn = Torn
    Procs = {c1, c2, v1, l1, d1, d2}
    Op <- MCOp
    Size <- MCSize
    Found = "nothing"
    SavesAlone = TRUE
    Crashes = TRUE
INVARIANTS
    TypeOK
    ReadsWhole
PROPERTIES
    ImplementsRegister
\* The operations come to an end, and so does the behaviour.
CHECK_DEADLOCK FALSE

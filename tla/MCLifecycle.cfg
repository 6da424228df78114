\* Commands that race, foreground runs that race, and commands issued one at a
\* time that may crash.
SPECIFICATION FairSpec
CONSTANTS
    c1 = c1
    c2 = c2
    r1 = r1
    r2 = r2
    s1 = s1
    s2 = s2
    k1 = k1
    d1 = d1
    d2 = d2
    f1 = f1
    p1 = p1
    NoPid = NoPid
    Procs <- MCProcs
    Command <- MCCommand
    Callers <- MCCallers
INVARIANTS
    TypeOK
    LiveIsRecorded
    IdIsExclusive
    NothingLeftBehind
PROPERTIES
    RecordFollowsContainer
    CommandsEnd
\* The commands come to an end, and so does the behaviour.
CHECK_DEADLOCK FALSE

\* Creators, starts and teardowns of one id whose bundle is generated or given,
\* edited by GPU runs, or removed.
SPECIFICATION FairSpec
CONSTANTS
    r1 = r1
    r2 = r2
    c1 = c1
    b1 = b1
    g1 = g1
    h1 = h1
    s1 = s1
    k1 = k1
    d1 = d1
    f1 = f1
    Nobody = Nobody
    Procs <- MCProcs
    Command <- MCCommand
    Callers <- MCCallers
INVARIANTS
    TypeOK
    BundleGoesAway
    RunsAsAsked
PROPERTIES
    TeardownWorks
\* The commands come to an end, and so does the behaviour.
CHECK_DEADLOCK FALSE

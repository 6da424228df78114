\* One foreground run, four worlds of hooks, two signals sent twice at most
\* into a channel of two.
SPECIFICATION FairSpec
CONSTANTS
    Fatal = {"TERM"}
    Harmless = {"USR1"}
    Capacity = 2
    MaxSends = 2
    Worlds <- MCWorlds
INVARIANTS
    TypeOK
    EndsClean
PROPERTIES
    ForwardsWhatCame
    RunResponds
\* The run comes to an end, and so does the behaviour; a start whose init dies
\* at the wrong moment waits for ever (Lifecycle.tla).
CHECK_DEADLOCK FALSE

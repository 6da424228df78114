\* Init may be killed while the creator waits for it.
SPECIFICATION FairSpec
CONSTANTS
    ConfigSize = 2
    PipeCap = 2
    NHooks <- MCNHooks
    Faults <- MCInitDies
PROPERTIES
    DeadInitNoticed
\* A parked container waits for a start that need not come.
CHECK_DEADLOCK FALSE

\* Every fault, and a config of two units that fits the pipe.
SPECIFICATION FairSpec
CONSTANTS
    ConfigSize = 2
    PipeCap = 2
    NHooks <- MCNHooks
    Faults <- MCAllFaults
INVARIANTS
    TypeOK
    LockStep
    HooksInPlace
    FailureLeavesNothing
PROPERTIES
    ImplementsContract
    NobodyWaitsForever
\* A parked container waits for a start that need not come.
CHECK_DEADLOCK FALSE

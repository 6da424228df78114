\* All sorts of specs; the goroutine moves only before it changes credentials.
SPECIFICATION SandboxSpec
CONSTANTS
    Threads = {"t1", "t2"}
    MovesAt = {"resolve", "limits"}
    Caps <- MCCaps
    Specs <- MCSpecs
    Hosts <- MCHosts
    AuditArch = 62
    GuardX32 = TRUE
    X32Bit = 30
    SyscallNumbers <- MCNumbers
    MaxInstructions = 15
    Calls <- MCCalls
    ProfilesOf <- MCProfilesOf
INVARIANTS
    TypeOK
    Confined
    AmbientSurvives
    RefusedForCause
    FilterMatches
\* The user's command takes over.
CHECK_DEADLOCK FALSE

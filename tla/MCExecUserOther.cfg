\* The default capabilities for a user other than root.
SPECIFICATION SandboxSpec
CONSTANTS
    Threads = {"t1"}
    MovesAt = {}
    Caps <- MCCaps
    Specs <- MCDefaultOther
    Hosts <- MCHosts
    AuditArch = 62
    GuardX32 = TRUE
    X32Bit = 30
    SyscallNumbers <- MCNumbers
    MaxInstructions = 15
    Calls <- MCCalls
    ProfilesOf <- MCProfilesOf
INVARIANT
    OtherUsersRun
\* The user's command takes over.
CHECK_DEADLOCK FALSE

\* Two containers are set up from one directory.
SPECIFICATION RootfsSpec
CONSTANTS
    Inits = {"a", "b"}
    RootfsSpecs <- MCSpecs
    Machines <- MCHosts
    Disks <- MCDisks
INVARIANTS
    RootfsTypeOK
    HostUndisturbed
    ProtectionHolds
    DevicesThere
    RefusedForCause
\* Every container is set up or refused in the end.
CHECK_DEADLOCK FALSE

\* All sorts of specs and callers; the goroutine moves only before it joins.
SPECIFICATION Spec
CONSTANTS
    Threads = {"t1", "t2"}
    MovesAt = {"stage2"}
    Paths <- MCPaths
    Specs <- MCSpecs
    Hosts <- MCHosts
INVARIANTS
    TypeOK
    AsAskedOrRefused
\* Mounting is the matter of another module.
CHECK_DEADLOCK FALSE

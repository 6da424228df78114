\* Containers come and go beside, after and below one another.
SPECIFICATION Spec
CONSTANTS
    a1 = a1
    a2 = a2
    b1 = b1
    n1 = n1
    x1 = x1
    Unlimited = Unlimited
    Unset = Unset
    Conts = {a1, a2, b1, n1, x1}
    Id <- MCId
    CgroupsPath <- MCCgroupsPath
    Asks <- MCAsks
    Hosts <- MCHosts
    Faults = {"creatorDies", "linger"}
INVARIANTS
    TypeOK
    LimitsHold
    RootUntouched
    RefusedForCause
PROPERTIES
    FailureLeavesNoCgroup
\* The containers come to an end, and so does the behaviour.
CHECK_DEADLOCK FALSE

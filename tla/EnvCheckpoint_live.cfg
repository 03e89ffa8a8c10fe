SPECIFICATION FairSpec
CONSTANTS
    Leases = {l1}
    Containers = {c1, c2}
    NoContainer = NoContainer
    MaxCheckpoints = 3
    MaxSteps = 3
    MaxReruns = 1
    MaxCalls = 1
    Setups <- ImagesOnly
    MayTimeOut = FALSE
    MayCrash = FALSE
CHECK_DEADLOCK FALSE
INVARIANTS
    ContainersAccounted
PROPERTIES
    PendingResolved
    LockReleased

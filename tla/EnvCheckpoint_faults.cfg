SPECIFICATION Spec
CONSTANTS
    Leases = {l1}
    Containers = {c1, c2}
    NoContainer = NoContainer
    MaxCheckpoints = 3
    MaxSteps = 3
    MaxReruns = 1
    MaxCalls = 1
    Setups <- BothBackends
    MayTimeOut = TRUE
    MayCrash = TRUE
SYMMETRY ContainerSymmetry
CHECK_DEADLOCK FALSE
INVARIANTS
    TypeOK
    ClientCheckpointKept
    LineageKept
    LossKnown

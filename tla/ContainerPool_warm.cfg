SPECIFICATION FairSpec
CONSTANTS
    r1 = r1
    r2 = r2
    i1 = i1
    i2 = i2
    Requests = {r1, r2}
    Wanted <- TwoWants
    Containers = {1, 2, 3}
    NoContainer = 0
    Images = {i1, i2}
    NoImage = NoImage
    PrewarmImages <- Turns
    PerImage = 1
    TotalCap = 1
    MaxRestarts = 1
    MaxFaults = 1
CHECK_DEADLOCK FALSE
INVARIANTS
    ContainersKnown
    WarmCounted
PROPERTIES
    PoolRefills
    ImplementsSupply

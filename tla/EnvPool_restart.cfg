SPECIFICATION Spec
CONSTANTS
    Rollouts = {r1, r2}
    Nobody = Nobody
    Nodes = {1, 2}
    Ids = {1, 2, 3, 4, 5}
    Threads = {1, 2, 3}
    MaxTotal = 2
    NodeCap = 2
    MaxAllocates = 2
    Threshold = 1
    MaxCreates = 2
    MaxEvals = 1
    Tries = 2
    MaxEvents = 3
SYMMETRY RolloutSymmetry
INVARIANTS
    FinallyClosesLeases

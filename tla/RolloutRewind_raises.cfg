SPECIFICATION FairSpec
CONSTANTS
    StepLimit = 3
    Setups <- SomeSetups
CHECK_DEADLOCK FALSE
INVARIANTS
    ListsRewound

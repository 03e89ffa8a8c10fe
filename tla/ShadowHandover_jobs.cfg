SPECIFICATION FairSpec
CONSTANTS
    Engines = {e1, e2}
    Ranks = {r1, r2}
    Main = r1
    Options <- SomeJobs
    Threshold = 2
    MaxLaunches = 6
    MaxRollouts = 2
CHECK_DEADLOCK FALSE
INVARIANTS
    TypeOK
    RoutedToOwner
    NoStrayServer
    UpdateReachesAll
    ObligationBacked
PROPERTIES
    DeadIsReplaced

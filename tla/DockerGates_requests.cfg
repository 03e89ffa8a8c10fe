SPECIFICATION FairSpec
CONSTANTS
    r1 = r1
    r2 = r2
    r3 = r3
    Requests = {r1, r2, r3}
    Containers = {c1, c2}
    Gates = {1, 2, 3, 4}
    NoGate = NoGate
    NoContainer = NoContainer
    CommitLimit = 1
    Ops <- Meetings
    Initial = {c1}
    ExecMayTimeOut = TRUE
    Unremovable = {c2}
CHECK_DEADLOCK FALSE
INVARIANTS
    TypeOK
    ExclusiveAlone
    FrozenSourceHidden
    MaintenanceAlone
PROPERTIES
    ExecNotOvertaken
    EveryRequestAnswered

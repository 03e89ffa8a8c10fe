SPECIFICATION FairSpec
CONSTANTS
    a = a
    b = b
    c = c
    memory = memory
    cpu = cpu
    NoPrompt = NoPrompt
    Prompts = {a, b, c}
    Resources = {memory, cpu}
    Predicted <- ThreeDemands
    HasHistory <- LargestKnown
    Budgets <- TwoBudgets
    Digits = 16
    RequestCap = 2
    ActiveCap = 2
    StartupCap = 1
    UnknownCap = 1
    Orders <- AnyOrder
    RequeueOffset = 1
    CancelStates = {"waiting", "admitted"}
CHECK_DEADLOCK FALSE
INVARIANTS
    TypeOK
    ReservationsExact
PROPERTIES
    AdmissionWithinLimits
    AdmittedInOrder
    EveryPromptServed

SPECIFICATION FairSpec
CONSTANTS
    r1 = r1
    r2 = r2
    Requests = {r1, r2}
    k1 = k1
    k2 = k2
    u1 = u1
    u2 = u2
    u3 = u3
    Urls = {u1, u2, u3}
    NoUrl = NoUrl
    Keys = {k1, k2}
    NoKey = NoKey
    Owner <- Owners
    First = {u1, u3}
    Setups <- Finite
    MaxRegistrations = 2
    ProxyRetries = 1
    CheckpointTokens = 2
    Coalesce = 2
INVARIANTS
    TypeOK
    CountsExact
    FailedIncarnationAvoided
    TokenIntegrity
    LossBounded
PROPERTIES
    EveryRequestEnds

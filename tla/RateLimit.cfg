SPECIFICATION Spec
CONSTANTS
    g1 = g1
    g2 = g2
    c1 = c1
    c2 = c2
    uc = uc
    other = other
    Gateways = {g1, g2}
    Callers = {c1, c2}
    Homes <- MCHomes
    Binding <- MCBinding
    Extra <- MCExtra
    Buckets = {uc, other}
    Capacity <- MCCapacity
    Rate <- MCRate
    Token = 2
    Weights <- MCWeights
    Configs <- MCConfigs
    CacheSeconds = 1
    RetrySeconds = 1
    LeastExpiry = 2
    SweepEvery = 2
    MaxTracked = 1
    MaxClock = 2
    MaxRequests = 3
    MaxFaults = 1
    Shared = Shared
    None = None
INVARIANTS
    TypeOK
    LimitHolds
    RetryAfterIsHonest
    CachedLimitsAreRecent
PROPERTY KeepsThePromise
CHECK_DEADLOCK FALSE

SPECIFICATION Spec
CONSTANTS
    n1 = n1
    n2 = n2
    pot = pot
    f1 = f1
    a = a
    b = b
    Notifiers = {n1, n2}
    Counters = {pot}
    Thresholds = {1, 2}
    MaxShare = 2
    Findings = {f1}
    Reach <- MCReach
    Admins <- MCAdmins
    MaxAttempts = 2
    Lookback = 1
    News = 1
    Keep = 0
    PeriodLength = 2
    MaxClock = 2
    MaxChanges = 2
    MaxCrashes = 1
    None = None
INVARIANTS
    TypeOK
    DeliveredAsSaid
PROPERTIES
    
    NothingStaleIsSaid

SPECIFICATION Spec
CONSTANTS
    i1 = i1
    i2 = i2
    q1 = q1
    q2 = q2
    u = u
    r1 = r1
    Instances = {i1, i2}
    Requests = {q1, q2}
    Home <- MCHome
    Scope <- MCScope
    Rules = {r1}
    Terms <- MCTerms
    CacheTTL = 1
    Interval = 1
    LoadTime = 1
    Bounds <- MCBounds
    None = None
INVARIANTS
    TypeOK
    OncePerWindow
    RecordedAsDone
    StopsInTime
SYMMETRY RequestSymmetry
CHECK_DEADLOCK FALSE

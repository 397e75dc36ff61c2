SPECIFICATION Spec
CONSTANTS
    r1 = r1
    r2 = r2
    s1 = s1
    s2 = s2
    Rows = {r1, r2}
    Sweeps = {s1, s2}
    Days = {2}
    Default = 1
    RecordDays = {0, 2}
    MaxClock = 3
    Bounds <- Occasions
    None = None
INVARIANTS
    TypeOK
    SweptAsPromised
    RunsTellErasures
    AbsenceIsToldApart
SYMMETRY RowSymmetry
CHECK_DEADLOCK FALSE

SPECIFICATION Spec
CONSTANTS
    r1 = r1
    r2 = r2
    Requests = {r1}
    Surfaces = {"kira", "gemini"}
    Models = 2
    Scripts <- AllScripts
    DrainLeft = {TRUE, FALSE}
    MaxFaults = 1
    Counted = Counted
    None = None
INVARIANTS
    TypeOK
    AccountedOnce
    RowIsTrue
    CountedIsWaitedFor
PROPERTIES
    LeftIsAccountedFor
CHECK_DEADLOCK FALSE

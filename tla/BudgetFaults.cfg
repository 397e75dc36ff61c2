SPECIFICATION Spec
CONSTANTS
    r1 = r1
    r2 = r2
    r3 = r3
    g1 = g1
    g2 = g2
    pot = pot
    own = own
    None = None
    Requests <- Three
    Gateways = {g1, g2}
    Budgets = {pot, own}
    Dims <- MCDims
    Home <- MCHome
    Binding <- MCBinding
    Liftable = {own}
    Limit <- MCLimit
    Estimate <- MCEstimate
    Answers <- MCAnswers
    Attributed <- One
    StepCallers <- One
    StepAmount <- MCStepAmount
    MaxPeriod = 2
    Bounds <- FaultsOrCalm
INVARIANTS
    TypeOK
    BookedOnce
    OpenHasOwner
    CounterCoversOpen
    CounterExact
    NoOvershoot

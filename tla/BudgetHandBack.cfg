SPECIFICATION Spec
CONSTANTS
    r1 = r1
    r2 = r2
    r3 = r3
    g1 = g1
    g2 = g2
    pot = pot
    own = own
    None = None
    Requests <- Two
    Gateways = {g1, g2}
    Budgets = {pot, own}
    Dims <- MCDims
    Home <- MCHome
    Binding <- MCBinding
    Liftable = {}
    Limit <- MCLimit
    Estimate <- MCEstimate
    Answers <- MCAnswers
    Attributed <- Two
    StepCallers <- Nobody
    StepAmount <- MCStepAmount
    MaxPeriod = 1
    Bounds <- OneFault
INVARIANT
    GuardHandsBack

SPECIFICATION Spec
CONSTANTS
    NoTx = NoTx
    NoAction = NoAction
    k1 = k1
    k2 = k2
    own1 = own1
    ask1 = ask1
    ghost1 = ghost1
    ghost2 = ghost2
    p1 = p1
    p2 = p2
    Cases = {k1, k2}
    Own = {own1}
    Asked = {ask1}
    Ghosts = {ghost1, ghost2}
    CaseOf <- CaseOfLink
    Total <- CaseTotal
    LinkAmount <- PaidAmount
    Facts <- CaseFacts
    Held = {k2}
    Payments = {p1, p2}
    Kinds <- AllKinds
    Events <- ThreeEvents
    Window = 0
    MaxTime = 1
    MaxFaults = 1
INVARIANTS
    TypeOK
    OneOutcomePerAction
    RevenueIsPaid
    RecoveredHasOutcome
    MeasuredIsRecovered
    AttributionIsTimely
    CaseIsAnswered
CHECK_DEADLOCK FALSE

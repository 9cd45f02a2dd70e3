SPECIFICATION Spec
CONSTANTS
    c1 = c1 c2 = c2 p1 = p1 p2 = p2 k1 = k1 k2 = k2
    None = None
    Ids = {p1, p2}
    Calls = {c1, c2}
    Keys = {k1, k2}
    Gross = 1
    Fees = {0, 1}
    Window = 0
    MaxLive = 2
    MaxFunds = 1
    MaxSeq = 2
    MaxGen = 2
    MaxTime = 1
    MaxFaults = 1
SYMMETRY CallSymmetry
CHECK_DEADLOCK FALSE
INVARIANTS
    TypeOK
    UnambiguousIsUnpaid
    ResumedExecutorIsOwner
    PaidAtMostOnce
PROPERTIES
    ImplementsPayoutLeg
    IdentityIsFinal

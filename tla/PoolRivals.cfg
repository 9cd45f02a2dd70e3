SPECIFICATION Spec
CONSTANTS
    d1 = d1 d2 = d2 o1 = o1 o2 = o2 o3 = o3 s1 = s1 s2 = s2 t1 = t1 t2 = t2
    NoRecord = NoRecord
    Deposits = {d1, d2}
    Spends = {s1, s2}
    Tasks = {t1, t2}
    Inputs <- RivalInputs
    Outputs <- MCOutputs
    Amount <- RivalAmount
    Fee <- MCFee
    PublicAmount <- MCPublicAmount
    MaxLeaves = 3
    MaxFaults = 3
    MaxEpoch = 0
    MaxRetryGen = 20
SYMMETRY TaskSymmetry
CHECK_DEADLOCK FALSE
INVARIANTS
    TypeOK
    NoDoubleSpend
    FailedSpendBurnsNothing
    LeavesPaidOnce
    AlwaysUpgradeable
    LeaseIsExclusive
    AccountingMatchesRecords
PROPERTIES
    FinalityIsForever

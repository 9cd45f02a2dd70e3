SPECIFICATION LiveSpec
CONSTANTS
    d1 = d1 d2 = d2 o1 = o1 o2 = o2 o3 = o3 s1 = s1 s2 = s2 t1 = t1 t2 = t2
    NoRecord = NoRecord
    Deposits = {d1}
    Spends = {s1, s2}
    Tasks = {t1, t2}
    Inputs <- ChainInputs
    Outputs <- MCOutputs
    Amount <- ChainAmount
    Fee <- MCFee
    PublicAmount <- MCPublicAmount
    MaxLeaves = 4
    MaxFaults = 2
    MaxEpoch = 1
    MaxRetryGen = 20
CHECK_DEADLOCK FALSE
INVARIANTS
    SpendableNotesBacked
PROPERTIES
    PulledDepositSettles
    CommittedSpendSettles
    LeaseIsReturned

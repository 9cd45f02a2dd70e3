SPECIFICATION Spec
CONSTANTS
    t1 = t1 t2 = t2 t3 = t3
    Tasks = {t1, t2, t3}
    MaxOps = 1
    MaxFaults = 1
    LateSettlement = TRUE
SYMMETRY TaskSymmetry
CHECK_DEADLOCK FALSE
INVARIANTS
    CreditedOncePerPull

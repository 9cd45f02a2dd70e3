SPECIFICATION LiveSpec
CONSTANTS
    t1 = t1 t2 = t2 t3 = t3
    Tasks = {t1, t2, t3}
    MaxOps = 3
    MaxFaults = 3
    LateSettlement = FALSE
CHECK_DEADLOCK FALSE
INVARIANTS
    TypeOK
    PulledHasRecord
    CreditedOncePerPull
PROPERTIES
    DecisionsAreFinal
    ImplementsDepositLeg
    PulledBecomesNote

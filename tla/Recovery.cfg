SPECIFICATION LiveSpec
CONSTANTS
    Deposits = {1}
    Spends = {1, 2}
    Note <- SharedNote
    Chunk = 2
    MaxUpgrades = 2
    MaxFaults = 1
CHECK_DEADLOCK FALSE
INVARIANTS
    TypeOK
    NoteSpentOnce
    StampedIndexComplete
PROPERTIES
    GateOpens

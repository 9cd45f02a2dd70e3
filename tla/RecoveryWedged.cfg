SPECIFICATION ServedSpec
CONSTANTS
    Deposits = {1}
    Spends = {1}
    Note <- SharedNote
    Chunk = 2
    MaxUpgrades = 1
    MaxFaults = 0
CHECK_DEADLOCK FALSE
PROPERTIES
    RecoveryCompletes

SPECIFICATION LiveSpec
CONSTANTS
    v1 = v1 u1 = u1 t1 = t1 r1 = r1 q1 = q1 s1 = s1
    None = None
    VaultUpgrades = {v1}
    UpgraderUpgrades = {u1}
    Triggers = {t1}
    VaultReconciles = {r1}
    UpgraderReconciles = {q1}
    RecoveryReconciles = {s1}
    Id <- MCId
    Wasm <- MCWasm
    FirstModule <- MCFirstModule
    MaxFaults = 1
CHECK_DEADLOCK FALSE
INVARIANTS
    TypeOK
    InstallHoldsLock
    PlanesAgree
    ExecutedWasLive
PROPERTIES
    RingSettles

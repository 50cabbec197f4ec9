CONSTANTS
    MaxAttempts = 4
    MaxPages = 8
    Sizes = {2}
    RecordUnits = 2
    MaxKills = 2
    MaxPowerCuts = 0
    Encryption <- Plain
    Origins <- BothOrigins
    Faults <- SyncFaults
SPECIFICATION Spec
CHECK_DEADLOCK FALSE
INVARIANTS
    RecoveryAudits

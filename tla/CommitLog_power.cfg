CONSTANTS
    MaxAttempts = 4
    MaxPages = 7
    Sizes = {2,3}
    RecordUnits = 1
    MaxKills = 0
    MaxPowerCuts = 1
    Encryption <- BothModes
    Origins <- BothOrigins
    Faults <- SealFaults
SPECIFICATION Spec
CHECK_DEADLOCK FALSE
INVARIANTS
    NoAckedLoss
    RecoveryAudits
    CounterFresh

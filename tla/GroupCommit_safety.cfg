CONSTANTS
    t1 = t1
    t2 = t2
    t3 = t3
    Threads <- ThreeThreads
    MaxVersion = 2
    MaxRecords = 3
    MaxGen = 1
    Faults <- NoDirSyncFault
SYMMETRY ThreadSymmetry
SPECIFICATION Spec
INVARIANTS
    TypeOK
    SingleWriter
    CaptureIsCurrent
    OneOwnerPerVersion
    AckDurable
PROPERTIES
    ImplementsDurableLog

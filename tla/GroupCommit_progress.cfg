CONSTANTS
    t1 = t1
    t2 = t2
    t3 = t3
    Threads <- ThreeThreads
    MaxVersion = 2
    MaxRecords = 2
    MaxGen = 1
    Faults <- AllFaults
SPECIFICATION FairSpec
INVARIANTS
    NoStrandedThread
PROPERTIES
    CommitReturns

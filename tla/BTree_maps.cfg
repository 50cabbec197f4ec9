SPECIFICATION Spec
CONSTANTS
    Stems = {1, 2, 3}
    PerStem = 3
    Values = {"a"}
    BigValues = {"B"}
    BigStems = {2}
    StemSize = 1
    LeafSize = 6
    InnerCells = 2
    ChainPages = 2
    MaxPage = 24
    Loads <- MCLoads
    MaxOps = 3
    MaxCommits = 1
    MaxSavepoints = 1
    StaleAppends = FALSE
CHECK_DEADLOCK FALSE
INVARIANTS
    ReadsTheMap
    VersionsImmutable
    DiffExact
    PagesAccounted
    LeavesParse

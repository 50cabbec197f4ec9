SPECIFICATION Spec
CONSTANTS
    Tables = {"p", "c"}
    Cols = {"u", "r"}
    Values = {0, 1, 2, 3}
    Null = 0
    MaxRowid = 4
    Indexes <- MCIndexes
    ForeignKeys <- MCForeignKeys
    NotNull <- MCNotNull
    Default <- MCDefault
    Forbidden <- MCForbidden
    Views <- MCViews
    Triggers <- MCTriggers
    Body <- MCBody
    Writes <- MCWrites
    MaxTriggerDepth = 2
    MaxCascade = 3
    Conns = {c1}
    Statements <- MCStatements
    Loads <- MCLoads
    Names = {"a"}
    Windows <- MCWindows
    MaxVersions = 3
    MaxSteps = 3
CONSTRAINT Untainted
CHECK_DEADLOCK FALSE
INVARIANTS
    IndexesMatchRows
    ConstraintsHold
    RowidsBelowCounter
PROPERTIES
    StreamExact

CONSTANTS
    MaxInt = 3
    MaxRows = 6
    None = None
    Databases <- MCDatabases
    Views <- MCViews
    Statements <- MCStatements
SPECIFICATION Spec
INVARIANTS
    AnswersExact
    OrderRespected
    WindowsExact
    ClosureExact

SPECIFICATION Spec
CONSTANTS
    Fold <- MCFold
    MaxWord = 2
    Quant <- MCQuant
    NoVector = NoVector
    None = None
    MaxRow = 3
    Contents <- MCContents
    Training <- MCTraining
    Settings <- MCSettings
    MatchTexts <- MCMatchTexts
    Targets = {0, 3}
INVARIANTS
    StatsExact
    QueriesAgree
    VectorsExact

CONSTANTS
    main = main
    dev = dev
    fix = fix
    Branches <- TwoBranches
    Main <- main
    MaxVersion = 4
    MaxRow = 2
    MaxValue = 2
    Times = {1}
    MaxVacuums = 0
SPECIFICATION Spec
INVARIANTS
    RowidsBelowCounter
PROPERTIES
    MergeKeepsBothSides

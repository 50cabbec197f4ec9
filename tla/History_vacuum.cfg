CONSTANTS
    main = main
    dev = dev
    fix = fix
    Branches <- ThreeBranches
    Main <- main
    MaxVersion = 4
    MaxRow = 1
    MaxValue = 1
    Times = {1, 2}
    MaxVacuums = 2
SYMMETRY BranchSymmetry
SPECIFICATION Spec
INVARIANTS
    AsOfStaysOnBranch
    TimelinesWhole
    ChangesAreProvenance
PROPERTIES
    ImplementsTimeTravel
    BranchesAreIsolated

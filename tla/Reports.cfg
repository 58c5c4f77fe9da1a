SPECIFICATION Spec
CONSTANTS
    Goroutines = {g1, g2}
    Worker = w
    NumFamilies = 2
    MaxCount = 2
    Contents <- MCContents
    FamilyLimit <- MCFamilyLimit
    StoreLimit = 2
    WarningRatio = 80
SYMMETRY Symmetry
INVARIANTS TypeOK ConditionsAgree QuietReportsExact
PROPERTIES WritersKeepOthers

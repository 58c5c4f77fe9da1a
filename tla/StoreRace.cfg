SPECIFICATION Spec
CONSTANTS
    UIDs = {a, b}
    NumFamilies = 2
    MaxSamples = 2
    Contents <- MCContents
    StoreThreshold = 4
    FamilyThreshold <- MCFamilyThreshold
    Reflector = reflector
    Checkers = {g1}
    Absent = Absent
    MaxWrites = 3
    MaxExpiries = 1
SYMMETRY Symmetry
INVARIANTS TypeOK TotalsMatchObjects RenderedInFullOrNotAtAll CutoffIffOver PresentObjectsTracked
PROPERTIES SyncedMeansListed ImplementsSoftLimits
CHECK_DEADLOCK FALSE

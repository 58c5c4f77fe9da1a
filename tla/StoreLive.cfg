SPECIFICATION FairSpec
CONSTANTS
    UIDs = {a, b, c}
    NumFamilies = 1
    MaxSamples = 2
    Contents <- MCOneContents
    StoreThreshold = 0
    FamilyThreshold <- MCSmallThreshold
    Reflector = reflector
    Checkers = {g1}
    Absent = Absent
    MaxWrites = 1
    MaxExpiries = 1
INVARIANTS OvershootBounded
PROPERTIES EventuallyTracked EventuallySynced
CHECK_DEADLOCK FALSE

SPECIFICATION Spec
CONSTANTS
    UIDs = {a, b}
    NumFamilies = 2
    MaxSamples = 2
    Contents <- MCContents
    StoreThreshold = 4
    FamilyThreshold <- MCFamilyThreshold
    Reflector = reflector
    Checkers = {}
    Absent = Absent
    MaxWrites = 3
    MaxExpiries = 0
SYMMETRY Symmetry
INVARIANTS CutoffEndsWithOvershoot
CHECK_DEADLOCK FALSE

SPECIFICATION Spec
CONSTANTS
    Monitors = {a, b, c}
    Goroutines = {g1, g2}
    GlobalThreshold = 3
    ResourceDefault = 1
    MaxTotal = 2
SYMMETRY Symmetry
INVARIANTS TypeOK GlobalTotalIsSum OverIsMarked

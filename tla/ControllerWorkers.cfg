SPECIFICATION Spec
CONSTANTS
    Workers = {w1, w2}
    Jobs = {j1, j2}
    MaxUID = 1
    MaxGen = 2
    MaxTotal = 0
    MaxErrors = 0
    MaxRelists = 0
    MaxRestarts = 0
    None = None
SYMMETRY Symmetry
INVARIANTS ProcessedMeansServed
CHECK_DEADLOCK FALSE

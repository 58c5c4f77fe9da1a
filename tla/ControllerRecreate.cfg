SPECIFICATION Spec
CONSTANTS
    Workers = {w1, w2}
    Jobs = {j1, j2}
    MaxUID = 2
    MaxGen = 1
    MaxTotal = 1
    MaxErrors = 0
    MaxRelists = 1
    MaxRestarts = 1
    None = None
SYMMETRY Symmetry
INVARIANTS TypeOK QueueConsistent EveryConfigurationHandled
PROPERTIES ImplementsWorkQueue
CHECK_DEADLOCK FALSE

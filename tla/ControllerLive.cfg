SPECIFICATION FairSpec
CONSTANTS
    Workers = {w1}
    Jobs = {j1, j2}
    MaxUID = 1
    MaxGen = 3
    MaxTotal = 0
    MaxErrors = 0
    MaxRelists = 1
    MaxRestarts = 1
    None = None
INVARIANTS EveryConfigurationHandled
PROPERTIES ComesToRest ItemsAreHandled
CHECK_DEADLOCK FALSE

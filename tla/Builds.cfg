CONSTANTS
    NotANumber <- MCNotANumber
    BelowZero <- MCBelowZero
    Failed = Failed
    Malformed = Malformed
    Zero <- MCZero
    Configs <- MCConfigs
    Answers <- MCAnswers
    Contents <- MCContents
    UIDs = {u1, u2}
    MaxBuilds = 2
    MaxRenders = 2
SPECIFICATION Spec
CHECK_DEADLOCK FALSE
INVARIANTS
    TypeOK
    FirstWins
    GaugesOfBuildCurrent
    LabelsStayWithValues
    ScriptsAllOrNothing
    ScalarLabelsKeepSamples

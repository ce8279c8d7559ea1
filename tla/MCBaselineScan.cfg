SPECIFICATION MCSpec
CONSTANTS
    Steps = {k1, k2}
    Starters = {s1, s2}
    Only = s1
INVARIANTS
    SucceededMeansAll
PROPERTIES
    CalmScanEnds
    CalmSuccessIsFinal
CHECK_DEADLOCK FALSE

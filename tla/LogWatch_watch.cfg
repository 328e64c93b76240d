SPECIFICATION FairSpec
CONSTANTS
    MaxLines = 3
    MaxTime = 2
    Limit = 2
    MaxFail = 1
INVARIANTS
    LinesAreOrdered
    NoLineIsSkipped
PROPERTIES
    LinesAreFollowed
CHECK_DEADLOCK FALSE

SPECIFICATION FairSpec
CONSTANTS
    MaxVersions = 2
    MaxRetry = 2
INVARIANTS
    ScreenIsCurrent
PROPERTIES
    ListEnds
    ChangeIsShown
CHECK_DEADLOCK FALSE

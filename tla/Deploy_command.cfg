SPECIFICATION DeployFairSpec
CONSTANTS
    Services = {s1, s2}
    s1 = s1
    s2 = s2
    MaxRetries = 1
    Follows <- BriefCycle
INVARIANTS
    NilMeansDeployed
    TooLateIsTrue
    NothingLeftBehind
PROPERTIES
    DeployImplementsOutcome
    DeployReturns
CHECK_DEADLOCK FALSE

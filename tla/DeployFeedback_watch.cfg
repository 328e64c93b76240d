SPECIFICATION FairSpec
CONSTANTS
    Services = {s1, s2}
    s1 = s1
    s2 = s2
    MaxRetries = 1
    Follows <- ShortCycle
INVARIANTS
    SuccessIsTrue
    FailureIsTrue
    SpinnersMatchStates
    PrintedOnce
PROPERTIES
    ImplementsOutcome
    WaitEnds
CHECK_DEADLOCK FALSE

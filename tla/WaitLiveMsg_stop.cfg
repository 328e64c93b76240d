SPECIFICATION FairLiveSpec
CONSTANTS
    Msgs = {m1, m2}
    FirstMsg = m1
    m1 = m1
    m2 = m2
    Texts = {"a", "b"}
    NSymbols = 2
    MaxEdits = 2
INVARIANTS
    TickerIsOver
    LastFrameIsCurrent
PROPERTIES
    StopEnds
CHECK_DEADLOCK FALSE

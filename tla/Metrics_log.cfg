SPECIFICATION Spec
CONSTANTS
    Procs = {p1, p2, p3}
    p1 = p1
    p2 = p2
    p3 = p3
    NoFile = NoFile
INVARIANTS
    LossNeedsRace
    ExactlyOnce
CHECK_DEADLOCK FALSE

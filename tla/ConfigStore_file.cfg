SPECIFICATION FairSpec
CONSTANTS
    Procs = {p1, p2}
    p1 = p1
    p2 = p2
    Remotes = {lcp, other}
    lcp = lcp
    other = other
    CloudRemote = lcp
    Commands = {"noop", "login", "logout", "set", "rm", "rename", "default", "update", "uninstall", "fail"}
    MaxVersion = 2
    Overlapping = FALSE
    NoFile = NoFile
    Empty = Empty
    Garbled = Garbled
    NoID = NoID
PROPERTIES
    NotTorn
    SoloPersists
    ProcessEnds
CHECK_DEADLOCK FALSE

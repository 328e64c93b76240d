SPECIFICATION FairSpec
CONSTANTS
    MaxArgs = 5
INVARIANTS
    ChildArgsAreKept
    ExitIsReported
    TerminalIsRestored
PROPERTIES
    ShellEnds
CHECK_DEADLOCK FALSE

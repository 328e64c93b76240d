SPECIFICATION Spec
CONSTANTS
    Clients = {a, b}
    MaxRuns = 2
    Commands <- MCCommands
INVARIANTS
    ArgsAreDoneInOrder
    DomainsAreAtomic
CHECK_DEADLOCK FALSE

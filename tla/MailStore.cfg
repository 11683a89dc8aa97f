CONSTANTS
    Procs = {p1, p2}
    Addrs = {exact, sub}
    Exact = {exact}
    AllowSubdomains = FALSE
    GraphIds = {1}
    TTLs <- MCTTLs
    AutoTTL = 3
    MsgTTL = 1
    Faults = {"read"}
    MaxBoxes = 2
    MaxMsgs = 1
    MaxTime = 1
SPECIFICATION Spec
SYMMETRY ProcSymmetry
INVARIANTS
    EveryMessageHasItsMailbox
    RoutedToOwnMailbox
    ReadsAreComplete
    ErrorsAreExplained
PROPERTIES
    ImplementsMailboxes

CONSTANTS
    Procs = {p1, p2}
    Addrs = {exact}
    Exact = {exact}
    AllowSubdomains = FALSE
    GraphIds = {}
    TTLs = {1}
    AutoTTL = 3
    MsgTTL = 0
    Faults = {}
    MaxBoxes = 2
    MaxMsgs = 2
    MaxTime = 0
SPECIFICATION Spec
INVARIANTS
    NothingLost

CONSTANTS
    exact = exact
    sub = sub
    elsewhere = elsewhere
    Procs = {p1, p2}
    Addrs = {exact, sub}
    Exact = {exact}
    AllowSubdomains = FALSE
    GraphIds = {1}
    TTLs = {0}
    AutoTTL = 1
    MsgTTL = 1
    Faults = {"read", "write"}
    MaxBoxes = 2
    MaxMsgs = 2
    MaxTime = 2
    Foreign = {elsewhere}
    Headers <- MCHeaders
    Beside = {"graph"}
SPECIFICATION SessionSpec
SYMMETRY ProcSymmetry
INVARIANTS
    SessionTypeOK
    AckedIsFiled
    FiledAgainOnlyIfUnheard
PROPERTIES
    MailStaysUntilDue
    DoubledOnlyUnread
    FiledIsInItsMailbox

CONSTANTS
    Callers = {r1, r2}
    Closers = {k1}
    MaxCalls = 3
    Coalesce = TRUE
SPECIFICATION FairSpec
INVARIANTS
    TypeOK
    SingleFetch
    NoOrphanFlight
    NoFetchOutlivesClose
PROPERTIES
    ImplementsSingleFlight
    CloseTerminates
    CallersReleased

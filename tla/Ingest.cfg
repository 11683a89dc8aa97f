CONSTANTS
    PageSize = 3
    Lookback = 1
    PerSecond = 2
    MaxMail = 4
    MaxTime = 3
    MaxFailures = 1
    Readers = {r1, r2}
SPECIFICATION FairIngestSpec
INVARIANTS
    IngestTypeOK
    SkippedOnlyAtEdge
    ReadShowsRelay
PROPERTIES
    BacklogCleared
    DeletedStaysAway
    DrainGetsOn
    DrainEnds

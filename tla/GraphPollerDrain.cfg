CONSTANTS
    PageSize = 2
    Lookback = 1
    PerSecond = 2
    MaxMail = 2
    MaxTime = 4
    MaxFailures = 0
SPECIFICATION FairSpec
PROPERTIES
    DrainEnds

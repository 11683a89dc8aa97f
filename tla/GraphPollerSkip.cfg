CONSTANTS
    PageSize = 3
    Lookback = 1
    PerSecond = 2
    MaxMail = 3
    MaxTime = 4
    MaxFailures = 0
SPECIFICATION FairSpec
PROPERTIES
    NewMailIsFetched

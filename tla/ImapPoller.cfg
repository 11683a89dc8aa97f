CONSTANTS
    MaxMail = 3
    MaxRows = 2
    MaxFaults = 2
SPECIFICATION FairSpec
INVARIANTS
    LostOnlyIfShaken
    DuplicateOnlyIfShaken
PROPERTIES
    DrainGetsOn
    DrainEnds

CONSTANTS
    Readers = {r1, r2}
    Senders = {s1}
    MaxStarts = 2
SPECIFICATION FairSpec
CHECK_DEADLOCK FALSE
INVARIANTS
    StartedUsable
PROPERTIES
    GraceIsKept
    ShutdownEnds

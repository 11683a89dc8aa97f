CONSTANTS
    EnvFile = FALSE
    Lives = {0, 2, 5}
    Hour = 4
    Margin = 2
    Delay = 1
    MaxTokens = 4
    MaxTime = 8
    MaxFaults = 2
SPECIFICATION Spec
INVARIANTS
    RotationIsSaved

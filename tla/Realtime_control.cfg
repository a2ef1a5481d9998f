CONSTANTS
    Signals = TRUE
    Capacity = 1
    MaxOut = 3
    FrameSizes = {1}
    MaxAudio = 1
    MaxSeq = 1
    MaxPings = 1
    MaxWarnings = 1
    TokenChoices = {TRUE}
    PartialChoices = {TRUE}
    Faults = TRUE
    DeadlinePasses = TRUE
SPECIFICATION Spec
INVARIANTS
    TypeOK
    EndsCleanly
\* A session and its server end.
CHECK_DEADLOCK FALSE

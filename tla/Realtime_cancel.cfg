CONSTANTS
    Signals = FALSE
    Capacity = 1
    MaxOut = 3
    FrameSizes = {2}
    MaxAudio = 2
    MaxSeq = 1
    MaxPings = 0
    MaxWarnings = 0
    TokenChoices = {TRUE}
    PartialChoices = {FALSE}
    Faults = TRUE
    DeadlinePasses = FALSE
SPECIFICATION FairSpec
PROPERTIES
    CancelAcknowledged
\* A session and its server end.
CHECK_DEADLOCK FALSE

CONSTANTS
    Signals = TRUE
    Capacity = 1
    MaxOut = 3
    FrameSizes = {2}
    MaxAudio = 2
    MaxSeq = 0
    MaxPings = 0
    MaxWarnings = 0
    TokenChoices = {TRUE}
    PartialChoices = {FALSE}
    Faults = FALSE
    DeadlinePasses = FALSE
SPECIFICATION FairSpec
PROPERTIES
    SessionEnds
    WaitingAudioMoves
    CancelAcknowledged
    ShutdownEnds
\* A session and its server end.
CHECK_DEADLOCK FALSE

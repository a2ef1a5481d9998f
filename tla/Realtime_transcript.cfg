CONSTANTS
    Signals = FALSE
    Capacity = 1
    MaxOut = 3
    FrameSizes = {1, 2}
    MaxAudio = 3
    MaxSeq = 2
    MaxPings = 0
    MaxWarnings = 0
    TokenChoices = {TRUE}
    PartialChoices = {TRUE}
    Faults = FALSE
    DeadlinePasses = FALSE
SPECIFICATION Spec
INVARIANTS
    InputNotLost
    OutputNotLost
    CancelWithoutFinal
\* A session and its server end.
CHECK_DEADLOCK FALSE

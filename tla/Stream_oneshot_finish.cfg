\* finish() after one feed whose backlog exceeds the embedding ring.
CONSTANTS
    MaxEvents = 9
    Headroom = 6
    LeftPad = 2
    Delay = 1
    RightPad = 1
    EncRing = 4
    AembRing = 4
    SliceGroups = 2
    FeedSizes = {0, 16}
    MaxAudio = 16
    MaxGen = 1
    Faults = FALSE
SPECIFICATION Spec
INVARIANTS
    TerminalDelivered

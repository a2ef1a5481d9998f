\* A file in chunks of at most one drain slice, against a queue that fills
\* within a chunk; cancellation at any time, backend failures.
CONSTANTS
    MaxEvents = 2
    Headroom = 6
    LeftPad = 2
    Delay = 1
    RightPad = 1
    EncRing = 5
    AembRing = 7
    SliceGroups = 4
    FeedSizes = {0}
    MaxAudio = 14
    MaxGen = 1
    Faults = TRUE
    ChunkGroups = 4
    Files = {0, 1, 4, 7, 12, 14}
SPECIFICATION BatchFairSpec
INVARIANTS
    ResultIsTrue
    CancelStops
PROPERTIES
    RequestEnds
CHECK_DEADLOCK FALSE

\* One large feed against a full queue: the rings have the proportions of the
\* code (startup block + slice < encoder ring < embedding ring).
CONSTANTS
    MaxEvents = 3
    Headroom = 6
    LeftPad = 2
    Delay = 1
    RightPad = 1
    EncRing = 4
    AembRing = 8
    SliceGroups = 2
    FeedSizes = {0, 14}
    MaxAudio = 14
    MaxGen = 1
    Faults = FALSE
SPECIFICATION Spec
INVARIANTS
    DecodesOwnAudio

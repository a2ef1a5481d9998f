\* Feeds of at most one drain slice, as the server makes them.  Both rings are
\* as small as one slice, the startup block and the right pad allow.
CONSTANTS
    MaxEvents = 6
    Headroom = 8
    LeftPad = 2
    Delay = 1
    RightPad = 1
    EncRing = 3
    AembRing = 5
    SliceGroups = 2
    FeedSizes = {0, 1, 2}
    MaxAudio = 8
    MaxGen = 2
    Faults = TRUE
SPECIFICATION Spec
INVARIANTS
    TypeOK
    QueueBounded
    EventsInOrder
    DecodesOwnAudio
    WholeAudioDecoded
    RetryIsExact
    StepsOnce
    StallHoldsToken
    EagerFeedNeverStalls
PROPERTIES
    KeepsContract

\* One window is two and a half hops, a chunk four overlaps and a token one
\* adapter group, as in the code.  Every second chunk starts within a group, as
\* 1500 Mel frames do.
CONSTANTS
    Fft = 10
    Hop = 4
    Pad = 5
    PerToken = 16
    LeftTokens = 3
    RightTokens = 2
    AudioSlice = 27
    MelSlice = 4
    Int32Span = 65536
    FeedSizes = {1, 3, 7, 26}
    MaxSamples = 146
    ChunkMel = 28
    Overlap = 7
    EmitMel = 4
    Downsample = 2
SPECIFICATION RefSpec
INVARIANTS
    RefTypeOK
    SameAsBatch
    DrainServedFromTail
    ReferenceReplaysBatch
CHECK_DEADLOCK FALSE

\* Two passes over one context: a stream, or the warmup, and the stream after it
\* (also run with three).  Every ring wraps, and the
\* startup block is shorter than the prompt, as in the code (128 rows are 32
\* groups, the prefill needs 38).
CONSTANTS
    Window = 5
    MaxNew = 8
    Group = 2
    BlockSizes = {2, 4, 8}
    FullGrid = 4
    OutCap = 16
    Envs <- AllEnvs
    FinishSizes = {4, 8}
    MaxMel = 44
    AembCap = 10
    DecCap = 8
    BatchRun = 4
    LeftMel = 16
    RightMel = 4
    DrainSlice = 4
    FeedSizes = {3, 6}
    PromptLen = 6
    MaxStreams = 1
    Faults = TRUE
SPECIFICATION Spec
INVARIANTS
    TypeOK
    EncoderReadsRight
    NeverRefused
    DeviceRowsKept
    SameGraphsForEveryPlan
    StepReadsRight
    EverythingStepped
    WarmupGeometry
CHECK_DEADLOCK FALSE

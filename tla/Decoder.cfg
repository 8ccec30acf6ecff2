SPECIFICATION FairSpec
CONSTANTS
    FrameSizes <- MixedFrames
    ReadMax = 64
    MaxFrames = 2
INVARIANT TypeOK
INVARIANT AlignedWhole
INVARIANT DecodeExhausts
INVARIANT TornOnlyAtTail
INVARIANT LargeReadDrains
PROPERTY EveryFrameTaken
CHECK_DEADLOCK FALSE

SPECIFICATION Spec
CONSTANTS
    FrameSizes <- SmallFrames
    ReadMax = 64
    MaxFrames = 3
INVARIANT WholeFrames
CHECK_DEADLOCK FALSE

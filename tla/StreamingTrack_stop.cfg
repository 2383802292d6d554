SPECIFICATION Spec
CHECK_DEADLOCK FALSE
CONSTANTS
    mFrameCount = 3
    mFrameCountP2 = 4
    Wrap = 32
    Bases <- MCBases
    MinimumSize = 2
    MaxFrames = 5
    MaxSignals = 2
INVARIANT StopHolds

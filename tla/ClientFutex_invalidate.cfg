SPECIFICATION FairSpec
CHECK_DEADLOCK FALSE
CONSTANTS
    mFrameCount = 4
    mBufferSizeInFrames = 4
    mMinimum = 0
    Calls <- ObtainOnly
    Timeouts <- AllTimeouts
    Events = {"invalidate"}
PROPERTY InvalidatedReturns

SPECIFICATION FairSpec
CHECK_DEADLOCK FALSE
CONSTANTS
    mFrameCount = 4
    mBufferSizeInFrames = 3
    mMinimum = 0
    Calls <- BothCalls
    Timeouts <- AllTimeouts
    Events <- AllEvents
INVARIANTS NoSleepThroughInterrupt NoSleepThroughSpace
PROPERTIES CallReturns StreamEndSeen

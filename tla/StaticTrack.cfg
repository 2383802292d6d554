SPECIFICATION FairSpec
CHECK_DEADLOCK FALSE
CONSTANTS
    mFrameCount = 3
    MIN_LOOP = 1
    INT64_MAX = 100
    Loops <- SomeLoops
    Positions = {2}
    INITIAL_RETRIES = 2
    MaxSequence = 3
    MaxRestores = 1
INVARIANTS ServerSound NoStalePosition IllusionKept
PROPERTIES RestoredAsShown PlaysToEnd PositionArrives

SPECIFICATION FairSpec
CONSTANTS
    Words <- MCWords
    Contents = {0, 1}
    T0 <- MCT0
    MAX_TRIES = 5
    MaxSequence = 6
INVARIANTS IInv AckIsCurrent
PROPERTIES ImplementsRegister PollReturns NewestArrives

SPECIFICATION FairSpec
CONSTANTS
    kN = 4
    T <- MCT
    T0 = "s0"
INVARIANTS IInv SlotIsolation AckedIsCurrent MutationStartsFromPushed
PROPERTIES HeldStateStable EveryPushAcked PushedIsObserved

SPECIFICATION Spec
CHECK_DEADLOCK FALSE
CONSTANTS
    InputBuffers = {i1}
    OutputBuffers = {o1}
    MaxEvents = 0
    Apps = {a1}
    Reclaimers = {}
    AppCalls <- AllCalls
    MaxGeneration = 1
    MaxTimeouts = 2
    NoToken = NoToken
INVARIANTS NoAbort

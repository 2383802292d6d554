SPECIFICATION Spec
CHECK_DEADLOCK FALSE
CONSTANTS
    InputBuffers = {i1}
    OutputBuffers = {o1}
    MaxEvents = 1
    Apps = {a1}
    Reclaimers = {rm}
    AppCalls <- AllCalls
    MaxGeneration = 1
    MaxTimeouts = 1
    NoToken = NoToken
INVARIANTS ChecksHold NoCallStranded BufferInOnePlace StatesAgree

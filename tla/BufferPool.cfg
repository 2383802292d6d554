SPECIFICATION Spec
CONSTANTS
    Connections = {1, 2}
    Local = 1
    Transactions = {1, 2}
    SYNC_BUFFERID = 3
    FirstId = 2
    MaxAllocations = 1
    MaxCalls = 2
    QueueSize = 2
    SyncLevel = 1
INVARIANTS NoReuseInUse PoolConsistent NoLeak InvalidationComes

\* Write-ahead log, rate limiters, backpressure, dead letter queues, shutdown,
\* multi-leg groups, the order gate and the exposure of linked legs.
CONSTANTS
    WalNone = WalNone
    WalOrders = {o1, o2}
    WalTasks = {t1, t2}
    WalStates = {"Pending", "Filled"}
    WalBufferSize = 2
    WalCheckpointInterval = 2
    WalMaxSeq = 3
    WalMaxFaults = 1
    RlThreads = {t1, t2}
    TokenScale = 1
    BurstSize = 1
    MaxCost = 1
    WindowRate = 2
    Segments = 2
    RlMaxTime = 2
    BpTasks = {t1, t2, t3}
    BpExchanges = {e1, e2}
    SoftLimit = 1
    HardLimit = 2
    BpPermits = 2
    ErrorLimit = 1
    BpMaxCalls = 4
    DlqIds = {d1, d2, d3}
    DlqMax = 2
    DlqMaxRetries = 1
    DlqMaxCrashes = 1
    RwIds = {d1, d2, d3}
    RwCapacity = 2
    RwMaxRetries = 1
    RwMaxCrashes = 1
    SdOrders = {d1, d2, d3}
    MaxParallel = 2
    LegQty = 2
    ExTasks = {t1, t2}
    MaxOrder = 1
    MaxPosition = 1
    MaxPerWindow = 2
    MaxFailures = 1
    ExMaxOrders = 3
    PxLegs = {d1, d2, d3}
    PxMax = 2
SPECIFICATION ExecSpec
SYMMETRY ExecSymmetry
INVARIANTS
    ExecTypeOK  RateKeptUnlessRefillsOverlap  NoPermitLost
    EvictionKeepsEntries  ShutdownAccountsForListed  
    ExposureCoversNet
CHECK_DEADLOCK FALSE

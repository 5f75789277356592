\* Flatten, monitor, alert delivery, planner and guard, deployments, fill ledger,
\* order book, pairs trading.
CONSTANTS
    FlSizes = {3}
    FlLot = 2
    FlMaxRounds = 2
    FlMaxTag = 2
    FlMaxFaults = 2
    MoNone = MoNone
    MoMaxReads = 4
    MoMaxHalts = 1
    AdKeys = {k1, k2}
    AdChannels = {c1}
    AdBatch = 2
    AdMaxAlerts = 3
    AdMaxFaults = 1
    PlPrices <- Prices
    PlHeld = {0, 1, 3}
    PlShort = {1}
    PlCash = {0, 3, 6, 9}
    PlTargets = {0, 3, 5, 7}
    PlMinTrade = 2
    PlFeeDivisor = 3
    PlReserve = 1
    PlMaxPosition = 8
    PlMaxGross = 7
    PlMaxOrders = 4
    PlMaxTurnover = 20
    DpLive = {l1}
    DpPaper = {p1}
    DpMaxMsgs = 3
    DpMaxCrashes = 1
    FgMaxTrades = 3
    FgQtys = {1, 2}
    FgPrices = {1, 4}
    FgExpected = 4
    FgMaxRestarts = 1
    ObCapacity = 3
    ObIds = {1, 2}
    ObPrices = {1, 2}
    ObQtys = {2}
    ObSweeps = {3}
    PtQty = 2
    PtVenueLists <- VenueLists
    PtMaxBucket = 4
    PtChannel = 1
    PtMaxPosition = 2
    PtMaxRestarts = 1
SPECIFICATION ServiceSpec
SYMMETRY ServiceSymmetry
INVARIANTS
    ServiceTypeOK FlattenOnlyReduces  StreakAlertedOnce OneMailPerKey NoAlertPassedOver
    BuysKeepReserve CapsHoldWhenExecuted  FillsCountedOnce
    SlotsAccounted MatchIsBest UnhedgedIsHalted
CHECK_DEADLOCK FALSE

CONSTANTS
    PtQty = 2
    PtVenueLists <- VenueLists
    PtMaxBucket = 4
    PtChannel = 1
    PtMaxPosition = 2
    PtMaxRestarts = 0
SPECIFICATION PtSpec
INVARIANT NoSideIsFlat
CHECK_DEADLOCK FALSE

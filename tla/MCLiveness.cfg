\* The due slot finishes, the flatten ends, the circuit closes.
CONSTANTS
    None = None
    Procs = {p1}
    MaxSlot = 1
    Worlds <- LiveWorlds
    FlSizes = {3}
    FlLot = 2
    FlMaxRounds = 2
    FlMaxTag = 3
    FlMaxFaults = 2
    BreakerThreads = {t1, t2}
    FailureThreshold = 1
    SuccessThreshold = 2
    HalfOpenPct = 1
    HalfOpenPeriod = 2
SPECIFICATION LiveSpec
PROPERTIES SlotFinishes FlattenEnds CircuitCloses
CHECK_DEADLOCK FALSE

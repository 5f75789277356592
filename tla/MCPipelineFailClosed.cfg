\* Does a run that failed closed trade nothing?
CONSTANTS
    None = None
    Procs = {p1}
    MaxSlot = 1
    Worlds <- FailClosedWorlds
SPECIFICATION Spec
INVARIANT FailClosedTradedNothing

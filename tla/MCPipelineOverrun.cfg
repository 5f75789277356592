\* The lock lease ends under a slow run: is the run key enough?
CONSTANTS
    None = None
    Procs = {p1, p2}
    MaxSlot = 1
    Worlds <- OverrunWorlds
SPECIFICATION Spec
INVARIANT NoDoublePlacement

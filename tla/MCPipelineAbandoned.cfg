\* A slot that crashed and was never retried, three days.
CONSTANTS
    None = None
    Procs = {p1}
    MaxSlot = 3
    Worlds <- AbandonedWorlds
SPECIFICATION Spec
INVARIANT CrashNeverHalts

\* Every kind of fault, crashes over three days, and a lock lease that ends early.
CONSTANTS
    None = None
    Procs = {p1, p2}
    MaxSlot = 3
    Worlds <- SafetyWorlds
SPECIFICATION Spec
SYMMETRY ProcSymmetry
INVARIANTS TypeOK JournalCoversOrders CrashAloneNeverHalts
PROPERTIES ImplementsRebalance RecordFinal

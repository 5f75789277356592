\* A run, the monitor and a person race through stale copies of one row.
CONSTANTS
    None = None
    Den = 100
    DailyLossLimit = 18
    RungAt <- MCRungAt
    RungScale <- MCRungScale
    Recovery = 50
    DayStart = "FirstObservation"
    DecMax = 150
    Runs = {run}
    Monitors = {monitor}
    People = {person}
    Equities = {80, 100}
    MaxDay = 0
    MaxVersion = 3
SPECIFICATION Spec
INVARIANT CopiesSound
PROPERTIES HaltSticky NoLostUpdate HwmRatchets
CHECK_DEADLOCK FALSE

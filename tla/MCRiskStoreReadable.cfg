\* Is every stored state readable again?
CONSTANTS
    None = None
    Den = 100
    DailyLossLimit = 18
    RungAt <- MCRungAt
    RungScale <- MCRungScale
    Recovery = 50
    DayStart = "FirstObservation"
    DecMax = 150
    Runs = {run}
    Monitors = {}
    People = {}
    Equities = {80, 90, 100}
    MaxDay = 0
    MaxVersion = 3
SPECIFICATION Spec
INVARIANT SavedStateReadable
CHECK_DEADLOCK FALSE

\* One run and one person on a fine equity grid: the ladder, the hysteresis,
\* the day-start rule and the halt record.
CONSTANTS
    None = None
    Den = 100
    DailyLossLimit = 18
    RungAt <- MCRungAt
    RungScale <- MCRungScale
    Recovery = 50
    DayStart = "UtcMidnight"
    DecMax = 150
    Runs = {run}
    Monitors = {}
    People = {person}
    Equities = {0, 80, 84, 90, 93, 100, 200}
    MaxDay = 1
    MaxVersion = 3
SPECIFICATION Spec
INVARIANTS TypeOK LadderSound
PROPERTIES DayStartStable FirstHaltKept
CHECK_DEADLOCK FALSE

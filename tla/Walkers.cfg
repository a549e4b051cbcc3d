\* Two doorways, narrow and wide people, faults of a doorway nobody is in.
SPECIFICATION WalkFairSpec
VIEW CountingView
CONSTANTS
    Readings <- WalkReadings
    LightStates = {FALSE}
    LedCounts = {1, 2}
    EmergencyCnt <- NoEmergency
    Debounce = 2
    OffTimeout = 3
    LedInterval = 0
    RefreshPeriod = 0
    Elapsed = {1}
    SendTimes = {0}
    Slowest = 1
    MaxPeople = 2
INVARIANTS
    CountIsRight
PROPERTIES
    QuietStairsEmpty AnimationsEnd

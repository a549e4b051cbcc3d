\* Slow animations: somebody enters and leaves again while the LEDs still go off.
SPECIFICATION WalkSpec
VIEW WalkersView
CONSTANTS
    Readings <- WalkReadings
    LightStates = {FALSE}
    LedCounts = {2}
    EmergencyCnt <- NoEmergency
    Debounce = 0
    OffTimeout = 3
    LedInterval = 3
    RefreshPeriod = 2
    Elapsed = {1}
    SendTimes = {0}
    Slowest = 1
    MaxPeople = 1
INVARIANTS
    NoLedStaysLit

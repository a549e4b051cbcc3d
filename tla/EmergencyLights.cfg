\* All readings, and faults of the FIRST sensors.
SPECIFICATION EmergencyFairSpec
VIEW EmergencyView
CONSTANTS
    Readings <- FirstFaultReadings
    LightStates = {FALSE, TRUE}
    LedCounts = {1}
    EmergencyCnt <- NoEmergency
    Debounce = 0
    OffTimeout = 1
    LedInterval = 0
    RefreshPeriod = 0
    Elapsed = {1}
    SendTimes = {0, 1}
    MaxPeople = 1
    ConfirmMs = 1
    BlockMs = 2
PROPERTIES BlockHonoured EmergencyEnds

\* A sensor fails while its detector is in SECOND_LOCK.
SPECIFICATION EmergencySpec
VIEW EmergencyView
CONSTANTS
    Readings <- SecondFaultReadings
    LightStates = {FALSE, TRUE}
    LedCounts = {1}
    EmergencyCnt <- NoEmergency
    Debounce = 0
    OffTimeout = 1
    LedInterval = 1
    RefreshPeriod = 0
    Elapsed = {1}
    SendTimes = {0, 1}
    MaxPeople = 1
    ConfirmMs = 2
    BlockMs = 2
PROPERTIES
    BlockHonoured

\* All readings, a faulty sensor, daylight, two strip lengths, an emergency zone and test mode.
SPECIFICATION Spec
VIEW StairwayView
CONSTANTS
    Readings <- FaultReadings
    LightStates = {FALSE, TRUE}
    LedCounts = {1, 2}
    EmergencyCnt <- UpEmergency
    Debounce = 0
    OffTimeout = 1
    LedInterval = 0
    RefreshPeriod = 1
    Elapsed = {1}
    SendTimes = {0}
    MaxPeople = 1
INVARIANTS TypeOK BlockedMeansEmpty SweepsStartAtZero LightsFollowPeople

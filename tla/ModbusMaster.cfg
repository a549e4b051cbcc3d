\* A healthy and a lossy device, an answer shorter than the receive buffer, and stray
\* bytes that fill what it leaves free.  Scaled down.
SPECIFICATION ReadingsSpec
VIEW ModbusView
CONSTANTS
    Healthy = {"DOWN"}
    Lossy = {"UP"}
    Slow = {}
    AnswerLen = 2
    BufSize = 4
    PollInterval = 5
    TimeoutMs = 9
    SendMs = 1
    AnswerMs = 3
    NoiseBytes = 3
    LoopMs = 1
    HeldUpMs = 10
    HoldUps = 1
    ConfirmMs = 18
INVARIANTS TypeOK
PROPERTIES FaultStaysLocal OneAnswerIsNotEnough Recovers PollingGoesOn

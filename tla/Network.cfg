\* One connection after the other, every kind of request.  Scaled down.
SPECIFICATION NetworkFairSpec
VIEW NetworkView
CONSTANTS
    ButtonPeriod = 1
    ButtonDebounce = 2
    PostDelay = 1
    CliDelay = 2
    IterationMs = {1}
    Conn = {c1}
    Kind <- AllKinds
    HeaderLen <- KindHeader
    ContentLen <- KindContent
    RequestMax = 3
    ResponseLen <- KindResponse
    SendBuffer = 2
    IdlePollsMax = 2
    SegmentLen = {1, 2}
INVARIANTS
    NetworkTypeOK
    StateMatchesPcb
    ServedOnce
PROPERTIES
    ButtonTogglesOnce
    RebootComes
    ConnectionsEnd

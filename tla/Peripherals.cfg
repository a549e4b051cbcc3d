\* Two accepted settings of different strips, and two that are not accepted.
SPECIFICATION PeripheralsFairSpec
CONSTANTS
    StripMax = 2
    ByteMax = 3
    Candidates <- MCCandidates
    AdcMax = 9
    FilterN = 3
    FullScale = 10
INVARIANTS
    PeripheralsTypeOK
    StripShowsBuffer
PROPERTIES
    FadesEnd
    LightIsFollowed

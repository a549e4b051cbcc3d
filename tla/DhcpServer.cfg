\* Three clients for two addresses; the clock wraps after three leases.  Names
\* of 5 bytes, labels of 2, a message of 8.
SPECIFICATION ServersSpec
SYMMETRY Clients
CONSTANTS
    Mac = {m1, m2, m3}
    NoMac = NoMac
    Slots = 2
    LeaseMs = 8
    Unit = 4
    Units = 6
    Elapsed = {1, 4}
    Message <- MCMessage
    HeaderLen = 1
    LabelMax = 2
    NameMax = 5
    TypeLen = 1
    AnswerLen = 1
    MsgMax = 8
    AnswerByte = AnswerByte
    Junk = Junk
    BodyMax = 8
INVARIANTS
    DhcpTypeOK
    LeasesAreExclusive
    OffersAreGood
    ReplyFits
    AnswersTheQuestion
PROPERTIES
    ExpiredIsReused

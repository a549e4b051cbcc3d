\* Pages and requests, failing flash operations, crashes.
SPECIFICATION PageSpec
CONSTANTS
    Rest <- MCRest
    ValidRest <- MCValidRest
    DefaultRest <- MCDefault
    Blank = Blank
    NumMax = 1
    Chars <- MCChars
    Quote = Quote
    Backslash = Backslash
    Slash = Slash
    Letter = Letter
    Key = Key
    SecretKey <- MCSecretKey
    BufSize = 3
    Absent = Absent
    Bad = Bad
    Json <- MCJson
INVARIANTS
    PageTypeOK
    ActiveValid
    SavedMeansDurable
PROPERTIES
    ImplementsDurable
    PageRoundTrip

\* A flash operation fails: what the request leaves behind.
SPECIFICATION Spec
CONSTANTS
    factory = factory
    a = a
    b = b
    bad = bad
    Rest <- MCRest
    ValidRest <- MCValidRest
    DefaultRest = factory
    Blank = Blank
PROPERTIES
    NothingChangedOnError

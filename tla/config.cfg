SPECIFICATION Spec
CONSTANTS
    Words = {"w", ":", "me:", "you:"}
    Sections = {":", "me:", "you:"}
    EverySection = ":"
    LengthOf <- MCLengthOf
    CanonicalName <- MCCanonicalName
    MyName <- MCMyName
    MAXNUMBERARGS = 1
    MAXARGLENGTH = 4
    MAXCONNECTIONNAME = 4
    MAXCLASSNAME = 4
    MAXCONNECTIONS = 1
    MaxFile = 8
    MaxBlank = 1
INVARIANTS
    TypeOK
    TableIsFile
    RefusedIfWrong
    ArgslineFits
CHECK_DEADLOCK FALSE

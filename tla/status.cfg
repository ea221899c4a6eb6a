SPECIFICATION Spec
CONSTANTS
    Letters = {"a", "b", "*"}
    Hosts = {"a", "b", "c"}
    NameOf <- MCNameOf
    Networks <- MCNetworks
    BadReplies = TRUE
    NumRows <- MCNumRows
    MAXSERVERS = 4
    MAXCONNECTIONS = 3
    MAXNCONNECTIONS = 2
    MaxText = 7
    MaxHost = 2
    NetFaults = TRUE
INVARIANTS
    TypeOK
    ListIsWords
    NobodyTooOften
    EveryoneIsShown
    RowsAreItsOwn
CHECK_DEADLOCK FALSE

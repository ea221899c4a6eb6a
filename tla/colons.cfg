SPECIFICATION Spec
CONSTANTS
    Letters = {"a", "b", ":", "*"}
    Hosts = {"a", "b", "c"}
    NameOf <- MCNameOf
    Networks <- MCNetworks
    BadReplies = FALSE
    NumRows <- MCNumRows
    MAXSERVERS = 4
    MAXCONNECTIONS = 3
    MAXNCONNECTIONS = 2
    MaxText = 3
    MaxHost = 2
    NetFaults = FALSE
INVARIANT ColonsSeparate
CHECK_DEADLOCK FALSE

SPECIFICATION Spec
CONSTANTS
    Chars <- MCChars
    Keys <- MCKeys
    BufSize = 2
    MaxKeys = 4
    NetFaults = TRUE
    MY_BUFSIZE = 3
    PC_LEN = 2
    cook = TRUE
    LineFaults = TRUE
INVARIANTS
    TypeOK
    NothingLostSilently
    TextInOrder
    AllArrives
    BreaksInPlace
    TerminalIsRestored
    KeepsAlive
    AlarmIsHandled
CHECK_DEADLOCK FALSE

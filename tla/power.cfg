SPECIFICATION FairSpec
CONSTANTS
    c1 = c1
    c2 = c2
    Clients = {c1, c2}
    NoClient = NoClient
    NUM_OUTLETS = 2
    Barred = {c2}
    MaxFiles = 2
    Faults = {"open", "write"}
INVARIANTS TypeOK DoneUnlessLost CacheAgrees
PROPERTY EveryoneIsAccepted

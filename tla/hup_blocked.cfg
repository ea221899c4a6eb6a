SPECIFICATION FairSpec
CONSTANTS
    u1 = u1
    u2 = u2
    k1 = k1
    k2 = k2
    p1 = p1
    p2 = p2
    p3 = p3
    NoName = ""
    Users = {u1, u2}
    NoUser = NoUser
    Clients = {k1, k2}
    BADPID = BADPID
    NoRequest = NoRequest
    MaxQueue = 1
    Barred = {}
    Config <- OneLine
    Pids = {p1, p2}
    Requests <- LockRequests
    Background = TRUE
    Events = {"HUP"}
    Faults = {}
    MaxIdle = 0
    MaxNet = 0
PROPERTY HupIsHandled

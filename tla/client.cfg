SPECIFICATION SysSpec
CONSTANTS
    u1 = u1
    u2 = u2
    k1 = k1
    k2 = k2
    p1 = p1
    p2 = p2
    p3 = p3
    NoName = ""
    Users = {u1, u2}
    NoUser = NoUser
    BADPID = BADPID
    NoRequest = NoRequest
    Programs = {k1, k2}
    LoginOf <- TwoUsers
    DefaultClass = "mips"
    MAXNCONNECTIONS = 1
    RESERVETIME = 0
    Clients <- Sockets
    Requests <- EveryRequest
    Config <- TwoLines
    Pids = {p1, p2}
    Barred = {}
    Background = TRUE
    Events = {}
    Faults = {}
    MaxIdle = 0
    MaxQueue = 1
    MaxNet = 1
SYMMETRY Symm
INVARIANTS ClientTypeOK PortIsOwn SessionIsReserved OneProgramPerLine

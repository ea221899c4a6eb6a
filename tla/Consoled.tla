------------------------------ MODULE Consoled ------------------------------
(***************************************************************************)
(* The console daemon, src/src/xinu-consoled.c with getcondata of          *)
(* src/src/support.c: one process that serves UDP requests one at a time,  *)
(* a table of connections, one forked child per granted connection, and    *)
(* the kernel's view of those children (running, killed, unreaped, reaped  *)
(* and its pid in use by somebody else).                                   *)
(*                                                                         *)
(* A step of the daemon is what it does between two moments at which a     *)
(* signal handler, a child or a client can tell the difference: waiting    *)
(* for a request, wait3, clearing the table, serving, and recording the    *)
(* pid that fork returned.                                                 *)
(***************************************************************************)
EXTENDS Naturals, Sequences, FiniteSets

CONSTANTS
    Config,      \* the entries of the configuration file, in its order
    NoName,      \* the empty string, as a class in a request
    Users,       \* login names
    NoUser,      \* the empty user of a free connection
    Clients,     \* addresses that requests come from
    Pids,        \* process numbers of the machine
    BADPID,      \* conpid of a free connection
    Requests,    \* the requests that clients may send
    NoRequest,   \* what recvfromRequest leaves when it returns -1
    Barred,      \* pairs <<client, user>> that hosts_ctl refuses
    Background,  \* TRUE: the daemon forks itself after the start (-bg, +bg)
    Events,      \* what may hit the daemon: HUP, INT, TERM and START
    Faults,      \* the system calls that may fail: fork, execv
    MaxIdle,     \* bound: idle times are told apart up to this many units
    MaxQueue,    \* bound: requests in the socket's receive buffer
    MaxNet       \* bound: replies in flight

Conns == DOMAIN Config

Codes == {"VERBOSE_ON", "VERBOSE_OFF", "STATUS", "TOUCH", "MAKE", "BREAK",
          "INVALID"}

\* A request, abstracted to what the daemon reads of it.
IsRequest(r) == /\ r.version \in {"CURVERSION", "other"}
                /\ r.code \in Codes
                /\ r.user \in Users
                /\ r.from \in Clients

ASSUME ConfigAssumption == Config \in Seq([conname : STRING, conclass : STRING])
ASSUME RequestAssumption == /\ \A r \in Requests : IsRequest(r)
                            /\ NoRequest \notin Requests
ASSUME NameAssumption == NoUser \notin Users /\ BADPID \notin Pids
ASSUME SettingAssumption == /\ Background \in BOOLEAN
                            /\ Events \subseteq {"HUP", "INT", "TERM", "START"}
                            /\ Faults \subseteq {"fork", "execv"}
ASSUME BoundAssumption == MaxIdle \in Nat /\ MaxQueue \in Nat /\ MaxNet \in Nat

VARIABLES
    \* The daemon's memory.
    pc,          \* where the daemon is
    user,        \* condata.user of each connection
    conpid,      \* condata.conpid of each connection
    idle,        \* now - condata.contime, up to MaxIdle
    cur,         \* the request being served
    reaped,      \* childpid: what wait3 returned last
    forked,      \* pid: what fork returned last
    verbose,
    \* The kernel.
    hup,         \* a SIGHUP is pending
    hupBlocked,  \* SIGHUP is in the daemon's signal mask
    proc,        \* the state of the process with each pid
    job,         \* the request a child works for, and its connection
    kids,        \* the unreaped children of the running daemon
    holds,       \* children that have the daemon's UDP socket open
    \* The network.
    queue,       \* the receive buffer of the daemon's socket
    net          \* replies in flight

table == <<user, conpid, idle>>
memory == <<table, cur, reaped, forked, verbose>>
signals == <<hup, hupBlocked>>
children == <<proc, job, kids, holds>>
wire == <<queue, net>>
vars == <<pc, memory, signals, children, wire>>

Live == {"listening", "accepting", "session"}
ProcStates == Live \union {"unused", "other", "dying", "zombie"}

NoConn == 0
NoJob == [conn |-> NoConn, req |-> NoRequest]

Mesgs == {"unknown version", "verbose-mode on", "verbose-mode off",
          "connection not found", "connection running",
          "connection not running", "connection broken", "invalid command",
          "connect port", "status"}

Rows == [conn : Conns, user : Users \union {NoUser}, idle : 0..MaxIdle]

Replies == [to : Clients, resp : {"RESP_OK", "RESP_ERR"}, mesg : Mesgs,
            port : Pids \union {BADPID}, rows : SUBSET Rows]

TypeOK ==
    /\ pc \in {"bind", "recv", "reap", "clear", "serve", "record", "exited"}
    /\ user \in [Conns -> Users \union {NoUser}]
    /\ conpid \in [Conns -> Pids \union {BADPID}]
    /\ idle \in [Conns -> 0..MaxIdle]
    /\ cur \in Requests \union {NoRequest}
    /\ reaped \in Pids \union {BADPID}
    /\ forked \in Pids \union {BADPID}
    /\ verbose \in BOOLEAN
    /\ hup \in BOOLEAN
    /\ hupBlocked \in BOOLEAN
    /\ proc \in [Pids -> ProcStates]
    /\ job \in [Pids -> [conn : Conns \union {NoConn},
                         req : Requests \union {NoRequest}]]
    /\ kids \subseteq Pids
    /\ holds \subseteq Pids
    /\ queue \in Seq(Requests \union {NoRequest})
    /\ net \subseteq Replies

-----------------------------------------------------------------------------
(* Names and the table.                                                    *)

\* strnequ on the name, and on the class unless the request leaves it empty.
Matches(r, c) == /\ Config[c].conname = r.conname
                 /\ r.conclass \in {NoName, Config[c].conclass}

\* getcondata returns entry c: the first in the list that matches.
Found(r, c) == /\ Matches(r, c)
               /\ \A d \in Conns : Matches(r, d) => c <= d

NotFound(r) == \A c \in Conns : ~ Matches(r, c)

\* Mutant: MAKE does not look at conpid.
FoundAny(c) == Found(cur, c)

\* getcondata finds an entry, and it is free (taken).
FoundFree(c) == Found(cur, c) /\ conpid[c] = BADPID
FoundTaken(c) == Found(cur, c) /\ conpid[c] # BADPID

Recorded == {p \in Pids : \E c \in Conns : conpid[c] = p}

EmptyTable == /\ user' = [c \in Conns |-> NoUser]
              /\ conpid' = [c \in Conns |-> BADPID]
              /\ idle' = [c \in Conns |-> 0]

-----------------------------------------------------------------------------
(* Replies.  UDP may drop a reply; one that finds MaxNet others in flight  *)
(* is always dropped.                                                      *)

Send(m) == net' = IF Cardinality(net) < MaxNet THEN net \union {m} ELSE net

Message(to, resp, mesg) ==
    [to |-> to, resp |-> resp, mesg |-> mesg, port |-> BADPID, rows |-> {}]

ServerReplyMesg(resp, mesg) == Send(Message(cur.from, resp, mesg))

-----------------------------------------------------------------------------
(* Processes.  A process number is free again as soon as the parent has    *)
(* waited for it; init waits at once for the children that lost theirs.    *)

\* kill(p, SIGKILL) for each p of ps; of the daemon's children, heirs are
\* still its own afterwards.
Kill(ps, heirs) ==
    LET hit == {p \in ps : proc[p] \in Live \union {"other"}}
        left == {p \in kids \ heirs : proc[p] = "zombie"}
    IN  /\ proc' = [p \in Pids |-> IF p \in hit THEN "dying"
                                   ELSE IF p \in left THEN "unused"
                                   ELSE proc[p]]
        /\ kids' = heirs
        /\ UNCHANGED <<job, holds>>

\* Process p exits: a zombie for its parent, or reaped by init.
Exit(p) == /\ proc' = [proc EXCEPT ![p] =
                         IF p \in kids THEN "zombie" ELSE "unused"]
           /\ job' = [job EXCEPT ![p] = NoJob]
           /\ holds' = holds \ {p}
           /\ UNCHANGED kids

-----------------------------------------------------------------------------
(* The daemon: start and main loop.                                        *)

\* passiveUDP: the port is free unless a child has the old socket open.
Open == /\ pc = "bind"
        /\ holds = {}
        /\ pc' = "recv"
        /\ UNCHANGED <<memory, signals, children, wire>>

\* exit(1); nothing is in the table yet.
OpenFails == /\ pc = "bind"
             /\ holds # {}
             /\ pc' = "exited"
             /\ Kill({}, {})
             /\ UNCHANGED <<memory, signals, wire>>

\* recvfromRequest: a datagram of the wrong size is NoRequest.
Receive == /\ pc = "recv"
           /\ queue # <<>>
           /\ cur' = Head(queue)
           /\ queue' = Tail(queue)
           /\ pc' = "reap"
           /\ UNCHANGED <<table, reaped, forked, verbose, signals, children, net>>

\* Mutant: the main loop does not reap after a timeout.
TimeoutNoReap == /\ pc = "recv"
                 /\ queue = <<>>
                 /\ UNCHANGED vars

\* readDelay: no datagram for XLTIMEOUT seconds.
ReceiveTimeout == /\ pc = "recv"
                  /\ queue = <<>>
                  /\ cur' = NoRequest
                  /\ pc' = "reap"
                  /\ UNCHANGED <<table, reaped, forked, verbose, signals, children, wire>>

\* findDeadChildren: wait3 returns a dead child, whose number is free now.
Reap(p) == /\ pc = "reap"
           /\ p \in kids /\ proc[p] = "zombie"
           /\ proc' = [proc EXCEPT ![p] = "unused"]
           /\ kids' = kids \ {p}
           /\ reaped' = p
           /\ pc' = "clear"
           /\ UNCHANGED <<table, cur, forked, verbose, signals, job, holds, wire>>

\* Mutants of Clear: the entry gets 0 for BADPID; its conpid is forgotten; the
\* comparison with childpid is missing.
ClearToZero == /\ pc = "clear"
               /\ conpid' = [c \in Conns |-> IF conpid[c] = reaped THEN 0 ELSE conpid[c]]
               /\ reaped' = BADPID
               /\ pc' = "reap"
               /\ UNCHANGED <<user, idle, cur, forked, verbose, signals, children, wire>>

ClearNoPid == /\ pc = "clear"
              /\ reaped' = BADPID
              /\ pc' = "reap"
              /\ UNCHANGED <<table, cur, forked, verbose, signals, children, wire>>

ClearAll == /\ pc = "clear"
            /\ EmptyTable
            /\ reaped' = BADPID
            /\ pc' = "reap"
            /\ UNCHANGED <<cur, forked, verbose, signals, children, wire>>

\* findDeadChildren: the loop over the table, then wait3 again.
Clear == /\ pc = "clear"
         /\ user' = [c \in Conns |-> IF conpid[c] = reaped THEN NoUser ELSE user[c]]
         /\ idle' = [c \in Conns |-> IF conpid[c] = reaped THEN 0 ELSE idle[c]]
         /\ conpid' = [c \in Conns |-> IF conpid[c] = reaped THEN BADPID ELSE conpid[c]]
         /\ reaped' = BADPID
         /\ pc' = "reap"
         /\ UNCHANGED <<cur, forked, verbose, signals, children, wire>>

\* wait3 has no dead child to return.
ReapDone == /\ pc = "reap"
            /\ \A p \in kids : proc[p] # "zombie"
            /\ pc' = IF cur = NoRequest THEN "recv" ELSE "serve"
            /\ UNCHANGED <<memory, signals, children, wire>>

-----------------------------------------------------------------------------
(* The daemon: ProcessRequest.                                             *)

\* The end of ProcessRequest: the request is forgotten.
Served == /\ pc' = "recv"
          /\ cur' = NoRequest
          /\ UNCHANGED <<reaped, forked, signals, queue>>

\* LIBWRAP: no reply at all.
Refuse == /\ pc = "serve"
          /\ <<cur.from, cur.user>> \in Barred
          /\ Served
          /\ UNCHANGED <<table, verbose, children, net>>

Allowed == /\ pc = "serve"
           /\ <<cur.from, cur.user>> \notin Barred

\* A request that is answered and changes nothing.
Answer(resp, mesg) == /\ ServerReplyMesg(resp, mesg)
                      /\ Served
                      /\ UNCHANGED <<table, verbose, children>>

BadVersion == /\ Allowed
              /\ cur.version # "CURVERSION"
              /\ Answer("RESP_ERR", "unknown version")

Serving(code) == Allowed /\ cur.version = "CURVERSION" /\ cur.code = code

SetVerbose == /\ \/ /\ Serving("VERBOSE_ON")
                    /\ verbose' = TRUE
                    /\ ServerReplyMesg("RESP_OK", "verbose-mode on")
                 \/ /\ Serving("VERBOSE_OFF")
                    /\ verbose' = FALSE
                    /\ ServerReplyMesg("RESP_OK", "verbose-mode off")
              /\ Served
              /\ UNCHANGED <<table, children>>

Invalid == Serving("INVALID") /\ Answer("RESP_ERR", "invalid command")

\* Status: one row for each entry that the request's name and class, where
\* they are not empty, match.
Asked(r) == {c \in Conns : /\ r.conname \in {NoName, Config[c].conname}
                           /\ r.conclass \in {NoName, Config[c].conclass}}

Status == /\ Serving("STATUS")
          /\ Send([Message(cur.from, "RESP_OK", "status") EXCEPT
                     !.rows = {[conn |-> c, user |-> user[c], idle |-> idle[c]] :
                               c \in Asked(cur)}])
          /\ Served
          /\ UNCHANGED <<table, verbose, children>>

\* No reply in any case.
Touch == /\ Serving("TOUCH")
         /\ idle' = [c \in Conns |->
                       IF FoundTaken(c) /\ user[c] = cur.user
                       THEN 0 ELSE idle[c]]
         /\ Served
         /\ UNCHANGED <<user, conpid, verbose, children, net>>

MakeRefused ==
    /\ Serving("MAKE")
    /\ \/ NotFound(cur) /\ Answer("RESP_ERR", "connection not found")
       \/ (\E c \in Conns : FoundTaken(c)) /\ Answer("RESP_ERR", "connection running")

\* MakeConnection: fork returns to the daemon, and to the child p, which has
\* the request and the UDP socket.
Fork(c, p) == /\ Serving("MAKE")
              /\ FoundFree(c)
              /\ proc[p] = "unused"
              /\ proc' = [proc EXCEPT ![p] = "listening"]
              /\ job' = [job EXCEPT ![p] = [conn |-> c, req |-> cur]]
              /\ kids' = kids \union {p}
              /\ holds' = holds \union {p}
              /\ forked' = p
              /\ pc' = "record"
              /\ UNCHANGED <<table, cur, reaped, verbose, signals, wire>>

\* fork returns -1: logged, and no reply.
ForkFails == /\ "fork" \in Faults
             /\ Serving("MAKE")
             /\ \E c \in Conns : FoundFree(c)
             /\ Served
             /\ UNCHANGED <<table, verbose, children, net>>

\* MakeConnection, after fork: the entry is taken.
Record(c) == /\ pc = "record"
             /\ Found(cur, c)
             /\ conpid' = [conpid EXCEPT ![c] = forked]
             /\ idle' = [idle EXCEPT ![c] = 0]
             /\ user' = [user EXCEPT ![c] = cur.user]
             /\ forked' = BADPID
             /\ cur' = NoRequest
             /\ pc' = "recv"
             /\ UNCHANGED <<reaped, verbose, signals, children, wire>>

BreakRefused ==
    /\ Serving("BREAK")
    /\ \/ NotFound(cur) /\ Answer("RESP_ERR", "connection not found")
       \/ (\E c \in Conns : FoundFree(c)) /\ Answer("RESP_ERR", "connection not running")

\* Mutant: the entry is free as soon as SIGKILL is sent.
BreakAndClear(c) == /\ Serving("BREAK")
                    /\ FoundTaken(c)
                    /\ Kill({conpid[c]}, kids)
                    /\ conpid' = [conpid EXCEPT ![c] = BADPID]
                    /\ user' = [user EXCEPT ![c] = NoUser]
                    /\ Served
                    /\ UNCHANGED <<idle, verbose, net>>

\* Whoever asks; the entry stays taken until the child is reaped.
Break(c) == /\ Serving("BREAK")
            /\ FoundTaken(c)
            /\ Kill({conpid[c]}, kids)
            /\ ServerReplyMesg("RESP_OK", "connection broken")
            /\ Served
            /\ UNCHANGED <<table, verbose>>

-----------------------------------------------------------------------------
(* The daemon: signals, end and start.                                     *)

\* The memory of a daemon that has just been executed, or of none.
Fresh(where) == /\ pc' = where
                /\ EmptyTable
                /\ cur' = NoRequest
                /\ reaped' = BADPID
                /\ forked' = BADPID
                /\ verbose' = FALSE
                /\ queue' = <<>>
                /\ UNCHANGED net

SignalHup == /\ "HUP" \in Events
             /\ pc # "exited"
             /\ ~ hup
             /\ hup' = TRUE
             /\ UNCHANGED <<pc, memory, hupBlocked, children, wire>>

\* Reboot: CleanUp, then execv.  signal() blocks SIGHUP while its handler
\* runs; the handler never returns, and execv and fork keep the mask.
Reboot == /\ hup /\ ~ hupBlocked
          /\ pc # "exited"
          /\ Kill(Recorded, IF Background THEN {} ELSE kids)
          /\ Fresh("bind")
          /\ hup' = FALSE
          /\ hupBlocked' = TRUE

\* Reboot when execv returns: exit(1).
RebootFails == /\ "execv" \in Faults
               /\ hup /\ ~ hupBlocked
               /\ pc # "exited"
               /\ Kill(Recorded, {})
               /\ Fresh("exited")
               /\ hup' = FALSE
               /\ UNCHANGED hupBlocked

\* SIGINT or SIGQUIT: CleanUp, exit(0).
Quit == /\ "INT" \in Events
        /\ pc # "exited"
        /\ Kill(Recorded, {})
        /\ Fresh("exited")
        /\ hup' = FALSE
        /\ UNCHANGED hupBlocked

\* SIGTERM, which the init script's stop sends, has no handler.
Terminate == /\ "TERM" \in Events
             /\ pc # "exited"
             /\ Kill({}, {})
             /\ Fresh("exited")
             /\ hup' = FALSE
             /\ UNCHANGED hupBlocked

\* The init script's start.
Start == /\ "START" \in Events
         /\ pc = "exited"
         /\ pc' = "bind"
         /\ hupBlocked' = FALSE
         /\ UNCHANGED <<memory, hup, children, wire>>

-----------------------------------------------------------------------------
(* The children: makeTCPConnection, then the program of the connection.    *)

\* Mutant: the address is that of the request that the daemon serves by now.
PortReplyToCurrent(p) ==
    /\ proc[p] = "listening"
    /\ proc' = [proc EXCEPT ![p] = "accepting"]
    /\ holds' = holds \ {p}
    /\ LET to == IF cur = NoRequest THEN job[p].req.from ELSE cur.from
       IN  Send([Message(to, "RESP_OK", "connect port") EXCEPT !.port = p])
    /\ UNCHANGED <<pc, memory, signals, job, kids, queue>>

\* The child sends its port, and closes its copy of the UDP socket.  The
\* port number stands for the listening child.
PortReply(p) == /\ proc[p] = "listening"
                /\ proc' = [proc EXCEPT ![p] = "accepting"]
                /\ holds' = holds \ {p}
                /\ Send([Message(job[p].req.from, "RESP_OK", "connect port")
                           EXCEPT !.port = p])
                /\ UNCHANGED <<pc, memory, signals, job, kids, queue>>

\* acceptTCP returns; execv of the connection's program.
Accept(p) == /\ proc[p] = "accepting"
             /\ proc' = [proc EXCEPT ![p] = "session"]
             /\ UNCHANGED <<pc, memory, signals, job, kids, holds, wire>>

Outside == UNCHANGED <<pc, memory, signals, wire>>

\* passiveTCP fails: exit(1).
ListenFails(p) == proc[p] = "listening" /\ Exit(p) /\ Outside

\* socktimeout: no client within LTIMEOUT seconds; exit(1).
AcceptTimeout(p) == proc[p] = "accepting" /\ Exit(p) /\ Outside

\* The program ends, or execv failed.
SessionEnd(p) == proc[p] = "session" /\ Exit(p) /\ Outside

\* SIGKILL takes effect.
Die(p) == proc[p] = "dying" /\ Exit(p) /\ Outside

\* Some other process of the machine starts, and ends.
OtherStarts(p) == /\ proc[p] = "unused"
                  /\ proc' = [proc EXCEPT ![p] = "other"]
                  /\ UNCHANGED <<job, kids, holds>>
                  /\ Outside

OtherEnds(p) == proc[p] = "other" /\ Exit(p) /\ Outside

-----------------------------------------------------------------------------
(* The network and the clock.                                              *)

SendRequest(r) == /\ pc \notin {"bind", "exited"}
                  /\ Len(queue) < MaxQueue
                  /\ queue' = Append(queue, r)
                  /\ UNCHANGED <<pc, memory, signals, children, net>>

\* A reply reaches its client, or is lost.
Deliver(m) == /\ net' = net \ {m}
              /\ UNCHANGED <<pc, memory, signals, children, queue>>

Tick == /\ idle' = [c \in Conns |->
                      IF conpid[c] # BADPID /\ idle[c] < MaxIdle
                      THEN idle[c] + 1 ELSE idle[c]]
        /\ UNCHANGED <<pc, user, conpid, cur, reaped, forked, verbose, signals, children, wire>>

-----------------------------------------------------------------------------
Init == /\ pc = "bind"
        /\ user = [c \in Conns |-> NoUser]
        /\ conpid = [c \in Conns |-> BADPID]
        /\ idle = [c \in Conns |-> 0]
        /\ cur = NoRequest
        /\ reaped = BADPID /\ forked = BADPID
        /\ verbose = FALSE
        /\ hup = FALSE /\ hupBlocked = FALSE
        /\ proc = [p \in Pids |-> "unused"]
        /\ job = [p \in Pids |-> NoJob]
        /\ kids = {} /\ holds = {}
        /\ queue = <<>> /\ net = {}

MainLoop == Open \/ OpenFails \/ Receive \/ ReceiveTimeout \/ Clear \/ ReapDone
            \/ \E p \in Pids : Reap(p)

ProcessRequest == \/ Refuse \/ BadVersion \/ SetVerbose \/ Invalid \/ Status
                  \/ Touch \/ MakeRefused \/ BreakRefused \/ ForkFails
                  \/ \E c \in Conns : \/ \E p \in Pids : Fork(c, p)
                                      \/ Record(c)
                                      \/ Break(c)

Daemon == MainLoop \/ ProcessRequest

Control == SignalHup \/ Reboot \/ RebootFails \/ Quit \/ Terminate \/ Start

Process(p) == \/ PortReply(p) \/ Accept(p) \/ ListenFails(p) \/ AcceptTimeout(p)
              \/ SessionEnd(p) \/ Die(p) \/ OtherStarts(p) \/ OtherEnds(p)

Network == \/ \E r \in Requests \union {NoRequest} : SendRequest(r)
           \/ \E m \in net : Deliver(m)

Next == \/ Daemon
        \/ Control
        \/ \E p \in Pids : Process(p)
        \/ Network
        \/ Tick

Spec == Init /\ [][Next]_vars

\* The kernel runs the daemon and its children, wakes them at their timeouts,
\* runs the handler of a pending signal, and finishes what SIGKILL began.  No
\* client is obliged to connect, and no program to end.
Fairness == /\ WF_vars(Daemon)
            /\ WF_vars(Reboot)
            /\ \A p \in Pids : /\ WF_vars(PortReply(p) \/ ListenFails(p))
                               /\ WF_vars(AcceptTimeout(p))
                               /\ WF_vars(Die(p))

FairSpec == Spec /\ Fairness
=============================================================================

---------------------------- MODULE ConsoleClient ----------------------------
(***************************************************************************)
(* Runs of xinu-console against the console daemon: makeConnection of      *)
(* src/lib/makeConnection.c with reqGeneric of src/lib/connectUtils.c, one *)
(* server, and the session that follows.                                   *)
(*                                                                         *)
(* A program has two sockets: the one that obtainStatus opens and closes,  *)
(* and the one that reqGeneric keeps.  Each is an address of Consoled.     *)
(* Requests and replies may be lost, replies may be late, and nothing in a *)
(* reply says what request it answers.                                     *)
(***************************************************************************)
EXTENDS ConsoledProps

CONSTANTS
    Programs,         \* runs of xinu-console
    LoginOf,          \* the user who runs each
    DefaultClass,     \* what getdfltClass returns
    MAXNCONNECTIONS,  \* rows of a status that recvfromReply reads
    RESERVETIME       \* idle time after which a connection may be stolen

StatusSocket(k) == <<k, "status">>
RequestSocket(k) == <<k, "request">>

\* getdfltClass: the default class, unless a connection is named.
StatusRequest(k, name) ==
    [version |-> "CURVERSION", code |-> "STATUS", user |-> LoginOf[k],
     conname |-> name, conclass |-> IF name = NoName THEN DefaultClass ELSE NoName,
     from |-> StatusSocket(k)]

\* The request for connection c; for NoConn, whatever is in a row of a status
\* that recvfromReply has not filled, which names no connection.
Request(k, code, c) ==
    [version |-> "CURVERSION", code |-> code, user |-> LoginOf[k],
     conname |-> IF c = NoConn THEN NoName ELSE Config[c].conname,
     conclass |-> IF c = NoConn THEN NoName ELSE Config[c].conclass,
     from |-> RequestSocket(k)]

\* What a user may name.
Names == {NoName} \union {Config[c].conname : c \in Conns}

ASSUME ProgramAssumption ==
    /\ LoginOf \in [Programs -> Users]
    /\ MAXNCONNECTIONS \in Nat /\ RESERVETIME \in Nat
    /\ \A k \in Programs :
         /\ \A name \in Names : StatusRequest(k, name) \in Requests
         /\ \A code \in {"MAKE", "BREAK", "TOUCH"}, c \in Conns \union {NoConn} :
              Request(k, code, c) \in Requests

VARIABLES
    cpc,     \* where each program is
    phase,   \* named on the command line, looking for a free one, or stealing
    rows,    \* the status it got
    todo,    \* connections it has still to try; NoConn for a row not filled
    target,  \* the connection it asks for, and shows to its user
    port     \* the port it was told

client == <<cpc, phase, rows, todo, target, port>>

\* A row that recvfromReply has not filled: free, or active.
Unfilled(k) == [conn : {NoConn}, user : {NoUser, LoginOf[k]}, idle : {0, MaxIdle}]

ClientTypes ==
    /\ cpc \in [Programs -> {"start", "status", "next", "break", "usleep", "make",
                             "connect", "session", "failed", "done", "SIGFPE"}]
    /\ phase \in [Programs -> {"named", "free", "steal"}]
    /\ rows \in [Programs -> SUBSET (Rows \union UNION {Unfilled(k) : k \in Programs})]
    /\ todo \in [Programs -> SUBSET (Conns \union {NoConn})]
    /\ target \in [Programs -> Conns \union {NoConn}]
    /\ port \in [Programs -> Pids \union {BADPID}]

ClientTypeOK == TypeOK /\ ClientTypes

-----------------------------------------------------------------------------
(* The network.                                                            *)

\* A request gets into the daemon's buffer, or is lost.
Transmit(r) == SendRequest(r) \/ UNCHANGED vars

\* A reply to address a.
Answers(a) == {m \in net : m.to = a}

\* Program k goes to where, and changes nothing else of its own.
Goto(k, where) == /\ cpc' = [cpc EXCEPT ![k] = where]
                  /\ UNCHANGED <<phase, rows, todo, target, port>>

-----------------------------------------------------------------------------
(* Rows of a status.                                                       *)

\* recvfromReply reads no more than the first MAXNCONNECTIONS rows.
Read(R) == {r \in R : Cardinality({q \in R : q.conn <= r.conn}) <= MAXNCONNECTIONS}

\* But numconnections counts the others too, and where they would be is what
\* malloc returned.
Collected(k, R) == IF Read(R) = R THEN {R}
                   ELSE {Read(R) \union {r} : r \in Unfilled(k)}

Free(R) == {r.conn : r \in {q \in R : q.user = NoUser}}

\* Active for RESERVETIME or longer.
Expired(R) == {r.conn : r \in {q \in R : q.user # NoUser /\ q.idle >= RESERVETIME}}

\* getTCPConnection, up to its loop.  When there is nothing to choose from,
\* rand() % free divides by zero, which is fatal on some machines.
Enter(k, ph, R) ==
    LET found == Free(R) \union (IF ph = "steal" THEN Expired(R) ELSE {})
    IN  /\ phase' = [phase EXCEPT ![k] = ph]
        /\ rows' = [rows EXCEPT ![k] = R]
        /\ todo' = [todo EXCEPT ![k] = found]
        /\ \E where \in {"next"} \union (IF found = {} THEN {"SIGFPE"} ELSE {}) :
              cpc' = [cpc EXCEPT ![k] = where]
        /\ UNCHANGED <<target, port>>

-----------------------------------------------------------------------------
(* makeConnection.                                                         *)

\* Name, class and host are given: one MAKE.
AskNamed(k, c) == /\ cpc[k] = "start"
                  /\ Transmit(Request(k, "MAKE", c))
                  /\ target' = [target EXCEPT ![k] = c]
                  /\ cpc' = [cpc EXCEPT ![k] = "make"]
                  /\ UNCHANGED <<phase, rows, todo, port>>

AskStatus(k, name) == /\ cpc[k] = "start"
                      /\ Transmit(StatusRequest(k, name))
                      /\ Goto(k, "status")

\* obtainStatus; no rows: "connection not found".
GetStatus(k) == /\ cpc[k] = "status"
                /\ \E m \in Answers(StatusSocket(k)) :
                     /\ Deliver(m)
                     /\ \/ m.rows = {} /\ Goto(k, "failed")
                        \/ /\ m.rows # {}
                           /\ \E R \in Collected(k, m.rows) : Enter(k, "free", R)

NoStatus(k) == /\ cpc[k] = "status"
               /\ Goto(k, "failed")
               /\ UNCHANGED vars

\* The loop of getTCPConnection takes one that it has not tried: in some order,
\* for the order of the code begins anywhere.
Take(k, c, where) == /\ cpc[k] = "next" /\ c \in todo[k]
                     /\ todo' = [todo EXCEPT ![k] = @ \ {c}]
                     /\ target' = [target EXCEPT ![k] = c]
                     /\ cpc' = [cpc EXCEPT ![k] = where]
                     /\ UNCHANGED <<phase, rows, port>>

TryFree(k, c) == /\ phase[k] = "free"
                 /\ Take(k, c, "make")
                 /\ Transmit(Request(k, "MAKE", c))

\* reqTCPConnection returns at once: whoever steals takes no free one.
SkipFree(k, c) == /\ phase[k] = "steal" /\ c \in Free(rows[k])
                  /\ Take(k, c, "next")
                  /\ UNCHANGED vars

TrySteal(k, c) == /\ phase[k] = "steal" /\ c \in Expired(rows[k])
                  /\ Take(k, c, "break")
                  /\ Transmit(Request(k, "BREAK", c))

\* Nothing is left to try: makeConnection tries to steal, then gives up.
TryNoMore(k) == /\ cpc[k] = "next" /\ todo[k] = {}
                /\ IF phase[k] = "free" THEN Enter(k, "steal", rows[k])
                                        ELSE Goto(k, "failed")
                /\ UNCHANGED vars

\* A request has failed: the next one, or the end for a named connection.
TryNext(k) == Goto(k, IF phase[k] = "named" THEN "failed" ELSE "next")

\* reqGeneric takes whatever reply comes first.
BreakAnswer(k) == /\ cpc[k] = "break"
                  /\ \E m \in Answers(RequestSocket(k)) :
                       /\ Deliver(m)
                       /\ IF m.resp = "RESP_OK" THEN Goto(k, "usleep")
                                                ELSE TryNext(k)

MakeAfterBreak(k) == /\ cpc[k] = "usleep"
                     /\ Transmit(Request(k, "MAKE", target[k]))
                     /\ Goto(k, "make")

MakeAnswer(k) == /\ cpc[k] = "make"
                 /\ \E m \in Answers(RequestSocket(k)) :
                      /\ Deliver(m)
                      /\ \/ /\ m.resp = "RESP_OK"
                            /\ port' = [port EXCEPT ![k] = m.port]
                            /\ cpc' = [cpc EXCEPT ![k] = "connect"]
                            /\ UNCHANGED <<phase, rows, todo, target>>
                         \/ m.resp # "RESP_OK" /\ TryNext(k)

\* STIMEOUT.
NoAnswer(k) == /\ cpc[k] \in {"break", "make"}
               /\ TryNext(k)
               /\ UNCHANGED vars

\* Somebody listens at the port that program k was told; a reply that has no
\* port is read as port 0.
Listens(k) == port[k] \in Pids /\ proc[port[k]] \in {"listening", "accepting"}

Connect(k) == /\ cpc[k] = "connect"
              /\ IF Listens(k) THEN Goto(k, "session") ELSE TryNext(k)
              /\ UNCHANGED vars

-----------------------------------------------------------------------------
(* The session.                                                            *)

\* keepalive, from a third socket; TOUCH has no reply.
Keepalive(k) == /\ cpc[k] = "session"
                /\ SendRequest(Request(k, "TOUCH", target[k]))
                /\ UNCHANGED client

\* The user quits, or the other end has closed.
Quits(k) == /\ cpc[k] = "session"
            /\ cpc' = [cpc EXCEPT ![k] = "done"]
            /\ port' = [port EXCEPT ![k] = BADPID]
            /\ UNCHANGED <<phase, rows, todo, target>>
            /\ UNCHANGED vars

-----------------------------------------------------------------------------
(* The system: the programs, the daemon and its children.  The kernel      *)
(* hands ports out in turn: a new child gets none that a reply or a        *)
(* program still holds.  The other processes of Consoled are left out.     *)

NewPort(p) == /\ \A m \in net : m.port # p
              /\ \A k \in Programs : port[k] # p

DaemonStep == /\ Daemon \/ Control
              /\ pc' = "record" /\ pc # "record" => NewPort(forked')
              /\ UNCHANGED client

\* A child accepts a program that has connected.
AcceptProgram(p) == /\ Accept(p)
                    /\ \E k \in Programs : cpc[k] = "session" /\ port[k] = p
                    /\ UNCHANGED client

ChildActs(p) == /\ \/ PortReply(p) \/ ListenFails(p) \/ AcceptTimeout(p)
                   \/ SessionEnd(p) \/ Die(p)
                /\ UNCHANGED client

Lose(m) == Deliver(m) /\ UNCHANGED client

Program(k) == \/ GetStatus(k) \/ NoStatus(k) \/ TryNoMore(k)
              \/ BreakAnswer(k) \/ MakeAfterBreak(k) \/ MakeAnswer(k) \/ NoAnswer(k)
              \/ Connect(k) \/ Keepalive(k) \/ Quits(k)
              \/ \E name \in Names : AskStatus(k, name)
              \/ \E c \in Conns : AskNamed(k, c)
              \/ \E c \in Conns \union {NoConn} :
                   TryFree(k, c) \/ SkipFree(k, c) \/ TrySteal(k, c)

SysInit == /\ Init
           /\ cpc = [k \in Programs |-> "start"]
           /\ phase = [k \in Programs |-> "named"]
           /\ rows = [k \in Programs |-> {}]
           /\ todo = [k \in Programs |-> {}]
           /\ target = [k \in Programs |-> NoConn]
           /\ port = [k \in Programs |-> BADPID]

SysNext == \/ DaemonStep
           \/ \E p \in Pids : AcceptProgram(p) \/ ChildActs(p)
           \/ \E m \in net : Lose(m)
           \/ Tick /\ UNCHANGED client
           \/ \E k \in Programs : Program(k)

SysSpec == SysInit /\ [][SysNext]_<<vars, client>>
=============================================================================

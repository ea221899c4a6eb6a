-------------------------- MODULE ConsoleClientProofs --------------------------
(***************************************************************************)
(* Theorems about runs of xinu-console with the daemon, for any number of  *)
(* programs, users and connections.  A step of the system is a step of the *)
(* daemon's specification, so what is proved of the daemon holds here too; *)
(* PortInv follows a port from fork to the program, and JobInv a login     *)
(* name from a request to the child.                                       *)
(***************************************************************************)
EXTENDS ConsoleClientProps, ConsoledRefines

sysvars == <<vars, client>>

\* What program k may have sent.
Issued(k) == {r \in Requests : /\ r.user = LoginOf[k]
                               /\ r.from \in {StatusSocket(k), RequestSocket(k)}}

\* Every request that is sent is one of the sender's.
LEMMA RequestsAreIssued ==
    ASSUME NEW k \in Programs
    PROVE  /\ \A name \in Names : StatusRequest(k, name) \in Issued(k)
           /\ \A code \in {"MAKE", "BREAK", "TOUCH"}, c \in Conns \union {NoConn} :
                Request(k, code, c) \in Issued(k)
<1>1. ASSUME NEW name \in Names PROVE StatusRequest(k, name) \in Issued(k)
  <2>1. StatusRequest(k, name) \in Requests
    BY ProgramAssumption
  <2> QED
    BY <2>1 DEF Issued, StatusRequest
<1>2. ASSUME NEW code \in {"MAKE", "BREAK", "TOUCH"}, NEW c \in Conns \union {NoConn}
      PROVE  Request(k, code, c) \in Issued(k)
  <2>1. Request(k, code, c) \in Requests
    BY ProgramAssumption
  <2> QED
    BY <2>1 DEF Issued, Request
<1> QED
  BY <1>1, <1>2

\* What a program does to the daemon: it sends a request of its own, takes a
\* reply from the network, or does nothing.
Touches(k) == \/ \E r \in Issued(k) : SendRequest(r)
              \/ \E m \in net : Deliver(m)
              \/ UNCHANGED vars

LEMMA ProgramTouches ==
    ASSUME ClientTypes, NEW k \in Programs, Program(k)
    PROVE  Touches(k)
<1>1. ASSUME NEW r \in Issued(k), Transmit(r) PROVE Touches(k)
  BY <1>1 DEF Transmit, Touches
<1>2. CASE GetStatus(k) \/ BreakAnswer(k) \/ MakeAnswer(k)
  BY <1>2 DEF GetStatus, BreakAnswer, MakeAnswer, Answers, Touches
<1>3. CASE NoStatus(k) \/ TryNoMore(k) \/ NoAnswer(k) \/ Connect(k) \/ Quits(k)
  BY <1>3 DEF NoStatus, TryNoMore, NoAnswer, Connect, Quits, Touches
<1>4. CASE MakeAfterBreak(k)
  <2>1. target[k] \in Conns \union {NoConn}
    BY DEF ClientTypes
  <2> QED
    BY <1>1, <1>4, <2>1, RequestsAreIssued DEF MakeAfterBreak
<1>5. CASE Keepalive(k)
  <2>1. target[k] \in Conns \union {NoConn}
    BY DEF ClientTypes
  <2> QED
    BY <1>5, <2>1, RequestsAreIssued DEF Keepalive, Touches
<1>6. ASSUME NEW name \in Names, AskStatus(k, name) PROVE Touches(k)
  BY <1>1, <1>6, RequestsAreIssued DEF AskStatus
<1>7. ASSUME NEW c \in Conns, AskNamed(k, c) PROVE Touches(k)
  BY <1>1, <1>7, RequestsAreIssued DEF AskNamed
<1>8. ASSUME NEW c \in Conns \union {NoConn}, TryFree(k, c) \/ TrySteal(k, c)
      PROVE  Touches(k)
  BY <1>1, <1>8, RequestsAreIssued DEF TryFree, TrySteal
<1>9. ASSUME NEW c \in Conns \union {NoConn}, SkipFree(k, c) PROVE Touches(k)
  BY <1>9 DEF SkipFree, Touches
<1> QED
  BY <1>2, <1>3, <1>4, <1>5, <1>6, <1>7, <1>8, <1>9 DEF Program

\* The types of the clients' variables.
LEMMA ClientTypesNext ==
    ASSUME TypeOK, ClientTypes, [SysNext]_sysvars
    PROVE  ClientTypes'
<1>1. ASSUME UNCHANGED client PROVE ClientTypes'
  BY <1>1 DEF ClientTypes, client
<1>2. ASSUME NEW k \in Programs, Program(k) PROVE ClientTypes'
  <2>1. CASE NoStatus(k) \/ NoAnswer(k) \/ Connect(k) \/ BreakAnswer(k)
             \/ MakeAfterBreak(k)
    BY <2>1 DEF NoStatus, NoAnswer, Connect, BreakAnswer, MakeAfterBreak, Goto,
       TryNext, ClientTypes
  <2>2. CASE Keepalive(k) \/ Quits(k) \/ \E name \in Names : AskStatus(k, name)
    BY <2>2 DEF Keepalive, Quits, AskStatus, Goto, client, ClientTypes
  <2>3. CASE MakeAnswer(k)
    <3>1. \A m \in net : m.port \in Pids \union {BADPID}
      BY DEF TypeOK, Replies
    <3> QED
      BY <2>3, <3>1 DEF MakeAnswer, Answers, TryNext, Goto, ClientTypes
  <2>4. ASSUME NEW c \in Conns \union {NoConn},
               TryFree(k, c) \/ SkipFree(k, c) \/ TrySteal(k, c)
        PROVE  ClientTypes'
    BY <2>4 DEF TryFree, SkipFree, TrySteal, Take, ClientTypes
  <2>5. ASSUME NEW c \in Conns, AskNamed(k, c) PROVE ClientTypes'
    BY <2>5 DEF AskNamed, ClientTypes
  <2> DEFINE Known == Rows \union UNION {Unfilled(l) : l \in Programs}
  <2>6. ASSUME NEW ph \in {"free", "steal"}, NEW R \in SUBSET Known, Enter(k, ph, R)
        PROVE  ClientTypes'
    <3>1. Free(R) \union Expired(R) \subseteq Conns \union {NoConn}
      BY DEF Free, Expired, Rows, Unfilled
    <3>2. todo' \in [Programs -> SUBSET (Conns \union {NoConn})]
      BY <2>6, <3>1 DEF Enter, ClientTypes
    <3>3. /\ cpc' \in [Programs -> {"start", "status", "next", "break", "usleep", "make",
                             "connect", "session", "failed", "done", "SIGFPE"}]
          /\ phase' \in [Programs -> {"named", "free", "steal"}]
      BY <2>6 DEF Enter, ClientTypes
    <3>4. rows' \in [Programs -> SUBSET Known]
      BY <2>6 DEF Enter, ClientTypes
    <3> QED
      BY <2>6, <3>2, <3>3, <3>4 DEF Enter, ClientTypes
  <2>7. CASE GetStatus(k)
    <3>1. PICK m \in net :
            \/ Goto(k, "failed")
            \/ \E R \in Collected(k, m.rows) : Enter(k, "free", R)
      BY <2>7 DEF GetStatus, Answers
    <3>2. m.rows \subseteq Rows
      BY DEF TypeOK, Replies
    <3>3. \A R \in Collected(k, m.rows) : R \subseteq Known
      BY <3>2 DEF Collected, Read
    <3>4. CASE Goto(k, "failed")
      BY <3>4 DEF Goto, ClientTypes
    <3> QED
      BY <2>6, <3>1, <3>3, <3>4
  <2>8. CASE TryNoMore(k)
    <3>1. rows[k] \in SUBSET Known
      BY DEF ClientTypes
    <3>2. CASE Goto(k, "failed")
      BY <3>2 DEF Goto, ClientTypes
    <3> QED
      BY <2>6, <2>8, <3>1, <3>2 DEF TryNoMore
  <2> QED
    BY <1>2, <2>1, <2>2, <2>3, <2>4, <2>5, <2>7, <2>8 DEF Program
<1> QED
  BY <1>1, <1>2 DEF SysNext, DaemonStep, AcceptProgram, ChildActs, Lose, sysvars

-----------------------------------------------------------------------------
(* The system is the daemon, with clients that are programs.               *)

\* Each step of the system is one that Consoled allows, or none.
LEMMA SysStep ==
    ASSUME ClientTypes, [SysNext]_sysvars
    PROVE  [Next]_vars
<1>1. ASSUME NEW k \in Programs, Program(k) PROVE [Next]_vars
  <2>1. Touches(k)
    BY <1>1, ProgramTouches
  <2> QED
    BY <2>1 DEF Touches, Issued, Network, Next
<1>2. CASE DaemonStep \/ (Tick /\ UNCHANGED client)
  BY <1>2 DEF DaemonStep, Next
<1>3. ASSUME NEW p \in Pids, AcceptProgram(p) \/ ChildActs(p) PROVE [Next]_vars
  BY <1>3 DEF AcceptProgram, ChildActs, Process, Next
<1>4. ASSUME NEW m \in net, Lose(m) PROVE [Next]_vars
  BY <1>4 DEF Lose, Network, Next
<1> QED
  BY <1>1, <1>2, <1>3, <1>4 DEF SysNext, sysvars

\* The daemon's invariants hold of the system.
SysInv == TableInv /\ ClientTypes

LEMMA SysInvariant == SysSpec => []SysInv
<1>1. SysInit => SysInv
  <2> SUFFICES ASSUME SysInit PROVE SysInv
    OBVIOUS
  <2>1. TableInv
    BY TableInit DEF SysInit
  <2> QED
    BY <2>1 DEF SysInit, SysInv, ClientTypes
<1>2. SysInv /\ [SysNext]_sysvars => SysInv'
  BY SysStep, TableNext, ClientTypesNext DEF SysInv, TableInv
<1> QED
  BY <1>1, <1>2, PTL DEF SysSpec, sysvars

\* Every variable of the daemon, the network and the programs keeps its type.
THEOREM SystemTypeCorrect == SysSpec => []ClientTypeOK
BY SysInvariant, PTL DEF SysInv, TableInv, ClientTypeOK

\* A run of the system is a run of the daemon with some clients: what is proved
\* of Spec holds of SysSpec.
THEOREM SystemIsDaemon == SysSpec => Spec
<1>1. SysInit => Init
  BY DEF SysInit
<1>2. SysInv /\ [SysNext]_sysvars => [Next]_vars
  BY SysStep DEF SysInv
<1> QED
  BY <1>1, <1>2, SysInvariant, PTL DEF SysSpec, Spec, sysvars

\* With these programs as its clients, each of which may be anywhere between two of its
\* requests and answers, the daemon implements the safety part of the abstract lock.
THEOREM SystemImplementsLockSafely ==
    ASSUME EndsCleanly
    PROVE  SysSpec => Lock!SafeSpec
BY SystemIsDaemon, ImplementsLockSafely, PTL

-----------------------------------------------------------------------------
(* Ports.                                                                  *)

\* A reply that holds the port of a child goes to the program that the child
\* was forked for.
RepliesAreOwn ==
    \A m \in net : m.port \in Pids /\ proc[m.port] \in Live =>
        job[m.port].req.from = m.to

PortInv == RepliesAreOwn /\ PortIsOwn

\* What a step may do to the children that listen or work, and to replies.
Keeps == /\ \A p \in Pids : proc'[p] \in Live =>
               proc[p] \in Live /\ job'[p] = job[p]
         /\ \A m \in net' : m \in net \/ m.port = BADPID

\* A reply to a request has no port.
LEMMA AnswerHasNoPort ==
    ASSUME NEW to, NEW resp, NEW mesg, Send(Message(to, resp, mesg))
    PROVE  \A m \in net' : m \in net \/ m.port = BADPID
BY DEF Send, Message

LEMMA KillKeeps ==
    ASSUME TypeOK, NEW ps, NEW heirs, Kill(ps, heirs), UNCHANGED net
    PROVE  Keeps
BY DEF Kill, Keeps, Live

LEMMA ExitKeeps ==
    ASSUME TypeOK, NEW p \in Pids, Exit(p), UNCHANGED net
    PROVE  Keeps
BY DEF Exit, Keeps, Live, TypeOK

\* The daemon adds no child but by fork.
LEMMA DaemonKeeps ==
    ASSUME TypeOK, Daemon \/ Control,
           \A c \in Conns, p \in Pids : ~ Fork(c, p)
    PROVE  Keeps
<1>1. CASE UNCHANGED <<proc, job, net>>
  BY <1>1 DEF Keeps
<1>2. CASE MainLoop
  <2>1. CASE Open \/ Receive \/ ReceiveTimeout \/ Clear \/ ReapDone
    BY <1>1, <2>1 DEF Open, Receive, ReceiveTimeout, Clear, ReapDone, children, wire
  <2>2. CASE OpenFails
    BY <2>2, KillKeeps DEF OpenFails, wire
  <2>3. ASSUME NEW p \in Pids, Reap(p) PROVE Keeps
    BY <2>3 DEF Reap, Keeps, Live, TypeOK, wire
  <2> QED
    BY <1>2, <2>1, <2>2, <2>3 DEF MainLoop
<1>3. CASE ProcessRequest
  <2>1. CASE Refuse \/ Touch \/ ForkFails
    BY <1>1, <2>1 DEF Refuse, Touch, ForkFails, children
  <2>2. ASSUME NEW resp, NEW mesg, ServerReplyMesg(resp, mesg), UNCHANGED children
        PROVE  Keeps
    BY <2>2, AnswerHasNoPort DEF ServerReplyMesg, children, Keeps
  <2>3. CASE BadVersion \/ Invalid \/ MakeRefused \/ BreakRefused
    BY <2>2, <2>3 DEF BadVersion, Invalid, MakeRefused, BreakRefused, Answer
  <2>4. CASE SetVerbose
    BY <2>2, <2>4 DEF SetVerbose
  <2>5. CASE Status
    BY <2>5 DEF Status, Send, Message, children, Keeps
  <2>6. ASSUME NEW c \in Conns, Record(c) PROVE Keeps
    BY <1>1, <2>6 DEF Record, children, wire
  <2>7. ASSUME NEW c \in Conns, Break(c) PROVE Keeps
    <3>1. \A m \in net' : m \in net \/ m.port = BADPID
      BY <2>7, AnswerHasNoPort DEF Break, ServerReplyMesg
    <3> QED
      BY <2>7, <3>1 DEF Break, Kill, Keeps, Live
  <2> QED
    BY <1>3, <2>1, <2>3, <2>4, <2>5, <2>6, <2>7 DEF ProcessRequest
<1>4. CASE Control
  <2>1. CASE SignalHup \/ Start
    BY <1>1, <2>1 DEF SignalHup, Start, children, wire
  <2>2. CASE Reboot \/ RebootFails \/ Quit \/ Terminate
    BY <2>2, KillKeeps DEF Reboot, RebootFails, Quit, Terminate, Fresh
  <2> QED
    BY <1>4, <2>1, <2>2 DEF Control
<1> QED
  BY <1>2, <1>3, <1>4 DEF Daemon

\* A step that adds no port and no child keeps the ports where they belong.
LEMMA PortStep ==
    ASSUME PortInv, Keeps, UNCHANGED port
    PROVE  PortInv'
<1>1. RepliesAreOwn'
  BY NameAssumption DEF PortInv, RepliesAreOwn, Keeps
<1>2. PortIsOwn'
  BY DEF PortInv, PortIsOwn, Keeps
<1> QED
  BY <1>1, <1>2 DEF PortInv

LEMMA PortNext ==
    ASSUME SysInv, PortInv, [SysNext]_sysvars
    PROVE  PortInv'
<1>a. TypeOK /\ ClientTypes
  BY DEF SysInv, TableInv
<1>1. CASE DaemonStep
  <2>1. ASSUME NEW c \in Conns, NEW p \in Pids, Fork(c, p) PROVE PortInv'
    <3>1. NewPort(p) /\ UNCHANGED <<net, port>>
      BY <1>1, <2>1 DEF DaemonStep, Fork, Serving, Allowed, wire, client
    <3>2. \A q \in Pids \ {p} : proc'[q] = proc[q] /\ job'[q] = job[q]
      BY <1>a, <2>1 DEF Fork, TypeOK
    <3>3. RepliesAreOwn'
      BY <3>1, <3>2 DEF NewPort, PortInv, RepliesAreOwn
    <3>4. PortIsOwn'
      BY <3>1, <3>2 DEF NewPort, PortInv, PortIsOwn
    <3> QED
      BY <3>3, <3>4 DEF PortInv
  <2>2. CASE \A c \in Conns, p \in Pids : ~ Fork(c, p)
    BY <1>1, <1>a, <2>2, DaemonKeeps, PortStep DEF DaemonStep, client
  <2> QED
    BY <2>1, <2>2
<1>2. ASSUME NEW p \in Pids, AcceptProgram(p) PROVE PortInv'
  <2>1. Keeps
    BY <1>2, <1>a DEF AcceptProgram, Accept, Keeps, TypeOK, Live, wire
  <2> QED
    BY <1>2, <2>1, PortStep DEF AcceptProgram, client
<1>3. ASSUME NEW p \in Pids, ChildActs(p) PROVE PortInv'
  <2>1. CASE PortReply(p)
    <3>1. /\ proc[p] \in Live /\ UNCHANGED <<job, port>>
          /\ \A q \in Pids : proc'[q] \in Live => proc[q] \in Live
      BY <1>3, <1>a, <2>1 DEF PortReply, ChildActs, client, Live, TypeOK
    <3>2. \A m \in net' : m \in net \/ (m.port = p /\ m.to = job[p].req.from)
      BY <2>1 DEF PortReply, Send, Message
    <3>3. RepliesAreOwn'
      BY <3>1, <3>2 DEF PortInv, RepliesAreOwn
    <3>4. PortIsOwn'
      BY <3>1 DEF PortInv, PortIsOwn
    <3> QED
      BY <3>3, <3>4 DEF PortInv
  <2>2. CASE ListenFails(p) \/ AcceptTimeout(p) \/ SessionEnd(p) \/ Die(p)
    <3>1. Keeps
      BY <1>a, <2>2, ExitKeeps DEF ListenFails, AcceptTimeout, SessionEnd, Die,
         Outside, wire
    <3> QED
      BY <1>3, <3>1, PortStep DEF ChildActs, client
  <2> QED
    BY <1>3, <2>1, <2>2 DEF ChildActs
<1>4. ASSUME NEW k \in Programs, Program(k) PROVE PortInv'
  <2>1. Touches(k)
    BY <1>4, <1>a, ProgramTouches
  <2>2. UNCHANGED <<proc, job>> /\ net' \subseteq net
    BY <2>1 DEF Touches, SendRequest, Deliver, children, vars, wire
  <2>3. Keeps /\ RepliesAreOwn'
    BY <2>2 DEF Keeps, PortInv, RepliesAreOwn
  <2>4. CASE MakeAnswer(k)
    <3>1. PICK m \in net : /\ m.to = RequestSocket(k)
                           /\ port' = port \/ port' = [port EXCEPT ![k] = m.port]
      BY <2>4 DEF MakeAnswer, Answers, TryNext, Goto
    <3>2. \A l \in Programs : port'[l] = port[l] \/ (l = k /\ port'[l] = m.port)
      BY <3>1, <1>a DEF ClientTypes
    <3>3. PortIsOwn'
      BY <2>2, <3>1, <3>2 DEF PortInv, PortIsOwn, RepliesAreOwn
    <3> QED
      BY <2>3, <3>3 DEF PortInv
  <2>5. CASE Quits(k)
    <3>1. \A l \in Programs : port'[l] = port[l] \/ port'[l] = BADPID
      BY <2>5, <1>a DEF Quits, ClientTypes
    <3>2. PortIsOwn'
      BY <2>2, <3>1, NameAssumption DEF PortInv, PortIsOwn
    <3> QED
      BY <2>3, <3>2 DEF PortInv
  <2>6. CASE ~ MakeAnswer(k) /\ ~ Quits(k)
    <3>1. UNCHANGED port
      BY <1>4, <2>6 DEF Program, GetStatus, NoStatus, TryNoMore, BreakAnswer,
         MakeAfterBreak, NoAnswer, Connect, Keepalive, AskStatus, AskNamed, TryFree,
         SkipFree, TrySteal, Take, TryNext, Goto, Enter, client
    <3> QED
      BY <2>3, <3>1, PortStep
  <2> QED
    BY <2>4, <2>5, <2>6
<1>5. CASE (\E m \in net : Lose(m)) \/ (Tick /\ UNCHANGED client) \/ UNCHANGED sysvars
  <2>1. Keeps /\ UNCHANGED port
    BY <1>5 DEF Lose, Deliver, Tick, Keeps, children, wire, client, sysvars, vars
  <2> QED
    BY <2>1, PortStep
<1> QED
  BY <1>1, <1>2, <1>3, <1>4, <1>5 DEF SysNext

LEMMA PortInvariant == SysSpec => []PortInv
<1>1. SysInit => PortInv
  BY NameAssumption DEF SysInit, Init, PortInv, RepliesAreOwn, PortIsOwn
<1>2. SysInv /\ PortInv /\ [SysNext]_sysvars => PortInv'
  BY PortNext
<1> QED
  BY <1>1, <1>2, SysInvariant, PTL DEF SysSpec, sysvars

\* However late a reply comes, the port in it leads to a child that was forked
\* for the program that reads it, or to nobody.
THEOREM PortIsOwnAlways == SysSpec => []PortIsOwn
BY PortInvariant, PTL DEF PortInv

-----------------------------------------------------------------------------
(* Whose children.                                                         *)

\* A request in the buffer, or being served, is some program's.
QueueIsIssued == \A i \in 1..Len(queue) :
                    queue[i] # NoRequest => \E k \in Programs : queue[i] \in Issued(k)

CurIsIssued == cur # NoRequest => \E k \in Programs : cur \in Issued(k)

\* So is the request of a child that listens or works, and it has a line.
LiveHasJob == \A p \in Pids : proc[p] \in Live =>
                 /\ job[p].conn \in Conns
                 /\ \E k \in Programs : job[p].req \in Issued(k)

\* Who works has a port.
SessionHasPort == \A k \in Programs : cpc[k] = "session" => port[k] \in Pids

JobInv == QueueIsIssued /\ CurIsIssued /\ LiveHasJob /\ SessionHasPort

\* A step that keeps the children keeps their jobs.
LEMMA KeepsJobs ==
    ASSUME LiveHasJob, Keeps
    PROVE  LiveHasJob'
BY DEF LiveHasJob, Keeps

\* The buffer after a request has come in.
LEMMA QueueNext ==
    ASSUME TypeOK, QueueIsIssued, NEW k \in Programs, NEW r \in Issued(k), SendRequest(r)
    PROVE  QueueIsIssued'
<1>1. queue' = Append(queue, r) /\ queue \in Seq(Requests \union {NoRequest})
  BY DEF SendRequest, TypeOK
<1>2. r \in Requests \union {NoRequest}
  BY DEF Issued
<1>3. Len(queue') = Len(queue) + 1 /\ Len(queue) \in Nat
  BY <1>1, <1>2
<1>4. ASSUME NEW i \in 1..Len(queue') PROVE queue'[i] = r \/ (i \in 1..Len(queue) /\ queue'[i] = queue[i])
  BY <1>1, <1>2, <1>3
<1> QED
  BY <1>4 DEF QueueIsIssued

\* The daemon takes requests from the buffer and forgets them.
LEMMA DaemonRequests ==
    ASSUME TypeOK, QueueIsIssued, CurIsIssued, Daemon \/ Control
    PROVE  QueueIsIssued' /\ CurIsIssued'
<1>1. CASE Receive
  <2>1. /\ queue # <<>> /\ cur' = Head(queue) /\ queue' = Tail(queue)
        /\ queue \in Seq(Requests \union {NoRequest})
    BY <1>1 DEF Receive, TypeOK
  <2>2. cur' = queue[1] /\ 1 \in 1..Len(queue)
    BY <2>1
  <2>3. ASSUME NEW i \in 1..Len(queue')
        PROVE  i + 1 \in 1..Len(queue) /\ queue'[i] = queue[i + 1]
    BY <2>1
  <2>4. QueueIsIssued'
    BY <2>3 DEF QueueIsIssued
  <2>5. CurIsIssued'
    BY <2>2 DEF QueueIsIssued, CurIsIssued
  <2> QED
    BY <2>4, <2>5
<1>2. CASE queue' = queue /\ (cur' = cur \/ cur' = NoRequest)
  BY <1>2 DEF QueueIsIssued, CurIsIssued
<1>3. CASE queue' = <<>> /\ cur' = NoRequest
  BY <1>3 DEF QueueIsIssued, CurIsIssued
<1>4. CASE MainLoop
  <2>1. CASE Open \/ OpenFails \/ ReceiveTimeout \/ Clear \/ ReapDone
    BY <1>2, <2>1 DEF Open, OpenFails, ReceiveTimeout, Clear, ReapDone, memory, wire
  <2>2. ASSUME NEW p \in Pids, Reap(p) PROVE QueueIsIssued' /\ CurIsIssued'
    BY <1>2, <2>2 DEF Reap, wire
  <2> QED
    BY <1>1, <1>4, <2>1, <2>2 DEF MainLoop
<1>5. CASE ProcessRequest
  <2>1. CASE Served
    BY <1>2, <2>1 DEF Served
  <2>2. ASSUME NEW c \in Conns, NEW p \in Pids, Fork(c, p)
        PROVE  QueueIsIssued' /\ CurIsIssued'
    BY <1>2, <2>2 DEF Fork, wire
  <2>3. ASSUME NEW c \in Conns, Record(c) PROVE QueueIsIssued' /\ CurIsIssued'
    BY <1>2, <2>3 DEF Record, wire
  <2> QED
    BY <1>5, <2>1, <2>2, <2>3 DEF ProcessRequest, Refuse, BadVersion, SetVerbose,
       Invalid, Status, Touch, MakeRefused, BreakRefused, ForkFails, Break, Answer
<1>6. CASE Control
  BY <1>2, <1>3, <1>6 DEF Control, SignalHup, Reboot, RebootFails, Quit, Terminate,
     Start, Fresh, memory, wire
<1> QED
  BY <1>4, <1>5, <1>6 DEF Daemon

LEMMA JobNext ==
    ASSUME SysInv, JobInv, [SysNext]_sysvars
    PROVE  JobInv'
<1>a. TypeOK /\ ClientTypes
  BY DEF SysInv, TableInv
<1>b. ASSUME UNCHANGED client PROVE SessionHasPort'
  BY <1>b DEF JobInv, SessionHasPort, client
<1>c. ASSUME UNCHANGED <<cur, queue>> PROVE QueueIsIssued' /\ CurIsIssued'
  BY <1>c DEF JobInv, QueueIsIssued, CurIsIssued
<1>1. CASE DaemonStep
  <2>1. QueueIsIssued' /\ CurIsIssued'
    BY <1>1, <1>a, DaemonRequests DEF DaemonStep, JobInv
  <2>2. ASSUME NEW c \in Conns, NEW p \in Pids, Fork(c, p) PROVE LiveHasJob'
    <3>1. cur \in Requests
      BY <2>2 DEF Fork, Serving, Allowed, SysInv, TableInv, ServesRequest
    <3>2. \E k \in Programs : cur \in Issued(k)
      BY <3>1, RequestAssumption DEF JobInv, CurIsIssued
    <3>3. /\ \A q \in Pids \ {p} : proc'[q] = proc[q] /\ job'[q] = job[q]
          /\ job'[p].conn = c /\ job'[p].req = cur
      BY <1>a, <2>2 DEF Fork, TypeOK
    <3> QED
      BY <3>2, <3>3 DEF JobInv, LiveHasJob, Issued
  <2>3. ASSUME \A c \in Conns, p \in Pids : ~ Fork(c, p) PROVE LiveHasJob'
    BY <1>1, <1>a, <2>3, DaemonKeeps, KeepsJobs DEF DaemonStep, JobInv
  <2> QED
    BY <1>1, <1>b, <2>1, <2>2, <2>3 DEF DaemonStep, JobInv
<1>2. ASSUME NEW p \in Pids, AcceptProgram(p) \/ ChildActs(p) PROVE JobInv'
  <2>1. CASE PortReply(p) \/ Accept(p)
    <3>1. \A q \in Pids : proc'[q] \in Live => proc[q] \in Live
      BY <1>a, <2>1 DEF PortReply, Accept, TypeOK, Live
    <3>2. UNCHANGED <<cur, queue, job>>
      BY <2>1 DEF PortReply, Accept, memory, wire
    <3>3. LiveHasJob'
      BY <3>1, <3>2 DEF JobInv, LiveHasJob
    <3> QED
      BY <1>2, <1>b, <1>c, <3>2, <3>3 DEF AcceptProgram, ChildActs, JobInv
  <2>2. CASE ListenFails(p) \/ AcceptTimeout(p) \/ SessionEnd(p) \/ Die(p)
    <3>1. Exit(p) /\ UNCHANGED <<cur, queue, net>>
      BY <2>2 DEF ListenFails, AcceptTimeout, SessionEnd, Die, Outside, memory, wire
    <3>2. LiveHasJob'
      BY <1>a, <3>1, ExitKeeps, KeepsJobs DEF JobInv
    <3> QED
      BY <1>2, <1>b, <1>c, <3>1, <3>2 DEF AcceptProgram, ChildActs, JobInv
  <2> QED
    BY <1>2, <2>1, <2>2 DEF AcceptProgram, ChildActs
<1>3. ASSUME NEW k \in Programs, Program(k) PROVE JobInv'
  <2>1. Touches(k)
    BY <1>3, <1>a, ProgramTouches
  <2>2. UNCHANGED <<cur, proc, job>>
    BY <2>1 DEF Touches, SendRequest, Deliver, memory, children, vars
  <2>3. LiveHasJob' /\ CurIsIssued'
    BY <2>2 DEF JobInv, LiveHasJob, CurIsIssued
  <2>4. QueueIsIssued'
    <3>1. CASE UNCHANGED queue
      BY <3>1 DEF JobInv, QueueIsIssued
    <3> QED
      BY <1>a, <2>1, <3>1, QueueNext DEF Touches, Deliver, JobInv, vars, wire
  <2>5. SessionHasPort'
    <3>1. CASE Connect(k)
      BY <1>a, <3>1 DEF Connect, Listens, Goto, TryNext, ClientTypes, JobInv,
         SessionHasPort
    <3>2. CASE MakeAnswer(k)
      BY <1>a, <3>2 DEF MakeAnswer, Goto, TryNext, ClientTypes, JobInv, SessionHasPort
    <3>3. CASE Quits(k) \/ Keepalive(k)
      BY <1>a, <3>3 DEF Quits, Keepalive, client, ClientTypes, JobInv, SessionHasPort
    <3>4. CASE GetStatus(k) \/ TryNoMore(k)
      BY <1>a, <3>4 DEF GetStatus, TryNoMore, Enter, Goto, ClientTypes, JobInv,
         SessionHasPort
    <3>5. CASE \/ NoStatus(k) \/ BreakAnswer(k) \/ MakeAfterBreak(k) \/ NoAnswer(k)
               \/ \E name \in Names : AskStatus(k, name)
      BY <1>a, <3>5 DEF NoStatus, BreakAnswer, MakeAfterBreak, NoAnswer, AskStatus,
         TryNext, Goto, ClientTypes, JobInv, SessionHasPort
    <3>6. ASSUME NEW c, \/ AskNamed(k, c) \/ TryFree(k, c) \/ SkipFree(k, c)
                        \/ TrySteal(k, c)
          PROVE  SessionHasPort'
      BY <1>a, <3>6 DEF AskNamed, TryFree, SkipFree, TrySteal, Take, ClientTypes,
         JobInv, SessionHasPort
    <3> QED
      BY <1>3, <3>1, <3>2, <3>3, <3>4, <3>5, <3>6 DEF Program
  <2> QED
    BY <2>3, <2>4, <2>5 DEF JobInv
<1>4. CASE (\E m \in net : Lose(m)) \/ (Tick /\ UNCHANGED client) \/ UNCHANGED sysvars
  <2>1. Keeps /\ UNCHANGED <<cur, queue, client>>
    BY <1>4 DEF Lose, Deliver, Tick, Keeps, memory, children, wire, sysvars, vars
  <2> QED
    BY <1>b, <1>c, <2>1, KeepsJobs DEF JobInv
<1> QED
  BY <1>1, <1>2, <1>3, <1>4 DEF SysNext

LEMMA JobInvariant == SysSpec => []JobInv
<1>1. SysInit => JobInv
  BY DEF SysInit, Init, JobInv, QueueIsIssued, CurIsIssued, LiveHasJob, Live,
     SessionHasPort
<1>2. SysInv /\ JobInv /\ [SysNext]_sysvars => JobInv'
  BY JobNext
<1> QED
  BY <1>1, <1>2, SysInvariant, PTL DEF SysSpec, sysvars

\* The child at a program's port was forked for that program's user, and the
\* ports of two programs differ.
LEMMA WorksForItsUser ==
    ASSUME PortInv, JobInv, NEW k \in Programs, Works(k)
    PROVE  /\ port[k] \in Pids /\ proc[port[k]] \in Live
           /\ job[port[k]].conn \in Conns
           /\ job[port[k]].req.user = LoginOf[k]
           /\ job[port[k]].req.from = RequestSocket(k)
<1>1. port[k] \in Pids /\ proc[port[k]] \in Live
  BY DEF Works, JobInv, SessionHasPort, Live
<1>2. job[port[k]].req.from = RequestSocket(k)
  BY <1>1 DEF PortInv, PortIsOwn
<1>3. PICK l \in Programs : job[port[k]].req \in Issued(l)
  BY <1>1 DEF JobInv, LiveHasJob
<1>4. l = k
  BY <1>2, <1>3 DEF Issued, StatusSocket, RequestSocket
<1> QED
  BY <1>1, <1>2, <1>3, <1>4 DEF JobInv, LiveHasJob, Issued

\* Two programs never work on one line, if nothing but SIGINT and SIGQUIT ends
\* the daemon, whoever steals from whom.
THEOREM OneProgramPerLineAlways ==
    ASSUME EndsCleanly
    PROVE  SysSpec => []OneProgramPerLine
<1>1. PortInv /\ JobInv /\ OneProcessPerLine => OneProgramPerLine
  <2> SUFFICES ASSUME PortInv, JobInv, OneProcessPerLine,
                      NEW k \in Programs, NEW l \in Programs,
                      Works(k), Works(l), job[port[k]].conn = job[port[l]].conn
               PROVE  k = l
    BY DEF OneProgramPerLine
  <2> DEFINE c == job[port[k]].conn
  <2>1. c \in Conns /\ port[k] \in Pids /\ port[l] \in Pids
    BY WorksForItsUser
  <2>2. OnLine(port[k], c) /\ OnLine(port[l], c)
    BY WorksForItsUser DEF OnLine
  <2>3. port[k] = port[l]
    BY <2>1, <2>2 DEF OneProcessPerLine
  <2>4. RequestSocket(k) = RequestSocket(l)
    BY <2>3, WorksForItsUser
  <2> QED
    BY <2>4 DEF RequestSocket
<1> QED
  BY <1>1, PortInvariant, JobInvariant, SystemIsDaemon, OneProcessPerLineAlways, PTL

\* A daemon that nothing stops serves for ever.
Undisturbed == Events = {}

StaysOpen == pc # "exited" /\ ~ hup /\ (pc = "bind" => holds = {})

LEMMA OpenAlways ==
    ASSUME Undisturbed
    PROVE  Spec => []StaysOpen
<1>1. Init => StaysOpen
  BY DEF Init, StaysOpen
<1>2. ASSUME StaysOpen, Daemon PROVE StaysOpen'
  <2>1. UNCHANGED hup
    BY <1>2 DEF StaysOpen, Daemon, MainLoop, ProcessRequest, Open, OpenFails, Receive,
       ReceiveTimeout, Clear, ReapDone, Reap, Refuse, BadVersion, SetVerbose, Invalid,
       Status, Touch, MakeRefused, BreakRefused, ForkFails, Fork, Record, Break,
       Answer, Served, signals
  <2>2. pc' # "exited" /\ pc' # "bind"
    BY <1>2 DEF StaysOpen, Daemon, MainLoop, ProcessRequest, Open, OpenFails, Receive,
       ReceiveTimeout, Clear, ReapDone, Reap, Refuse, BadVersion, SetVerbose, Invalid,
       Status, Touch, MakeRefused, BreakRefused, ForkFails, Fork, Record, Break,
       Answer, Served
  <2> QED
    BY <1>2, <2>1, <2>2 DEF StaysOpen
<1>3. ASSUME StaysOpen, Control PROVE FALSE
  BY <1>3 DEF StaysOpen, Undisturbed, Control, SignalHup, Reboot, RebootFails, Quit,
     Terminate, Start
<1>4. ASSUME StaysOpen, NEW p \in Pids, Process(p) PROVE StaysOpen'
  <2>1. UNCHANGED <<pc, hup>>
    BY <1>4 DEF Process, PortReply, Accept, ListenFails, AcceptTimeout, SessionEnd,
       Die, OtherStarts, OtherEnds, Outside, signals
  <2>2. holds' \subseteq holds
    BY <1>4 DEF Process, PortReply, Accept, ListenFails, AcceptTimeout, SessionEnd,
       Die, OtherStarts, OtherEnds, Exit
  <2> QED
    BY <1>4, <2>1, <2>2 DEF StaysOpen
<1>5. ASSUME StaysOpen, Network \/ Tick \/ UNCHANGED vars PROVE StaysOpen'
  BY <1>5 DEF StaysOpen, Network, SendRequest, Deliver, Tick, signals, children, vars
<1>6. StaysOpen /\ [Next]_vars => StaysOpen'
  BY <1>2, <1>3, <1>4, <1>5 DEF Next
<1> QED
  BY <1>1, <1>6, PTL DEF Spec

\* With a daemon that nothing stops, whoever works on a line is who the daemon
\* has in its table for that line.
THEOREM SessionIsReservedAlways ==
    ASSUME Undisturbed
    PROVE  SysSpec => []SessionIsReserved
<1>1. EndsCleanly
  BY DEF Undisturbed, EndsCleanly
<1>2. PortInv /\ JobInv /\ RefInv /\ StaysOpen => SessionIsReserved
  <2> SUFFICES ASSUME PortInv, JobInv, RefInv, StaysOpen,
                      NEW k \in Programs, NEW c \in Conns,
                      Works(k), job[port[k]].conn = c
               PROVE  \/ conpid[c] = port[k] /\ user[c] = LoginOf[k]
                      \/ BeingRecorded(port[k], c)
    BY DEF SessionIsReserved
  <2>1. OnLine(port[k], c) /\ port[k] \in Pids
    BY WorksForItsUser DEF OnLine
  <2>2. port[k] \in kids
    BY <2>1 DEF RefInv, NoOrphans, StaysOpen
  <2> QED
    BY <2>1, <2>2, WorksForItsUser DEF RefInv, LineInv, LineIsReserved
<1> QED
  BY <1>1, <1>2, PortInvariant, JobInvariant, SystemIsDaemon, RefInvariant, OpenAlways, PTL
=============================================================================

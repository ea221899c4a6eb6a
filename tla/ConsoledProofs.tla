---------------------------- MODULE ConsoledProofs ----------------------------
(***************************************************************************)
(* Theorems about the console daemon, for every configuration file, every  *)
(* set of requests and every number of processes.  The inductive invariant *)
(* TableInv says what holds at every point of the loop; the theorems       *)
(* at the end follow from it.                                              *)
(***************************************************************************)
EXTENDS ConsoledProps, TLAPS

\* A request is being served, or none is: what recvfromRequest's -1 decides.
ServesRequest == pc \in {"serve", "record"} => cur \in Requests

\* A child that is still to send its port has the request it was forked for.
ListenerHasRequest == \A p \in Pids : proc[p] = "listening" => job[p].req \in Requests

\* A child is on a line, or a zombie: its number is not in other hands.
ChildrenAreChildren ==
    \A p \in kids : proc[p] \in Live \union {"dying", "zombie"}

\* A daemon that has not opened its socket, or that has ended, has no locks.
EmptyWhenDown ==
    pc \in {"bind", "exited"} => \A c \in Conns : conpid[c] = BADPID

\* The number that wait3 has returned is no child's any more.
ReapedIsGone == pc = "clear" => reaped \in Pids /\ reaped \notin kids

\* The number that fork has returned is a child's, in no entry yet, and the
\* entry it is meant for is free.
ForkedIsNew ==
    pc = "record" => /\ forked \in kids
                     /\ \A c \in Conns : conpid[c] # forked
                     /\ \A c \in Conns : Found(cur, c) => conpid[c] = BADPID

TableInv == /\ TypeOK
            /\ ServesRequest
            /\ ListenerHasRequest
            /\ ChildrenAreChildren
            /\ EmptyWhenDown
            /\ ReapedIsGone
            /\ ForkedIsNew
            /\ TableNamesChildren

-----------------------------------------------------------------------------
(* Operators of the model.                                                 *)

\* getcondata is deterministic: at most one entry is the first that matches.
LEMMA FoundUnique ==
    ASSUME NEW r, NEW c \in Conns, NEW d \in Conns, Found(r, c), Found(r, d)
    PROVE  c = d
<1>1. Conns \subseteq Nat
  BY ConfigAssumption DEF Conns
<1>2. c <= d /\ d <= c
  BY DEF Found
<1> QED
  BY <1>1, <1>2

\* Sending keeps the network well-typed.
LEMMA SendType ==
    ASSUME NEW m \in Replies, net \subseteq Replies, Send(m)
    PROVE  net' \subseteq Replies
BY DEF Send

\* A plain message to a client of a request is a reply.
LEMMA MessageType ==
    ASSUME NEW to \in Clients, NEW resp \in {"RESP_OK", "RESP_ERR"},
           NEW mesg \in Mesgs
    PROVE  Message(to, resp, mesg) \in Replies
BY DEF Message, Replies

\* What the kernel does on kill and on exit keeps the process table well-typed.
LEMMA KillType ==
    ASSUME TypeOK, NEW ps, NEW heirs \in SUBSET Pids, Kill(ps, heirs)
    PROVE  /\ proc' \in [Pids -> ProcStates]
           /\ job' = job /\ kids' \subseteq Pids /\ holds' = holds
BY DEF TypeOK, Kill, ProcStates

LEMMA ExitType ==
    ASSUME TypeOK, NEW p \in Pids, Exit(p)
    PROVE  /\ proc' \in [Pids -> ProcStates]
           /\ job' \in [Pids -> [conn : Conns \union {NoConn},
                                 req : Requests \union {NoRequest}]]
           /\ kids' \subseteq Pids /\ holds' \subseteq Pids
BY DEF TypeOK, Exit, ProcStates, NoJob

LEMMA FreshType ==
    ASSUME TypeOK, NEW where \in {"bind", "exited"}, Fresh(where)
    PROVE  /\ pc' = where
           /\ user' \in [Conns -> Users \union {NoUser}]
           /\ conpid' \in [Conns -> Pids \union {BADPID}]
           /\ idle' \in [Conns -> 0..MaxIdle]
           /\ cur' \in Requests \union {NoRequest}
           /\ reaped' \in Pids \union {BADPID}
           /\ forked' \in Pids \union {BADPID}
           /\ verbose' \in BOOLEAN
           /\ queue' \in Seq(Requests \union {NoRequest})
           /\ net' \subseteq Replies
<1>1. 0 \in 0..MaxIdle
  BY BoundAssumption
<1>2. /\ user' \in [Conns -> Users \union {NoUser}]
      /\ conpid' \in [Conns -> Pids \union {BADPID}]
      /\ idle' \in [Conns -> 0..MaxIdle]
  BY <1>1 DEF Fresh, EmptyTable
<1>3. queue' \in Seq(Requests \union {NoRequest})
  BY DEF Fresh
<1>4. net' \subseteq Replies
  BY DEF TypeOK, Fresh
<1> QED
  BY <1>2, <1>3, <1>4 DEF Fresh

-----------------------------------------------------------------------------
(* Types.                                                                  *)

\* The reply to a request that is being served has its sender's address.
LEMMA AnswerType ==
    ASSUME TypeOK, ServesRequest, pc \in {"serve", "record"},
           NEW resp \in {"RESP_OK", "RESP_ERR"}, NEW mesg \in Mesgs,
           ServerReplyMesg(resp, mesg)
    PROVE  net' \subseteq Replies
<1>1. cur.from \in Clients
  BY RequestAssumption DEF ServesRequest, IsRequest
<1>2. Message(cur.from, resp, mesg) \in Replies
  BY <1>1, MessageType
<1> QED
  BY <1>2, SendType DEF ServerReplyMesg, TypeOK

LEMMA TypeNext ==
    ASSUME TypeOK, ServesRequest, ListenerHasRequest, [Next]_vars
    PROVE  TypeOK'
<1> USE DEF memory, table, signals, children, wire
<1>1. CASE MainLoop
  <2>1. CASE Open
    BY <2>1 DEF Open, TypeOK
  <2>2. CASE OpenFails
    BY <2>2, KillType DEF OpenFails, TypeOK
  <2>3. CASE Receive
    <3>1. Head(queue) \in Requests \union {NoRequest}
          /\ Tail(queue) \in Seq(Requests \union {NoRequest})
      BY <2>3 DEF Receive, TypeOK
    <3> QED
      BY <2>3, <3>1 DEF Receive, TypeOK
  <2>4. CASE ReceiveTimeout
    BY <2>4 DEF ReceiveTimeout, TypeOK
  <2>5. CASE Clear
    <3>1. /\ user' \in [Conns -> Users \union {NoUser}]
          /\ conpid' \in [Conns -> Pids \union {BADPID}]
      BY <2>5 DEF Clear, TypeOK
    <3>2. idle' \in [Conns -> 0..MaxIdle]
      BY <2>5, BoundAssumption DEF Clear, TypeOK
    <3> QED
      BY <2>5, <3>1, <3>2 DEF Clear, TypeOK
  <2>6. CASE ReapDone
    BY <2>6 DEF ReapDone, TypeOK
  <2>7. ASSUME NEW p \in Pids, Reap(p) PROVE TypeOK'
    BY <2>7 DEF Reap, TypeOK, ProcStates
  <2> QED
    BY <1>1, <2>1, <2>2, <2>3, <2>4, <2>5, <2>6, <2>7 DEF MainLoop
<1>2. CASE ProcessRequest
  <2>1. CASE Refuse
    BY <2>1 DEF Refuse, Served, TypeOK
  <2>2. ASSUME NEW resp \in {"RESP_OK", "RESP_ERR"}, NEW mesg \in Mesgs,
               pc = "serve", Answer(resp, mesg)
        PROVE  TypeOK'
    BY <2>2, AnswerType DEF Answer, Served, TypeOK
  <2>3. CASE BadVersion \/ Invalid \/ MakeRefused \/ BreakRefused
    BY <2>3, <2>2 DEF BadVersion, Invalid, MakeRefused, BreakRefused, Serving,
                      Allowed, Mesgs
  <2>4. CASE SetVerbose
    <3>1. net' \subseteq Replies
      BY <2>4, AnswerType DEF SetVerbose, Serving, Allowed, Mesgs
    <3> QED
      BY <2>4, <3>1 DEF SetVerbose, Served, TypeOK
  <2>5. CASE Status
    <3> DEFINE rows == {[conn |-> c, user |-> user[c], idle |-> idle[c]] :
                        c \in Asked(cur)}
               m == [Message(cur.from, "RESP_OK", "status") EXCEPT !.rows = rows]
    <3>1. cur.from \in Clients
      BY <2>5, RequestAssumption DEF Status, Serving, Allowed, ServesRequest,
                                     IsRequest
    <3>2. Message(cur.from, "RESP_OK", "status") \in Replies
      BY <3>1, MessageType DEF Mesgs
    <3>3. rows \subseteq Rows
      BY DEF Asked, Rows, TypeOK
    <3>4. m \in Replies
      BY <3>2, <3>3 DEF Replies
    <3>5. net' \subseteq Replies
      BY <2>5, <3>4, SendType DEF Status, TypeOK
    <3> QED
      BY <2>5, <3>5 DEF Status, Served, TypeOK
  <2>6. CASE Touch
    <3>1. idle' \in [Conns -> 0..MaxIdle]
      BY <2>6, BoundAssumption DEF Touch, TypeOK
    <3> QED
      BY <2>6, <3>1 DEF Touch, Served, TypeOK
  <2>7. CASE ForkFails
    BY <2>7 DEF ForkFails, Served, TypeOK
  <2>8. ASSUME NEW c \in Conns, NEW p \in Pids, Fork(c, p) PROVE TypeOK'
    <3>1. cur \in Requests
      BY <2>8 DEF Fork, Serving, Allowed, ServesRequest
    <3>2. /\ proc' \in [Pids -> ProcStates]
          /\ job' \in [Pids -> [conn : Conns \union {NoConn},
                                req : Requests \union {NoRequest}]]
      BY <2>8, <3>1 DEF Fork, TypeOK, ProcStates, Live
    <3> QED
      BY <2>8, <3>2 DEF Fork, TypeOK
  <2>9. ASSUME NEW c \in Conns, Record(c) PROVE TypeOK'
    <3>1. cur.user \in Users
      BY <2>9, RequestAssumption DEF Record, ServesRequest, IsRequest
    <3>2. idle' \in [Conns -> 0..MaxIdle]
      BY <2>9, BoundAssumption DEF Record, TypeOK
    <3> QED
      BY <2>9, <3>1, <3>2 DEF Record, TypeOK
  <2>10. ASSUME NEW c \in Conns, Break(c) PROVE TypeOK'
    <3>1. net' \subseteq Replies
      BY <2>10, AnswerType DEF Break, Serving, Allowed, Mesgs
    <3>2. kids \in SUBSET Pids
      BY DEF TypeOK
    <3>3. /\ proc' \in [Pids -> ProcStates]
          /\ job' = job /\ kids' \subseteq Pids /\ holds' = holds
      BY <2>10, <3>2, KillType DEF Break
    <3> QED
      BY <2>10, <3>1, <3>3 DEF Break, Served, TypeOK
  <2> QED
    BY <1>2, <2>1, <2>3, <2>4, <2>5, <2>6, <2>7, <2>8, <2>9, <2>10
    DEF ProcessRequest
<1>3. CASE Control
  <2>1. CASE SignalHup
    BY <2>1 DEF SignalHup, TypeOK
  <2>2. ASSUME NEW ps, NEW heirs \in SUBSET Pids, Kill(ps, heirs),
               NEW where \in {"bind", "exited"}, Fresh(where),
               hup' = FALSE, hupBlocked' \in BOOLEAN
        PROVE  TypeOK'
    BY <2>2, KillType, FreshType DEF TypeOK
  <2>3. CASE Reboot
    <3>1. (IF Background THEN {} ELSE kids) \in SUBSET Pids
      BY DEF TypeOK
    <3> QED
      BY <2>3, <2>2, <3>1 DEF Reboot
  <2>4. CASE RebootFails \/ Quit \/ Terminate
    BY <2>4, <2>2 DEF RebootFails, Quit, Terminate, TypeOK
  <2>5. CASE Start
    BY <2>5 DEF Start, TypeOK
  <2> QED
    BY <1>3, <2>1, <2>3, <2>4, <2>5 DEF Control
<1>4. ASSUME NEW p \in Pids, Process(p) PROVE TypeOK'
  <2>1. CASE PortReply(p)
    <3>1. job[p].req.from \in Clients
      BY <2>1, RequestAssumption DEF PortReply, ListenerHasRequest, IsRequest
    <3>2. Message(job[p].req.from, "RESP_OK", "connect port") \in Replies
      BY <3>1, MessageType DEF Mesgs
    <3>3. [Message(job[p].req.from, "RESP_OK", "connect port") EXCEPT !.port = p]
            \in Replies
      BY <3>2 DEF Replies
    <3>4. net' \subseteq Replies
      BY <2>1, <3>3, SendType DEF PortReply, TypeOK
    <3> QED
      BY <2>1, <3>4 DEF PortReply, TypeOK, ProcStates, Live
  <2>2. CASE Accept(p)
    BY <2>2 DEF Accept, TypeOK, ProcStates, Live
  <2>3. CASE ListenFails(p) \/ AcceptTimeout(p) \/ SessionEnd(p) \/ Die(p)
             \/ OtherEnds(p)
    BY <2>3, ExitType DEF ListenFails, AcceptTimeout, SessionEnd, Die, OtherEnds,
                          Outside, TypeOK
  <2>4. CASE OtherStarts(p)
    BY <2>4 DEF OtherStarts, Outside, TypeOK, ProcStates
  <2> QED
    BY <1>4, <2>1, <2>2, <2>3, <2>4 DEF Process
<1>5. CASE Network
  <2>1. ASSUME NEW r \in Requests \union {NoRequest}, SendRequest(r) PROVE TypeOK'
    <3>1. queue' \in Seq(Requests \union {NoRequest})
      BY <2>1 DEF SendRequest, TypeOK
    <3> QED
      BY <2>1, <3>1 DEF SendRequest, TypeOK
  <2>2. ASSUME NEW m \in net, Deliver(m) PROVE TypeOK'
    BY <2>2 DEF Deliver, TypeOK
  <2> QED
    BY <1>5, <2>1, <2>2 DEF Network
<1>6. CASE Tick
  <2>1. idle' \in [Conns -> 0..MaxIdle]
    BY <1>6, BoundAssumption DEF Tick, TypeOK
  <2> QED
    BY <1>6, <2>1 DEF Tick, TypeOK
<1>7. CASE UNCHANGED vars
  BY <1>7 DEF vars, TypeOK
<1> QED
  BY <1>1, <1>2, <1>3, <1>4, <1>5, <1>6, <1>7 DEF Next, Daemon
-----------------------------------------------------------------------------
(* The table names children that have not been waited for.                 *)

\* The part of TableInv that does not follow from TypeNext.
Inner == /\ ServesRequest
         /\ ListenerHasRequest
         /\ ChildrenAreChildren
         /\ EmptyWhenDown
         /\ ReapedIsGone
         /\ ForkedIsNew
         /\ TableNamesChildren

\* A step that leaves the table and the children alone, and takes the daemon
\* to a place where the invariant asks for nothing new.
LEMMA QuietStep ==
    ASSUME TableInv, UNCHANGED <<conpid, proc, job, kids>>,
           \/ UNCHANGED <<pc, cur, reaped, forked>>
           \/ pc' \in {"recv", "reap"} /\ pc # "clear"
           \/ pc' = "serve" /\ pc # "clear" /\ cur' \in Requests
    PROVE  Inner'
BY DEF TableInv, Inner, ServesRequest, ListenerHasRequest, ChildrenAreChildren,
       EmptyWhenDown, ReapedIsGone, ForkedIsNew, TableNamesChildren, Found,
       Matches

\* A step of the kernel that turns no child into a stranger.
LEMMA ChildStep ==
    ASSUME TableInv, UNCHANGED <<pc, conpid, cur, reaped, forked, kids>>,
           NEW p \in Pids,
           \A q \in Pids \ {p} : proc'[q] = proc[q] /\ job'[q] = job[q],
           p \in kids => proc'[p] \in Live \union {"dying", "zombie"},
           proc'[p] = "listening" => proc[p] = "listening" /\ job'[p] = job[p]
    PROVE  Inner'
BY DEF TableInv, Inner, TypeOK, ServesRequest, ListenerHasRequest,
       ChildrenAreChildren, EmptyWhenDown, ReapedIsGone, ForkedIsNew,
       TableNamesChildren, Found, Matches

\* After Kill no process is listening that was not, and a child is still one.
LEMMA KillStep ==
    ASSUME TableInv, NEW ps, NEW heirs \in SUBSET kids, Kill(ps, heirs)
    PROVE  /\ ListenerHasRequest'
           /\ ChildrenAreChildren'
BY DEF TableInv, TypeOK, Kill, ListenerHasRequest, ChildrenAreChildren, Live

\* A daemon that has lost its memory has an empty table.
LEMMA FreshStep ==
    ASSUME TableInv, NEW ps, NEW heirs \in SUBSET kids, Kill(ps, heirs),
           NEW where \in {"bind", "exited"}, Fresh(where)
    PROVE  Inner'
BY KillStep DEF Inner, Fresh, EmptyTable, ServesRequest, EmptyWhenDown,
                ReapedIsGone, ForkedIsNew, TableNamesChildren

LEMMA TableNext ==
    ASSUME TableInv, [Next]_vars
    PROVE  TableInv'
<1> USE DEF memory, table, signals, children, wire
<1> SUFFICES Inner'
  BY TypeNext DEF TableInv, Inner
<1>1. CASE MainLoop
  <2>1. CASE Open \/ Receive \/ ReceiveTimeout \/ ReapDone
    BY <2>1, QuietStep DEF Open, Receive, ReceiveTimeout, ReapDone, TableInv, TypeOK
  <2>2. CASE OpenFails
    <3>1. ListenerHasRequest' /\ ChildrenAreChildren'
      BY <2>2, KillStep DEF OpenFails
    <3> QED
      BY <2>2, <3>1 DEF OpenFails, Inner, TableInv, ServesRequest, EmptyWhenDown,
                        ReapedIsGone, ForkedIsNew, TableNamesChildren
  <2>3. CASE Clear
    BY <2>3 DEF Clear, TableInv, Inner, TypeOK, ServesRequest, ListenerHasRequest,
                ChildrenAreChildren, EmptyWhenDown, ReapedIsGone, ForkedIsNew,
                TableNamesChildren
  <2>4. ASSUME NEW p \in Pids, Reap(p) PROVE Inner'
    BY <2>4 DEF Reap, TableInv, Inner, TypeOK, ServesRequest, ListenerHasRequest,
                ChildrenAreChildren, EmptyWhenDown, ReapedIsGone, ForkedIsNew,
                TableNamesChildren
  <2> QED
    BY <1>1, <2>1, <2>2, <2>3, <2>4 DEF MainLoop
<1>2. CASE ProcessRequest
  <2>1. CASE Refuse \/ BadVersion \/ SetVerbose \/ Invalid \/ Status \/ Touch
             \/ MakeRefused \/ BreakRefused \/ ForkFails
    BY <2>1, QuietStep DEF Refuse, BadVersion, SetVerbose, Invalid, Status, Touch,
         MakeRefused, BreakRefused, ForkFails, Serving, Allowed, Answer, Served
  <2>2. ASSUME NEW c \in Conns, NEW p \in Pids, Fork(c, p) PROVE Inner'
    <3>1. pc = "serve" /\ cur \in Requests
      BY <2>2 DEF Fork, Serving, Allowed, TableInv, ServesRequest
    <3>2. p \notin kids
      BY <2>2 DEF Fork, TableInv, ChildrenAreChildren, Live
    <3>3. \A d \in Conns : conpid[d] # p
      BY <3>1, <3>2, NameAssumption DEF TableInv, TableNamesChildren
    <3>4. \A d \in Conns : Found(cur, d) => conpid[d] = BADPID
      BY <2>2, FoundUnique DEF Fork, FoundFree
    <3>5. ForkedIsNew'
      BY <2>2, <3>3, <3>4 DEF Fork, ForkedIsNew, Found, Matches
    <3>6. ListenerHasRequest' /\ ChildrenAreChildren'
      BY <2>2, <3>1 DEF Fork, TableInv, TypeOK, ListenerHasRequest,
                        ChildrenAreChildren, Live
    <3>7. TableNamesChildren'
      BY <2>2, <3>1 DEF Fork, TableInv, TableNamesChildren
    <3> QED
      BY <2>2, <3>1, <3>5, <3>6, <3>7 DEF Fork, Inner, ServesRequest,
         EmptyWhenDown, ReapedIsGone
  <2>3. ASSUME NEW c \in Conns, Record(c) PROVE Inner'
    BY <2>3 DEF Record, TableInv, Inner, TypeOK, ServesRequest, ListenerHasRequest,
                ChildrenAreChildren, EmptyWhenDown, ReapedIsGone, ForkedIsNew,
                TableNamesChildren
  <2>4. ASSUME NEW c \in Conns, Break(c) PROVE Inner'
    <3>1. ListenerHasRequest' /\ ChildrenAreChildren'
      BY <2>4, KillStep DEF Break
    <3> QED
      BY <2>4, <3>1 DEF Break, Serving, Allowed, Served, Kill, TableInv, Inner,
         ServesRequest, EmptyWhenDown, ReapedIsGone, ForkedIsNew,
         TableNamesChildren
  <2> QED
    BY <1>2, <2>1, <2>2, <2>3, <2>4 DEF ProcessRequest
<1>3. CASE Control
  <2>1. CASE SignalHup
    BY <2>1, QuietStep DEF SignalHup
  <2>2. CASE Reboot
    BY <2>2, FreshStep DEF Reboot
  <2>3. CASE RebootFails \/ Quit \/ Terminate
    BY <2>3, FreshStep DEF RebootFails, Quit, Terminate
  <2>4. CASE Start
    BY <2>4 DEF Start, TableInv, Inner, ServesRequest, ListenerHasRequest,
                ChildrenAreChildren, EmptyWhenDown, ReapedIsGone, ForkedIsNew,
                TableNamesChildren
  <2> QED
    BY <1>3, <2>1, <2>2, <2>3, <2>4 DEF Control
<1>4. ASSUME NEW p \in Pids, Process(p) PROVE Inner'
  <2>1. CASE PortReply(p) \/ Accept(p)
    BY <2>1, ChildStep DEF PortReply, Accept, TableInv, TypeOK, Live
  <2>2. CASE ListenFails(p) \/ AcceptTimeout(p) \/ SessionEnd(p) \/ Die(p)
             \/ OtherEnds(p)
    BY <2>2, ChildStep DEF ListenFails, AcceptTimeout, SessionEnd, Die, OtherEnds,
                           Exit, Outside, TableInv, TypeOK
  <2>3. CASE OtherStarts(p)
    <3>1. p \notin kids
      BY <2>3 DEF OtherStarts, TableInv, ChildrenAreChildren, Live
    <3> QED
      BY <2>3, <3>1, ChildStep DEF OtherStarts, Outside, TableInv, TypeOK
  <2> QED
    BY <1>4, <2>1, <2>2, <2>3 DEF Process
<1>5. CASE Network \/ Tick
  BY <1>5, QuietStep DEF Network, SendRequest, Deliver, Tick
<1>6. CASE UNCHANGED vars
  BY <1>6, QuietStep DEF vars
<1> QED
  BY <1>1, <1>2, <1>3, <1>4, <1>5, <1>6 DEF Next, Daemon

LEMMA TableInit == Init => TableInv
<1> SUFFICES ASSUME Init PROVE TableInv
  OBVIOUS
<1>1. 0 \in 0..MaxIdle
  BY BoundAssumption
<1>2. TypeOK
  <2>1. queue \in Seq(Requests \union {NoRequest})
    BY DEF Init
  <2>2. idle \in [Conns -> 0..MaxIdle]
    BY <1>1 DEF Init
  <2>3. job \in [Pids -> [conn : Conns \union {NoConn},
                         req : Requests \union {NoRequest}]]
    BY DEF Init, NoJob
  <2> QED
    BY <2>1, <2>2, <2>3 DEF Init, TypeOK, ProcStates
<1> QED
  BY <1>2 DEF Init, TableInv, ServesRequest, ListenerHasRequest, Live,
     ChildrenAreChildren, EmptyWhenDown, ReapedIsGone, ForkedIsNew,
     TableNamesChildren

LEMMA TableInvariant == Spec => []TableInv
BY TableInit, TableNext, PTL DEF Spec

\* Every variable keeps its type, in every state of every daemon.
THEOREM TypeCorrect == Spec => []TypeOK
BY TableInvariant, PTL DEF TableInv

\* The process numbers in the table are those of children that have not been
\* waited for, whatever signals arrive and whichever other processes of the
\* machine start and end.
THEOREM TableNamesChildrenAlways == Spec => []TableNamesChildren
BY TableInvariant, PTL DEF TableInv

-----------------------------------------------------------------------------
(* SIGKILL.                                                                *)

\* Process p has just been sent SIGKILL and is no stranger.
KilledIsChild(p) == proc[p] # "dying" /\ proc'[p] = "dying" =>
                        p \in kids \/ (pc = "clear" /\ reaped = p)

\* Kill, of processes that are in the table, hits children.
LEMMA KillHitsChildren ==
    ASSUME TableInv, NEW ps \in SUBSET Recorded, NEW heirs, Kill(ps, heirs),
           NEW p \in Pids
    PROVE  KilledIsChild(p)
<1>1. CASE p \in ps
  <2>1. PICK c \in Conns : conpid[c] = p
    BY <1>1 DEF Recorded
  <2> QED
    BY <2>1, NameAssumption DEF TableInv, TableNamesChildren, KilledIsChild
<1>2. CASE p \notin ps
  BY <1>2 DEF Kill, KilledIsChild
<1> QED
  BY <1>1, <1>2

LEMMA KillStepsHitChildren ==
    ASSUME TableInv, [Next]_vars, NEW p \in Pids
    PROVE  KilledIsChild(p)
<1> USE DEF memory, table, signals, children, wire
<1>1. CASE MainLoop
  BY <1>1, KillHitsChildren
     DEF MainLoop, Open, OpenFails, Receive, ReceiveTimeout, Clear, ReapDone, Reap,
         TableInv, TypeOK, KilledIsChild
<1>2. CASE ProcessRequest
  <2>1. ASSUME NEW c \in Conns, Break(c) PROVE KilledIsChild(p)
    <3>1. {conpid[c]} \subseteq Recorded
      BY <2>1 DEF Break, FoundTaken, Recorded, TableInv, TypeOK
    <3> QED
      BY <2>1, <3>1, KillHitsChildren DEF Break
  <2>2. ASSUME NEW c \in Conns, NEW q \in Pids, Fork(c, q) PROVE KilledIsChild(p)
    BY <2>2 DEF Fork, TableInv, TypeOK, KilledIsChild
  <2>3. CASE UNCHANGED proc
    BY <2>3 DEF KilledIsChild
  <2> QED
    BY <1>2, <2>1, <2>2, <2>3 DEF ProcessRequest, Refuse, BadVersion, SetVerbose,
       Invalid, Status, Touch, MakeRefused, BreakRefused, ForkFails, Record, Answer
<1>3. CASE Control
  BY <1>3, KillHitsChildren DEF Control, SignalHup, Reboot, RebootFails, Quit,
     Terminate, Start, KilledIsChild
<1>4. ASSUME NEW q \in Pids, Process(q) PROVE KilledIsChild(p)
  BY <1>4 DEF Process, PortReply, Accept, ListenFails, AcceptTimeout, SessionEnd,
     Die, OtherStarts, OtherEnds, Exit, TableInv, TypeOK, KilledIsChild
<1>5. CASE Network \/ Tick \/ UNCHANGED vars
  BY <1>5 DEF Network, SendRequest, Deliver, Tick, vars, KilledIsChild
<1> QED
  BY <1>1, <1>2, <1>3, <1>4, <1>5 DEF Next, Daemon

\* The daemon never kills a process that is not its own child, but for the
\* signal handler that runs between wait3 and the clearing of the entry.
THEOREM KillsOnlyChildrenAlways == Spec => KillsOnlyChildren
<1>1. TableInv /\ [Next]_vars =>
        [\A p \in Pids : proc[p] # "dying" /\ proc'[p] = "dying" =>
             p \in kids \/ (pc = "clear" /\ reaped = p)]_vars
  BY KillStepsHitChildren DEF KilledIsChild
<1> QED
  BY <1>1, TableInvariant, PTL DEF Spec, KillsOnlyChildren

-----------------------------------------------------------------------------
(* One child per line.  In the foreground a daemon that SIGHUP interrupts  *)
(* between fork and the entry keeps a child that no entry names.           *)

KeepsNoChild == Background \/ "HUP" \notin Events

HupWasSent == hup => "HUP" \in Events

LineInv == TableInv /\ HupWasSent /\ LineIsReserved

\* A step that leaves the table alone, adds no child, and puts no child on a
\* line, keeps the lines reserved.
LEMMA LineStep ==
    ASSUME LineIsReserved, UNCHANGED <<user, conpid>>, kids' \subseteq kids,
           \A p \in kids', c \in Conns :
               OnLine(p, c)' => OnLine(p, c) /\ job'[p] = job[p],
           pc # "record" \/ UNCHANGED <<pc, cur, forked>>
    PROVE  LineIsReserved'
BY DEF LineIsReserved, BeingRecorded, Found, Matches

\* Kill puts nobody on a line who was not there.
LEMMA KillKeepsLines ==
    ASSUME TableInv, NEW ps, NEW heirs \in SUBSET kids, Kill(ps, heirs)
    PROVE  /\ kids' \subseteq kids
           /\ \A p \in kids', c \in Conns :
                OnLine(p, c)' => OnLine(p, c) /\ job'[p] = job[p]
BY DEF TableInv, TypeOK, ChildrenAreChildren, Kill, OnLine, Live

LEMMA LineNext ==
    ASSUME LineInv, [Next]_vars, KeepsNoChild
    PROVE  LineInv'
<1> USE DEF memory, table, signals, children, wire
<1>a. TableInv'
  BY TableNext DEF LineInv
<1>b. HupWasSent'
  <2>1. CASE UNCHANGED hup
    BY <2>1 DEF LineInv, HupWasSent
  <2>2. CASE Control
    BY <2>2 DEF Control, SignalHup, Reboot, RebootFails, Quit, Terminate, Start,
                LineInv, HupWasSent
  <2> QED
    BY <2>1, <2>2 DEF Next, Daemon, MainLoop, Open, OpenFails, Receive,
       ReceiveTimeout, Clear, ReapDone, Reap, ProcessRequest, Refuse, BadVersion,
       SetVerbose, Invalid, Status, Touch, MakeRefused, BreakRefused, ForkFails,
       Fork, Record, Break, Answer, Served, Process, PortReply, Accept,
       ListenFails, AcceptTimeout, SessionEnd, Die, OtherStarts, OtherEnds,
       Outside, Network, SendRequest, Deliver, Tick, vars
<1> SUFFICES LineIsReserved'
  BY <1>a, <1>b DEF LineInv
<1> USE DEF LineInv
<1>1. CASE MainLoop
  <2>1. CASE Open \/ Receive \/ ReceiveTimeout \/ ReapDone
    BY <2>1, LineStep DEF Open, Receive, ReceiveTimeout, ReapDone, OnLine
  <2>2. CASE OpenFails
    BY <2>2 DEF OpenFails, Kill, LineIsReserved
  <2>3. CASE Clear
    BY <2>3 DEF Clear, TableInv, TypeOK, ReapedIsGone, LineIsReserved, OnLine,
                BeingRecorded
  <2>4. ASSUME NEW p \in Pids, Reap(p) PROVE LineIsReserved'
    BY <2>4, LineStep DEF Reap, TableInv, TypeOK, OnLine
  <2> QED
    BY <1>1, <2>1, <2>2, <2>3, <2>4 DEF MainLoop
<1>2. CASE ProcessRequest
  <2>1. CASE Refuse \/ BadVersion \/ SetVerbose \/ Invalid \/ Status \/ Touch
             \/ MakeRefused \/ BreakRefused \/ ForkFails
    BY <2>1, LineStep DEF Refuse, BadVersion, SetVerbose, Invalid, Status, Touch,
       MakeRefused, BreakRefused, ForkFails, Serving, Allowed, Answer, Served,
       OnLine
  <2>2. ASSUME NEW c \in Conns, NEW p \in Pids, Fork(c, p) PROVE LineIsReserved'
    <3>1. /\ job'[p].conn = c /\ job'[p].req = cur
          /\ \A q \in kids \ {p} : job'[q] = job[q] /\ proc'[q] = proc[q]
      BY <2>2 DEF Fork, TableInv, TypeOK
    <3>2. \A d \in Conns : OnLine(p, d)' => BeingRecorded(p, d)'
      BY <2>2, <3>1 DEF Fork, FoundFree, OnLine, BeingRecorded, Found, Matches
    <3>3. \A q \in kids, d \in Conns : OnLine(q, d) => conpid[d] = q
                                                       /\ user[d] = job[q].req.user
      BY <2>2 DEF LineIsReserved, BeingRecorded, Fork, Serving, Allowed
    <3>4. \A q \in kids \ {p}, d \in Conns :
            OnLine(q, d)' => conpid'[d] = q /\ user'[d] = job'[q].req.user
      BY <2>2, <3>1, <3>3 DEF Fork, OnLine
    <3> QED
      BY <2>2, <3>2, <3>4 DEF Fork, LineIsReserved
  <2>3. ASSUME NEW c \in Conns, Record(c) PROVE LineIsReserved'
    <3>1. conpid[c] = BADPID
      BY <2>3 DEF Record, TableInv, ForkedIsNew
    <3> SUFFICES ASSUME NEW p \in kids, NEW d \in Conns, OnLine(p, d)
                 PROVE  conpid'[d] = p /\ user'[d] = job[p].req.user
      BY <2>3 DEF Record, LineIsReserved, OnLine
    <3>2. CASE conpid[d] = p /\ user[d] = job[p].req.user
      BY <2>3, <3>1, <3>2, NameAssumption DEF Record, TableInv, TypeOK
    <3>3. CASE BeingRecorded(p, d)
      <4>1. d = c
        BY <2>3, <3>3, FoundUnique DEF Record, BeingRecorded
      <4> QED
        BY <2>3, <3>3, <4>1 DEF Record, BeingRecorded, TableInv, TypeOK
    <3> QED
      BY <3>2, <3>3 DEF LineIsReserved
  <2>4. ASSUME NEW c \in Conns, Break(c) PROVE LineIsReserved'
    BY <2>4, KillKeepsLines, LineStep DEF Break, Serving, Allowed
  <2> QED
    BY <1>2, <2>1, <2>2, <2>3, <2>4 DEF ProcessRequest
<1>3. CASE Control
  <2>1. CASE SignalHup \/ Start
    BY <2>1, LineStep DEF SignalHup, Start, OnLine
  <2>2. CASE Reboot \/ RebootFails \/ Quit \/ Terminate
    <3>1. kids' = {}
      BY <2>2 DEF Reboot, RebootFails, Quit, Terminate, Kill, KeepsNoChild,
                  HupWasSent
    <3> QED
      BY <3>1 DEF LineIsReserved
  <2> QED
    BY <1>3, <2>1, <2>2 DEF Control
<1>4. ASSUME NEW p \in Pids, Process(p) PROVE LineIsReserved'
  <2>1. CASE PortReply(p) \/ Accept(p)
    BY <2>1, LineStep DEF PortReply, Accept, TableInv, TypeOK, OnLine, Live
  <2>2. CASE ListenFails(p) \/ AcceptTimeout(p) \/ SessionEnd(p) \/ Die(p)
             \/ OtherEnds(p)
    BY <2>2, LineStep DEF ListenFails, AcceptTimeout, SessionEnd, Die, OtherEnds,
       Exit, Outside, TableInv, TypeOK, OnLine, Live
  <2>3. CASE OtherStarts(p)
    BY <2>3, LineStep DEF OtherStarts, Outside, TableInv, TypeOK, OnLine, Live
  <2> QED
    BY <1>4, <2>1, <2>2, <2>3 DEF Process
<1>5. CASE Network \/ Tick \/ UNCHANGED vars
  BY <1>5, LineStep DEF Network, SendRequest, Deliver, Tick, vars, OnLine
<1> QED
  BY <1>1, <1>2, <1>3, <1>4, <1>5 DEF Next, Daemon

LEMMA LineInvariant ==
    ASSUME KeepsNoChild
    PROVE  Spec => []LineInv
<1>1. Init => LineInv
  BY TableInit DEF Init, LineInv, HupWasSent, LineIsReserved
<1>2. LineInv /\ [Next]_vars => LineInv'
  BY LineNext
<1> QED
  BY <1>1, <1>2, PTL DEF Spec

\* A child that works on a line is in the line's entry under the user who
\* asked for it, from the end of MakeConnection until it has exited.
THEOREM LineIsReservedAlways ==
    ASSUME KeepsNoChild
    PROVE  Spec => []LineIsReserved
BY LineInvariant, PTL DEF LineInv

\* Two children of the daemon never work on one line: the entry names one, and
\* the child that fork has just returned has a free entry.
LEMMA ReservedAlone ==
    ASSUME LineInv
    PROVE  OneChildPerLine
<1> SUFFICES ASSUME NEW p \in kids, NEW q \in kids, NEW c \in Conns,
                    OnLine(p, c), OnLine(q, c)
             PROVE  p = q
  BY DEF OneChildPerLine
<1>1. conpid[c] = p \/ BeingRecorded(p, c)
  BY DEF LineInv, LineIsReserved
<1>2. conpid[c] = q \/ BeingRecorded(q, c)
  BY DEF LineInv, LineIsReserved
<1>3. p # BADPID /\ q # BADPID
  BY NameAssumption DEF LineInv, TableInv, TypeOK
<1>4. \A r \in kids : BeingRecorded(r, c) => conpid[c] = BADPID
  BY DEF LineInv, TableInv, ForkedIsNew, BeingRecorded
<1> QED
  BY <1>1, <1>2, <1>3, <1>4 DEF BeingRecorded

THEOREM OneChildPerLineAlways ==
    ASSUME KeepsNoChild
    PROVE  Spec => []OneChildPerLine
BY LineInvariant, ReservedAlone, PTL
=============================================================================

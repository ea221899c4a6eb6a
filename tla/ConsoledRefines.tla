---------------------------- MODULE ConsoledRefines ----------------------------
(***************************************************************************)
(* The console daemon implements ConsoleLock as long as nothing but SIGINT *)
(* and SIGQUIT ends it: every step of the daemon, of a child or of the     *)
(* kernel grants, finishes or releases one lock, stops the server, or is a *)
(* step that the lock does not see.                                        *)
(***************************************************************************)
EXTENDS ConsoledProofs

EndsCleanly == Events \subseteq {"INT"}

\* A process that is not on a line has no connection.
OffLineHasNoJob ==
    \A p \in Pids : proc[p] \in {"unused", "other", "zombie"} => job[p].conn = NoConn

\* While the daemon runs, whoever works on a line is its child.
NoOrphans ==
    pc # "exited" => \A p \in Pids, c \in Conns : OnLine(p, c) => p \in kids

\* A taken entry has a user.
TakenHasUser == \A c \in Conns : conpid[c] # BADPID => user[c] \in Users

\* No two entries have the same pid.
PidsDiffer ==
    \A c, d \in Conns : conpid[c] = conpid[d] /\ conpid[c] # BADPID => c = d

RefInv == /\ LineInv
          /\ OffLineHasNoJob
          /\ NoOrphans
          /\ TakenHasUser
          /\ PidsDiffer
          /\ OneProcessPerLine

Extra == OffLineHasNoJob /\ NoOrphans /\ TakenHasUser /\ PidsDiffer /\ OneProcessPerLine

-----------------------------------------------------------------------------
(* The invariant.                                                          *)

\* A step that changes no process and no entry.
LEMMA StillStep ==
    ASSUME RefInv, UNCHANGED <<user, conpid, proc, job, kids>>,
           pc = "exited" => pc' = "exited"
    PROVE  Extra'
BY DEF RefInv, Extra, OffLineHasNoJob, NoOrphans, TakenHasUser, PidsDiffer,
       OneProcessPerLine, OnLine

\* A step that changes no entry, puts nobody on a line and, while the daemon
\* runs, lets no child on a line go.
LEMMA LeaveStep ==
    ASSUME RefInv, UNCHANGED <<user, conpid>>, OffLineHasNoJob',
           \A p \in Pids, c \in Conns : OnLine(p, c)' => OnLine(p, c),
           pc' # "exited" =>
               /\ pc # "exited"
               /\ \A p \in kids, c \in Conns : OnLine(p, c)' => p \in kids'
    PROVE  Extra'
BY DEF RefInv, Extra, NoOrphans, TakenHasUser, PidsDiffer, OneProcessPerLine

LEMMA NoConnIsNone == NoConn \notin Conns
BY ConfigAssumption DEF Conns, NoConn

LEMMA ExitLeaves ==
    ASSUME RefInv, NEW p \in Pids, Exit(p)
    PROVE  /\ OffLineHasNoJob'
           /\ \A q \in Pids, c \in Conns : OnLine(q, c)' => OnLine(q, c)
           /\ kids' = kids
BY NoConnIsNone DEF RefInv, LineInv, TableInv, TypeOK, Exit, OffLineHasNoJob, OnLine,
   Live, NoJob

LEMMA KillLeaves ==
    ASSUME RefInv, NEW ps, NEW heirs \in SUBSET kids, Kill(ps, heirs)
    PROVE  /\ OffLineHasNoJob'
           /\ \A q \in Pids, c \in Conns : OnLine(q, c)' <=> OnLine(q, c)
<1>1. job' = job /\ proc' \in [Pids -> ProcStates]
  BY KillType DEF RefInv, LineInv, TableInv, TypeOK
<1>2. ASSUME NEW q \in Pids
      PROVE  \/ proc'[q] = proc[q]
             \/ proc[q] \in Live /\ proc'[q] = "dying"
             \/ proc[q] = "other" /\ proc'[q] = "dying"
             \/ proc[q] = "zombie" /\ proc'[q] = "unused"
  BY DEF Kill, Live
<1>3. OffLineHasNoJob'
  BY <1>1, <1>2 DEF RefInv, OffLineHasNoJob
<1>4. ASSUME NEW q \in Pids, NEW c \in Conns
      PROVE  OnLine(q, c)' <=> OnLine(q, c)
  BY <1>1, <1>2, NoConnIsNone DEF RefInv, OffLineHasNoJob, OnLine, Live
<1> QED
  BY <1>3, <1>4

LEMMA ExtraNext ==
    ASSUME RefInv, [Next]_vars, EndsCleanly
    PROVE  Extra'
<1> USE DEF memory, table, signals, children, wire
<1>a. TableInv /\ HupWasSent
  BY DEF RefInv, LineInv
<1>b. ~ hup
  BY <1>a DEF HupWasSent, EndsCleanly
<1>1. CASE MainLoop
  <2>1. CASE Open \/ Receive \/ ReceiveTimeout \/ ReapDone
    BY <2>1, StillStep DEF Open, Receive, ReceiveTimeout, ReapDone
  <2>2. CASE OpenFails
    BY <2>2, KillLeaves, LeaveStep DEF OpenFails
  <2>3. CASE Clear
    BY <2>3, NameAssumption, <1>a
       DEF Clear, TableInv, TypeOK, ReapedIsGone, RefInv, Extra, OffLineHasNoJob,
           NoOrphans, TakenHasUser, PidsDiffer, OneProcessPerLine, OnLine
  <2>4. ASSUME NEW p \in Pids, Reap(p) PROVE Extra'
    <3>1. OffLineHasNoJob'
      BY <2>4, <1>a DEF Reap, TableInv, TypeOK, RefInv, OffLineHasNoJob
    <3>2. \A q \in Pids, c \in Conns : OnLine(q, c)' => OnLine(q, c) /\ q # p
      BY <2>4, <1>a DEF Reap, TableInv, TypeOK, OnLine, Live
    <3> QED
      BY <2>4, <3>1, <3>2, LeaveStep DEF Reap
  <2> QED
    BY <1>1, <2>1, <2>2, <2>3, <2>4 DEF MainLoop
<1>2. CASE ProcessRequest
  <2>1. CASE Refuse \/ BadVersion \/ SetVerbose \/ Invalid \/ Status \/ Touch
             \/ MakeRefused \/ BreakRefused \/ ForkFails
    BY <2>1, StillStep DEF Refuse, BadVersion, SetVerbose, Invalid, Status, Touch,
       MakeRefused, BreakRefused, ForkFails, Serving, Allowed, Answer, Served
  <2>2. ASSUME NEW c \in Conns, NEW p \in Pids, Fork(c, p) PROVE Extra'
    <3>1. pc = "serve" /\ conpid[c] = BADPID
      BY <2>2 DEF Fork, Serving, Allowed, FoundFree
    <3>2. \A q \in Pids : ~ OnLine(q, c)
      BY <1>a, <3>1, NameAssumption DEF RefInv, NoOrphans, LineInv, LineIsReserved,
         BeingRecorded, TableInv, TypeOK
    <3>3. /\ job'[p].conn = c /\ proc'[p] = "listening"
          /\ \A q \in Pids \ {p} : job'[q] = job[q] /\ proc'[q] = proc[q]
      BY <2>2, <1>a DEF Fork, TableInv, TypeOK
    <3>4. OffLineHasNoJob'
      BY <3>3 DEF RefInv, OffLineHasNoJob
    <3>5. \A d \in Conns : OnLine(p, d)' => d = c
      BY <3>3 DEF OnLine
    <3>6. \A q \in Pids \ {p}, d \in Conns : OnLine(q, d)' <=> OnLine(q, d)
      BY <3>3 DEF OnLine
    <3>7. NoOrphans'
      BY <2>2, <3>1, <3>6 DEF Fork, RefInv, NoOrphans
    <3>8. OneProcessPerLine'
      BY <3>2, <3>5, <3>6 DEF RefInv, OneProcessPerLine
    <3> QED
      BY <2>2, <3>4, <3>7, <3>8 DEF Fork, Extra, RefInv, TakenHasUser, PidsDiffer
  <2>3. ASSUME NEW c \in Conns, Record(c) PROVE Extra'
    <3>1. cur.user \in Users
      BY <2>3, <1>a, RequestAssumption DEF Record, TableInv, ServesRequest, IsRequest
    <3>2. \A d \in Conns : conpid[d] # forked
      BY <2>3, <1>a DEF Record, TableInv, ForkedIsNew
    <3>3. TakenHasUser' /\ PidsDiffer'
      BY <2>3, <1>a, <3>1, <3>2 DEF Record, TableInv, TypeOK, RefInv, TakenHasUser,
         PidsDiffer
    <3> QED
      BY <2>3, <3>3 DEF Record, RefInv, Extra, OffLineHasNoJob, NoOrphans,
         OneProcessPerLine, OnLine
  <2>4. ASSUME NEW c \in Conns, Break(c) PROVE Extra'
    BY <2>4, KillLeaves, LeaveStep DEF Break, Kill, Serving, Allowed
  <2> QED
    BY <1>2, <2>1, <2>2, <2>3, <2>4 DEF ProcessRequest
<1>3. CASE Control
  <2>1. CASE Quit
    <3>1. OffLineHasNoJob' /\ \A p \in Pids, c \in Conns : OnLine(p, c)' => OnLine(p, c)
      BY <2>1, KillLeaves DEF Quit
    <3> QED
      BY <2>1, <3>1 DEF Quit, Fresh, EmptyTable, RefInv, Extra, NoOrphans,
         TakenHasUser, PidsDiffer, OneProcessPerLine
  <2> QED
    BY <1>3, <1>b, <2>1 DEF Control, SignalHup, Reboot, RebootFails, Terminate,
       Start, EndsCleanly
<1>4. ASSUME NEW p \in Pids, Process(p) PROVE Extra'
  <2>1. CASE PortReply(p) \/ Accept(p)
    BY <2>1, <1>a, LeaveStep DEF PortReply, Accept, TableInv, TypeOK, RefInv,
       OffLineHasNoJob, OnLine, Live
  <2>2. CASE ListenFails(p) \/ AcceptTimeout(p) \/ SessionEnd(p) \/ Die(p)
             \/ OtherEnds(p)
    BY <2>2, ExitLeaves, LeaveStep DEF ListenFails, AcceptTimeout, SessionEnd, Die,
       OtherEnds, Outside
  <2>3. CASE OtherStarts(p)
    BY <2>3, <1>a, LeaveStep DEF OtherStarts, Outside, TableInv, TypeOK, RefInv,
       OffLineHasNoJob, OnLine, Live
  <2> QED
    BY <1>4, <2>1, <2>2, <2>3 DEF Process
<1>5. CASE Network \/ Tick \/ UNCHANGED vars
  BY <1>5, StillStep DEF Network, SendRequest, Deliver, Tick, vars
<1> QED
  BY <1>1, <1>2, <1>3, <1>4, <1>5 DEF Next, Daemon

LEMMA RefInvariant ==
    ASSUME EndsCleanly
    PROVE  Spec => []RefInv
<1>1. KeepsNoChild
  BY DEF EndsCleanly, KeepsNoChild
<1>2. Init => RefInv
  <2> SUFFICES ASSUME Init PROVE RefInv
    OBVIOUS
  <2>1. LineInv
    BY TableInit DEF Init, LineInv, HupWasSent, LineIsReserved
  <2>2. Extra
    BY DEF Init, Extra, OffLineHasNoJob, NoOrphans, TakenHasUser, PidsDiffer,
       OneProcessPerLine, OnLine, Live, NoJob
  <2> QED
    BY <2>1, <2>2 DEF RefInv, Extra
<1>3. RefInv /\ [Next]_vars => RefInv'
  BY <1>1, LineNext, ExtraNext DEF RefInv, Extra
<1> QED
  BY <1>2, <1>3, PTL DEF Spec

\* No two processes of the machine ever work on one line, if nothing but
\* SIGINT and SIGQUIT ends the daemon.
THEOREM OneProcessPerLineAlways ==
    ASSUME EndsCleanly
    PROVE  Spec => []OneProcessPerLine
BY RefInvariant, PTL DEF RefInv

\* When the daemon answers a status, every line that a process works on is
\* reserved, under the same condition: an image of the daemon that begins with an
\* empty table would not know who works there.
THEOREM StatusShowsWhoWorksAlways ==
    ASSUME EndsCleanly
    PROVE  Spec => []StatusShowsWhoWorks
<1>1. RefInv => StatusShowsWhoWorks
  <2> SUFFICES ASSUME RefInv, pc = "serve", NEW c \in Conns, NEW p \in Pids, OnLine(p, c)
               PROVE  conpid[c] # BADPID
    BY DEF StatusShowsWhoWorks
  <2>1. p \in kids
    BY DEF RefInv, NoOrphans
  <2>2. conpid[c] = p
    BY <2>1 DEF RefInv, LineInv, LineIsReserved, BeingRecorded
  <2> QED
    BY <2>2, NameAssumption
<1> QED
  BY <1>1, RefInvariant, PTL
-----------------------------------------------------------------------------
(* Steps.  Up is the abstract lock's view of pc.                           *)

Up == pc # "exited"

\* The lock sees nothing.
Unseen == Holder' = Holder /\ Busy' = Busy /\ Up' = Up

\* A step that changes no process leaves the same lines busy.
LEMMA SameBusy ==
    ASSUME UNCHANGED <<proc, job>>
    PROVE  Busy' = Busy
BY DEF Busy, OnLine

\* Away from MakeConnection the holder is what the table says.
LEMMA SameHolder ==
    ASSUME UNCHANGED <<user, conpid>>,
           UNCHANGED <<pc, cur>> \/ (pc # "record" /\ pc' # "record")
    PROVE  Holder' = Holder
BY DEF Holder, Found, Matches

\* Nobody gets on a line or leaves one.
LEMMA SameLines ==
    ASSUME \A p \in Pids, c \in Conns : OnLine(p, c)' <=> OnLine(p, c)
    PROVE  Busy' = Busy
BY DEF Busy

\* A process that exits finishes its line, if it was on one.
LEMMA ExitFinishes ==
    ASSUME RefInv, NEW p \in Pids, Exit(p), Outside
    PROVE  Unseen \/ \E c \in Conns : Lock!Finish(c)
<1>1. Holder' = Holder /\ Up' = Up
  BY SameHolder DEF Outside, memory, table, Up
<1>2. \A q \in Pids \ {p}, c \in Conns : OnLine(q, c)' <=> OnLine(q, c)
  BY DEF Exit, OnLine, RefInv, LineInv, TableInv, TypeOK
<1>3. \A c \in Conns : ~ OnLine(p, c)'
  BY ExitLeaves DEF Exit, OnLine, Live, RefInv, LineInv, TableInv, TypeOK
<1>4. CASE \E c \in Conns : OnLine(p, c)
  <2>1. PICK c \in Conns : OnLine(p, c)
    BY <1>4
  <2>2. \A d \in Conns : OnLine(p, d) => d = c
    BY <2>1 DEF OnLine
  <2>3. \A q \in Pids : OnLine(q, c) => q = p
    BY <2>1 DEF RefInv, OneProcessPerLine
  <2>4. c \in Busy /\ Busy' = Busy \ {c}
    BY <1>2, <1>3, <2>1, <2>2, <2>3 DEF Busy
  <2>5. Lock!Finish(c)
    BY <1>1, <2>4 DEF Lock!Finish, Up
  <2> QED
    BY <2>5
<1>5. CASE ~ \E c \in Conns : OnLine(p, c)
  <2>1. Busy' = Busy
    BY <1>2, <1>3, <1>5, SameLines
  <2> QED
    BY <1>1, <2>1 DEF Unseen
<1> QED
  BY <1>4, <1>5

\* fork grants the lock to the user of the request.
LEMMA ForkGrants ==
    ASSUME RefInv, NEW c \in Conns, NEW p \in Pids, Fork(c, p)
    PROVE  Lock!Grant(c, cur.user)
<1>1. pc = "serve" /\ conpid[c] = BADPID /\ Found(cur, c)
  BY DEF Fork, Serving, Allowed, FoundFree
<1>2. \A q \in Pids : ~ OnLine(q, c)
  BY <1>1, NameAssumption DEF RefInv, NoOrphans, LineInv, LineIsReserved,
     BeingRecorded, TableInv, TypeOK
<1>3. /\ job'[p].conn = c /\ proc'[p] = "listening"
      /\ proc[p] = "unused"
      /\ \A q \in Pids \ {p} : job'[q] = job[q] /\ proc'[q] = proc[q]
  BY DEF Fork, RefInv, LineInv, TableInv, TypeOK
<1>4. Holder[c] = NoUser /\ c \notin Busy
  BY <1>1, <1>2 DEF Holder, Busy
<1>5. Busy' = Busy \union {c}
  BY <1>2, <1>3 DEF Busy, OnLine, Live
<1>6. \A d \in Conns : Found(cur, d) => d = c
  BY <1>1, FoundUnique
<1>7. Holder' = [Holder EXCEPT ![c] = cur.user]
  BY <1>1, <1>6 DEF Fork, table, Holder, Found, Matches
<1> QED
  BY <1>1, <1>4, <1>5, <1>7 DEF Lock!Grant, Fork

\* Clearing the entry of a child that wait3 returned releases its lock.
LEMMA ClearReleases ==
    ASSUME RefInv, Clear
    PROVE  Unseen \/ \E c \in Conns : Lock!Release(c)
<1>1. Busy' = Busy /\ Up' /\ Up
  BY SameBusy DEF Clear, children, Up
<1>2. CASE \E c \in Conns : conpid[c] = reaped
  <2>1. PICK c \in Conns : conpid[c] = reaped
    BY <1>2
  <2>2. conpid[c] # BADPID /\ reaped \notin kids
    BY <2>1, NameAssumption DEF Clear, RefInv, LineInv, TableInv, ReapedIsGone
  <2>3. \A d \in Conns : conpid[d] = reaped <=> d = c
    BY <2>1, <2>2 DEF RefInv, PidsDiffer
  <2>4. Holder[c] # NoUser
    BY <2>2, NameAssumption DEF Holder, RefInv, TakenHasUser
  <2>5. c \notin Busy
    BY <2>1, <2>2 DEF Clear, Busy, RefInv, NoOrphans, LineInv, LineIsReserved,
       BeingRecorded
  <2>6. Holder' = [Holder EXCEPT ![c] = NoUser]
    BY <2>3 DEF Clear, Holder, RefInv, LineInv, TableInv, TypeOK
  <2> QED
    BY <1>1, <2>4, <2>5, <2>6 DEF Lock!Release, Up
<1>3. CASE ~ \E c \in Conns : conpid[c] = reaped
  <2>1. Holder' = Holder
    BY <1>3 DEF Clear, Holder, RefInv, LineInv, TableInv, TypeOK
  <2> QED
    BY <1>1, <2>1 DEF Unseen
<1> QED
  BY <1>2, <1>3

\* CleanUp and exit stop the server.
LEMMA QuitStops ==
    ASSUME RefInv, Quit
    PROVE  Lock!Stop
<1>1. Busy' = Busy
  BY KillLeaves, SameLines DEF Quit
<1>2. Holder' = [c \in Conns |-> NoUser]
  BY DEF Quit, Fresh, EmptyTable, Holder
<1> QED
  BY <1>1, <1>2 DEF Quit, Fresh, Lock!Stop

LEMMA LockStep ==
    ASSUME RefInv, [Next]_vars, EndsCleanly
    PROVE  Lock!Next \/ Unseen
<1> USE DEF memory, table, signals, children, wire
<1>a. TableInv /\ ~ hup
  BY DEF RefInv, LineInv, HupWasSent, EndsCleanly
<1>1. CASE MainLoop
  <2>1. CASE Open \/ Receive \/ ReceiveTimeout \/ ReapDone
    BY <2>1, SameBusy, SameHolder DEF Open, Receive, ReceiveTimeout, ReapDone,
       Unseen, Up
  <2>2. CASE OpenFails
    <3>1. Busy' = Busy
      BY <2>2, KillLeaves, SameLines DEF OpenFails
    <3>2. Holder' = [c \in Conns |-> NoUser]
      BY <2>2, <1>a DEF OpenFails, Holder, TableInv, EmptyWhenDown
    <3> QED
      BY <2>2, <3>1, <3>2 DEF OpenFails, Lock!Stop, Lock!Next
  <2>3. CASE Clear
    BY <2>3, ClearReleases DEF Lock!Next
  <2>4. ASSUME NEW p \in Pids, Reap(p) PROVE Unseen
    <3>1. \A q \in Pids, c \in Conns : OnLine(q, c)' <=> OnLine(q, c)
      BY <2>4, <1>a DEF Reap, TableInv, TypeOK, OnLine, Live
    <3>2. Holder' = Holder
      BY <2>4, SameHolder DEF Reap
    <3> QED
      BY <2>4, <3>1, <3>2, SameLines DEF Reap, Unseen, Up
  <2> QED
    BY <1>1, <2>1, <2>2, <2>3, <2>4 DEF MainLoop
<1>2. CASE ProcessRequest
  <2>1. CASE Refuse \/ BadVersion \/ SetVerbose \/ Invalid \/ Status \/ Touch
             \/ MakeRefused \/ BreakRefused \/ ForkFails
    BY <2>1, SameBusy, SameHolder DEF Refuse, BadVersion, SetVerbose, Invalid,
       Status, Touch, MakeRefused, BreakRefused, ForkFails, Serving, Allowed,
       Answer, Served, Unseen, Up
  <2>2. ASSUME NEW c \in Conns, NEW p \in Pids, Fork(c, p) PROVE Lock!Next
    <3>1. cur.user \in Users
      BY <2>2, <1>a, RequestAssumption DEF Fork, Serving, Allowed, TableInv,
         ServesRequest, IsRequest
    <3> QED
      BY <2>2, <3>1, ForkGrants DEF Lock!Next
  <2>3. ASSUME NEW c \in Conns, Record(c) PROVE Unseen
    <3>1. Busy' = Busy
      BY <2>3, SameBusy DEF Record
    <3>2. conpid[c] = BADPID /\ forked # BADPID /\ pc = "record"
      BY <2>3, <1>a, NameAssumption DEF Record, TableInv, TypeOK, ForkedIsNew
    <3>3. \A d \in Conns : Found(cur, d) => d = c
      BY <2>3, FoundUnique DEF Record
    <3>4. Holder' = Holder
      BY <2>3, <1>a, <3>2, <3>3 DEF Record, Holder, TableInv, TypeOK
    <3> QED
      BY <2>3, <3>1, <3>4 DEF Record, Unseen, Up
  <2>4. ASSUME NEW c \in Conns, Break(c) PROVE Unseen
    <3>1. Busy' = Busy
      BY <2>4, KillLeaves, SameLines DEF Break
    <3> QED
      BY <2>4, <3>1, SameHolder DEF Break, Serving, Allowed, Served, Unseen, Up
  <2> QED
    BY <1>2, <2>1, <2>2, <2>3, <2>4 DEF ProcessRequest
<1>3. CASE Control
  BY <1>3, <1>a, QuitStops DEF Control, SignalHup, Reboot, RebootFails, Terminate,
     Start, EndsCleanly, Lock!Next
<1>4. ASSUME NEW p \in Pids, Process(p) PROVE Lock!Next \/ Unseen
  <2>1. CASE PortReply(p) \/ Accept(p) \/ OtherStarts(p)
    <3>1. \A q \in Pids, c \in Conns : OnLine(q, c)' <=> OnLine(q, c)
      BY <2>1, <1>a DEF PortReply, Accept, OtherStarts, TableInv, TypeOK, OnLine, Live
    <3>2. Holder' = Holder /\ Up' = Up
      BY <2>1, SameHolder DEF PortReply, Accept, OtherStarts, Outside, Up
    <3> QED
      BY <3>1, <3>2, SameLines DEF Unseen
  <2>2. CASE ListenFails(p) \/ AcceptTimeout(p) \/ SessionEnd(p) \/ Die(p)
             \/ OtherEnds(p)
    BY <2>2, ExitFinishes DEF ListenFails, AcceptTimeout, SessionEnd, Die, OtherEnds,
       Lock!Next
  <2> QED
    BY <1>4, <2>1, <2>2 DEF Process
<1>5. CASE Network \/ Tick \/ UNCHANGED vars
  BY <1>5, SameBusy, SameHolder DEF Network, SendRequest, Deliver, Tick, vars,
     Unseen, Up
<1> QED
  BY <1>1, <1>2, <1>3, <1>4, <1>5 DEF Next, Daemon

\* The daemon with its table, its children and the kernel's process numbers
\* implements the safety part of the abstract lock.
THEOREM ImplementsLockSafely ==
    ASSUME EndsCleanly
    PROVE  Spec => Lock!SafeSpec
<1>1. Init => Lock!Init
  BY DEF Init, Lock!Init, Holder, Busy, OnLine, Live
<1>2. RefInv /\ [Next]_vars => [Lock!Next]_(Lock!vars)
  BY LockStep DEF Unseen, Up, Lock!vars
<1> QED
  BY <1>1, <1>2, RefInvariant, PTL DEF Spec, Lock!SafeSpec
==============================================================================

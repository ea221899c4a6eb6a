---------------------------- MODULE ConsoledProps ----------------------------
(***************************************************************************)
(* What the console daemon must get right: its table of locks against the  *)
(* processes that work on the lines, which it learns about late, through   *)
(* wait3, and which signals may make it forget.                            *)
(***************************************************************************)
EXTENDS Consoled

\* The process with number p works on the line of connection c.
OnLine(p, c) == proc[p] \in Live \union {"dying"} /\ job[p].conn = c

\* fork has made process p for connection c and the request that is being
\* served, and its number is not yet in the table.
BeingRecorded(p, c) ==
    pc = "record" /\ forked = p /\ Found(cur, c) /\ job[p].req = cur

\* The pid in a taken entry is a child that the daemon has not waited for, so
\* the number cannot have passed to another process, except between wait3 and
\* the loop of findDeadChildren that clears the entry.
TableNamesChildren ==
    \A c \in Conns : conpid[c] # BADPID =>
        \/ conpid[c] \in kids
        \/ pc = "clear" /\ conpid[c] = reaped

\* A child that works on a line is in that line's entry, under the user whose
\* request it was forked for; the one exception is the child that fork has
\* just returned.
LineIsReserved ==
    \A p \in kids, c \in Conns : OnLine(p, c) =>
        \/ conpid[c] = p /\ user[c] = job[p].req.user
        \/ BeingRecorded(p, c)

\* No two children of the daemon work on one line, even while one of them is
\* being killed.
OneChildPerLine ==
    \A p, q \in kids, c \in Conns : OnLine(p, c) /\ OnLine(q, c) => p = q

\* No two processes work on one line, whatever became of their daemon.
OneProcessPerLine ==
    \A p, q \in Pids, c \in Conns : OnLine(p, c) /\ OnLine(q, c) => p = q

\* man/xinu-status.1: a status shows who has a connection reserved.  When the
\* daemon answers, a line that a process works on is reserved.
StatusShowsWhoWorks ==
    pc = "serve" => \A c \in Conns :
        (\E p \in Pids : OnLine(p, c)) => conpid[c] # BADPID

\* SIGKILL goes to a child that has not been waited for; the one exception is
\* a signal handler that interrupts findDeadChildren between wait3 and the
\* clearing of the entry.
KillsOnlyChildren ==
    [][\A p \in Pids : proc[p] # "dying" /\ proc'[p] = "dying" =>
          p \in kids \/ (pc = "clear" /\ reaped = p)]_vars

\* A taken entry either leads to a session or is free again: the client that
\* never connects, the child that is killed, the program that ends.
Waits(p) == proc[p] # "session" /\ \E c \in Conns : conpid[c] = p
EntryComesBack == \A p \in Pids : Waits(p) ~> ~ Waits(p)

\* Every SIGHUP is handled.
HupIsHandled == hup ~> ~ hup

\* After SIGHUP the daemon serves again, if nothing else stops it.
StaysUp == pc # "exited"

\* The abstract lock: an entry counts as taken from the fork on.
Holder == [c \in Conns |->
             IF conpid[c] # BADPID THEN user[c]
             ELSE IF pc = "record" /\ Found(cur, c) THEN cur.user
             ELSE NoUser]

Busy == {c \in Conns : \E p \in Pids : OnLine(p, c)}

Lock == INSTANCE ConsoleLock
            WITH holder <- Holder, busy <- Busy, up <- (pc # "exited")

\* The daemon implements the lock, and its liveness.
ImplementsLock == Lock!Spec
=============================================================================

------------------------- MODULE ConsoleClientProps -------------------------
(***************************************************************************)
(* What the console's users may rely on.                                   *)
(***************************************************************************)
EXTENDS ConsoleClient

\* Program k is at work: the child at its port has accepted it.
Works(k) == cpc[k] = "session" /\ proc[port[k]] = "session"

\* A port leads to a child that the daemon forked for the program that was told
\* it, however late the reply came.
PortIsOwn ==
    \A k \in Programs : port[k] \in Pids /\ proc[port[k]] \in Live =>
        job[port[k]].req.from = RequestSocket(k)

\* Whoever works on a line is who the daemon has in its table for that line;
\* the exception is the child that fork has just returned.
SessionIsReserved ==
    \A k \in Programs, c \in Conns : Works(k) /\ job[port[k]].conn = c =>
        \/ conpid[c] = port[k] /\ user[c] = LoginOf[k]
        \/ BeingRecorded(port[k], c)

\* No two programs work on one line.
OneProgramPerLine ==
    \A k, l \in Programs : Works(k) /\ Works(l) /\ k # l =>
        job[port[k]].conn # job[port[l]].conn

\* "make a tcp connection to the specific connection": the line that a program
\* works on is the one it asked for and shows to its user.
WorksOnTarget == \A k \in Programs : Works(k) => job[port[k]].conn = target[k]
=============================================================================

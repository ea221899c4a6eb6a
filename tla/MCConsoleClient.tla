-------------------------- MODULE MCConsoleClient --------------------------
(* Instances of ConsoleClient for TLC.                                     *)
EXTENDS ConsoleClientProps, TLC

CONSTANTS u1, u2, k1, k2, p1, p2, p3

\* Both are asked for by name, one of them by the default class.
TwoLines == << [conname |-> "a", conclass |-> "mips"],
               [conname |-> "a", conclass |-> "ppc"] >>
OneLine == << [conname |-> "a", conclass |-> "mips"] >>

Sockets == Programs \X {"status", "request"}

TwoUsers == [k \in Programs |-> IF k = k1 THEN u1 ELSE u2]

EveryRequest ==
    {StatusRequest(k, name) : k \in Programs, name \in Names} \union
    {Request(k, code, c) : k \in Programs, code \in {"MAKE", "BREAK", "TOUCH"},
                           c \in Conns \union {NoConn}}

\* Process numbers may be exchanged, and the two programs with their users.
Exchange == {[x \in {k1, k2, u1, u2} |-> x],
             [x \in {k1, k2, u1, u2} |->
                CASE x = k1 -> k2 [] x = k2 -> k1 [] x = u1 -> u2 [] x = u2 -> u1]}
Symm == {f @@ g : f \in Permutations(Pids), g \in Exchange}
=============================================================================

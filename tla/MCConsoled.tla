----------------------------- MODULE MCConsoled -----------------------------
(* Instances of Consoled for TLC.                                          *)
EXTENDS ConsoledProps, TLC

CONSTANTS u1, u2, k1, k2, p1, p2, p3

\* Two entries share a name, and a request without a class gets the first.
TwoLines == << [conname |-> "xinu", conclass |-> "mips"],
               [conname |-> "xinu", conclass |-> "ppc"] >>
OneLine == << [conname |-> "xinu", conclass |-> "mips"] >>

Req(code, class, who, from) ==
    [version |-> "CURVERSION", code |-> code, user |-> who, conname |-> "xinu",
     conclass |-> class, from |-> from]

Makes == {Req("MAKE", "", u1, k1), Req("MAKE", "ppc", u2, k2),
          Req("MAKE", "mips", u2, k2)}
Breaks == {Req("BREAK", "", u2, k2), Req("BREAK", "ppc", u1, k1)}

\* Two users compete for two lines; one of them breaks what the other made.
LockRequests == Makes \union Breaks

\* The same, and three that are refused: for the code, the version, and by hosts_ctl.
LockAndWrong ==
    LockRequests \union
    {Req("INVALID", "", u1, k1), [Req("STATUS", "", u1, k1) EXCEPT !.version = "other"],
     Req("STATUS", "", u1, k2)}

RefuseOne == {<<k2, u1>>}

\* Every kind of request that is served.
ServedRequests ==
    {Req("MAKE", "", u1, k1), Req("MAKE", "ppc", u2, k1), Req("BREAK", "", u1, k1),
     Req("STATUS", "", u1, k1), Req("TOUCH", "", u1, k1),
     Req("VERBOSE_ON", "", u1, k1), Req("VERBOSE_OFF", "", u1, k1)}

Symm == Permutations(Pids)
=============================================================================

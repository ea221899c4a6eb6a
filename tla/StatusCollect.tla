---------------------------- MODULE StatusCollect ----------------------------
(* xinu-status: getservers, fakemulticast and statusrequest, the daemons     *)
(* that answer, and the loop that receives and prints.  obtainStatus goes    *)
(* through the same steps, with memory of its own for each reply.            *)
EXTENDS Integers, Sequences, FiniteSets, FiniteSetsExt

CONSTANTS
    Letters,          \* the characters but the space, "*" among them
    Hosts,            \* machines with a daemon
    NameOf,           \* the name that gethostbyname finds each under
    Networks,         \* for each interface that bnets finds, up and able to broadcast,
                      \* the daemons that a broadcast on it reaches; none if there is no
                      \* such interface or bnets fails
    BadReplies,       \* whether a reply may have another version, or a wrong size
    NumRows,          \* how many connections each has to show
    MAXSERVERS,
    MAXCONNECTIONS,   \* rows that a reply has room for
    MAXNCONNECTIONS,  \* rows that recvfromReply fills
    MaxText,          \* a bound on the length of XINU_SERVERS
    MaxHost,          \* and on that of the argument of -s
    NetFaults         \* whether datagrams may be lost

Space == " "

ASSUME StatusAssumption ==
    /\ Space \notin Letters /\ "*" \in Letters
    /\ IsFiniteSet(Hosts) /\ NameOf \in [Hosts -> Seq(Letters)]
    /\ \A g, h \in Hosts : NameOf[g] = NameOf[h] => g = h
    /\ \A h \in Hosts : NameOf[h] \notin {<<>>, <<"*">>}
    /\ Networks \in Seq(SUBSET Hosts) /\ BadReplies \in BOOLEAN
    /\ NumRows \in [Hosts -> 0..MAXCONNECTIONS]
    /\ MAXSERVERS \in Nat \ {0} /\ MAXCONNECTIONS \in Nat /\ MAXNCONNECTIONS \in Nat
    /\ MaxText \in Nat /\ MaxHost \in Nat
    /\ NetFaults \in BOOLEAN

VARIABLES
    text,     \* XINU_SERVERS
    host,     \* the argument of -s, or empty
    pc,       \* "names" (getservers), "send" (fakemulticast), "broadcast",
              \* "recv", and the ends: "full" (as many replies as names), "quiet"
              \* (a timeout), "bad" (a malformed reply), "failed"
    sb,       \* getservers: what is left of the text
    servers,  \* its result
    i,        \* fakemulticast's
    bcast,    \* fakemulticast's
    nets,     \* bcastUDP's i: on how many networks it has sent the request
    asked,    \* requests on the way to each daemon
    replied,  \* replies on the way from each
    details,  \* the rows of reply, a variable of main
    shown,    \* history: what was printed
    missed    \* history: a datagram was lost, or came after the last timeout

vars == <<text, host, pc, sb, servers, i, bcast, nets, asked, replied, details, shown,
          missed>>
command == <<text, host>>
list == <<sb, servers>>
network == <<asked, replied, missed>>

\* What is in memory that nobody has written.
Junk == <<>>
Row(h, j) == <<h, j>>
RowContents == {Junk} \union {Row(h, j) : h \in Hosts, j \in 1..MAXCONNECTIONS}
Texts(n) == UNION {[1..k -> Letters \union {Space}] : k \in 0..n}
Names(n) == UNION {[1..k -> Letters] : k \in 0..n}
Ends == {"full", "quiet", "bad", "failed"}

TypeOK ==
    /\ text \in Seq(Letters \union {Space}) /\ host \in Seq(Letters)
    /\ pc \in {"names", "send", "broadcast", "recv"} \union Ends
    /\ sb \in Seq(Letters \union {Space})
    /\ servers \in Seq(Seq(Letters)) /\ (Len(servers) < MAXSERVERS \/ host # <<>>)
    /\ i \in 1..Len(servers) + 1 /\ bcast \in BOOLEAN
    /\ nets \in 0..Len(Networks)
    /\ asked \in [Hosts -> Nat] /\ replied \in [Hosts -> Nat]
    /\ details \in [1..MAXCONNECTIONS -> RowContents]
    /\ shown \in Seq([host : Hosts, rows : Seq(RowContents)])
    /\ missed \in BOOLEAN

-----------------------------------------------------------------------------
(* getservers                                                                *)

\* Mutant: there is one space between two names.
OneSpace(s, m) == m = IF s # <<>> /\ s[1] = Space THEN 1 ELSE 0

\* s begins with m spaces and no more.
Spaces(s, m) == /\ \A k \in 1..m : s[k] = Space
                /\ m < Len(s) => s[m + 1] # Space

\* The first space, or the end, is behind n characters.
Name(s, n) == /\ \A k \in 1..n : s[k] # Space
              /\ n < Len(s) => s[n + 1] = Space

Drop(s, n) == SubSeq(s, n + 1, Len(s))

Init ==
    /\ host \in Names(MaxHost)
    /\ text \in IF host = <<>> THEN Texts(MaxText) ELSE {<<>>}   \* not read
    /\ pc = "names"
    /\ \E m \in 0..Len(text) : Spaces(text, m) /\ sb = Drop(text, m)
    /\ servers = IF host = <<>> THEN <<>> ELSE <<host>>
    /\ i = 1 /\ bcast = FALSE /\ nets = 0
    /\ asked = [h \in Hosts |-> 0] /\ replied = [h \in Hosts |-> 0]
    /\ details = [j \in 1..MAXCONNECTIONS |-> Junk]
    /\ shown = <<>> /\ missed = FALSE

\* The text goes on behind the n characters of a name and the spaces after it.
Advance(n) == \E m \in 0..Len(sb) - n : /\ Spaces(Drop(sb, n), m)
                                      /\ sb' = Drop(sb, n + m)

\* Mutant: the list has no room for the NULL at its end.
NextNameLate ==
    /\ pc = "names" /\ sb # <<>>
    /\ \E n \in 0..Len(sb) :
         /\ Name(sb, n) /\ Advance(n)
         /\ servers' = Append(servers, SubSeq(sb, 1, n))
    /\ pc' = IF Len(servers) >= MAXSERVERS - 1 THEN "send" ELSE "names"
    /\ UNCHANGED <<command, i, bcast, nets, network, details, shown>>

\* One iteration.  The one that fills the last element leaves the loop, which
\* puts NULL over the name that it has found.
NextName ==
    /\ pc = "names" /\ sb # <<>>
    /\ \E n \in 0..Len(sb) :
         /\ Name(sb, n) /\ Advance(n)
         /\ \/ /\ Len(servers) < MAXSERVERS - 1
               /\ servers' = Append(servers, SubSeq(sb, 1, n))
               /\ pc' = "names"
            \/ /\ Len(servers) >= MAXSERVERS - 1
               /\ servers' = servers
               /\ pc' = "send"
    /\ UNCHANGED <<command, i, bcast, nets, network, details, shown>>

LastName == /\ pc = "names" /\ sb = <<>>
            /\ pc' = "send"
            /\ UNCHANGED <<command, list, i, bcast, nets, network, details, shown>>

-----------------------------------------------------------------------------
(* fakemulticast and statusrequest                                           *)

\* sendto, whose result is ignored, to each of H.
Ask(H) == \E L \in SUBSET H :
            /\ NetFaults \/ L = {}
            /\ asked' = [h \in Hosts |-> asked[h] + IF h \in H \ L THEN 1 ELSE 0]
            /\ missed' = (missed \/ L # {})
            /\ UNCHANGED replied

Sending == /\ pc = "send" /\ i <= Len(servers)
           /\ i' = i + 1
           /\ UNCHANGED <<command, pc, list, nets, details, shown>>

\* Mutant: the broadcast is sent for each "*", on the first network.
StarBroadcasts == Sending /\ servers[i] = <<"*">> /\ Ask(Networks[1]) /\ bcast' = TRUE

Star == Sending /\ servers[i] = <<"*">> /\ bcast' = TRUE /\ UNCHANGED network

AskServer == /\ Sending
             /\ \E h \in Hosts : servers[i] = NameOf[h] /\ Ask({h})
             /\ UNCHANGED bcast

\* A warning, and nothing is sent.
UnknownHost == /\ Sending
               /\ servers[i] # <<"*">> /\ \A h \in Hosts : servers[i] # NameOf[h]
               /\ UNCHANGED <<bcast, network>>

AllAsked == /\ pc = "send" /\ i = Len(servers) + 1
            /\ pc' = IF bcast \/ servers = <<>> THEN "broadcast" ELSE "recv"
            /\ UNCHANGED <<command, list, i, bcast, nets, network, details, shown>>

\* One iteration: the request on one network, whoever has had it on another.
bcastUDP == /\ pc = "broadcast" /\ nets < Len(Networks)
            /\ nets' = nets + 1
            /\ Ask(Networks[nets'])
            /\ UNCHANGED <<command, pc, list, i, bcast, details, shown>>

BroadcastEnds == /\ pc = "broadcast" /\ nets = Len(Networks)
                 /\ pc' = "recv"
                 /\ UNCHANGED <<command, list, i, bcast, nets, network, details, shown>>

\* setsockopt fails, or sendto on the next network: xinu-status exits.
BroadcastFails == /\ pc = "broadcast" /\ NetFaults
                  /\ nets = 0 \/ nets < Len(Networks)
                  /\ pc' = "failed"
                  /\ UNCHANGED <<command, list, i, bcast, nets, network, details, shown>>

-----------------------------------------------------------------------------
(* The daemons and the network                                               *)

Own == <<command, pc, list, i, bcast, nets, details, shown>>

Answer(h) == /\ asked[h] > 0
             /\ asked' = [asked EXCEPT ![h] = @ - 1]
             /\ replied' = [replied EXCEPT ![h] = @ + 1]
             /\ UNCHANGED <<missed, Own>>

Lose(h) == /\ NetFaults /\ missed' = TRUE
           /\ \/ /\ asked[h] > 0 /\ asked' = [asked EXCEPT ![h] = @ - 1]
                 /\ UNCHANGED replied
              \/ /\ replied[h] > 0 /\ replied' = [replied EXCEPT ![h] = @ - 1]
                 /\ UNCHANGED asked
           /\ UNCHANGED Own

-----------------------------------------------------------------------------
(* main's loop, statusrecv and printstatus                                   *)

\* Mutant: the loop ends one reply early.
ReceivingLess == pc = "recv" /\ (servers = <<>> \/ Len(shown) + 1 < Len(servers))

Receiving == pc = "recv" /\ (servers = <<>> \/ Len(shown) < Len(servers))

Arrives(h) == /\ replied[h] > 0
              /\ replied' = [replied EXCEPT ![h] = @ - 1]
              /\ UNCHANGED <<asked, missed>>

\* Mutant: the last row that is there is not filled.
FilledLess(h) == [j \in 1..MAXCONNECTIONS |->
                    IF j < NumRows[h] /\ j <= MAXNCONNECTIONS THEN Row(h, j) ELSE details[j]]

\* recvfromReply: no more rows than MAXNCONNECTIONS, whatever numconnections says.
Filled(h) == [j \in 1..MAXCONNECTIONS |->
                IF j <= NumRows[h] /\ j <= MAXNCONNECTIONS THEN Row(h, j) ELSE details[j]]

\* printstatus: as many rows as numconnections says.
Printed(h) == [host |-> h, rows |-> SubSeq(Filled(h), 1, NumRows[h])]

statusrecv(h) == /\ Receiving
                 /\ Arrives(h)
                 /\ details' = Filled(h)
                 /\ shown' = Append(shown, Printed(h))
                 /\ UNCHANGED <<command, pc, list, i, bcast, nets>>

\* A malformed reply is for the loop what a timeout is.
BadReply(h) == /\ Receiving /\ BadReplies
               /\ Arrives(h)
               /\ pc' = "bad"
               /\ UNCHANGED <<command, list, i, bcast, nets, details, shown>>

\* Nothing has come for XSTIMEOUT.
Timeout == /\ Receiving
           /\ pc' = "quiet"
           /\ missed' = (missed \/ \E h \in Hosts : asked[h] + replied[h] > 0)
           /\ UNCHANGED <<command, list, i, bcast, nets, asked, replied, details, shown>>

EnoughReplies == /\ pc = "recv" /\ ~ Receiving
                 /\ pc' = "full"
                 /\ UNCHANGED <<command, list, i, bcast, nets, network, details, shown>>

Next == \/ NextName \/ LastName
        \/ Star \/ AskServer \/ UnknownHost \/ AllAsked
        \/ bcastUDP \/ BroadcastEnds \/ BroadcastFails
        \/ \E h \in Hosts : Answer(h) \/ Lose(h) \/ statusrecv(h) \/ BadReply(h)
        \/ Timeout \/ EnoughReplies

Spec == Init /\ [][Next]_vars

-----------------------------------------------------------------------------
(* Properties                                                                *)

\* The words of the text, said without a loop: the k-th is what stands between the
\* k-th place where a word begins and the next space.
Begins == {p \in DOMAIN text : text[p] # Space /\ (p = 1 \/ text[p - 1] = Space)}
WordAt(p) ==
    LET q == Max({r \in p..Len(text) : \A j \in p..r : text[j] # Space})
    IN  SubSeq(text, p, q)

\* What getservers does with the text: however many spaces separate the names, the list
\* is the words of XINU_SERVERS, in order; of MAXSERVERS or more the first MAXSERVERS - 1.
\* That spaces separate them at all is against the manual: see ColonsSeparate.
ListIsWords ==
    pc # "names" /\ host = <<>> =>
      /\ Len(servers) = Min({Cardinality(Begins), MAXSERVERS - 1})
      /\ \A p \in Begins :
           LET k == Cardinality({q \in Begins : q <= p})
           IN  k <= Len(servers) => servers[k] = WordAt(p)

\* include/cserver.h: XINU_SERVERS is a "colon separated list of servers", so no name in
\* the list goes over a colon.
ColonsSeparate ==
    host = <<>> => \A k \in DOMAIN servers : \A j \in DOMAIN servers[k] : servers[k][j] # ":"

\* The requests that the list means: one to h for each place where it is named, and, if
\* there is a broadcast, one for each network that reaches it.
Broadcasts == servers = <<>> \/ \E k \in DOMAIN servers : servers[k] = <<"*">>
Named == {r \in {"name"} \X (DOMAIN servers) \X Hosts : servers[r[2]] = NameOf[r[3]]}
Reached == {r \in {"network"} \X (DOMAIN Networks) \X Hosts :
              Broadcasts /\ r[3] \in Networks[r[2]]}
Requests == Named \union Reached

\* How often a daemon is to be asked, and how often it is on the screen.
Due(h) == Cardinality({r \in Requests : r[3] = h})
Times(h) == Cardinality({k \in DOMAIN shown : shown[k].host = h})

\* A daemon is shown no more often than it was asked: once for each time that it is
\* named, and once for each network that reaches it, be "*" in the list ever so often.
NobodyTooOften == \A h \in Hosts : Times(h) <= Due(h)

\* If no datagram is lost or late and no reply malformed, whatever the order of the
\* replies, every daemon asked is shown, as often as it was asked; but with "*" in a
\* list, no more replies than the list has names.
EveryoneIsShown ==
    pc \in {"full", "quiet"} /\ ~ missed =>
      IF <<"*">> \in {servers[k] : k \in DOMAIN servers}
      THEN Len(shown) = Min({Len(servers), Cardinality(Requests)})
      ELSE \A h \in Hosts : Times(h) = Due(h)

\* Under a daemon's name there are as many rows as it has to show: its own, in its order,
\* up to the MAXNCONNECTIONS-th, and behind that never those of another daemon, whoever's
\* reply was in that memory before.
RowsAreItsOwn ==
    \A k \in DOMAIN shown :
      LET h == shown[k].host
          rows == shown[k].rows
      IN  /\ Len(rows) = NumRows[h]
          /\ \A j \in DOMAIN rows : \/ rows[j] = Row(h, j)
                                    \/ rows[j] = Junk /\ j > MAXNCONNECTIONS
=============================================================================

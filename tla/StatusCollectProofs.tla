------------------------- MODULE StatusCollectProofs -------------------------
(* Proofs about the collection of a status: types, whose the rows are, who   *)
(* is shown how often, that nobody is left out, and what getservers returns. *)
EXTENDS StatusCollect, DataLemmas

Shows == [host : Hosts, rows : Seq(RowContents)]
Texted == Seq(Letters \union {Space})

-----------------------------------------------------------------------------
(* Sequences                                                                 *)

LEMMA DropType ==
    ASSUME NEW s \in Texted, NEW n \in 0..Len(s)
    PROVE  Drop(s, n) \in Texted
<1>1. Len(s) \in Nat /\ \A k \in 1..Len(s) : s[k] \in Letters \union {Space}
  BY LenProperties DEF Texted
<1>2. n + 1 \in Int /\ Len(s) \in Int /\ (\A k \in n + 1..Len(s) : s[k] \in Letters \union {Space})
  BY <1>1
<1> QED
  BY <1>2, SubSeqProperties DEF Texted, Drop

\* What stands before the first space is a name.
LEMMA NameType ==
    ASSUME NEW s \in Texted, NEW n \in 0..Len(s), Name(s, n)
    PROVE  SubSeq(s, 1, n) \in Seq(Letters)
<1>1. Len(s) \in Nat /\ \A k \in 1..Len(s) : s[k] \in Letters \union {Space}
  BY LenProperties DEF Texted
<1>2. n \in Int /\ \A k \in 1..n : s[k] \in Letters
  BY <1>1 DEF Name
<1> QED
  BY <1>2, SubSeqProperties

-----------------------------------------------------------------------------
(* Types                                                                     *)

LEMMA FilledType ==
    ASSUME TypeOK, NEW h \in Hosts
    PROVE  /\ Filled(h) \in [1..MAXCONNECTIONS -> RowContents]
           /\ Printed(h) \in Shows
           /\ Len(Printed(h).rows) = NumRows[h]
           /\ \A j \in 1..NumRows[h] : Printed(h).rows[j] = Filled(h)[j]
<1>1. Filled(h) \in [1..MAXCONNECTIONS -> RowContents]
  BY DEF Filled, RowContents, TypeOK
<1>2. MAXCONNECTIONS \in Nat /\ NumRows[h] \in 0..MAXCONNECTIONS
  BY StatusAssumption
<1>3. \A j \in 1..NumRows[h] : Filled(h)[j] \in RowContents
  BY <1>1, <1>2
<1>4. /\ SubSeq(Filled(h), 1, NumRows[h]) \in Seq(RowContents)
      /\ Len(SubSeq(Filled(h), 1, NumRows[h])) = NumRows[h]
      /\ \A j \in 1..NumRows[h] : SubSeq(Filled(h), 1, NumRows[h])[j] = Filled(h)[j]
  BY <1>2, <1>3, SubSeqProperties
<1> QED
  BY <1>1, <1>4 DEF Printed, Shows

LEMMA AskType ==
    ASSUME TypeOK, NEW H, Ask(H)
    PROVE  asked' \in [Hosts -> Nat] /\ replied' \in [Hosts -> Nat] /\ missed' \in BOOLEAN
  BY DEF Ask, TypeOK

LEMMA InitType == Init => TypeOK
<1> SUFFICES ASSUME Init PROVE TypeOK
  OBVIOUS
<1>1. text \in Texted
  <2>1. <<>> \in Texted
    BY DEF Texted
  <2>2. \A k \in 0..MaxText : [1..k -> Letters \union {Space}] \subseteq Texted
    BY DEF Texted
  <2> QED
    BY <2>1, <2>2 DEF Init, Texts
<1>2. host \in Seq(Letters)
  <2>1. \A k \in 0..MaxHost : [1..k -> Letters] \subseteq Seq(Letters)
    OBVIOUS
  <2> QED
    BY <2>1 DEF Init, Names
<1>3. sb \in Texted
  BY <1>1, DropType DEF Init
<1>4. servers \in Seq(Seq(Letters)) /\ (Len(servers) < MAXSERVERS \/ host # <<>>)
  <2>1. CASE host = <<>>
    <3>1. servers = <<>> /\ <<>> \in Seq(Seq(Letters)) /\ Len(<<>>) = 0
      BY <2>1 DEF Init
    <3> QED
      BY <3>1, StatusAssumption
  <2>2. CASE host # <<>>
    BY <1>2, <2>2 DEF Init
  <2> QED
    BY <2>1, <2>2
<1>5. i \in 1..Len(servers) + 1
  BY <1>4 DEF Init
<1>6. details \in [1..MAXCONNECTIONS -> RowContents]
  BY DEF Init, RowContents
<1>7. shown \in Seq(Shows)
  BY DEF Init
<1>8. nets \in 0..Len(Networks)
  <2>1. Len(Networks) \in Nat
    BY StatusAssumption, LenProperties
  <2> QED
    BY <2>1 DEF Init
<1> QED
  BY <1>1, <1>2, <1>3, <1>4, <1>5, <1>6, <1>7, <1>8 DEF Init, TypeOK, Texted, Shows

LEMMA StepType == TypeOK /\ [Next]_vars => TypeOK'
<1> SUFFICES ASSUME TypeOK, [Next]_vars PROVE TypeOK'
  OBVIOUS
<1> USE DEF command, list, network, Own, Ends
<1>1. CASE NextName
  <2>1. PICK n \in 0..Len(sb) :
             /\ Name(sb, n) /\ Advance(n)
             /\ \/ Len(servers) < MAXSERVERS - 1 /\ servers' = Append(servers, SubSeq(sb, 1, n))
                   /\ pc' = "names"
                \/ servers' = servers /\ pc' = "send"
    BY <1>1 DEF NextName
  <2>2. sb' \in Texted
    <3>1. PICK m \in 0..Len(sb) - n : sb' = Drop(sb, n + m)
      BY <2>1 DEF Advance
    <3>2. n + m \in 0..Len(sb) /\ sb \in Texted
      BY <3>1 DEF TypeOK, Texted
    <3> QED
      BY <3>1, <3>2, DropType
  <2>3. SubSeq(sb, 1, n) \in Seq(Letters)
    BY <2>1, NameType DEF TypeOK, Texted
  <2>4. /\ servers' \in Seq(Seq(Letters))
        /\ Len(servers') < MAXSERVERS \/ host # <<>>
        /\ Len(servers) <= Len(servers')
    <3>1. servers \in Seq(Seq(Letters)) /\ Len(servers) \in Nat /\ MAXSERVERS \in Nat
      BY StatusAssumption DEF TypeOK
    <3>2. CASE servers' = servers
      BY <3>1, <3>2 DEF TypeOK
    <3>3. CASE Len(servers) < MAXSERVERS - 1 /\ servers' = Append(servers, SubSeq(sb, 1, n))
      <4>1. servers' \in Seq(Seq(Letters)) /\ Len(servers') = Len(servers) + 1
        BY <2>3, <3>1, <3>3
      <4> QED
        BY <3>1, <3>3, <4>1
    <3> QED
      BY <2>1, <3>2, <3>3
  <2>5. i' \in 1..Len(servers') + 1
    BY <1>1, <2>4 DEF NextName, TypeOK
  <2> QED
    BY <1>1, <2>1, <2>2, <2>4, <2>5 DEF NextName, TypeOK, Texted
<1>2. CASE LastName
  BY <1>2 DEF LastName, TypeOK
<1>3. CASE Sending /\ asked' \in [Hosts -> Nat] /\ replied' \in [Hosts -> Nat]
           /\ missed' \in BOOLEAN /\ bcast' \in BOOLEAN
  <2>1. i' \in 1..Len(servers) + 1
    BY <1>3 DEF Sending, TypeOK
  <2> QED
    BY <1>3, <2>1 DEF Sending, TypeOK
<1>4. CASE Star
  BY <1>3, <1>4 DEF Star, TypeOK
<1>5. CASE AskServer
  <2>1. PICK h \in Hosts : Ask({h})
    BY <1>5 DEF AskServer
  <2>2. asked' \in [Hosts -> Nat] /\ replied' \in [Hosts -> Nat] /\ missed' \in BOOLEAN
    BY <2>1, AskType
  <2> QED
    BY <1>3, <1>5, <2>2 DEF AskServer, TypeOK
<1>6. CASE UnknownHost
  BY <1>3, <1>6 DEF UnknownHost, TypeOK
<1>7. CASE AllAsked
  BY <1>7 DEF AllAsked, TypeOK
<1>8. CASE bcastUDP
  <2>1. asked' \in [Hosts -> Nat] /\ replied' \in [Hosts -> Nat] /\ missed' \in BOOLEAN
    BY <1>8, AskType DEF bcastUDP
  <2>2. nets' \in 0..Len(Networks)
    <3>1. Len(Networks) \in Nat
      BY StatusAssumption, LenProperties
    <3> QED
      BY <1>8, <3>1 DEF bcastUDP, TypeOK
  <2> QED
    BY <1>8, <2>1, <2>2 DEF bcastUDP, TypeOK
<1>9. CASE BroadcastFails
  BY <1>9 DEF BroadcastFails, TypeOK
<1>10. ASSUME NEW h \in Hosts, Answer(h) PROVE TypeOK'
  <2>1. asked' \in [Hosts -> Nat] /\ replied' \in [Hosts -> Nat]
    BY <1>10 DEF Answer, TypeOK
  <2>2. UNCHANGED <<missed, Own>>
    BY <1>10 DEF Answer
  <2> QED
    BY <2>1, <2>2 DEF TypeOK
<1>11. ASSUME NEW h \in Hosts, Lose(h) PROVE TypeOK'
  <2>1. asked' \in [Hosts -> Nat] /\ replied' \in [Hosts -> Nat]
    <3>1. CASE asked[h] > 0 /\ asked' = [asked EXCEPT ![h] = @ - 1] /\ UNCHANGED replied
      BY <3>1 DEF TypeOK
    <3>2. CASE replied[h] > 0 /\ replied' = [replied EXCEPT ![h] = @ - 1] /\ UNCHANGED asked
      BY <3>2 DEF TypeOK
    <3> QED
      BY <1>11, <3>1, <3>2 DEF Lose
  <2>2. missed' \in BOOLEAN /\ UNCHANGED Own
    BY <1>11 DEF Lose
  <2> QED
    BY <2>1, <2>2 DEF TypeOK
<1>12. ASSUME NEW h \in Hosts, statusrecv(h) PROVE TypeOK'
  <2>1. replied' \in [Hosts -> Nat] /\ UNCHANGED <<asked, missed>>
    BY <1>12 DEF statusrecv, Arrives, TypeOK
  <2>2. details' \in [1..MAXCONNECTIONS -> RowContents]
    BY <1>12, FilledType DEF statusrecv
  <2>3. shown' \in Seq(Shows)
    <3>1. Printed(h) \in Shows /\ shown \in Seq(Shows)
      BY FilledType DEF TypeOK, Shows
    <3> QED
      BY <1>12, <3>1 DEF statusrecv
  <2> QED
    BY <1>12, <2>1, <2>2, <2>3 DEF statusrecv, TypeOK, Shows
<1>13. ASSUME NEW h \in Hosts, BadReply(h) PROVE TypeOK'
  <2>1. replied' \in [Hosts -> Nat] /\ UNCHANGED <<asked, missed>>
    BY <1>13 DEF BadReply, Arrives, TypeOK
  <2> QED
    BY <1>13, <2>1 DEF BadReply, TypeOK
<1>14. CASE Timeout
  <2>1. missed' \in BOOLEAN
    BY <1>14 DEF Timeout, TypeOK
  <2> QED
    BY <1>14, <2>1 DEF Timeout, TypeOK
<1>15. CASE EnoughReplies
  BY <1>15 DEF EnoughReplies, TypeOK
<1>16. CASE UNCHANGED vars
  BY <1>16 DEF vars, TypeOK
<1>17. CASE BroadcastEnds
  BY <1>17 DEF BroadcastEnds, TypeOK
<1> QED
  BY <1>1, <1>2, <1>4, <1>5, <1>6, <1>7, <1>8, <1>9, <1>10, <1>11, <1>12, <1>13,
     <1>14, <1>15, <1>16, <1>17 DEF Next

\* The variables keep their types; getservers fills no more than MAXSERVERS - 1 elements
\* and has room for the NULL behind them.
THEOREM StatusTypeCorrect == Spec => []TypeOK
  BY InitType, StepType, PTL DEF Spec

-----------------------------------------------------------------------------
(* Rows                                                                      *)

\* Nobody writes to the rows behind the MAXNCONNECTIONS-th.
RowsInv ==
    /\ \A j \in 1..MAXCONNECTIONS : j > MAXNCONNECTIONS => details[j] = Junk
    /\ RowsAreItsOwn

LEMMA InitRows == Init => RowsInv
  BY DEF Init, RowsInv, RowsAreItsOwn

LEMMA StepRows == TypeOK /\ RowsInv /\ [Next]_vars => RowsInv'
<1> SUFFICES ASSUME TypeOK, RowsInv, [Next]_vars PROVE RowsInv'
  OBVIOUS
<1>1. CASE UNCHANGED <<details, shown>>
  BY <1>1 DEF RowsInv, RowsAreItsOwn
<1>2. ASSUME NEW h \in Hosts, statusrecv(h) PROVE RowsInv'
  <2>1. details' = Filled(h) /\ shown' = Append(shown, Printed(h))
    BY <1>2 DEF statusrecv
  <2>2. NumRows[h] \in 0..MAXCONNECTIONS /\ MAXCONNECTIONS \in Nat /\ MAXNCONNECTIONS \in Nat
    BY StatusAssumption
  <2>3. ASSUME NEW j \in 1..MAXCONNECTIONS, j > MAXNCONNECTIONS
        PROVE  Filled(h)[j] = Junk
    BY <2>2, <2>3 DEF Filled, RowsInv
  <2>4. ASSUME NEW j \in 1..NumRows[h]
        PROVE  \/ Printed(h).rows[j] = Row(h, j)
               \/ Printed(h).rows[j] = Junk /\ j > MAXNCONNECTIONS
    <3>1. j \in 1..MAXCONNECTIONS /\ Printed(h).rows[j] = Filled(h)[j]
      BY <2>2, FilledType
    <3>2. j <= MAXNCONNECTIONS => Filled(h)[j] = Row(h, j)
      BY <2>2, <3>1 DEF Filled
    <3> QED
      BY <2>2, <2>3, <3>1, <3>2
  <2>5. /\ Printed(h) \in Shows /\ Printed(h).host = h
        /\ Len(Printed(h).rows) = NumRows[h] /\ DOMAIN Printed(h).rows = 1..NumRows[h]
    <3>1. Printed(h) \in Shows /\ Len(Printed(h).rows) = NumRows[h]
      BY FilledType
    <3>2. Printed(h).rows \in Seq(RowContents)
      BY <3>1 DEF Shows
    <3>3. Printed(h).host = h
      BY DEF Printed
    <3> QED
      BY <3>1, <3>2, <3>3, LenProperties
  <2>6. shown \in Seq(Shows)
    BY DEF TypeOK, Shows
  <2>7. ASSUME NEW k \in DOMAIN shown'
        PROVE  \/ k \in DOMAIN shown /\ shown'[k] = shown[k]
               \/ shown'[k] = Printed(h)
    BY <2>1, <2>5, <2>6
  <2>8. RowsAreItsOwn'
    <3> SUFFICES ASSUME NEW k \in DOMAIN shown'
                 PROVE  /\ Len(shown'[k].rows) = NumRows[shown'[k].host]
                        /\ \A j \in DOMAIN shown'[k].rows :
                             \/ shown'[k].rows[j] = Row(shown'[k].host, j)
                             \/ shown'[k].rows[j] = Junk /\ j > MAXNCONNECTIONS
      BY DEF RowsAreItsOwn
    <3>1. CASE k \in DOMAIN shown /\ shown'[k] = shown[k]
      BY <3>1 DEF RowsInv, RowsAreItsOwn
    <3>2. CASE shown'[k] = Printed(h)
      BY <2>4, <2>5, <3>2
    <3> QED
      BY <2>7, <3>1, <3>2
  <2> QED
    BY <2>1, <2>3, <2>8 DEF RowsInv
<1> QED
  BY <1>1, <1>2 DEF Next, NextName, LastName, Star, AskServer, UnknownHost, Sending,
     AllAsked, bcastUDP, BroadcastEnds, BroadcastFails, Answer, Lose, Own, BadReply,
     Timeout, EnoughReplies, vars

\* Whatever comes from whom and in which order: what is printed of a daemon are its
\* own rows, in its order, up to the MAXNCONNECTIONS-th, and behind that never a row of
\* another daemon.
THEOREM RowsAreItsOwnAlways == Spec => []RowsAreItsOwn
<1>1. TypeOK /\ RowsInv /\ [Next]_vars => (TypeOK /\ RowsInv)'
  BY StepType, StepRows
<1>2. Init => TypeOK /\ RowsInv
  BY InitType, InitRows
<1>3. RowsInv => RowsAreItsOwn
  BY DEF RowsInv
<1> QED
  BY <1>1, <1>2, <1>3, PTL DEF Spec

-----------------------------------------------------------------------------
(* Requests and replies                                                      *)

\* What was asked of h so far: by name, and by the broadcast on each network.
Reach(h) == [k \in DOMAIN Networks |-> IF h \in Networks[k] THEN 1 ELSE 0]
Before(h) == Cardinality({k \in 1..i - 1 : servers[k] = NameOf[h]})
Broadcast(h) == CountTo(nets, Reach(h), 1)

CountInv ==
    /\ pc = "names" => i = 1
    /\ bcast => \E k \in 1..i - 1 : servers[k] = <<"*">>
    /\ pc = "broadcast" \/ nets > 0 => Broadcasts
    /\ pc \in {"names", "send"} => nets = 0
    /\ \A h \in Hosts : Times(h) + asked[h] + replied[h] <= Before(h) + Broadcast(h)

LEMMA TimesType ==
    ASSUME TypeOK, NEW h \in Hosts
    PROVE  Times(h) \in Nat
<1> DEFINE s == [k \in DOMAIN shown |-> shown[k].host]
<1>1. DOMAIN shown = 1..Len(shown) /\ Len(shown) \in Nat
  BY DEF TypeOK
<1>2. Times(h) = CountTo(Len(shown), s, h)
  <2>1. {k \in 1..Len(shown) : s[k] = h} = {k \in DOMAIN shown : shown[k].host = h}
    BY <1>1
  <2> QED
    BY <2>1 DEF Times, CountTo
<1> DEFINE n == Len(shown)
<1>3. n \in Nat /\ n <= n
  BY <1>1
<1>4. Times(h) = CountTo(n, s, h)
  BY <1>2
<1> HIDE DEF s, n
<1>5. CountTo(n, s, h) \in Nat
  BY <1>3, Counted
<1> QED
  BY <1>4, <1>5

\* A reply that is printed counts for the daemon that it is from, and for no other.
LEMMA TimesNext ==
    ASSUME TypeOK, NEW g \in Hosts, shown' = Append(shown, Printed(g)), NEW h \in Hosts
    PROVE  Times(h)' = Times(h) + IF h = g THEN 1 ELSE 0
<1> DEFINE n == Len(shown)
           s == [k \in 1..n + 1 |-> shown'[k].host]
<1>1. shown \in Seq(Shows) /\ Printed(g) \in Shows /\ Printed(g).host = g
  BY FilledType DEF TypeOK, Shows, Printed
<1>2. /\ n \in Nat /\ DOMAIN shown = 1..n /\ DOMAIN shown' = 1..n + 1
      /\ shown'[n + 1] = Printed(g) /\ \A k \in 1..n : shown'[k] = shown[k]
  BY <1>1
<1>3. Times(h) = CountTo(n, s, h)
  <2>1. {k \in 1..n : s[k] = h} = {k \in DOMAIN shown : shown[k].host = h}
    BY <1>2
  <2> QED
    BY <2>1 DEF Times, CountTo
<1>4. Times(h)' = CountTo(n + 1, s, h)
  <2>1. {k \in 1..n + 1 : s[k] = h} = {k \in DOMAIN shown' : shown'[k].host = h}
    BY <1>2
  <2> QED
    BY <2>1 DEF Times, CountTo
<1>5. s[n + 1] = g
  BY <1>1, <1>2
<1>6. CASE h = g
  <2>2. n \in Nat /\ s[n + 1] = h
    BY <1>2, <1>5, <1>6
  <2> HIDE DEF s, n
  <2>1. CountTo(n + 1, s, h) = CountTo(n, s, h) + 1
    BY <2>2, CountedNext
  <2> QED
    BY <1>3, <1>4, <1>6, <2>1
<1>7. CASE h # g
  <2> HIDE DEF s, n
  <2>4. {k \in 1..n + 1 : s[k] = h} = {k \in 1..n : s[k] = h}
    BY <1>2, <1>5, <1>7
  <2>1. CountTo(n + 1, s, h) = CountTo(n, s, h)
    BY <2>4 DEF CountTo
  <2>2. Times(h)' = Times(h)
    BY <1>3, <1>4, <2>1
  <2>3. Times(h) \in Nat
    BY TimesType
  <2> QED
    BY <1>7, <2>2, <2>3
<1> QED
  BY <1>6, <1>7

LEMMA InitCount == Init => CountInv
<1> SUFFICES ASSUME Init PROVE CountInv
  OBVIOUS
<1>1. ASSUME NEW h \in Hosts PROVE Times(h) = 0 /\ Before(h) = 0 /\ Broadcast(h) = 0
  <2>1. /\ {k \in DOMAIN shown : shown[k].host = h} = {}
        /\ {k \in 1..i - 1 : servers[k] = NameOf[h]} = {}
        /\ {k \in 1..nets : Reach(h)[k] = 1} = {}
    BY DEF Init
  <2> QED
    BY <2>1, FS_EmptySet DEF Times, Before, Broadcast, CountTo
<1> QED
  BY <1>1 DEF Init, CountInv

\* What has been asked of a daemon does not get less while i goes on.
LEMMA BeforeNext ==
    ASSUME TypeOK, TypeOK', servers' = servers, i' \in {i, i + 1}, NEW h \in Hosts
    PROVE  /\ Before(h) \in Nat /\ Before(h)' \in Nat /\ Before(h) <= Before(h)'
           /\ i' = i + 1 /\ servers[i] = NameOf[h] => Before(h)' = Before(h) + 1
           /\ i' = i + 1 /\ servers[i] # NameOf[h] => Before(h)' = Before(h)
           /\ i' = i => Before(h)' = Before(h)
<1> DEFINE m == i - 1
           l == i' - 1
<1>1. m \in Nat /\ l \in Nat /\ m <= l /\ l <= l
  <2>1. Len(servers) \in Nat
    BY DEF TypeOK
  <2>2. i \in Nat /\ 1 <= i
    BY <2>1 DEF TypeOK
  <2>3. i' = i \/ i' = i + 1
    OBVIOUS
  <2>4. i - 1 \in Nat /\ i' - 1 \in Nat /\ i - 1 <= i' - 1
    <3>1. CASE i' = i
      BY <2>2, <3>1
    <3>2. CASE i' = i + 1
      BY <2>2, <3>2
    <3> QED
      BY <2>3, <3>1, <3>2
  <2> QED
    BY <2>4
<1>5. /\ Before(h) = CountTo(m, servers, NameOf[h])
      /\ Before(h)' = CountTo(l, servers, NameOf[h])
  BY DEF Before, CountTo
<1> HIDE DEF m, l
<1>2. Before(h) \in Nat /\ Before(h) <= Before(h)'
  BY <1>1, <1>5, Counted
<1>3. Before(h)' \in Nat
  BY <1>1, <1>5, Counted
<1>6. i' = i => Before(h)' = Before(h)
  BY DEF Before
<1>4. ASSUME i' = i + 1
      PROVE  /\ servers[i] = NameOf[h] => Before(h)' = Before(h) + 1
             /\ servers[i] # NameOf[h] => Before(h)' = Before(h)
  <2> DEFINE n == i - 1
  <2>1. n \in Nat /\ n + 1 = i /\ i' - 1 = n + 1
    <3>1. Len(servers) \in Nat
      BY DEF TypeOK
    <3>2. i \in Nat /\ 1 <= i
      BY <3>1 DEF TypeOK
    <3> QED
      BY <1>4, <3>2
  <2> HIDE DEF n
  <2>2. /\ servers[i] = NameOf[h] =>
             CountTo(n + 1, servers, NameOf[h]) = CountTo(n, servers, NameOf[h]) + 1
        /\ servers[i] # NameOf[h] =>
             CountTo(n + 1, servers, NameOf[h]) = CountTo(n, servers, NameOf[h])
    BY <1>4, <2>1, CountedNext, CountedOther
  <2>3. i - 1 = n
    BY DEF n
  <2> QED
    BY <2>1, <2>2, <2>3 DEF Before, CountTo
<1> QED
  BY <1>2, <1>3, <1>4, <1>6

\* What the broadcast asks of a daemon grows with the networks that reach it.
LEMMA BroadcastNext ==
    ASSUME TypeOK, TypeOK', NEW h \in Hosts
    PROVE  /\ Broadcast(h) \in Nat /\ Broadcast(h)' \in Nat
           /\ nets' = nets => Broadcast(h)' = Broadcast(h)
           /\ nets' = nets + 1 =>
                Broadcast(h)' = Broadcast(h) + IF h \in Networks[nets'] THEN 1 ELSE 0
<1>1. /\ nets \in Nat /\ nets' \in Nat /\ nets <= nets /\ nets' <= nets'
      /\ nets' <= Len(Networks) /\ DOMAIN Networks = 1..Len(Networks)
  <2>1. Len(Networks) \in Nat /\ DOMAIN Networks = 1..Len(Networks)
    BY StatusAssumption, LenProperties
  <2> QED
    BY <2>1 DEF TypeOK
<1>2. Broadcast(h)' = CountTo(nets', Reach(h), 1)
  BY DEF Broadcast, CountTo, Reach
<1>3. Broadcast(h) \in Nat /\ Broadcast(h)' \in Nat
  BY <1>1, <1>2, Counted DEF Broadcast
<1>4. nets' = nets => Broadcast(h)' = Broadcast(h)
  BY <1>2 DEF Broadcast
<1>5. ASSUME nets' = nets + 1
      PROVE  Broadcast(h)' = Broadcast(h) + IF h \in Networks[nets'] THEN 1 ELSE 0
  <2>1. Reach(h)[nets + 1] = IF h \in Networks[nets'] THEN 1 ELSE 0
    BY <1>1, <1>5 DEF Reach
  <2>2. CASE h \in Networks[nets']
    <3>1. Reach(h)[nets + 1] = 1
      BY <2>1, <2>2
    <3>2. CountTo(nets + 1, Reach(h), 1) = CountTo(nets, Reach(h), 1) + 1
      BY <1>1, <3>1, CountedNext
    <3> QED
      BY <1>2, <1>5, <2>2, <3>2 DEF Broadcast
  <2>3. CASE h \notin Networks[nets']
    <3>1. Reach(h)[nets + 1] # 1
      BY <2>1, <2>3
    <3>2. CountTo(nets + 1, Reach(h), 1) = CountTo(nets, Reach(h), 1)
      BY <1>1, <3>1, CountedOther
    <3>3. Broadcast(h)' = Broadcast(h)
      BY <1>2, <1>5, <3>2 DEF Broadcast
    <3> QED
      BY <1>3, <2>3, <3>3
  <2> QED
    BY <2>2, <2>3
<1> QED
  BY <1>3, <1>4, <1>5

\* A step that leaves the list, what was asked by name and what was printed.
LEMMA SameCounts ==
    ASSUME UNCHANGED <<servers, i, shown>>, NEW h \in Hosts
    PROVE  Times(h)' = Times(h) /\ Before(h)' = Before(h) /\ Broadcasts' = Broadcasts
  BY DEF Times, Before, Broadcasts

\* One less at g.
LEMMA OneLess ==
    ASSUME NEW f \in [Hosts -> Nat], NEW g \in Hosts, NEW h \in Hosts
    PROVE  [f EXCEPT ![g] = @ - 1][h] = f[h] - IF h = g THEN 1 ELSE 0
<1>1. f[h] \in Nat
  OBVIOUS
<1>2. CASE h = g
  BY <1>1, <1>2
<1>3. CASE h # g
  BY <1>1, <1>3
<1> QED
  BY <1>2, <1>3

LEMMA StepCount == TypeOK /\ TypeOK' /\ CountInv /\ [Next]_vars => CountInv'
<1> SUFFICES ASSUME TypeOK, TypeOK', CountInv, [Next]_vars PROVE CountInv'
  OBVIOUS
<1> USE DEF command, list, network, Own
<1>1. /\ \A h \in Hosts : asked[h] \in Nat /\ replied[h] \in Nat
      /\ \A h \in Hosts : asked'[h] \in Nat /\ replied'[h] \in Nat
      /\ \A h \in Hosts : Broadcast(h) \in Nat /\ Broadcast(h)' \in Nat
      /\ nets' = nets => \A h \in Hosts : Broadcast(h)' = Broadcast(h)
  BY BroadcastNext DEF TypeOK
<1>2. \A h \in Hosts : Times(h) \in Nat
  BY TimesType
<1>3. \A h \in Hosts : i' \in {i, i + 1} /\ servers' = servers =>
        /\ Before(h) \in Nat /\ Before(h)' \in Nat /\ Before(h) <= Before(h)'
        /\ i' = i + 1 /\ servers[i] = NameOf[h] => Before(h)' = Before(h) + 1
  BY BeforeNext
<1>4. CASE NextName
  <2>1. pc = "names" /\ i = 1 /\ ~ bcast /\ pc' \in {"names", "send"}
    BY <1>4 DEF NextName, CountInv, TypeOK
  <2>2. UNCHANGED <<i, bcast, nets, asked, replied, shown>>
    BY <1>4 DEF NextName
  <2>3. ASSUME NEW h \in Hosts
        PROVE  Times(h)' + asked'[h] + replied'[h] <= Before(h)' + Broadcast(h)'
    <3>1. {k \in 1..i - 1 : servers[k] = NameOf[h]} = {k \in 1..i' - 1 : servers'[k] = NameOf[h]}
      BY <2>1, <2>2
    <3>2. Before(h)' = Before(h)
      BY <3>1 DEF Before
    <3>3. Times(h)' = Times(h)
      BY <2>2 DEF Times
    <3>4. Broadcast(h)' = Broadcast(h)
      BY <1>1, <2>2
    <3> QED
      BY <2>2, <3>2, <3>3, <3>4 DEF CountInv
  <2> QED
    BY <2>1, <2>2, <2>3 DEF CountInv
<1>5. CASE Sending /\ bcast' = (bcast \/ servers[i] = <<"*">>)
           /\ \A h \in Hosts : asked'[h] + replied'[h] <=
                asked[h] + replied[h] + IF servers[i] = NameOf[h] THEN 1 ELSE 0
  <2>1. /\ UNCHANGED <<servers, pc, nets, shown>>
        /\ pc = "send" /\ i' = i + 1 /\ i \in Nat /\ 1 <= i
    <3>1. Len(servers) \in Nat
      BY DEF TypeOK
    <3> QED
      BY <1>5, <3>1 DEF Sending, TypeOK
  <2>2. bcast' => \E k \in 1..i' - 1 : servers'[k] = <<"*">>
    <3>1. CASE servers[i] = <<"*">>
      BY <2>1, <3>1
    <3>2. CASE servers[i] # <<"*">>
      <4>1. bcast' => \E k \in 1..i - 1 : servers[k] = <<"*">>
        BY <1>5, <3>2 DEF CountInv, TypeOK
      <4> QED
        BY <2>1, <4>1
    <3> QED
      BY <3>1, <3>2
  <2>3. ASSUME NEW h \in Hosts
        PROVE  Times(h)' + asked'[h] + replied'[h] <= Before(h)' + Broadcast(h)'
    <3>1. Times(h)' = Times(h)
      BY <2>1 DEF Times
    <3>2. Broadcast(h) \in Nat /\ Broadcast(h)' = Broadcast(h)
      BY <1>1, <2>1
    <3>3. Times(h) + asked[h] + replied[h] <= Before(h) + Broadcast(h)
      BY DEF CountInv
    <3>4. /\ Before(h) \in Nat /\ Before(h)' \in Nat /\ Before(h) <= Before(h)'
          /\ servers[i] = NameOf[h] => Before(h)' = Before(h) + 1
      BY <1>3, <2>1
    <3>5. CASE servers[i] = NameOf[h]
      BY <1>1, <1>2, <1>5, <3>1, <3>2, <3>3, <3>4, <3>5
    <3>6. CASE servers[i] # NameOf[h]
      BY <1>1, <1>2, <1>5, <3>1, <3>2, <3>3, <3>4, <3>6
    <3> QED
      BY <3>5, <3>6
  <2> QED
    BY <2>1, <2>2, <2>3 DEF CountInv
<1>6. CASE Star
  <2>1. bcast' = (bcast \/ servers[i] = <<"*">>)
    BY <1>6 DEF Star
  <2>2. \A h \in Hosts : asked'[h] + replied'[h] <=
          asked[h] + replied[h] + IF servers[i] = NameOf[h] THEN 1 ELSE 0
    BY <1>1, <1>6 DEF Star
  <2> QED
    BY <1>5, <1>6, <2>1, <2>2 DEF Star
<1>7. CASE AskServer
  <2>1. PICK g \in Hosts : servers[i] = NameOf[g] /\ Ask({g})
    BY <1>7 DEF AskServer
  <2>2. servers[i] # <<"*">>
    BY <2>1, StatusAssumption
  <2>3. ASSUME NEW h \in Hosts
        PROVE  asked'[h] + replied'[h] <=
                 asked[h] + replied[h] + IF servers[i] = NameOf[h] THEN 1 ELSE 0
    <3>1. replied' = replied /\ asked'[h] <= asked[h] + IF h = g THEN 1 ELSE 0
      BY <1>1, <2>1 DEF Ask
    <3> QED
      BY <1>1, <2>1, <3>1
  <2> QED
    BY <1>5, <1>7, <2>2, <2>3 DEF AskServer, TypeOK
<1>8. CASE UnknownHost
  <2>1. bcast' = (bcast \/ servers[i] = <<"*">>)
    <3>1. bcast' = bcast /\ ~ (servers[i] = <<"*">>)
      BY <1>8 DEF UnknownHost
    <3>2. bcast \in BOOLEAN
      BY DEF TypeOK
    <3> QED
      BY <3>1, <3>2
  <2>2. \A h \in Hosts : asked'[h] + replied'[h] <=
          asked[h] + replied[h] + IF servers[i] = NameOf[h] THEN 1 ELSE 0
    BY <1>1, <1>8 DEF UnknownHost
  <2> QED
    BY <1>5, <1>8, <2>1, <2>2 DEF UnknownHost
<1>9. ASSUME UNCHANGED <<servers, i, bcast, shown>>,
             pc' # pc => pc' # "names",
             pc' \in {"names", "send"} => pc \in {"names", "send"},
             pc' = "broadcast" => Broadcasts,
             nets' = nets \/ (pc = "broadcast" /\ pc' = "broadcast"),
             \A h \in Hosts : asked'[h] + replied'[h] + Broadcast(h) <=
                              asked[h] + replied[h] + Broadcast(h)'
      PROVE  CountInv'
  <2>1. ASSUME NEW h \in Hosts
        PROVE  Times(h)' + asked'[h] + replied'[h] <= Before(h)' + Broadcast(h)'
    <3>1. Times(h)' = Times(h) /\ Before(h)' = Before(h)
      BY <1>9, SameCounts
    <3>2. Times(h) + asked[h] + replied[h] <= Before(h) + Broadcast(h)
      BY DEF CountInv
    <3>3. Before(h) \in Nat
      BY <1>3, <1>9
    <3> QED
      BY <1>1, <1>2, <1>9, <3>1, <3>2, <3>3
  <2>2. Broadcasts' = Broadcasts
    BY <1>9 DEF Broadcasts
  <2> QED
    BY <1>9, <2>1, <2>2 DEF CountInv
<1>10. ASSUME UNCHANGED <<servers, i, bcast, nets, shown>>,
              pc' = pc \/ (pc = "recv" /\ pc' \in {"bad", "quiet", "full"}),
              \A h \in Hosts : asked'[h] + replied'[h] <= asked[h] + replied[h]
       PROVE  CountInv'
  <2>1. \A h \in Hosts : Broadcast(h)' = Broadcast(h)
    BY <1>1, <1>10
  <2> QED
    BY <1>1, <1>9, <1>10, <2>1 DEF CountInv
<1>11. CASE LastName
  <2>1. \A h \in Hosts : Broadcast(h)' = Broadcast(h)
    BY <1>1, <1>11 DEF LastName
  <2> QED
    BY <1>1, <1>9, <1>11, <2>1 DEF LastName
<1>12. CASE AllAsked
  <2>1. pc' = "broadcast" => Broadcasts
    <3>1. servers \in Seq(Seq(Letters)) /\ Len(servers) \in Nat
      BY DEF TypeOK
    <3>2. i - 1 = Len(servers) /\ DOMAIN servers = 1..Len(servers)
      BY <1>12, <3>1 DEF AllAsked
    <3>3. bcast => \E k \in 1..i - 1 : servers[k] = <<"*">>
      BY DEF CountInv
    <3>4. bcast => \E k \in DOMAIN servers : servers[k] = <<"*">>
      BY <3>2, <3>3
    <3> QED
      BY <1>12, <3>4 DEF AllAsked, Broadcasts
  <2>2. \A h \in Hosts : Broadcast(h)' = Broadcast(h)
    BY <1>1, <1>12 DEF AllAsked
  <2>3. \A h \in Hosts : asked'[h] + replied'[h] + Broadcast(h) <=
                         asked[h] + replied[h] + Broadcast(h)'
    BY <1>1, <1>12, <2>2 DEF AllAsked
  <2> QED
    BY <1>9, <1>12, <2>1, <2>3 DEF AllAsked
<1>13. CASE bcastUDP
  <2>1. Broadcasts /\ nets' = nets + 1
    BY <1>13 DEF bcastUDP, CountInv
  <2>2. ASSUME NEW h \in Hosts
        PROVE  asked'[h] + replied'[h] + Broadcast(h) <= asked[h] + replied[h] + Broadcast(h)'
    <3>1. Broadcast(h)' = Broadcast(h) + IF h \in Networks[nets'] THEN 1 ELSE 0
      BY <2>1, BroadcastNext
    <3>2. replied' = replied /\ asked'[h] <= asked[h] + IF h \in Networks[nets'] THEN 1 ELSE 0
      BY <1>1, <1>13 DEF bcastUDP, Ask
    <3> QED
      BY <1>1, <3>1, <3>2
  <2> QED
    BY <1>9, <1>13, <2>1, <2>2 DEF bcastUDP
<1>20. CASE BroadcastEnds
  <2>1. \A h \in Hosts : asked'[h] + replied'[h] + Broadcast(h) <=
                         asked[h] + replied[h] + Broadcast(h)'
    BY <1>1, <1>20 DEF BroadcastEnds
  <2> QED
    BY <1>9, <1>20, <2>1 DEF BroadcastEnds
<1>14. CASE BroadcastFails
  <2>1. \A h \in Hosts : Broadcast(h)' = Broadcast(h)
    BY <1>1, <1>14 DEF BroadcastFails
  <2>2. \A h \in Hosts : asked'[h] + replied'[h] + Broadcast(h) <=
                         asked[h] + replied[h] + Broadcast(h)'
    BY <1>1, <1>14, <2>1 DEF BroadcastFails
  <2> QED
    BY <1>9, <1>14, <2>2 DEF BroadcastFails
<1>15. ASSUME NEW g \in Hosts, Answer(g) PROVE CountInv'
  <2>1. ASSUME NEW h \in Hosts PROVE asked'[h] + replied'[h] <= asked[h] + replied[h]
    <3>1. asked'[h] = asked[h] - IF h = g THEN 1 ELSE 0
      BY <1>15, OneLess DEF Answer, TypeOK
    <3>2. replied'[h] = replied[h] + IF h = g THEN 1 ELSE 0
      BY <1>15 DEF Answer, TypeOK
    <3> QED
      BY <1>1, <3>1, <3>2
  <2> QED
    BY <1>10, <1>15, <2>1 DEF Answer
<1>16. ASSUME NEW g \in Hosts, Lose(g) PROVE CountInv'
  <2>1. \A h \in Hosts : asked'[h] + replied'[h] <= asked[h] + replied[h]
    <3>1. CASE asked[g] > 0 /\ asked' = [asked EXCEPT ![g] = @ - 1] /\ UNCHANGED replied
      <4>1. \A h \in Hosts : asked'[h] = asked[h] - IF h = g THEN 1 ELSE 0
        BY <3>1, OneLess DEF TypeOK
      <4> QED
        BY <1>1, <3>1, <4>1
    <3>2. CASE replied[g] > 0 /\ replied' = [replied EXCEPT ![g] = @ - 1] /\ UNCHANGED asked
      <4>1. \A h \in Hosts : replied'[h] = replied[h] - IF h = g THEN 1 ELSE 0
        BY <3>2, OneLess DEF TypeOK
      <4> QED
        BY <1>1, <3>2, <4>1
    <3> QED
      BY <1>16, <3>1, <3>2 DEF Lose
  <2>2. UNCHANGED Own
    BY <1>16 DEF Lose
  <2> QED
    BY <1>10, <2>1, <2>2
<1>17. ASSUME NEW g \in Hosts, statusrecv(g) PROVE CountInv'
  <2>1. /\ UNCHANGED <<pc, servers, i, bcast, nets, asked>>
        /\ shown' = Append(shown, Printed(g))
        /\ replied[g] > 0 /\ replied' = [replied EXCEPT ![g] = @ - 1]
    BY <1>17 DEF statusrecv, Arrives
  <2>2. ASSUME NEW h \in Hosts
        PROVE  Times(h)' + asked'[h] + replied'[h] <= Before(h)' + Broadcast(h)'
    <3>1. Before(h)' = Before(h) /\ Broadcast(h)' = Broadcast(h)
      BY <1>1, <2>1 DEF Before
    <3>2. Times(h)' = Times(h) + IF h = g THEN 1 ELSE 0
      BY <2>1, TimesNext
    <3>3. replied'[h] = replied[h] - IF h = g THEN 1 ELSE 0
      BY <2>1, OneLess DEF TypeOK
    <3>4. Times(h) + asked[h] + replied[h] <= Before(h) + Broadcast(h)
      BY DEF CountInv
    <3>5. Times(h)' + asked'[h] + replied'[h] = Times(h) + asked[h] + replied[h]
      <4>1. CASE h = g
        <5>1. Times(h)' = Times(h) + 1 /\ replied'[h] = replied[h] - 1 /\ asked'[h] = asked[h]
          BY <2>1, <3>2, <3>3, <4>1
        <5>2. Times(h) \in Nat /\ asked[h] \in Nat /\ replied[h] \in Nat
          BY <1>1, <1>2
        <5> QED
          BY <5>1, <5>2
      <4>2. CASE h # g
        BY <1>1, <1>2, <2>1, <3>2, <3>3, <4>2
      <4> QED
        BY <4>1, <4>2
    <3> QED
      BY <3>1, <3>4, <3>5
  <2>3. Broadcasts' = Broadcasts
    BY <2>1 DEF Broadcasts
  <2> QED
    BY <2>1, <2>2, <2>3 DEF CountInv
<1>18. ASSUME NEW g \in Hosts, BadReply(g) PROVE CountInv'
  <2>1. ASSUME NEW h \in Hosts PROVE asked'[h] + replied'[h] <= asked[h] + replied[h]
    <3>1. asked' = asked /\ replied'[h] = replied[h] - IF h = g THEN 1 ELSE 0
      BY <1>18, OneLess DEF BadReply, Arrives, TypeOK
    <3> QED
      BY <1>1, <3>1
  <2> QED
    BY <1>10, <1>18, <2>1 DEF BadReply, Receiving
<1>19. CASE Timeout \/ EnoughReplies \/ UNCHANGED vars
  <2>1. \A h \in Hosts : asked'[h] + replied'[h] <= asked[h] + replied[h]
    BY <1>1, <1>19 DEF Timeout, EnoughReplies, vars
  <2> QED
    BY <1>10, <1>19, <2>1 DEF Timeout, Receiving, EnoughReplies, vars
<1> QED
  BY <1>4, <1>6, <1>7, <1>8, <1>11, <1>12, <1>13, <1>14, <1>15, <1>16, <1>17, <1>18,
     <1>19, <1>20 DEF Next

\* As many tuples as there are places in them.
Tagged(tag, P, h) == {<<tag, k, h>> : k \in P}

LEMMA Tuples ==
    ASSUME NEW P, IsFiniteSet(P), NEW tag, NEW h
    PROVE  /\ IsFiniteSet(Tagged(tag, P, h))
           /\ Cardinality(Tagged(tag, P, h)) = Cardinality(P)
<1> DEFINE A == {<<tag, k, h>> : k \in P}
           f == [k \in P |-> <<tag, k, h>>]
<1>1. f \in Bijection(P, A)
  <2>1. f \in [P -> A]
    OBVIOUS
  <2>2. \A j, k \in P : f[j] = f[k] => j = k
    OBVIOUS
  <2>3. \A r \in A : \E k \in P : f[k] = r
    OBVIOUS
  <2> HIDE DEF A, f
  <2> QED
    BY <2>1, <2>2, <2>3 DEF Bijection, Injection, Surjection, IsInjective
<1> HIDE DEF A, f
<1>2. IsFiniteSet(A) /\ Cardinality(A) = Cardinality(P)
  BY <1>1, FS_Bijection DEF ExistsBijection
<1> QED
  BY <1>2 DEF A, Tagged

\* What the whole broadcast asks of h.
Wide(h) == IF Broadcasts THEN CountTo(Len(Networks), Reach(h), 1) ELSE 0

\* The requests to h: for each place of its name in the list, and for each network.
LEMMA DueIs ==
    ASSUME TypeOK, NEW h \in Hosts
    PROVE  /\ CountTo(Len(servers), servers, NameOf[h]) \in Nat /\ Wide(h) \in Nat
           /\ Due(h) = CountTo(Len(servers), servers, NameOf[h]) + Wide(h)
<1> DEFINE n == Len(servers)
           w == Len(Networks)
           P == {k \in 1..n : servers[k] = NameOf[h]}
           Q == {k \in 1..w : Reach(h)[k] = 1}
           A == Tagged("name", P, h)
           B == Tagged("network", Q, h)
           R == {r \in Requests : r[3] = h}
<1>1. n \in Nat /\ w \in Nat /\ DOMAIN servers = 1..n /\ DOMAIN Networks = 1..w
  BY StatusAssumption, LenProperties DEF TypeOK
<1>2. IsFiniteSet(P) /\ IsFiniteSet(Q)
  <2>1. IsFiniteSet(1..n) /\ IsFiniteSet(1..w)
    BY <1>1, PlacesCounted
  <2>2. P \subseteq 1..n /\ Q \subseteq 1..w
    OBVIOUS
  <2> QED
    BY <2>1, <2>2, FS_Subset
<1>3. /\ IsFiniteSet(A) /\ Cardinality(A) = Cardinality(P)
      /\ IsFiniteSet(B) /\ Cardinality(B) = Cardinality(Q)
  <2> HIDE DEF P, Q
  <2> QED
    BY <1>2, Tuples
<1>4. Cardinality(P) \in Nat /\ Cardinality(Q) \in Nat
  <2> HIDE DEF P, Q
  <2> QED
    BY <1>2, FS_CardinalityType
<1>5. A \intersect B = {}
  BY DEF Tagged
<1>6. Q = {k \in DOMAIN Networks : h \in Networks[k]}
  BY <1>1 DEF Reach
<1>7. {r \in Named : r[3] = h} = A
  BY <1>1 DEF Named, Tagged
<1>8. {r \in Reached : r[3] = h} = IF Broadcasts THEN B ELSE {}
  BY <1>1, <1>6 DEF Reached, Tagged
<1>9. R = IF Broadcasts THEN A \union B ELSE A
  <2> HIDE DEF A, B
  <2> QED
    BY <1>7, <1>8 DEF Requests
<1>10. Cardinality(R) = Cardinality(P) + IF Broadcasts THEN Cardinality(Q) ELSE 0
  <2> HIDE DEF A, B, P, Q, R
  <2>1. Cardinality(A \union B) = Cardinality(A) + Cardinality(B) - Cardinality(A \intersect B)
    BY <1>3, FS_Union
  <2>2. Cardinality({}) = 0
    BY FS_EmptySet
  <2>3. CASE Broadcasts
    <3>1. Cardinality(R) = Cardinality(P) + Cardinality(Q) - 0
      BY <1>3, <1>5, <1>9, <2>1, <2>2, <2>3
    <3> QED
      BY <1>4, <2>3, <3>1
  <2>4. CASE ~ Broadcasts
    BY <1>3, <1>4, <1>9, <2>4
  <2> QED
    BY <2>3, <2>4
<1> QED
  BY <1>4, <1>10 DEF Due, CountTo, Wide

\* What is shown and what is on the way has been asked for.
LEMMA ShownOfDue ==
    ASSUME TypeOK, CountInv, NEW h \in Hosts
    PROVE  /\ Times(h) \in Nat /\ Due(h) \in Nat
           /\ Before(h) + Broadcast(h) <= Due(h)
           /\ Times(h) + asked[h] + replied[h] <= Due(h)
<1> DEFINE m == i - 1
           n == Len(servers)
           named == CountTo(n, servers, NameOf[h])
<1>1. m \in Nat /\ n \in Nat /\ m <= n
  <2>1. n \in Nat /\ i \in 1..n + 1
    BY DEF TypeOK
  <2> QED
    BY <2>1
<1>2. Before(h) = CountTo(m, servers, NameOf[h])
  BY DEF Before, CountTo
<1>3. named \in Nat /\ Wide(h) \in Nat /\ Due(h) = named + Wide(h)
  BY DueIs
<1> HIDE DEF m, n
<1>4. Before(h) \in Nat /\ Before(h) <= named
  BY <1>1, <1>2, Counted
<1> HIDE DEF named
<1>5. Times(h) + asked[h] + replied[h] <= Before(h) + Broadcast(h)
  BY DEF CountInv
<1>6. asked[h] \in Nat /\ replied[h] \in Nat /\ Times(h) \in Nat
  BY TimesType DEF TypeOK
<1>7. Broadcast(h) \in Nat /\ Broadcast(h) <= Wide(h)
  <2>1. nets \in Nat /\ 0 \in Nat /\ Len(Networks) \in Nat /\ nets <= Len(Networks) /\ nets <= nets
    <3>1. Len(Networks) \in Nat
      BY StatusAssumption, LenProperties
    <3> QED
      BY <3>1 DEF TypeOK
  <2>2. /\ CountTo(nets, Reach(h), 1) \in Nat
        /\ CountTo(nets, Reach(h), 1) <= CountTo(Len(Networks), Reach(h), 1)
    BY <2>1, Counted
  <2>3. ~ Broadcasts => CountTo(nets, Reach(h), 1) = 0
    <3>1. ~ Broadcasts => {k \in 1..nets : Reach(h)[k] = 1} = {}
      BY <2>1 DEF CountInv
    <3> QED
      BY <3>1, FS_EmptySet DEF CountTo
  <2> QED
    BY <2>2, <2>3 DEF Broadcast, Wide
<1>8. Due(h) \in Nat /\ Before(h) + Broadcast(h) <= Due(h)
  BY <1>3, <1>4, <1>7
<1> QED
  BY <1>4, <1>5, <1>6, <1>7, <1>8

\* Requests and replies that are lost, late or malformed, names twice in the list and "*"
\* as often as one likes: a daemon is shown at most once for each time that it is named
\* and once for each network on which a broadcast reaches it.
THEOREM NobodyTooOftenAlways == Spec => []NobodyTooOften
<1>1. TypeOK /\ CountInv /\ [Next]_vars => (TypeOK /\ CountInv)'
  BY StepType, StepCount
<1>2. Init => TypeOK /\ CountInv
  BY InitType, InitCount
<1>3. TypeOK /\ CountInv => NobodyTooOften
  <2> SUFFICES ASSUME TypeOK, CountInv, NEW h \in Hosts PROVE Times(h) <= Due(h)
    BY DEF NobodyTooOften
  <2>1. Times(h) \in Nat /\ Due(h) \in Nat /\ Times(h) + asked[h] + replied[h] <= Due(h)
    BY ShownOfDue
  <2>2. asked[h] \in Nat /\ replied[h] \in Nat
    BY DEF TypeOK
  <2> QED
    BY <2>1, <2>2
<1> QED
  BY <1>1, <1>2, <1>3, PTL DEF Spec

-----------------------------------------------------------------------------
(* Everyone                                                                  *)

\* As long as nothing is lost, what was asked of h is on the way or shown.
Even(h) == Before(h) + Broadcast(h) <= Times(h) + asked[h] + replied[h]

EvenInv ==
    /\ servers # <<>> => Len(shown) <= Len(servers)
    /\ pc \in {"names", "send", "broadcast"} => shown = <<>>
    /\ pc \notin {"names", "send"} => i = Len(servers) + 1
    /\ (\E k \in 1..i - 1 : servers[k] = <<"*">>) => bcast
    /\ ~ missed /\ pc \notin {"bad", "failed"} => \A h \in Hosts : Even(h)
    /\ ~ missed /\ pc = "quiet" => \A h \in Hosts : asked[h] + replied[h] = 0
    /\ pc = "full" => servers # <<>> /\ Len(servers) <= Len(shown)
    /\ pc \in {"recv", "full", "quiet"} /\ Broadcasts => nets = Len(Networks)

LEMMA InitEven == Init => EvenInv
<1> SUFFICES ASSUME Init PROVE EvenInv
  OBVIOUS
<1>1. ASSUME NEW h \in Hosts PROVE Even(h)
  <2>1. /\ {k \in DOMAIN shown : shown[k].host = h} = {}
        /\ {k \in 1..i - 1 : servers[k] = NameOf[h]} = {}
        /\ {k \in 1..nets : Reach(h)[k] = 1} = {}
    BY DEF Init
  <2>2. Times(h) = 0 /\ Before(h) = 0 /\ Broadcast(h) = 0
    BY <2>1, FS_EmptySet DEF Times, Before, Broadcast, CountTo
  <2> QED
    BY <2>2 DEF Init, Even
<1>2. Len(shown) = 0 /\ (servers # <<>> => Len(servers) \in Nat)
  BY InitType DEF Init, TypeOK
<1>3. servers # <<>> => Len(shown) <= Len(servers)
  BY <1>2
<1>4. ~ \E k \in 1..i - 1 : servers[k] = <<"*">>
  BY DEF Init
<1> QED
  BY <1>1, <1>3, <1>4 DEF Init, EvenInv

LEMMA StepEven == TypeOK /\ TypeOK' /\ CountInv /\ EvenInv /\ [Next]_vars => EvenInv'
<1> SUFFICES ASSUME TypeOK, TypeOK', CountInv, EvenInv, [Next]_vars PROVE EvenInv'
  OBVIOUS
<1> USE DEF command, list, network, Own
<1>1. /\ \A h \in Hosts : asked[h] \in Nat /\ replied[h] \in Nat
      /\ \A h \in Hosts : asked'[h] \in Nat /\ replied'[h] \in Nat
      /\ \A h \in Hosts : Broadcast(h) \in Nat /\ Broadcast(h)' \in Nat
      /\ nets' = nets => \A h \in Hosts : Broadcast(h)' = Broadcast(h)
      /\ \A h \in Hosts : Times(h) \in Nat
      /\ missed \in BOOLEAN /\ missed' \in BOOLEAN
      /\ Len(servers) \in Nat /\ Len(shown) \in Nat /\ i \in Nat /\ 1 <= i
  <2>1. Len(servers) \in Nat /\ i \in 1..Len(servers) + 1 /\ Len(shown) \in Nat
    BY DEF TypeOK
  <2>2. /\ \A h \in Hosts : asked[h] \in Nat /\ replied[h] \in Nat
        /\ \A h \in Hosts : asked'[h] \in Nat /\ replied'[h] \in Nat
        /\ missed \in BOOLEAN /\ missed' \in BOOLEAN
    BY DEF TypeOK
  <2>3. /\ \A h \in Hosts : Broadcast(h) \in Nat /\ Broadcast(h)' \in Nat
        /\ nets' = nets => \A h \in Hosts : Broadcast(h)' = Broadcast(h)
    BY BroadcastNext
  <2>4. \A h \in Hosts : Times(h) \in Nat
    BY TimesType
  <2> QED
    BY <2>1, <2>2, <2>3, <2>4
<1>2. \A h \in Hosts : i' \in {i, i + 1} /\ servers' = servers =>
        /\ Before(h) \in Nat /\ Before(h)' \in Nat
        /\ i' = i + 1 /\ servers[i] = NameOf[h] => Before(h)' = Before(h) + 1
        /\ i' = i + 1 /\ servers[i] # NameOf[h] => Before(h)' = Before(h)
        /\ i' = i => Before(h)' = Before(h)
  BY BeforeNext
<1>3. CASE NextName
  <2>1. pc = "names" /\ i = 1 /\ pc' \in {"names", "send"} /\ shown = <<>>
    BY <1>3 DEF NextName, CountInv, EvenInv
  <2>2. UNCHANGED <<i, bcast, nets, asked, replied, missed, shown>>
    BY <1>3 DEF NextName
  <2>3. ASSUME NEW h \in Hosts, ~ missed PROVE Even(h)'
    <3>1. {k \in 1..i - 1 : servers[k] = NameOf[h]} = {k \in 1..i' - 1 : servers'[k] = NameOf[h]}
      BY <2>1, <2>2
    <3>2. Before(h)' = Before(h)
      BY <3>1 DEF Before
    <3>3. Times(h)' = Times(h)
      BY <2>2 DEF Times
    <3>4. Broadcast(h)' = Broadcast(h)
      BY <1>1, <2>2
    <3>5. Even(h)
      BY <2>1, <2>3 DEF EvenInv
    <3> QED
      BY <2>2, <3>2, <3>3, <3>4, <3>5 DEF Even
  <2>4. Len(shown') = 0 /\ Len(servers') \in Nat
    BY <2>1, <2>2 DEF TypeOK
  <2>5. ~ \E k \in 1..i' - 1 : servers'[k] = <<"*">>
    BY <2>1, <2>2
  <2> QED
    BY <2>1, <2>2, <2>3, <2>4, <2>5 DEF EvenInv
<1>4. CASE /\ Sending /\ bcast' = (bcast \/ servers[i] = <<"*">>) /\ (missed => missed')
           /\ ~ missed' => \A h \in Hosts : asked'[h] + replied'[h] =
                asked[h] + replied[h] + IF servers[i] = NameOf[h] THEN 1 ELSE 0
  <2>1. /\ UNCHANGED <<servers, pc, nets, shown>> /\ pc = "send" /\ i' = i + 1
    BY <1>4 DEF Sending
  <2>2. (\E k \in 1..i' - 1 : servers'[k] = <<"*">>) => bcast'
    <3>1. ASSUME NEW k \in 1..i' - 1 PROVE k = i \/ k \in 1..i - 1
      BY <1>1, <2>1
    <3> QED
      BY <1>4, <2>1, <3>1 DEF EvenInv
  <2>3. ASSUME NEW h \in Hosts, ~ missed' PROVE Even(h)'
    <3>1. Times(h)' = Times(h)
      BY <2>1 DEF Times
    <3>2. Broadcast(h) \in Nat /\ Broadcast(h)' = Broadcast(h)
      BY <1>1, <2>1
    <3>3. Before(h) + Broadcast(h) <= Times(h) + asked[h] + replied[h]
      BY <1>4, <2>1, <2>3 DEF EvenInv, Even
    <3>4. /\ Before(h) \in Nat /\ Before(h)' \in Nat
          /\ servers[i] = NameOf[h] => Before(h)' = Before(h) + 1
          /\ servers[i] # NameOf[h] => Before(h)' = Before(h)
      BY <1>2, <2>1
    <3>5. Before(h)' + Broadcast(h)' <= Times(h)' + asked'[h] + replied'[h]
      <4>1. /\ Times(h) \in Nat /\ asked[h] \in Nat /\ replied[h] \in Nat
            /\ asked'[h] \in Nat /\ replied'[h] \in Nat
        BY <1>1
      <4>2. asked'[h] + replied'[h] =
              asked[h] + replied[h] + IF servers[i] = NameOf[h] THEN 1 ELSE 0
        BY <1>4, <2>3
      <4>3. CASE servers[i] = NameOf[h]
        BY <3>1, <3>2, <3>3, <3>4, <4>1, <4>2, <4>3
      <4>4. CASE servers[i] # NameOf[h]
        BY <3>1, <3>2, <3>3, <3>4, <4>1, <4>2, <4>4
      <4> QED
        BY <4>3, <4>4
    <3> QED
      BY <3>5 DEF Even
  <2> QED
    BY <2>1, <2>2, <2>3 DEF EvenInv
<1>5. CASE Star
  <2>1. bcast' = (bcast \/ servers[i] = <<"*">>)
    BY <1>5 DEF Star
  <2>2. \A h \in Hosts : servers[i] # NameOf[h]
    BY <1>5, StatusAssumption DEF Star
  <2>3. \A h \in Hosts : asked'[h] + replied'[h] =
          asked[h] + replied[h] + IF servers[i] = NameOf[h] THEN 1 ELSE 0
    BY <1>1, <1>5, <2>2 DEF Star
  <2> QED
    BY <1>4, <1>5, <2>1, <2>3 DEF Star
<1>6. CASE AskServer
  <2>1. PICK g \in Hosts : servers[i] = NameOf[g] /\ Ask({g})
    BY <1>6 DEF AskServer
  <2>2. servers[i] # <<"*">>
    BY <2>1, StatusAssumption
  <2>3. bcast' = (bcast \/ servers[i] = <<"*">>)
    BY <1>6, <2>2 DEF AskServer, TypeOK
  <2>4. ASSUME NEW h \in Hosts, ~ missed'
        PROVE  asked'[h] + replied'[h] =
                 asked[h] + replied[h] + IF servers[i] = NameOf[h] THEN 1 ELSE 0
    <3>1. replied' = replied /\ asked'[h] = asked[h] + IF h = g THEN 1 ELSE 0
      BY <1>1, <2>1, <2>4 DEF Ask
    <3>2. servers[i] = NameOf[h] <=> h = g
      BY <2>1, StatusAssumption
    <3> QED
      BY <1>1, <3>1, <3>2
  <2>5. missed => missed'
    BY <2>1 DEF Ask
  <2> QED
    BY <1>4, <1>6, <2>3, <2>4, <2>5 DEF AskServer
<1>7. CASE UnknownHost
  <2>1. bcast' = (bcast \/ servers[i] = <<"*">>)
    <3>1. bcast' = bcast /\ ~ (servers[i] = <<"*">>)
      BY <1>7 DEF UnknownHost
    <3>2. bcast \in BOOLEAN
      BY DEF TypeOK
    <3> QED
      BY <3>1, <3>2
  <2>2. \A h \in Hosts : asked'[h] + replied'[h] =
          asked[h] + replied[h] + IF servers[i] = NameOf[h] THEN 1 ELSE 0
    BY <1>1, <1>7 DEF UnknownHost
  <2> QED
    BY <1>4, <1>7, <2>1, <2>2 DEF UnknownHost
<1>8. ASSUME UNCHANGED <<servers, i, bcast, shown>>,
             pc' = pc \/ pc' \notin {"names", "send"},
             pc' \in {"names", "send", "broadcast"} => pc \in {"names", "send", "broadcast"},
             pc' \notin {"names", "send"} => i = Len(servers) + 1,
             missed => missed',
             ~ missed' /\ pc' \notin {"bad", "failed"} =>
               /\ pc \notin {"bad", "failed"}
               /\ \A h \in Hosts : asked[h] + replied[h] + Broadcast(h)' <=
                                   asked'[h] + replied'[h] + Broadcast(h),
             ~ missed' /\ pc' = "quiet" => \A h \in Hosts : asked'[h] + replied'[h] = 0,
             pc' = "full" => servers # <<>> /\ Len(servers) <= Len(shown),
             pc' \in {"recv", "full", "quiet"} /\ Broadcasts => nets' = Len(Networks)
      PROVE  EvenInv'
  <2>1. ASSUME NEW h \in Hosts, ~ missed', pc' \notin {"bad", "failed"} PROVE Even(h)'
    <3>1. Times(h)' = Times(h) /\ Before(h)' = Before(h) /\ Before(h) \in Nat
      BY <1>2, <1>8, SameCounts
    <3>2. Before(h) + Broadcast(h) <= Times(h) + asked[h] + replied[h]
      BY <1>8, <2>1 DEF EvenInv, Even
    <3>3. asked[h] + replied[h] + Broadcast(h)' <= asked'[h] + replied'[h] + Broadcast(h)
      BY <1>8, <2>1
    <3>4. Before(h)' + Broadcast(h)' <= Times(h)' + asked'[h] + replied'[h]
      <4>1. /\ Times(h) \in Nat /\ asked[h] \in Nat /\ replied[h] \in Nat
            /\ asked'[h] \in Nat /\ replied'[h] \in Nat
            /\ Broadcast(h) \in Nat /\ Broadcast(h)' \in Nat
        BY <1>1
      <4> QED
        BY <3>1, <3>2, <3>3, <4>1
    <3> QED
      BY <3>4 DEF Even
  <2>2. Broadcasts' = Broadcasts
    BY <1>8 DEF Broadcasts
  <2> QED
    BY <1>8, <2>1, <2>2 DEF EvenInv
<1>9. CASE LastName
  <2>1. UNCHANGED <<servers, i, bcast, nets, shown, asked, replied, missed>>
        /\ pc = "names" /\ pc' = "send"
    BY <1>9 DEF LastName
  <2>2. \A h \in Hosts : Even(h) => Even(h)'
    <3>1. \A h \in Hosts : Times(h)' = Times(h) /\ Before(h)' = Before(h)
      BY <2>1, SameCounts
    <3>2. \A h \in Hosts : Broadcast(h)' = Broadcast(h)
      BY <1>1, <2>1
    <3> QED
      BY <2>1, <3>1, <3>2 DEF Even
  <2> QED
    BY <2>1, <2>2 DEF EvenInv
<1>10. CASE AllAsked
  <2>1. /\ UNCHANGED <<servers, i, bcast, nets, shown, asked, replied, missed>>
        /\ pc = "send" /\ i = Len(servers) + 1
        /\ pc' = IF bcast \/ servers = <<>> THEN "broadcast" ELSE "recv"
    BY <1>10 DEF AllAsked
  <2>2. pc' = "recv" => ~ Broadcasts
    <3> SUFFICES ASSUME pc' = "recv" PROVE ~ Broadcasts
      OBVIOUS
    <3>1. ~ bcast /\ servers # <<>>
      BY <2>1
    <3>2. DOMAIN servers = 1..i - 1
      <4>1. servers \in Seq(Seq(Letters))
        BY DEF TypeOK
      <4> QED
        BY <1>1, <2>1, <4>1
    <3> QED
      BY <3>1, <3>2 DEF Broadcasts, EvenInv
  <2>3. \A h \in Hosts : asked[h] + replied[h] + Broadcast(h)' <=
                         asked'[h] + replied'[h] + Broadcast(h)
    BY <1>1, <2>1
  <2> QED
    BY <1>8, <2>1, <2>2, <2>3
<1>11. CASE bcastUDP
  <2>1. /\ UNCHANGED <<servers, i, bcast, shown>>
        /\ pc = "broadcast" /\ pc' = pc /\ (missed => missed') /\ replied' = replied
        /\ nets' = nets + 1
    BY <1>11 DEF bcastUDP, Ask
  <2>2. ASSUME NEW h \in Hosts, ~ missed'
        PROVE  asked[h] + replied[h] + Broadcast(h)' <= asked'[h] + replied'[h] + Broadcast(h)
    <3>1. Broadcast(h)' = Broadcast(h) + IF h \in Networks[nets'] THEN 1 ELSE 0
      BY <2>1, BroadcastNext
    <3>2. asked'[h] = asked[h] + IF h \in Networks[nets'] THEN 1 ELSE 0
      BY <1>1, <1>11, <2>2 DEF bcastUDP, Ask
    <3>3. asked[h] \in Nat /\ replied[h] \in Nat /\ Broadcast(h) \in Nat /\ replied'[h] = replied[h]
      BY <1>1, <2>1
    <3>4. CASE h \in Networks[nets']
      BY <3>1, <3>2, <3>3, <3>4
    <3>5. CASE h \notin Networks[nets']
      BY <3>1, <3>2, <3>3, <3>5
    <3> QED
      BY <3>4, <3>5
  <2>3. i = Len(servers) + 1
    BY <2>1 DEF EvenInv
  <2> QED
    BY <1>8, <2>1, <2>2, <2>3
<1>21. CASE BroadcastEnds
  <2>1. /\ UNCHANGED <<servers, i, bcast, nets, shown, asked, replied, missed>>
        /\ pc = "broadcast" /\ pc' = "recv" /\ nets = Len(Networks)
    BY <1>21 DEF BroadcastEnds
  <2>2. \A h \in Hosts : asked[h] + replied[h] + Broadcast(h)' <=
                         asked'[h] + replied'[h] + Broadcast(h)
    BY <1>1, <2>1
  <2>3. i = Len(servers) + 1
    BY <2>1 DEF EvenInv
  <2> QED
    BY <1>8, <2>1, <2>2, <2>3
<1>12. CASE BroadcastFails
  <2>1. /\ UNCHANGED <<servers, i, bcast, shown, missed>>
        /\ pc = "broadcast" /\ pc' = "failed"
    BY <1>12 DEF BroadcastFails
  <2> QED
    BY <1>8, <2>1 DEF EvenInv
<1>13. ASSUME UNCHANGED <<servers, i, bcast, nets, shown, pc>>, missed => missed',
              ~ missed' => \A h \in Hosts : asked'[h] + replied'[h] = asked[h] + replied[h]
       PROVE  EvenInv'
  <2>1. \A h \in Hosts : Broadcast(h)' = Broadcast(h)
    BY <1>1, <1>13
  <2>2. ~ missed' => \A h \in Hosts : asked[h] + replied[h] + Broadcast(h)' <=
                                      asked'[h] + replied'[h] + Broadcast(h)
    BY <1>1, <1>13, <2>1
  <2>3. ~ missed' /\ pc' = "quiet" => \A h \in Hosts : asked'[h] + replied'[h] = 0
    BY <1>13 DEF EvenInv
  <2> QED
    BY <1>8, <1>13, <2>2, <2>3 DEF EvenInv
<1>14. ASSUME NEW g \in Hosts, Answer(g) PROVE EvenInv'
  <2>1. ASSUME NEW h \in Hosts PROVE asked'[h] + replied'[h] = asked[h] + replied[h]
    <3>1. asked'[h] = asked[h] - IF h = g THEN 1 ELSE 0
      BY <1>14, OneLess DEF Answer, TypeOK
    <3>2. replied'[h] = replied[h] + IF h = g THEN 1 ELSE 0
      BY <1>14 DEF Answer, TypeOK
    <3>3. asked[h] \in Nat /\ replied[h] \in Nat
      BY <1>1
    <3>4. CASE h = g
      <4>1. asked'[h] = asked[h] - 1 /\ replied'[h] = replied[h] + 1
        BY <3>1, <3>2, <3>4
      <4> QED
        BY <3>3, <4>1
    <3>5. CASE h # g
      <4>1. asked'[h] = asked[h] - 0 /\ replied'[h] = replied[h] + 0
        BY <3>1, <3>2, <3>5
      <4> QED
        BY <3>3, <4>1
    <3> QED
      BY <3>4, <3>5
  <2> QED
    BY <1>13, <1>14, <2>1 DEF Answer
<1>15. ASSUME NEW g \in Hosts, Lose(g) PROVE EvenInv'
  BY <1>13, <1>15 DEF Lose
<1>16. ASSUME NEW g \in Hosts, statusrecv(g) PROVE EvenInv'
  <2>1. /\ UNCHANGED <<pc, servers, i, bcast, nets, asked, missed>>
        /\ shown' = Append(shown, Printed(g))
        /\ replied[g] > 0 /\ replied' = [replied EXCEPT ![g] = @ - 1]
        /\ pc = "recv" /\ (servers = <<>> \/ Len(shown) < Len(servers))
    BY <1>16 DEF statusrecv, Arrives, Receiving
  <2>2. ASSUME NEW h \in Hosts, ~ missed PROVE Even(h)'
    <3>1. Before(h)' = Before(h) /\ Broadcast(h)' = Broadcast(h)
      BY <1>1, <2>1 DEF Before
    <3>2. Times(h)' = Times(h) + IF h = g THEN 1 ELSE 0
      BY <2>1, TimesNext
    <3>3. replied'[h] = replied[h] - IF h = g THEN 1 ELSE 0
      BY <2>1, OneLess DEF TypeOK
    <3>4. Before(h) + Broadcast(h) <= Times(h) + asked[h] + replied[h]
      BY <2>1, <2>2 DEF EvenInv, Even
    <3>5. Times(h)' + asked'[h] + replied'[h] = Times(h) + asked[h] + replied[h]
      <4>1. CASE h = g
        <5>1. Times(h)' = Times(h) + 1 /\ replied'[h] = replied[h] - 1 /\ asked'[h] = asked[h]
          BY <2>1, <3>2, <3>3, <4>1
        <5>2. Times(h) \in Nat /\ asked[h] \in Nat /\ replied[h] \in Nat
          BY <1>1
        <5> QED
          BY <5>1, <5>2
      <4>2. CASE h # g
        BY <1>1, <2>1, <3>2, <3>3, <4>2
      <4> QED
        BY <4>1, <4>2
    <3> QED
      BY <3>1, <3>4, <3>5 DEF Even
  <2>3. Len(shown') = Len(shown) + 1
    <3>1. shown \in Seq(Shows) /\ Printed(g) \in Shows
      BY FilledType DEF TypeOK, Shows
    <3> QED
      BY <2>1, <3>1
  <2>4. servers' # <<>> => Len(shown') <= Len(servers')
    BY <1>1, <2>1, <2>3
  <2>5. Broadcasts' = Broadcasts
    BY <2>1 DEF Broadcasts
  <2> QED
    BY <2>1, <2>2, <2>4, <2>5 DEF EvenInv
<1>17. ASSUME NEW g \in Hosts, BadReply(g) PROVE EvenInv'
  <2>1. /\ UNCHANGED <<servers, i, bcast, shown, missed>> /\ pc = "recv" /\ pc' = "bad"
    BY <1>17 DEF BadReply, Arrives, Receiving
  <2> QED
    BY <1>8, <2>1 DEF EvenInv
<1>18. CASE Timeout
  <2>1. /\ UNCHANGED <<servers, i, bcast, nets, shown, asked, replied>>
        /\ pc = "recv" /\ pc' = "quiet"
        /\ missed' = (missed \/ \E h \in Hosts : asked[h] + replied[h] > 0)
    BY <1>18 DEF Timeout, Receiving
  <2>2. \A h \in Hosts : Broadcast(h)' = Broadcast(h)
    BY <1>1, <2>1
  <2>3. ASSUME ~ missed', NEW h \in Hosts PROVE asked'[h] + replied'[h] = 0
    <3>1. ~ (asked[h] + replied[h] > 0) /\ asked[h] \in Nat /\ replied[h] \in Nat
      BY <1>1, <2>1, <2>3
    <3> QED
      BY <2>1, <3>1
  <2>4. \A h \in Hosts : asked[h] + replied[h] + Broadcast(h)' <=
                         asked'[h] + replied'[h] + Broadcast(h)
    BY <1>1, <2>1, <2>2
  <2> QED
    BY <1>8, <2>1, <2>3, <2>4 DEF EvenInv
<1>19. CASE EnoughReplies
  <2>1. /\ UNCHANGED <<servers, i, bcast, nets, shown, asked, replied, missed>>
        /\ pc = "recv" /\ pc' = "full"
        /\ servers # <<>> /\ ~ (Len(shown) < Len(servers))
    BY <1>19 DEF EnoughReplies, Receiving
  <2>2. \A h \in Hosts : Broadcast(h)' = Broadcast(h)
    BY <1>1, <2>1
  <2>3. \A h \in Hosts : asked[h] + replied[h] + Broadcast(h)' <=
                         asked'[h] + replied'[h] + Broadcast(h)
    BY <1>1, <2>1, <2>2
  <2>4. Len(servers) <= Len(shown)
    BY <1>1, <2>1
  <2> QED
    BY <1>8, <2>1, <2>3, <2>4 DEF EvenInv
<1>20. CASE UNCHANGED vars
  BY <1>13, <1>20 DEF vars
<1> QED
  BY <1>3, <1>5, <1>6, <1>7, <1>9, <1>10, <1>11, <1>12, <1>14, <1>15, <1>16, <1>17,
     <1>18, <1>19, <1>20, <1>21 DEF Next

LEMMA EveryoneShown == TypeOK /\ CountInv /\ EvenInv => EveryoneIsShown
<1> SUFFICES ASSUME TypeOK, CountInv, EvenInv, pc \in {"full", "quiet"}, ~ missed
             PROVE  IF <<"*">> \in {servers[k] : k \in DOMAIN servers}
                    THEN Len(shown) = Min({Len(servers), Cardinality(Requests)})
                    ELSE \A h \in Hosts : Times(h) = Due(h)
  BY DEF EveryoneIsShown
<1> DEFINE n == Len(servers)
           D == DOMAIN shown
           E == Requests
           f == [k \in D |-> shown[k].host]
           g == [r \in E |-> r[3]]
<1>1. /\ n \in Nat /\ DOMAIN servers = 1..n /\ Len(shown) \in Nat /\ D = 1..Len(shown)
      /\ f \in [D -> Hosts]
  <2>1. servers \in Seq(Seq(Letters)) /\ shown \in Seq([host : Hosts, rows : Seq(RowContents)])
    BY DEF TypeOK
  <2>2. D = 1..Len(shown) /\ \A k \in D : shown[k] \in [host : Hosts, rows : Seq(RowContents)]
    BY <2>1, LenProperties, ElementOfSeq
  <2> QED
    BY <2>1, <2>2
<1>2. IsFiniteSet(D) /\ Cardinality(D) = Len(shown)
  BY <1>1, PlacesCounted
<1>3. IsFiniteSet(E) /\ Cardinality(E) \in Nat /\ g \in [E -> Hosts]
  <2>1. ASSUME NEW tag, NEW places, IsFiniteSet(places)
        PROVE  IsFiniteSet({tag} \X places \X Hosts)
    <3> DEFINE S == places \X Hosts
               T == {tag} \X places \X Hosts
               t == [q \in S |-> <<tag, q[1], q[2]>>]
    <3>1. IsFiniteSet(S)
      BY <2>1, FS_Product, StatusAssumption
    <3>2. t \in [S -> T]
      OBVIOUS
    <3>3. ASSUME NEW r \in T PROVE \E q \in S : t[q] = r
      <4>1. <<r[2], r[3]>> \in S /\ t[<<r[2], r[3]>>] = r
        OBVIOUS
      <4> QED
        BY <4>1
    <3> HIDE DEF S, T, t
    <3>4. t \in Surjection(S, T)
      BY <3>2, <3>3 DEF Surjection
    <3>5. IsFiniteSet(T)
      BY <3>1, <3>4, FS_Surjection
    <3> QED
      BY <3>5 DEF T
  <2>2. IsFiniteSet(DOMAIN servers) /\ IsFiniteSet(DOMAIN Networks)
    <3>1. Len(Networks) \in Nat /\ DOMAIN Networks = 1..Len(Networks)
      BY StatusAssumption, LenProperties
    <3> QED
      BY <1>1, <3>1, PlacesCounted
  <2>3. IsFiniteSet(Named) /\ IsFiniteSet(Reached)
    <3>1. /\ Named \subseteq {"name"} \X (DOMAIN servers) \X Hosts
          /\ Reached \subseteq {"network"} \X (DOMAIN Networks) \X Hosts
      BY DEF Named, Reached
    <3> QED
      BY <2>1, <2>2, <3>1, FS_Subset
  <2>4. IsFiniteSet(E)
    BY <2>3, FS_Union DEF Requests
  <2>5. g \in [E -> Hosts]
    BY DEF Requests, Named, Reached
  <2> QED
    BY <2>4, <2>5, FS_CardinalityType
<1>4. \A h \in Hosts : /\ Times(h) = Cardinality(Fibre(f, D, h))
                       /\ Due(h) = Cardinality(Fibre(g, E, h))
  <2>1. ASSUME NEW h \in Hosts
        PROVE  {k \in D : shown[k].host = h} = Fibre(f, D, h)
    BY DEF Fibre
  <2>2. ASSUME NEW h \in Hosts
        PROVE  {r \in E : r[3] = h} = Fibre(g, E, h)
    BY DEF Fibre
  <2> QED
    BY <2>1, <2>2 DEF Times, Due
<1>5. \A h \in Hosts : Times(h) \in Nat /\ Due(h) \in Nat /\ Times(h) <= Due(h)
  <2> SUFFICES ASSUME NEW h \in Hosts
               PROVE  Times(h) \in Nat /\ Due(h) \in Nat /\ Times(h) <= Due(h)
    OBVIOUS
  <2>1. Times(h) \in Nat /\ Due(h) \in Nat /\ Times(h) + asked[h] + replied[h] <= Due(h)
    BY ShownOfDue
  <2>2. asked[h] \in Nat /\ replied[h] \in Nat
    BY DEF TypeOK
  <2> QED
    BY <2>1, <2>2
<1> HIDE DEF D, E, f, g
<1>6. /\ Len(shown) <= Cardinality(E)
      /\ Len(shown) = Cardinality(E) => \A h \in Hosts : Times(h) = Due(h)
  <2>1. \A h \in Hosts : Cardinality(Fibre(f, D, h)) <= Cardinality(Fibre(g, E, h))
    BY <1>4, <1>5
  <2>2. IsFiniteSet(D) /\ IsFiniteSet(E) /\ f \in [D -> Hosts] /\ g \in [E -> Hosts]
    BY <1>1, <1>2, <1>3
  <2>3. /\ Cardinality(D) <= Cardinality(E)
        /\ Cardinality(D) = Cardinality(E) =>
             \A h \in Hosts : Cardinality(Fibre(f, D, h)) = Cardinality(Fibre(g, E, h))
    BY <2>1, <2>2, Fibres
  <2> QED
    BY <1>1, <1>2, <1>4, <2>3
<1>7. servers # <<>> => Len(shown) <= n
  BY DEF EvenInv
<1>8. CASE pc = "quiet"
  <2>1. ASSUME NEW h \in Hosts PROVE Times(h) = Due(h)
    <3>1. /\ asked[h] + replied[h] = 0 /\ i = n + 1
          /\ Before(h) + Broadcast(h) <= Times(h) + asked[h] + replied[h]
      BY <1>8 DEF EvenInv, Even
    <3>2. Before(h) = CountTo(n, servers, NameOf[h])
      <4>1. i - 1 = n
        BY <1>1, <3>1
      <4> QED
        BY <4>1 DEF Before, CountTo
    <3>3. Broadcast(h) = Wide(h)
      <4>1. CASE Broadcasts
        <5>1. nets = Len(Networks)
          BY <1>8, <4>1 DEF EvenInv
        <5> QED
          BY <4>1, <5>1 DEF Broadcast, Wide
      <4>2. CASE ~ Broadcasts
        <5>1. Len(Networks) \in Nat
          BY StatusAssumption, LenProperties
        <5>2. {k \in 1..nets : Reach(h)[k] = 1} = {}
          BY <4>2, <5>1 DEF CountInv, TypeOK
        <5> QED
          BY <4>2, <5>2, FS_EmptySet DEF Broadcast, Wide, CountTo
      <4> QED
        BY <4>1, <4>2
    <3>4. Due(h) = Before(h) + Broadcast(h)
      BY <3>2, <3>3, DueIs
    <3>5. asked[h] \in Nat /\ replied[h] \in Nat
      BY DEF TypeOK
    <3> QED
      BY <1>5, <3>1, <3>4, <3>5
  <2>2. Cardinality(E) <= Len(shown)
    <3>1. \A h \in Hosts : Cardinality(Fibre(g, E, h)) <= Cardinality(Fibre(f, D, h))
      BY <1>4, <1>5, <2>1
    <3> QED
      BY <1>1, <1>2, <1>3, <3>1, Fibres
  <2>3. Len(shown) = Cardinality(E)
    BY <1>1, <1>3, <1>6, <2>2
  <2>4. <<"*">> \in {servers[k] : k \in DOMAIN servers} => Len(shown) = Min({n, Cardinality(E)})
    <3>1. Min({n, Cardinality(E)}) = IF n <= Cardinality(E) THEN n ELSE Cardinality(E)
      BY <1>1, <1>3, MinOfTwo
    <3>2. <<"*">> \in {servers[k] : k \in DOMAIN servers} => servers # <<>>
      BY <1>1
    <3> QED
      BY <1>1, <1>3, <1>7, <2>3, <3>1, <3>2
  <2> QED
    BY <2>1, <2>4 DEF E
<1>9. CASE pc = "full"
  <2>1. servers # <<>> /\ Len(shown) = n
    <3>1. servers # <<>> /\ n <= Len(shown)
      BY <1>9 DEF EvenInv
    <3> QED
      BY <1>1, <1>7, <3>1
  <2>2. CASE <<"*">> \in {servers[k] : k \in DOMAIN servers}
    <3>1. Min({n, Cardinality(E)}) = IF n <= Cardinality(E) THEN n ELSE Cardinality(E)
      BY <1>1, <1>3, MinOfTwo
    <3>2. Len(shown) = Min({n, Cardinality(E)})
      BY <1>6, <2>1, <3>1
    <3> QED
      BY <2>2, <3>2 DEF E
  <2>3. CASE <<"*">> \notin {servers[k] : k \in DOMAIN servers}
    <3>1. ~ Broadcasts
      BY <2>1, <2>3 DEF Broadcasts
    <3> DEFINE p == [r \in E |-> r[2]]
    <3>2. \A r \in E : r[2] \in 1..n /\ r[3] \in Hosts /\ r = <<"name", r[2], r[3]>>
                       /\ servers[r[2]] = NameOf[r[3]]
      BY <1>1, <3>1 DEF E, Requests, Named, Reached
    <3>3. p \in Injection(E, 1..n)
      <4>1. p \in [E -> 1..n]
        BY <3>2
      <4>2. ASSUME NEW q \in E, NEW r \in E, p[q] = p[r] PROVE q = r
        <5>1. q[2] = r[2]
          BY <4>2
        <5>2. q[3] = r[3]
          <6>1. q[3] \in Hosts /\ r[3] \in Hosts /\ NameOf[q[3]] = NameOf[r[3]]
            BY <3>2, <5>1
          <6> QED
            BY <6>1, StatusAssumption
        <5> QED
          BY <3>2, <5>1, <5>2
      <4> HIDE DEF p
      <4> QED
        BY <4>1, <4>2 DEF Injection, IsInjective
    <3>4. IsFiniteSet(1..n) /\ Cardinality(1..n) = n
      BY <1>1, PlacesCounted
    <3> HIDE DEF p
    <3>5. Cardinality(E) <= n
      BY <3>3, <3>4, FS_Injection
    <3>6. Len(shown) = Cardinality(E)
      BY <1>1, <1>3, <1>6, <2>1, <3>5
    <3> QED
      BY <1>6, <2>3, <3>6
  <2> QED
    BY <2>2, <2>3
<1> QED
  BY <1>8, <1>9

\* In whatever order the replies come: when xinu-status stops and nothing was lost or late,
\* every daemon has been shown as often as it was asked; with "*" in a list, no more
\* replies than the list has names.
THEOREM EveryoneIsShownAlways == Spec => []EveryoneIsShown
<1>1. TypeOK /\ CountInv /\ EvenInv /\ [Next]_vars => (TypeOK /\ CountInv /\ EvenInv)'
  BY StepType, StepCount, StepEven
<1>2. Init => TypeOK /\ CountInv /\ EvenInv
  BY InitType, InitCount, InitEven
<1> QED
  BY <1>1, <1>2, EveryoneShown, PTL DEF Spec

-----------------------------------------------------------------------------
(* The list                                                                  *)

LEMMA DropFacts ==
    ASSUME NEW s \in Texted, NEW n \in 0..Len(s)
    PROVE  /\ Drop(s, n) \in Texted /\ Len(Drop(s, n)) = Len(s) - n
           /\ \A k \in 1..Len(s) - n : Drop(s, n)[k] = s[n + k]
<1>1. /\ Len(s) \in Nat /\ n \in Nat /\ n <= Len(s)
      /\ \A k \in 1..Len(s) : s[k] \in Letters \union {Space}
  <2>1. Len(s) \in Nat /\ \A k \in 1..Len(s) : s[k] \in Letters \union {Space}
    BY LenProperties DEF Texted
  <2> QED
    BY <2>1
<1> DEFINE p == n + 1
           l == Len(s)
           S == Letters \union {Space}
<1>2. p \in Int /\ l \in Int /\ \A k \in p..l : s[k] \in S
  BY <1>1
<1>3. l - p + 1 = l - n /\ (IF p <= l THEN l - p + 1 ELSE 0) = l - n
      /\ \A k \in 1..l - n : p + k - 1 = n + k
  BY <1>1
<1> HIDE DEF p, l, S
<1>4. /\ Len(SubSeq(s, p, l)) = IF p <= l THEN l - p + 1 ELSE 0
      /\ \A k \in 1..l - p + 1 : SubSeq(s, p, l)[k] = s[p + k - 1]
  BY <1>2, SubSeqProperties
<1>5. Drop(s, n) = SubSeq(s, p, l)
  BY DEF Drop, p, l
<1>6. \A k \in 1..l - n : Drop(s, n)[k] = s[n + k]
  BY <1>3, <1>4, <1>5
<1>7. Len(Drop(s, n)) = l - n
  BY <1>3, <1>4, <1>5
<1> QED
  BY <1>6, <1>7, DropType DEF l

\* What getservers has behind it when s is left, and the words that begin there.
Behind(s) == Len(text) - Len(s)
BeginsTo(x) == {q \in Begins : q <= x}

\* s is the end of the text from the beginning of a word on.
Left(s) == /\ s \in Texted /\ Len(s) <= Len(text)
           /\ \A k \in 1..Len(s) : s[k] = text[Behind(s) + k]
           /\ s # <<>> => s[1] # Space /\ (Behind(s) = 0 \/ text[Behind(s)] = Space)

LEMMA BeginsCounted ==
    ASSUME TypeOK, NEW x \in Nat
    PROVE  /\ Len(text) \in Nat /\ DOMAIN text = 1..Len(text)
           /\ IsFiniteSet(Begins) /\ Cardinality(Begins) \in Nat
           /\ IsFiniteSet(BeginsTo(x)) /\ Cardinality(BeginsTo(x)) \in Nat
           /\ BeginsTo(x) \subseteq Begins /\ Cardinality(BeginsTo(x)) <= Cardinality(Begins)
<1>1. Len(text) \in Nat /\ DOMAIN text = 1..Len(text)
  BY DEF TypeOK
<1>2. IsFiniteSet(Begins)
  <2>1. IsFiniteSet(1..Len(text))
    BY <1>1, PlacesCounted
  <2>2. Begins \subseteq 1..Len(text)
    BY <1>1 DEF Begins
  <2> QED
    BY <2>1, <2>2, FS_Subset
<1>3. BeginsTo(x) \subseteq Begins
  BY DEF BeginsTo
<1>4. IsFiniteSet(BeginsTo(x)) /\ Cardinality(BeginsTo(x)) <= Cardinality(Begins)
  BY <1>2, <1>3, FS_Subset
<1> QED
  BY <1>1, <1>2, <1>3, <1>4, FS_CardinalityType

LEMMA BehindOf ==
    ASSUME NEW s, NEW r, NEW m \in Nat, Len(text) \in Nat, Len(s) \in Nat,
           m <= Len(s), Len(s) <= Len(text), Len(r) = Len(s) - m
    PROVE  Behind(r) = Behind(s) + m /\ Len(r) <= Len(text)
  BY DEF Behind

LEMMA BeginsTyped ==
    ASSUME TypeOK
    PROVE  \A q \in Begins : q \in Nat /\ 1 <= q /\ q <= Len(text)
<1>1. Len(text) \in Nat /\ DOMAIN text = 1..Len(text)
  BY DEF TypeOK
<1> QED
  BY <1>1 DEF Begins

\* Spaces that are dropped before a word.
LEMMA LeftBehindSpaces ==
    ASSUME TypeOK, NEW s \in Texted, Len(s) <= Len(text),
           \A k \in 1..Len(s) : s[k] = text[Behind(s) + k],
           NEW m \in 0..Len(s), Spaces(s, m),
           Behind(s) = 0 \/ m > 0 \/ s = <<>>
    PROVE  Left(Drop(s, m)) /\ Behind(Drop(s, m)) = Behind(s) + m
<1> DEFINE r == Drop(s, m)
           b == Behind(s)
<1>1. /\ Len(text) \in Nat /\ Len(s) \in Nat /\ m \in Nat /\ m <= Len(s)
      /\ b \in Nat /\ b + Len(s) = Len(text)
  BY BeginsCounted, LenProperties DEF Behind, Texted
<1>2. r \in Texted /\ Len(r) = Len(s) - m /\ \A k \in 1..Len(s) - m : r[k] = s[m + k]
  BY DropFacts
<1>3. Behind(r) = b + m /\ Len(r) <= Len(text)
  <2>1. Len(r) = Len(s) - m
    BY <1>2
  <2> HIDE DEF r
  <2> QED
    BY <1>1, <2>1, BehindOf
<1> HIDE DEF r
<1>4. ASSUME NEW k \in 1..Len(r) PROVE r[k] = text[Behind(r) + k]
  <2>1. k \in 1..Len(s) - m /\ m + k \in 1..Len(s) /\ b + (m + k) = (b + m) + k
    BY <1>1, <1>2
  <2> QED
    BY <1>2, <1>3, <2>1
<1>5. ASSUME r # <<>> PROVE r[1] # Space /\ (Behind(r) = 0 \/ text[Behind(r)] = Space)
  <2>1. m < Len(s) /\ 1 \in 1..Len(s) - m
    <3>1. Len(r) # 0
      BY <1>2, <1>5, EmptySeq DEF Texted
    <3>2. Len(r) = Len(s) - m
      BY <1>2
    <3> QED
      BY <1>1, <3>1, <3>2
  <2>2. r[1] = s[m + 1] /\ s[m + 1] # Space
    BY <1>2, <2>1 DEF Spaces
  <2>3. CASE m = 0
    <3>1. s # <<>>
      BY <1>1, <2>1
    <3> QED
      BY <1>1, <1>3, <2>2, <2>3, <3>1
  <2>4. CASE m # 0
    <3>1. m \in 1..m /\ m \in 1..Len(s)
      BY <1>1, <2>4
    <3>2. s[m] = Space /\ s[m] = text[b + m]
      BY <3>1 DEF Spaces
    <3> QED
      BY <1>3, <2>2, <3>2
  <2> QED
    BY <2>3, <2>4
<1> QED
  BY <1>2, <1>3, <1>4, <1>5 DEF Left, r

\* An iteration of getservers passes one beginning of a word, and finds that word.
LEMMA OneWord ==
    ASSUME TypeOK, NEW s, Left(s), s # <<>>, NEW n \in 0..Len(s), Name(s, n),
           NEW m \in 0..Len(s) - n, Spaces(Drop(s, n), m)
    PROVE  LET p == Behind(s) + 1
               r == Drop(s, n + m)
           IN  /\ p \in Begins /\ p \notin BeginsTo(Behind(s))
               /\ Left(r) /\ p <= Behind(r)
               /\ BeginsTo(Behind(r)) = BeginsTo(Behind(s)) \union {p}
               /\ BeginsTo(p) = BeginsTo(Behind(s)) \union {p}
               /\ WordAt(p) = SubSeq(s, 1, n)
<1> DEFINE b == Behind(s)
           p == b + 1
           t == Drop(s, n)
           r == Drop(s, n + m)
           l == Len(s)
<1>1. /\ Len(text) \in Nat /\ l \in Nat /\ n \in Nat /\ m \in Nat /\ n + m <= l
      /\ b \in Nat /\ b + l = Len(text) /\ DOMAIN text = 1..Len(text) /\ l # 0
      /\ s \in Texted
  <2>1. Len(text) \in Nat /\ DOMAIN text = 1..Len(text)
    BY BeginsCounted
  <2>2. s \in Texted /\ l <= Len(text)
    BY DEF Left
  <2>3. l \in Nat /\ l # 0
    BY <2>2, EmptySeq DEF Texted
  <2> QED
    BY <2>1, <2>2, <2>3 DEF Behind
<1>2. /\ \A k \in 1..l : s[k] = text[b + k]
      /\ s[1] # Space /\ (b = 0 \/ text[b] = Space)
  BY DEF Left
<1>3. /\ \A k \in 1..n : s[k] # Space
      /\ n < l => s[n + 1] = Space
  BY DEF Name
<1>4. n >= 1
  <2>1. CASE n = 0
    <3>1. s[0 + 1] = Space
      BY <1>1, <1>3, <2>1
    <3> QED
      BY <1>2, <3>1
  <2>2. CASE n # 0
    BY <1>1, <2>2
  <2> QED
    BY <2>1, <2>2
<1>5. /\ t \in Texted /\ Len(t) = l - n /\ \A k \in 1..l - n : t[k] = s[n + k]
      /\ r \in Texted /\ Len(r) = l - (n + m)
  <2>1. n \in 0..Len(s) /\ n + m \in 0..Len(s)
    BY <1>1
  <2> QED
    BY <1>1, <2>1, DropFacts
<1>6. Behind(t) = b + n /\ Behind(r) = b + n + m /\ Len(t) <= Len(text)
  <2>1. Len(t) = l - n /\ Len(r) = l - (n + m)
    BY <1>5
  <2>2. n + m \in Nat /\ n <= l /\ l <= Len(text) /\ b + (n + m) = b + n + m
    BY <1>1
  <2> HIDE DEF t, r
  <2>3. Behind(t) = b + n /\ Len(t) <= Len(text)
    BY <1>1, <2>1, <2>2, BehindOf
  <2>4. Behind(r) = b + (n + m)
    BY <1>1, <2>1, <2>2, BehindOf
  <2> QED
    BY <2>2, <2>3, <2>4
<1>7. /\ \A k \in 1..m : t[k] = Space
      /\ m < Len(t) => t[m + 1] # Space
  BY DEF Spaces
<1> HIDE DEF b, t, r, l
<1>8. \A j \in p..b + n : text[j] # Space
  <2>1. ASSUME NEW j \in p..b + n PROVE text[j] # Space
    <3>1. j - b \in 1..n /\ j - b \in 1..l /\ b + (j - b) = j
      BY <1>1
    <3> QED
      BY <1>2, <1>3, <3>1
  <2> QED
    BY <2>1
<1>9. \A j \in b + n + 1..b + n + m : text[j] = Space
  <2>1. ASSUME NEW j \in b + n + 1..b + n + m PROVE text[j] = Space
    <3> DEFINE k == j - (b + n)
    <3>1. k \in 1..m /\ k \in 1..l - n /\ n + k \in 1..l /\ b + (n + k) = j
      BY <1>1
    <3> HIDE DEF k
    <3>2. t[k] = Space /\ t[k] = s[n + k] /\ s[n + k] = text[b + (n + k)]
      BY <1>2, <1>5, <1>7, <3>1
    <3> QED
      BY <3>1, <3>2
  <2> QED
    BY <2>1
<1>10. p \in Begins /\ p \notin BeginsTo(b)
  <2>1. p \in 1..Len(text) /\ ~ (p <= b) /\ p \in p..b + n /\ (p = 1 \/ p - 1 = b)
    BY <1>1, <1>4
  <2>2. text[p] # Space
    BY <1>8, <2>1
  <2>3. p = 1 \/ text[p - 1] = Space
    <3>1. CASE b = 0
      BY <3>1
    <3>2. CASE b # 0
      <4>1. p - 1 = b /\ text[b] = Space
        BY <1>1, <1>2, <3>2
      <4> QED
        BY <4>1
    <3> QED
      BY <3>1, <3>2
  <2> QED
    BY <1>1, <2>1, <2>2, <2>3 DEF Begins, BeginsTo
<1>11. ASSUME NEW q \in Begins, q <= b + n + m PROVE q \in BeginsTo(b) \union {p}
  <2>1. /\ q \in Nat /\ 1 <= q /\ text[q] # Space /\ (q = 1 \/ text[q - 1] = Space)
    BY <1>1 DEF Begins
  <2>2. CASE q <= b
    BY <2>2 DEF BeginsTo
  <2>3. CASE q = p
    BY <2>3
  <2>4. CASE q > p /\ q <= b + n
    <3>1. q - 1 \in p..b + n /\ q # 1
      BY <1>1, <2>1, <2>4
    <3> QED
      BY <1>8, <2>1, <3>1
  <2>5. CASE q > b + n
    <3>1. q \in b + n + 1..b + n + m
      BY <1>1, <1>11, <2>1, <2>5
    <3> QED
      BY <1>9, <2>1, <3>1
  <2> QED
    BY <1>1, <2>1, <2>2, <2>3, <2>4, <2>5
<1>12. p <= b + n + m /\ \A q : q \in Begins /\ q <= b => q <= p /\ q <= b + n + m
  <2>1. \A q \in Begins : q \in Nat
    BY <1>1 DEF Begins
  <2> QED
    BY <1>1, <1>4, <2>1
<1>13. BeginsTo(b + n + m) = BeginsTo(b) \union {p}
  BY <1>10, <1>11, <1>12 DEF BeginsTo
<1>14. BeginsTo(p) = BeginsTo(b) \union {p}
  <2>1. \A q \in Begins : q <= p => q <= b + n + m
    <3>1. \A q \in Begins : q \in Nat
      BY <1>1 DEF Begins
    <3> QED
      BY <1>1, <1>12, <3>1
  <2>2. p <= p
    BY <1>1
  <2> QED
    BY <1>10, <1>11, <1>12, <2>1, <2>2 DEF BeginsTo
<1>15. Left(r)
  <2>1. \A k \in 1..Len(t) : t[k] = text[Behind(t) + k]
    <3>1. ASSUME NEW k \in 1..Len(t) PROVE t[k] = text[Behind(t) + k]
      <4>1. k \in 1..l - n /\ n + k \in 1..l /\ b + (n + k) = (b + n) + k
        BY <1>1, <1>5
      <4> QED
        BY <1>2, <1>5, <1>6, <4>1
    <3> QED
      BY <3>1
  <2>2. m > 0 \/ t = <<>>
    <3>1. CASE m = 0 /\ Len(t) # 0
      <4>1. n < l /\ 1 \in 1..l - n
        BY <1>1, <1>5, <3>1
      <4>2. t[1] = s[n + 1] /\ t[0 + 1] # Space
        BY <1>1, <1>5, <1>7, <3>1, <4>1
      <4> QED
        BY <1>3, <4>1, <4>2
    <3>2. CASE m = 0 /\ Len(t) = 0
      BY <1>5, <3>2, EmptySeq DEF Texted
    <3> QED
      BY <1>1, <3>1, <3>2
  <2>3. m \in 0..Len(t)
    BY <1>1, <1>5
  <2>4. Left(Drop(t, m))
    <3>1. Spaces(t, m)
      BY DEF t
    <3> QED
      BY <1>5, <1>6, <2>1, <2>2, <2>3, <3>1, LeftBehindSpaces
  <2>5. Drop(t, m) = r
    <3>1. Drop(t, m) \in Texted /\ Len(Drop(t, m)) = Len(r)
          /\ \A k \in 1..Len(t) - m : Drop(t, m)[k] = t[m + k]
      <4>1. Drop(t, m) \in Texted /\ Len(Drop(t, m)) = Len(t) - m
            /\ \A k \in 1..Len(t) - m : Drop(t, m)[k] = t[m + k]
        BY <1>5, <2>3, DropFacts
      <4> QED
        BY <1>1, <1>5, <4>1
    <3>2. \A k \in 1..l - (n + m) : r[k] = s[(n + m) + k]
      <4>1. n + m \in 0..Len(s) /\ Len(s) = l
        BY <1>1 DEF l
      <4> QED
        BY <1>1, <4>1, DropFacts DEF r
    <3>3. ASSUME NEW k \in 1..Len(r) PROVE Drop(t, m)[k] = r[k]
      <4>1. k \in 1..Len(t) - m /\ m + k \in 1..l - n /\ n + (m + k) = (n + m) + k
            /\ k \in 1..l - (n + m)
        BY <1>1, <1>5
      <4> QED
        BY <1>5, <3>1, <3>2, <4>1
    <3> QED
      BY <1>5, <3>1, <3>3, SeqEqual DEF Texted
  <2> QED
    BY <2>4, <2>5
<1>16. WordAt(p) = SubSeq(s, 1, n)
  <2> DEFINE e == b + n
             R == {x \in p..Len(text) : \A j \in p..x : text[j] # Space}
  <2>1. e \in Nat /\ p <= e /\ e <= Len(text) /\ e \in R
    BY <1>1, <1>4, <1>8
  <2>2. ASSUME NEW x \in R PROVE x \in Nat /\ x <= e
    <3>1. x \in Nat /\ p <= x /\ x <= Len(text)
      BY <1>1
    <3>2. CASE x > e
      <4>1. n < l /\ e + 1 \in p..x /\ b + (n + 1) = e + 1 /\ n + 1 \in 1..l
        BY <1>1, <2>1, <3>1, <3>2
      <4>2. text[e + 1] = Space
        BY <1>2, <1>3, <4>1
      <4> QED
        BY <2>2, <4>1, <4>2
    <3> QED
      BY <2>1, <3>1, <3>2
  <2> HIDE DEF R, e
  <2>3. Max(R) = e
    <3>1. e \in R /\ \A y \in R : e >= y
      BY <2>1, <2>2
    <3>2. ASSUME NEW x \in R, \A y \in R : x >= y PROVE x = e
      BY <2>1, <2>2, <3>2
    <3> QED
      BY <3>1, <3>2 DEF Max
  <2>4. WordAt(p) = SubSeq(text, p, e)
    BY <2>3 DEF WordAt, R
  <2> DEFINE S == Letters \union {Space}
  <2>5. /\ p \in Int /\ e \in Int /\ \A k \in p..e : text[k] \in S
    <3>1. \A k \in 1..Len(text) : text[k] \in S
      BY ElementOfSeq DEF TypeOK
    <3> QED
      BY <1>1, <2>1, <3>1
  <2>6. 1 \in Int /\ n \in Int /\ \A k \in 1..n : s[k] \in S
    <3>1. \A k \in 1..Len(s) : s[k] \in S
      BY <1>1, ElementOfSeq DEF Texted
    <3>2. \A k \in 1..n : k \in 1..Len(s)
      BY <1>1 DEF l
    <3> QED
      BY <1>1, <3>1, <3>2
  <2>7. e - p + 1 = n /\ n - 1 + 1 = n /\ (IF p <= e THEN e - p + 1 ELSE 0) = n
        /\ (IF 1 <= n THEN n - 1 + 1 ELSE 0) = n
    BY <1>1, <1>4, <2>1 DEF e
  <2> DEFINE u == SubSeq(text, p, e)
             v == SubSeq(s, 1, n)
  <2> HIDE DEF p, S
  <2>8. u \in Seq(S) /\ Len(u) = n /\ \A k \in 1..n : u[k] = text[p + k - 1]
    <3>1. /\ u \in Seq(S) /\ Len(u) = IF p <= e THEN e - p + 1 ELSE 0
          /\ \A k \in 1..e - p + 1 : u[k] = text[p + k - 1]
      BY <2>5, SubSeqProperties
    <3> QED
      BY <2>7, <3>1
  <2>9. v \in Seq(S) /\ Len(v) = n /\ \A k \in 1..n : v[k] = s[1 + k - 1]
    <3>1. /\ v \in Seq(S) /\ Len(v) = IF 1 <= n THEN n - 1 + 1 ELSE 0
          /\ \A k \in 1..n - 1 + 1 : v[k] = s[1 + k - 1]
      BY <2>6, SubSeqProperties
    <3> QED
      BY <2>7, <3>1
  <2> HIDE DEF u, v
  <2>10. ASSUME NEW k \in 1..n PROVE u[k] = v[k]
    <3>1. p + k - 1 = b + k /\ 1 + k - 1 = k /\ k \in 1..l
      BY <1>1 DEF p
    <3> QED
      BY <1>2, <2>8, <2>9, <3>1
  <2>11. u = v
    BY <2>8, <2>9, <2>10, SeqEqual
  <2> QED
    BY <2>4, <2>11 DEF u, v
<1> QED
  BY <1>6, <1>10, <1>12, <1>13, <1>14, <1>15, <1>16 DEF r, b
\* As long as getservers reads, the list has the words that begin in what it has behind
\* it, each at its place; afterwards the list is what ListIsWords says.
WordsInv ==
    host = <<>> =>
      IF pc = "names"
      THEN /\ Left(sb)
           /\ Len(servers) = Cardinality(BeginsTo(Behind(sb)))
           /\ Len(servers) <= MAXSERVERS - 1
           /\ \A p \in BeginsTo(Behind(sb)) : servers[Cardinality(BeginsTo(p))] = WordAt(p)
      ELSE ListIsWords

LEMMA NoneBehind ==
    ASSUME TypeOK
    PROVE  BeginsTo(0) = {} /\ Cardinality(BeginsTo(0)) = 0
<1>1. \A q \in Begins : q \in Nat /\ q >= 1
  BY BeginsCounted DEF Begins
<1>2. BeginsTo(0) = {}
  BY <1>1 DEF BeginsTo
<1> QED
  BY <1>2, FS_EmptySet

LEMMA InitWords == Init => WordsInv
<1> SUFFICES ASSUME Init, host = <<>> PROVE WordsInv
  BY DEF WordsInv
<1>1. TypeOK /\ pc = "names" /\ servers = <<>> /\ text \in Texted
  BY InitType DEF Init, TypeOK, Texted
<1>2. PICK m \in 0..Len(text) : Spaces(text, m) /\ sb = Drop(text, m)
  BY DEF Init
<1>3. Len(text) \in Nat /\ Len(text) <= Len(text) /\ Behind(text) = 0
  BY <1>1, BeginsCounted DEF Behind
<1>4. \A k \in 1..Len(text) : text[k] = text[Behind(text) + k]
  BY <1>3
<1>5. Left(sb) /\ Behind(sb) = Behind(text) + m
  BY <1>1, <1>2, <1>3, <1>4, LeftBehindSpaces
<1>6. Behind(sb) = m /\ m \in Nat
  BY <1>2, <1>3, <1>5
<1>7. BeginsTo(m) = {}
  <2>1. ASSUME NEW q \in BeginsTo(m) PROVE FALSE
    <3>1. q \in 1..Len(text) /\ q <= m /\ text[q] # Space
      BY <1>1, <2>1, BeginsCounted DEF BeginsTo, Begins
    <3>2. q \in 1..m
      BY <1>6, <3>1
    <3> QED
      BY <1>2, <3>1, <3>2 DEF Spaces
  <2> QED
    BY <2>1
<1>8. Cardinality(BeginsTo(m)) = 0
  BY <1>7, FS_EmptySet
<1>9. Len(servers) = 0 /\ 0 <= MAXSERVERS - 1
  BY <1>1, StatusAssumption
<1> QED
  BY <1>1, <1>5, <1>6, <1>7, <1>8, <1>9 DEF WordsInv

LEMMA SameText ==
    ASSUME UNCHANGED text
    PROVE  /\ Begins' = Begins
           /\ \A x : Behind(x)' = Behind(x) /\ BeginsTo(x)' = BeginsTo(x) /\ WordAt(x)' = WordAt(x)
<1>1. Begins' = Begins
  BY DEF Begins
<1> QED
  BY <1>1 DEF Behind, BeginsTo, WordAt

\* ListIsWords, with the beginnings up to a place by their name.
LEMMA ListIsWordsBy ==
    ListIsWords <=>
      (pc # "names" /\ host = <<>> =>
         /\ Len(servers) = Min({Cardinality(Begins), MAXSERVERS - 1})
         /\ \A p \in Begins : Cardinality(BeginsTo(p)) <= Len(servers)
                             => servers[Cardinality(BeginsTo(p))] = WordAt(p))
  BY DEF ListIsWords, BeginsTo

\* What the steps behind getservers leave as it is.
LEMMA WordsKept ==
    ASSUME WordsInv, pc # "names", pc' # "names", UNCHANGED <<text, host, servers>>
    PROVE  WordsInv'
<1>1. CASE host = <<>>
  <2>1. /\ Len(servers) = Min({Cardinality(Begins), MAXSERVERS - 1})
        /\ \A p \in Begins : Cardinality(BeginsTo(p)) <= Len(servers)
                             => servers[Cardinality(BeginsTo(p))] = WordAt(p)
    BY <1>1, ListIsWordsBy DEF WordsInv
  <2>2. /\ (Len(servers) = Min({Cardinality(Begins), MAXSERVERS - 1}))'
        /\ (\A p \in Begins : Cardinality(BeginsTo(p)) <= Len(servers)
                             => servers[Cardinality(BeginsTo(p))] = WordAt(p))'
    BY <2>1, SameText
  <2>3. ListIsWords'
    BY <2>2 DEF ListIsWords, BeginsTo
  <2> QED
    BY <2>3 DEF WordsInv
<1>2. CASE host # <<>>
  BY <1>2 DEF WordsInv
<1> QED
  BY <1>1, <1>2

\* With the word that it has found the list has one more; the places before stay.
LEMMA WordFound ==
    ASSUME TypeOK, TypeOK', WordsInv, NextName, host = <<>>,
           Len(servers) < MAXSERVERS - 1, pc' = "names",
           NEW n \in 0..Len(sb), Name(sb, n), Advance(n),
           servers' = Append(servers, SubSeq(sb, 1, n))
    PROVE  WordsInv'
<1>1. pc = "names" /\ sb # <<>> /\ UNCHANGED <<text, host>>
  BY DEF NextName, command
<1>2. /\ Left(sb) /\ Len(servers) = Cardinality(BeginsTo(Behind(sb)))
      /\ \A q \in BeginsTo(Behind(sb)) : servers[Cardinality(BeginsTo(q))] = WordAt(q)
  BY <1>1 DEF WordsInv
<1>3. PICK m \in 0..Len(sb) - n : Spaces(Drop(sb, n), m) /\ sb' = Drop(sb, n + m)
  BY DEF Advance
<1> DEFINE b == Behind(sb)
           p == b + 1
           c == Behind(sb')
           w == SubSeq(sb, 1, n)
<1>4. /\ p \in Begins /\ p \notin BeginsTo(b)
      /\ Left(sb') /\ p <= c
      /\ BeginsTo(c) = BeginsTo(b) \union {p} /\ BeginsTo(p) = BeginsTo(b) \union {p}
      /\ WordAt(p) = w
  <2>1. m \in 0..Len(sb) - n
    OBVIOUS
  <2> QED
    BY <1>1, <1>2, <1>3, <2>1, OneWord
<1>5. b \in Nat /\ c \in Nat
  <2>1. Len(text) \in Nat
    BY BeginsCounted
  <2>2. Len(sb) \in Nat /\ Len(sb) <= Len(text)
    BY <1>2 DEF Left, TypeOK
  <2>3. Len(sb') \in Nat /\ Len(sb') <= Len(text)
    BY <1>4 DEF Left, TypeOK
  <2> QED
    BY <2>1, <2>2, <2>3 DEF Behind
<1>6. Left(sb)' /\ Behind(sb)' = c /\ \A x : BeginsTo(x)' = BeginsTo(x) /\ WordAt(x)' = WordAt(x)
  BY <1>1, <1>4 DEF Left, Behind, BeginsTo, Begins, WordAt
<1>7. IsFiniteSet(BeginsTo(b)) /\ Cardinality(BeginsTo(b)) \in Nat
  BY <1>5, BeginsCounted
<1> HIDE DEF b, c, w
<1>8. Cardinality(BeginsTo(b) \union {p}) = Cardinality(BeginsTo(b)) + 1
  BY <1>4, <1>7, FS_AddElement, Zenon
<1>9. /\ Len(servers) \in Nat /\ MAXSERVERS \in Nat
      /\ Len(servers') = Len(servers) + 1 /\ servers'[Len(servers) + 1] = w
      /\ \A k \in 1..Len(servers) : servers'[k] = servers[k]
  <2>1. servers \in Seq(Seq(Letters)) /\ Len(servers) \in Nat /\ MAXSERVERS \in Nat
    BY StatusAssumption DEF TypeOK
  <2>2. servers' = Append(servers, w)
    BY DEF w
  <2> QED
    BY <2>1, <2>2
<1>10. Len(servers') = Cardinality(BeginsTo(c)) /\ Len(servers') <= MAXSERVERS - 1
  <2>1. Len(servers) = Cardinality(BeginsTo(b))
    BY <1>2 DEF b
  <2>2. Len(servers') = Cardinality(BeginsTo(c))
    BY <1>4, <1>8, <1>9, <2>1
  <2> QED
    BY <1>9, <2>2
<1>11. ASSUME NEW q \in BeginsTo(c) PROVE servers'[Cardinality(BeginsTo(q))] = WordAt(q)
  <2>0. Len(servers) = Cardinality(BeginsTo(b))
    BY <1>2 DEF b
  <2>1. CASE q = p
    <3>1. Cardinality(BeginsTo(q)) = Len(servers) + 1
      BY <1>4, <1>8, <2>0, <2>1
    <3> QED
      BY <1>4, <1>9, <2>1, <3>1
  <2>2. CASE q \in BeginsTo(b)
    <3>1. q \in Begins /\ q <= b /\ q \in Nat
      BY <2>2, BeginsTyped DEF BeginsTo
    <3>2. q \in BeginsTo(q)
      BY <3>1 DEF BeginsTo
    <3>3. IsFiniteSet(BeginsTo(q)) /\ Cardinality(BeginsTo(q)) \in Nat
      BY <3>1, BeginsCounted
    <3>4. BeginsTo(q) \subseteq BeginsTo(b)
      <4>1. \A x \in Begins : x \in Nat /\ (x <= q => x <= b)
        <5>1. \A x \in Begins : x \in Nat
          BY BeginsTyped
        <5> QED
          BY <1>5, <3>1, <5>1
      <4> QED
        BY <4>1 DEF BeginsTo
    <3>5. Cardinality(BeginsTo(q)) <= Len(servers)
      BY <1>7, <2>0, <3>4, FS_Subset
    <3>6. Cardinality(BeginsTo(q)) # 0
      BY <3>2, <3>3, FS_EmptySet
    <3>7. Cardinality(BeginsTo(q)) \in 1..Len(servers)
      BY <1>9, <3>3, <3>5, <3>6
    <3>8. servers[Cardinality(BeginsTo(q))] = WordAt(q)
      BY <1>2, <2>2 DEF b
    <3> QED
      BY <1>9, <3>7, <3>8
  <2> QED
    BY <1>4, <2>1, <2>2
<1>12. /\ Left(sb)' /\ (Len(servers) = Cardinality(BeginsTo(Behind(sb))))'
       /\ (Len(servers) <= MAXSERVERS - 1)'
       /\ (\A q \in BeginsTo(Behind(sb)) : servers[Cardinality(BeginsTo(q))] = WordAt(q))'
  BY <1>6, <1>10, <1>11
<1> QED
  BY <1>12 DEF WordsInv

\* The loop ends: because no word is left, or because the list has only room for the NULL.
LEMMA WordsEnd ==
    ASSUME TypeOK, WordsInv, pc = "names", host = <<>>,
           \/ sb = <<>>
           \/ /\ sb # <<>> /\ Len(servers) >= MAXSERVERS - 1
              /\ Behind(sb) + 1 \in Begins
    PROVE  /\ Len(servers) = Min({Cardinality(Begins), MAXSERVERS - 1})
           /\ \A p \in Begins : Cardinality(BeginsTo(p)) <= Len(servers)
                                => servers[Cardinality(BeginsTo(p))] = WordAt(p)
<1> DEFINE b == Behind(sb)
<1>1. /\ Left(sb) /\ Len(servers) = Cardinality(BeginsTo(b)) /\ Len(servers) <= MAXSERVERS - 1
      /\ \A q \in BeginsTo(b) : servers[Cardinality(BeginsTo(q))] = WordAt(q)
  BY DEF WordsInv
<1>2. b \in Nat /\ (sb = <<>> => b = Len(text))
  <2>1. Len(text) \in Nat
    BY BeginsCounted
  <2>2. Len(sb) \in Nat /\ Len(sb) <= Len(text) /\ (sb = <<>> => Len(sb) = 0)
    BY <1>1 DEF Left, TypeOK
  <2> QED
    BY <2>1, <2>2 DEF Behind
<1> HIDE DEF b
<1>3. /\ IsFiniteSet(Begins) /\ Cardinality(Begins) \in Nat
      /\ IsFiniteSet(BeginsTo(b)) /\ Cardinality(BeginsTo(b)) \in Nat
      /\ BeginsTo(b) \subseteq Begins /\ Cardinality(BeginsTo(b)) <= Cardinality(Begins)
  BY <1>2, BeginsCounted
<1>4. MAXSERVERS \in Nat
  BY StatusAssumption
<1>5. \A q \in Begins : q \in Nat /\ q <= Len(text)
  BY BeginsTyped
<1>6. Min({Cardinality(Begins), MAXSERVERS - 1})
        = IF Cardinality(Begins) <= MAXSERVERS - 1 THEN Cardinality(Begins) ELSE MAXSERVERS - 1
  <2> DEFINE x == Cardinality(Begins)
             y == MAXSERVERS - 1
  <2>1. x \in Int /\ y \in Int
    BY <1>3, <1>4
  <2> HIDE DEF x, y
  <2>2. Min({x, y}) = IF x <= y THEN x ELSE y
    BY <2>1, MinOfTwo
  <2> QED
    BY <2>2 DEF x, y
<1>7. CASE sb = <<>>
  <2>1. BeginsTo(b) = Begins
    BY <1>2, <1>5, <1>7 DEF BeginsTo
  <2>2. Len(servers) = Min({Cardinality(Begins), MAXSERVERS - 1})
    BY <1>1, <1>3, <1>4, <1>6, <2>1
  <2> QED
    BY <1>1, <2>1, <2>2
<1>8. CASE Len(servers) >= MAXSERVERS - 1 /\ b + 1 \in Begins
  <2>1. Len(servers) \in Nat /\ Len(servers) = MAXSERVERS - 1
    BY <1>1, <1>3, <1>4, <1>8
  <2>2. Len(servers) = Min({Cardinality(Begins), MAXSERVERS - 1})
    BY <1>1, <1>3, <1>4, <1>6, <2>1
  <2>3. ASSUME NEW q \in Begins, Cardinality(BeginsTo(q)) <= Len(servers)
        PROVE  q \in BeginsTo(b)
    <3>1. CASE q > b
      <4>1. BeginsTo(b) \union {b + 1} \subseteq BeginsTo(q) /\ b + 1 \notin BeginsTo(b)
        BY <1>2, <1>5, <1>8, <3>1 DEF BeginsTo
      <4>2. IsFiniteSet(BeginsTo(q)) /\ Cardinality(BeginsTo(q)) \in Nat
        BY <1>5, BeginsCounted
      <4>3. /\ IsFiniteSet(BeginsTo(b) \union {b + 1})
            /\ Cardinality(BeginsTo(b) \union {b + 1}) = Cardinality(BeginsTo(b)) + 1
        BY <1>3, <4>1, FS_AddElement, Zenon
      <4>4. Cardinality(BeginsTo(b) \union {b + 1}) <= Cardinality(BeginsTo(q))
        BY <4>1, <4>2, FS_Subset
      <4> QED
        BY <1>1, <1>3, <2>3, <4>2, <4>3, <4>4
    <3>2. CASE ~ (q > b)
      BY <1>2, <1>5, <3>2 DEF BeginsTo
    <3> QED
      BY <3>1, <3>2
  <2> QED
    BY <1>1, <2>2, <2>3
<1> QED
  BY <1>7, <1>8 DEF b

LEMMA ListDone ==
    ASSUME TypeOK, WordsInv, pc = "names", pc' = "send",
           UNCHANGED <<text, host, servers>>,
           host = <<>> => \/ sb = <<>>
                          \/ /\ sb # <<>> /\ Len(servers) >= MAXSERVERS - 1
                             /\ Behind(sb) + 1 \in Begins
    PROVE  WordsInv'
<1>1. CASE host = <<>>
  <2>1. /\ Len(servers) = Min({Cardinality(Begins), MAXSERVERS - 1})
        /\ \A p \in Begins : Cardinality(BeginsTo(p)) <= Len(servers)
                             => servers[Cardinality(BeginsTo(p))] = WordAt(p)
    BY <1>1, WordsEnd
  <2>2. Begins' = Begins /\ \A p : BeginsTo(p)' = BeginsTo(p) /\ WordAt(p)' = WordAt(p)
    BY SameText
  <2>3. /\ (Len(servers) = Min({Cardinality(Begins), MAXSERVERS - 1}))'
        /\ (\A p \in Begins : Cardinality(BeginsTo(p)) <= Len(servers)
                             => servers[Cardinality(BeginsTo(p))] = WordAt(p))'
    BY <2>1, <2>2
  <2>4. ListIsWords'
    BY <2>3 DEF ListIsWords, BeginsTo
  <2> QED
    BY <2>4 DEF WordsInv
<1>2. CASE host # <<>>
  BY <1>2 DEF WordsInv
<1> QED
  BY <1>1, <1>2

LEMMA StepWords == TypeOK /\ TypeOK' /\ WordsInv /\ [Next]_vars => WordsInv'
<1> SUFFICES ASSUME TypeOK, TypeOK', WordsInv, [Next]_vars PROVE WordsInv'
  OBVIOUS
<1> USE DEF command, list, Own
<1>1. CASE NextName
  <2>1. PICK n \in 0..Len(sb) :
          /\ Name(sb, n) /\ Advance(n)
          /\ \/ /\ Len(servers) < MAXSERVERS - 1
                /\ servers' = Append(servers, SubSeq(sb, 1, n))
                /\ pc' = "names"
             \/ /\ Len(servers) >= MAXSERVERS - 1
                /\ servers' = servers
                /\ pc' = "send"
    BY <1>1 DEF NextName
  <2>2. pc = "names" /\ sb # <<>> /\ UNCHANGED <<text, host>>
    BY <1>1 DEF NextName
  <2>3. CASE host # <<>>
    BY <2>2, <2>3 DEF WordsInv
  <2>4. CASE host = <<>> /\ Len(servers) < MAXSERVERS - 1 /\ pc' = "names"
             /\ servers' = Append(servers, SubSeq(sb, 1, n))
    BY <1>1, <2>1, <2>4, WordFound
  <2>5. CASE host = <<>> /\ Len(servers) >= MAXSERVERS - 1 /\ servers' = servers /\ pc' = "send"
    <3>1. Left(sb)
      BY <2>2, <2>5 DEF WordsInv
    <3>2. PICK m \in 0..Len(sb) - n : Spaces(Drop(sb, n), m)
      BY <2>1 DEF Advance
    <3>3. Behind(sb) + 1 \in Begins
      BY <2>1, <2>2, <3>1, <3>2, OneWord
    <3> QED
      BY <2>2, <2>5, <3>3, ListDone
  <2> QED
    BY <2>1, <2>3, <2>4, <2>5
<1>2. CASE LastName
  <2>1. pc = "names" /\ pc' = "send" /\ sb = <<>> /\ UNCHANGED <<text, host, servers>>
    BY <1>2 DEF LastName
  <2> QED
    BY <2>1, ListDone
<1>3. CASE pc # "names" /\ pc' # "names" /\ UNCHANGED <<text, host, servers>>
  BY <1>3, WordsKept
<1>4. CASE Star \/ AskServer \/ UnknownHost
  BY <1>3, <1>4 DEF Star, AskServer, UnknownHost, Sending
<1>5. CASE AllAsked \/ bcastUDP \/ BroadcastEnds \/ BroadcastFails
  BY <1>3, <1>5 DEF AllAsked, bcastUDP, BroadcastEnds, BroadcastFails
<1>6. CASE UNCHANGED <<pc, text, host, sb, servers>>
  <2>1. CASE pc # "names"
    BY <1>6, <2>1, WordsKept
  <2>2. CASE pc = "names" /\ host = <<>>
    <3>1. /\ Left(sb) /\ Len(servers) = Cardinality(BeginsTo(Behind(sb)))
          /\ Len(servers) <= MAXSERVERS - 1
          /\ \A p \in BeginsTo(Behind(sb)) : servers[Cardinality(BeginsTo(p))] = WordAt(p)
      BY <2>2 DEF WordsInv
    <3>2. /\ Left(sb)' /\ (Len(servers) = Cardinality(BeginsTo(Behind(sb))))'
          /\ (Len(servers) <= MAXSERVERS - 1)'
      BY <1>6, <3>1, SameText DEF Left, Behind
    <3>3. (\A p \in BeginsTo(Behind(sb)) : servers[Cardinality(BeginsTo(p))] = WordAt(p))'
      BY <1>6, <3>1, SameText DEF Behind
    <3> QED
      BY <1>6, <2>2, <3>2, <3>3 DEF WordsInv
  <2>3. CASE host # <<>>
    BY <1>6, <2>3 DEF WordsInv
  <2> QED
    BY <2>1, <2>2, <2>3
<1>7. ASSUME NEW h \in Hosts, Answer(h) \/ Lose(h) PROVE WordsInv'
  BY <1>6, <1>7 DEF Answer, Lose
<1>8. ASSUME NEW h \in Hosts, statusrecv(h) \/ BadReply(h) PROVE WordsInv'
  BY <1>3, <1>8 DEF statusrecv, BadReply, Receiving
<1>9. CASE Timeout \/ EnoughReplies
  BY <1>3, <1>9 DEF Timeout, EnoughReplies, Receiving
<1>10. CASE UNCHANGED vars
  BY <1>6, <1>10 DEF vars
<1> QED
  BY <1>1, <1>2, <1>4, <1>5, <1>7, <1>8, <1>9, <1>10 DEF Next

\* The list that getservers returns is the words of XINU_SERVERS, in order and complete,
\* however they are separated; of MAXSERVERS or more the first MAXSERVERS - 1.
THEOREM ListIsWordsAlways == Spec => []ListIsWords
<1>1. TypeOK /\ WordsInv /\ [Next]_vars => (TypeOK /\ WordsInv)'
  BY StepType, StepWords
<1>2. Init => TypeOK /\ WordsInv
  BY InitType, InitWords
<1>3. WordsInv => ListIsWords
  BY DEF WordsInv, ListIsWords
<1> QED
  BY <1>1, <1>2, <1>3, PTL DEF Spec
=============================================================================

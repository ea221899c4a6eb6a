------------------------ MODULE ConsoleToLineProofs ------------------------
(* Proofs about a session and its serial line: types, the terminal's modes,  *)
(* the alarm, what tty-connect does with a short write, and that the line is *)
(* sent what the user's characters mean.                                     *)
EXTENDS ConsoleToLine, DataLemmas

-----------------------------------------------------------------------------
(* Sequences                                                                 *)

LEMMA Prefix ==
    ASSUME NEW S, NEW s \in Seq(S), NEW n \in Nat, n <= Len(s)
    PROVE  SubSeq(s, 1, n) \in Seq(S) /\ Len(SubSeq(s, 1, n)) = n
<1>1. Len(s) \in Nat /\ \A k \in 1..Len(s) : s[k] \in S
  BY LenProperties
<1>2. n \in Int /\ \A k \in 1..n : s[k] \in S
  BY <1>1
<1> QED
  BY <1>2, SubSeqProperties

LEMMA Suffix ==
    ASSUME NEW S, NEW s \in Seq(S), NEW n \in Nat
    PROVE  SubSeq(s, n + 1, Len(s)) \in Seq(S)
<1>1. Len(s) \in Nat /\ \A k \in 1..Len(s) : s[k] \in S
  BY LenProperties
<1>2. n + 1 \in Int /\ Len(s) \in Int /\ \A k \in n + 1..Len(s) : s[k] \in S
  BY <1>1
<1> QED
  BY <1>2, SubSeqProperties

LEMMA Behead ==
    ASSUME NEW S, NEW s \in Seq(S), s # <<>>
    PROVE  /\ Head(s) \in S /\ Tail(s) \in Seq(S)
           /\ Len(s) \in Nat \ {0} /\ Len(Tail(s)) = Len(s) - 1
<1>1. Len(s) \in Nat \ {0}
  BY EmptySeq
<1> QED
  BY <1>1, HeadTailProperties

\* A sequence is its first element and the others.
LEMMA HeadFirst ==
    ASSUME NEW X, NEW s \in Seq(X), s # <<>>
    PROVE  s = <<Head(s)>> \o Tail(s)
<1> DEFINE c == Head(s)
           r == Tail(s)
<1>1. c \in X /\ r \in Seq(X) /\ <<c>> \in Seq(X)
  BY Behead
<1>2. s = <<c>> \o r
  <2>1. /\ Len(s) \in Nat \ {0} /\ Len(r) = Len(s) - 1
        /\ \A i \in 1..Len(r) : r[i] = s[i + 1]
    BY Behead, HeadTailProperties
  <2>2. s[1] = c
    OBVIOUS
  <2> HIDE DEF c, r
  <2>3. /\ <<c>> \o r \in Seq(X) /\ Len(<<c>> \o r) = 1 + Len(r)
        /\ \A i \in 1..1 + Len(r) : (<<c>> \o r)[i] = IF i <= 1 THEN <<c>>[i] ELSE r[i - 1]
    BY <1>1, ConcatProperties
  <2> DEFINE u == <<c>> \o r
  <2> HIDE DEF u
  <2>4. u \in Seq(X) /\ Len(s) = Len(u)
    BY <2>1, <2>3 DEF u
  <2>5. ASSUME NEW i \in 1..Len(s) PROVE s[i] = u[i]
    <3>1. CASE i = 1
      BY <2>1, <2>2, <2>3, <3>1 DEF u
    <3>2. CASE i # 1
      <4>1. i - 1 \in 1..Len(r) /\ i - 1 + 1 = i /\ i \in 1..1 + Len(r) /\ ~ (i <= 1)
        BY <2>1, <3>2
      <4>2. u[i] = r[i - 1] /\ r[i - 1] = s[i - 1 + 1]
        BY <2>1, <2>3, <4>1 DEF u
      <4> QED
        BY <4>1, <4>2
    <3> QED
      BY <3>1, <3>2
  <2> QED
    BY <2>4, <2>5, SeqEqual DEF u
<1> QED
  BY <1>2

-----------------------------------------------------------------------------
(* Types: the user's end                                                     *)

SessionTyped == SessionTypes /\ WireTypes

\* What flush2net writes.
LEMMA FlushType ==
    ASSUME SessionTyped, NEW s \in Seq(Chars), NEW pc2, Flush(s, pc2), serverUp' = serverUp
    PROVE  /\ net' \in Seq(Chars) /\ clientUp' \in BOOLEAN /\ serverUp' \in BOOLEAN
           /\ tty' \in {"user", "raw"} /\ saved' \in {"none", "user", "raw"}
           /\ torn' \in {"no", "break", "cut"} /\ pc' \in {pc2, "ended"}
<1>1. CASE /\ Written(s) /\ pc' = pc2
           /\ UNCHANGED <<terminal, clientUp, torn>>
  <2>1. net' \in Seq(Chars)
    BY <1>1, ConcatProperties DEF Written, SessionTyped, WireTypes
  <2> QED
    BY <1>1, <2>1 DEF terminal, SessionTyped, SessionTypes, WireTypes
<1>2. CASE /\ Partly(s) /\ Exit
           /\ torn' = IF torn = "no" THEN "cut" ELSE torn
  <2>1. net' \in Seq(Chars)
    <3>1. PICK k \in 0..Len(s) - 1 : net' = IF serverUp THEN net \o SubSeq(s, 1, k) ELSE net
      BY <1>2 DEF Partly
    <3>2. SubSeq(s, 1, k) \in Seq(Chars)
      BY Prefix, LenProperties
    <3> QED
      BY <3>1, <3>2, ConcatProperties DEF SessionTyped, WireTypes
  <2> QED
    BY <1>2, <2>1 DEF Exit, restoreTTY, SessionTyped, SessionTypes, WireTypes
<1> QED
  BY <1>1, <1>2 DEF Flush

LEMMA SetTTYType ==
    ASSUME SessionTypes, setTTY \/ restoreTTY
    PROVE  tty' \in {"user", "raw"} /\ saved' \in {"none", "user", "raw"}
  BY DEF setTTY, restoreTTY, terminal, SessionTypes

LEMMA InputType ==
    ASSUME SessionTypes, NEW key, Input(key)
    PROVE  buf' \in Seq(Keys) /\ typed' \in Seq(Keys)
<1>1. CASE buf # <<>> /\ key = Head(buf) /\ buf' = Tail(buf) /\ typed' = typed
  BY <1>1, Behead DEF SessionTypes
<1>2. CASE buf = <<>> /\ typed' = Append(typed, key) /\ buf' = buf
  <2>1. key \in Keys /\ buf \in Seq(Keys) /\ typed \in Seq(Keys)
    BY DEF Input, SessionTypes
  <2> QED
    BY <1>2, <2>1, AppendProperties
<1> QED
  BY <1>1, <1>2 DEF Input

LEMMA ReturnType ==
    ASSUME SessionTypes, WireTypes, NEW ok \in BOOLEAN, Return(ok)
    PROVE  SessionTypes' /\ WireTypes'
<1>1. outcomes' \in Seq(BOOLEAN)
  BY AppendProperties DEF Return, SessionTypes
<1>2. /\ pc' \in {"flush", "ended", "command"} /\ clientUp' \in BOOLEAN
      /\ setTTY \/ restoreTTY
  BY DEF Return, Exit, WireTypes
<1> QED
  BY <1>1, <1>2, SetTTYType DEF Return, signals, SessionTypes, WireTypes

LEMMA SessionStepType == SessionTyped /\ SessionStep => SessionTyped'
<1> SUFFICES ASSUME SessionTypes, WireTypes, SessionStep PROVE SessionTypes' /\ WireTypes'
  BY DEF SessionTyped
<1> USE DEF history, signals, wire
<1>1. CASE Start
  BY <1>1, SetTTYType DEF Start, SessionTypes, WireTypes
<1>2. CASE EndOfFile
  BY <1>2, SetTTYType DEF EndOfFile, Exit, SessionTypes, WireTypes
<1>3. CASE Character
  <2>1. Key \in Chars /\ buf' \in Seq(Keys)
    BY <1>3, Behead, SessionAssumption DEF Character, Next1, Key, SessionTypes
  <2>2. held' \in Seq(Chars)
    BY <1>3, <2>1, AppendProperties DEF Character, SessionTypes
  <2> QED
    BY <1>3, <2>1, <2>2 DEF Character, terminal, SessionTypes, WireTypes
<1>4. CASE DoubleBackslash
  <2>1. held \o <<"\\", "\\">> \in Seq(Chars)
    <3>1. <<"\\", "\\">> \in Seq(Chars)
      BY CharsAssumption
    <3> QED
      BY <3>1, ConcatProperties DEF SessionTypes
  <2>2. Flush(held \o <<"\\", "\\">>, "flush") /\ serverUp' = serverUp
    BY <1>4 DEF DoubleBackslash
  <2>3. buf' \in Seq(Keys)
    BY <1>4, Behead DEF DoubleBackslash, Next1, SessionTypes
  <2>4. /\ net' \in Seq(Chars) /\ clientUp' \in BOOLEAN /\ serverUp' \in BOOLEAN
        /\ tty' \in {"user", "raw"} /\ saved' \in {"none", "user", "raw"}
        /\ torn' \in {"no", "break", "cut"} /\ pc' \in {"flush", "ended"}
    BY <2>1, <2>2, FlushType DEF SessionTyped
  <2>5. held' \in Seq(Chars)
    BY <1>4 DEF DoubleBackslash
  <2> QED
    BY <1>4, <2>3, <2>4, <2>5 DEF DoubleBackslash, SessionTypes, WireTypes
<1>5. CASE Escape
  <2>1. held \in Seq(Chars) /\ Flush(held, "command") /\ serverUp' = serverUp
    BY <1>5 DEF Escape, SessionTypes
  <2>2. buf' \in Seq(Keys)
    BY <1>5, Behead DEF Escape, Next1, SessionTypes
  <2> QED
    BY <1>5, <2>1, <2>2, FlushType DEF Escape, SessionTyped, SessionTypes, WireTypes
<1>6. CASE FlushRest
  <2>1. held \in Seq(Chars) /\ Flush(held, "select") /\ serverUp' = serverUp
    BY <1>6 DEF FlushRest, SessionTypes
  <2> QED
    BY <1>6, <2>1, FlushType DEF FlushRest, SessionTyped, SessionTypes, WireTypes
<1>7. CASE Fork \/ FileName
  BY <1>7 DEF Fork, FileName, terminal, SessionTypes, WireTypes
<1>8. CASE ForkFails \/ NoFileName \/ \E ok \in BOOLEAN : Wait(ok)
  BY <1>8, ReturnType DEF ForkFails, NoFileName, Wait
<1>9. CASE ResetAlarm \/ ResetSignals \/ Stop \/ Resume \/ SetSignals \/ AlarmAgain
  BY <1>9 DEF ResetAlarm, ResetSignals, Stop, Resume, SetSignals, AlarmAgain, Goes,
              terminal, SessionTypes, WireTypes
<1>10. CASE RawAgain
  BY <1>10, SetTTYType DEF RawAgain, Goes, SessionTypes, WireTypes
<1>11. CASE keepalive \/ Interrupt
  BY <1>11 DEF keepalive, Interrupt, terminal, SessionTypes, WireTypes
<1>12. ASSUME NEW n \in 1..BufSize, NEW s \in [1..n -> Keys], ReadKeys(s)
       PROVE  SessionTypes' /\ WireTypes'
  <2>1. s \in Seq(Keys)
    <3>1. n \in Nat
      BY SessionAssumption
    <3> QED
      BY <3>1, SeqDef
  <2>2. typed' \in Seq(Keys)
    BY <1>12, <2>1, ConcatProperties DEF ReadKeys, SessionTypes
  <2>3. held' \in Seq(Chars)
    BY <1>12 DEF ReadKeys
  <2> QED
    BY <1>12, <2>1, <2>2, <2>3 DEF ReadKeys, terminal, SessionTypes, WireTypes
<1>13. CASE Continue \/ QuitSession \/ SendBreak \/ Suspend
  <2>1. buf' \in Seq(Keys) /\ typed' \in Seq(Keys)
    BY <1>13, InputType DEF Continue, QuitSession, SendBreak, Suspend
  <2>2. CASE Continue
    BY <2>1, <2>2 DEF Continue, terminal, SessionTypes, WireTypes
  <2>3. CASE QuitSession
    BY <2>1, <2>3, SetTTYType DEF QuitSession, Exit, SessionTypes, WireTypes
  <2>4. CASE SendBreak
    <3>1. <<"\\", "b">> \in Seq(Chars) /\ Len(<<"\\", "b">>) = 2
      BY CharsAssumption
    <3>2. net' \in Seq(Chars)
      <4>1. CASE Written(<<"\\", "b">>)
        BY <4>1, <3>1, ConcatProperties DEF Written, WireTypes
      <4>2. CASE Partly(<<"\\", "b">>)
        <5>1. PICK k \in 0..Len(<<"\\", "b">>) - 1 :
                net' = IF serverUp THEN net \o SubSeq(<<"\\", "b">>, 1, k) ELSE net
          BY <4>2 DEF Partly
        <5>2. k \in Nat /\ k <= Len(<<"\\", "b">>)
          BY <3>1
        <5>3. SubSeq(<<"\\", "b">>, 1, k) \in Seq(Chars)
          BY <3>1, <5>2, Prefix
        <5> QED
          BY <5>1, <5>3, ConcatProperties DEF WireTypes
      <4> QED
        BY <2>4, <4>1, <4>2 DEF SendBreak
    <3> QED
      BY <2>1, <2>4, <3>2 DEF SendBreak, terminal, SessionTypes, WireTypes
  <2>5. CASE Suspend
    BY <2>1, <2>5, SetTTYType DEF Suspend, SessionTypes, WireTypes
  <2> QED
    BY <1>13, <2>2, <2>3, <2>4, <2>5
<1>14. ASSUME NEW key \in Keys, OtherCommand(key) \/ RunProgram(key)
       PROVE  SessionTypes' /\ WireTypes'
  <2>1. Input(key)
    BY <1>14 DEF OtherCommand, RunProgram
  <2>2. buf' \in Seq(Keys) /\ typed' \in Seq(Keys)
    BY <2>1, InputType
  <2>3. CASE OtherCommand(key)
    BY <2>2, <2>3 DEF OtherCommand, terminal, SessionTypes, WireTypes
  <2>4. CASE RunProgram(key)
    BY <2>2, <2>4, SetTTYType DEF RunProgram, Commands, PowerCommands, SessionTypes, WireTypes
  <2> QED
    BY <1>14, <2>3, <2>4
<1> QED
  BY <1>1, <1>2, <1>3, <1>4, <1>5, <1>6, <1>7, <1>8, <1>9, <1>10, <1>11, <1>12, <1>13, <1>14
     DEF SessionStep, Program, User

-----------------------------------------------------------------------------
(* Types: the serial line's end                                              *)

TTYTyped == TTYTypes /\ WireTypes

LEMMA FlushFailsType ==
    ASSUME TTYTypes, FlushFails
    PROVE  /\ line' \in Seq(Chars) /\ pc_rv' \in Int /\ pc_rv' < pc_rv
           /\ pc_buf' = pc_buf /\ lost' = TRUE
<1>1. PICK w \in 0..Len(pc_buf) - 1 : /\ line' = line \o SubSeq(pc_buf, 1, w)
                                      /\ pc_rv' = pc_rv - (Len(pc_buf) - w)
  BY DEF FlushFails
<1>2. Len(pc_buf) \in Nat /\ w \in Nat /\ w <= Len(pc_buf)
  BY LenProperties DEF TTYTypes
<1>3. SubSeq(pc_buf, 1, w) \in Seq(Chars)
  BY <1>2, Prefix DEF TTYTypes
<1>4. line' \in Seq(Chars)
  BY <1>1, <1>3, ConcatProperties DEF TTYTypes
<1> QED
  BY <1>1, <1>2, <1>4 DEF FlushFails, TTYTypes

LEMMA PutType ==
    ASSUME TTYTypes, NEW c \in Chars, PutChar(c) \/ PutCharFails
    PROVE  /\ line' \in Seq(Chars) /\ pc_rv' \in Int /\ lost' \in BOOLEAN
           /\ pc_buf' \in Seq(Chars) /\ Len(pc_buf') <= PC_LEN
<1>1. CASE PutCharFails
  BY <1>1, FlushFailsType DEF PutCharFails, TTYTypes
<1>2. CASE PutChar(c) /\ Len(pc_buf) < PC_LEN /\ pc_buf' = Append(pc_buf, c) /\ UNCHANGED line
  BY <1>2, AppendProperties, TTYAssumption DEF PutChar, TTYTypes
<1>3. CASE PutChar(c) /\ line' = line \o pc_buf /\ pc_buf' = <<c>>
  <2>1. line' \in Seq(Chars)
    BY <1>3, ConcatProperties DEF TTYTypes
  <2>2. <<c>> \in Seq(Chars) /\ Len(<<c>>) = 1
    OBVIOUS
  <2> QED
    BY <1>3, <2>1, <2>2, TTYAssumption DEF PutChar, TTYTypes
<1> QED
  BY <1>1, <1>2, <1>3 DEF PutChar

LEMMA TTYStepType == TTYTyped /\ TTYStep => TTYTyped'
<1> SUFFICES ASSUME TTYTypes, WireTypes, TTYStep PROVE TTYTypes' /\ WireTypes'
  BY DEF TTYTyped
<1> USE DEF wire
<1>1. CASE Read
  <2>1. PICK n \in 1..MY_BUFSIZE :
             /\ n <= Len(net)
             /\ tbuf' = SubSeq(net, 1, n) /\ rlen' = n
             /\ net' = SubSeq(net, n + 1, Len(net))
    BY <1>1 DEF Read
  <2>2. n \in Nat /\ rlen' \in 0..MY_BUFSIZE
    BY <2>1, TTYAssumption
  <2>3. tbuf' \in Seq(Chars) /\ net' \in Seq(Chars)
    BY <2>1, <2>2, Prefix, Suffix DEF WireTypes
  <2>4. pc_buf' \in Seq(Chars) /\ Len(pc_buf') <= PC_LEN
    BY <1>1, EmptySeq, TTYAssumption DEF Read
  <2> QED
    BY <1>1, <2>2, <2>3, <2>4 DEF Read, TTYTypes, WireTypes
<1>2. CASE ReadFails
  BY <1>2 DEF ReadFails, Quit, TTYTypes, WireTypes
<1>3. CASE Backslash
  BY <1>3, Behead DEF Backslash, TTYTypes, WireTypes
<1>4. CASE Break
  <2>1. breaks' \in Seq(Nat)
    BY <1>4, AppendProperties, LenProperties DEF Break, TTYTypes
  <2>2. tbuf' \in Seq(Chars)
    BY <1>4, Behead DEF Break, TTYTypes
  <2>3. /\ UNCHANGED <<tpc, rlen, pc_buf, pc_rv, line, want, lost, wire>>
        /\ esc' = FALSE /\ e' = e + 1
    BY <1>4 DEF Break
  <2>4. e' \in Nat
    <3>1. e \in Nat
      BY DEF TTYTypes
    <3> QED
      BY <2>3, <3>1
  <2> QED
    BY <2>1, <2>2, <2>3, <2>4 DEF TTYTypes, WireTypes
<1>5. CASE Newline
  <2>1. want' \in Seq(Chars)
    BY <1>5, AppendProperties, TTYAssumption DEF Newline, TTYTypes
  <2>2. /\ line' \in Seq(Chars) /\ pc_rv' \in Int /\ lost' \in BOOLEAN
        /\ pc_buf' \in Seq(Chars) /\ Len(pc_buf') <= PC_LEN
    BY <1>5, PutType, TTYAssumption DEF Newline
  <2> QED
    BY <1>5, <2>1, <2>2 DEF Newline, TTYTypes, WireTypes
<1>6. CASE Put
  <2>1. ch \in Chars /\ tbuf' \in Seq(Chars)
    BY <1>6, Behead DEF Put, ch, TTYTypes
  <2>2. want' \in Seq(Chars)
    BY <1>6, <2>1, AppendProperties DEF Put, TTYTypes
  <2>3. /\ line' \in Seq(Chars) /\ pc_rv' \in Int /\ lost' \in BOOLEAN
        /\ pc_buf' \in Seq(Chars) /\ Len(pc_buf') <= PC_LEN
    BY <1>6, <2>1, PutType DEF Put
  <2> QED
    BY <1>6, <2>1, <2>2, <2>3 DEF Put, TTYTypes, WireTypes
<1>7. CASE End
  <2>1. /\ line' \in Seq(Chars) /\ pc_rv' \in Int /\ lost' \in BOOLEAN
        /\ pc_buf' \in Seq(Chars) /\ Len(pc_buf') <= PC_LEN
    <3>1. CASE FlushFails
      BY <3>1, FlushFailsType DEF TTYTypes
    <3>2. CASE Flushed
      <4>1. <<>> \in Seq(Chars) /\ Len(<<>>) <= PC_LEN
        BY EmptySeq, TTYAssumption
      <4> QED
        BY <3>2, <4>1, ConcatProperties DEF Flushed, TTYTypes
    <3> QED
      BY <1>7, <3>1, <3>2 DEF End
  <2>2. tpc' \in {"select", "ended"} /\ net' = net /\ clientUp' = clientUp /\ serverUp' \in BOOLEAN
    BY <1>7 DEF End, Quit, WireTypes
  <2> QED
    BY <1>7, <2>1, <2>2 DEF End, TTYTypes, WireTypes
<1> QED
  BY <1>1, <1>2, <1>3, <1>4, <1>5, <1>6, <1>7 DEF TTYStep

\* The program counters, flags and buffers of both programs, and the connection,
\* are never anything but what they are declared to be; PutChar's buffer holds at
\* most PC_LEN characters (tty-connect.c, PutChar).
THEOREM StreamTypeCorrect == Spec => []TypeOK
<1>1. Init => TypeOK
  <2> SUFFICES ASSUME Init PROVE TypeOK
    OBVIOUS
  <2>0. /\ <<>> \in Seq(Chars) /\ <<>> \in Seq(Keys) /\ <<>> \in Seq(Nat)
        /\ <<>> \in Seq(BOOLEAN)
    BY EmptySeq
  <2>1. WireTypes /\ SessionTypes
    BY <2>0 DEF Init, WireInit, SessionInit, WireTypes, SessionTypes
  <2>2. pc_buf \in Seq(Chars) /\ Len(pc_buf) <= PC_LEN /\ rlen \in 0..MY_BUFSIZE
    BY EmptySeq, TTYAssumption DEF Init, TTYInit
  <2>3. TTYTypes
    <3>1. tpc \in {"select", "loop", "put", "end", "ended"} /\ e \in Nat /\ pc_rv \in Int
      BY DEF Init, TTYInit
    <3>2. esc \in BOOLEAN /\ lost \in BOOLEAN
      BY DEF Init, TTYInit
    <3>3. /\ tbuf \in Seq(Chars) /\ line \in Seq(Chars) /\ want \in Seq(Chars)
          /\ breaks \in Seq(Nat)
      BY <2>0 DEF Init, TTYInit
    <3> QED
      BY <2>2, <3>1, <3>2, <3>3 DEF TTYTypes
  <2> QED
    BY <2>1, <2>3 DEF TypeOK
<1>2. TypeOK /\ [Next]_vars => TypeOK'
  <2> SUFFICES ASSUME TypeOK, [Next]_vars PROVE TypeOK'
    OBVIOUS
  <2>1. CASE SessionStep /\ UNCHANGED ttyconnect
    <3>1. SessionTypes' /\ WireTypes'
      BY <2>1, SessionStepType DEF TypeOK, SessionTyped
    <3>2. TTYTypes'
      BY <2>1 DEF TypeOK, TTYTypes, ttyconnect
    <3> QED
      BY <3>1, <3>2 DEF TypeOK
  <2>2. CASE TTYStep /\ UNCHANGED session
    <3>1. TTYTypes' /\ WireTypes'
      BY <2>2, TTYStepType DEF TypeOK, TTYTyped
    <3>2. SessionTypes'
      BY <2>2 DEF TypeOK, SessionTypes, session
    <3> QED
      BY <3>1, <3>2 DEF TypeOK
  <2>3. CASE UNCHANGED vars
    BY <2>3 DEF vars, session, ttyconnect, wire, TypeOK, WireTypes, SessionTypes, TTYTypes
  <2> QED
    BY <2>1, <2>2, <2>3 DEF Next
<1> QED
  BY <1>1, <1>2, PTL DEF Spec

-----------------------------------------------------------------------------
(* The terminal and the alarm                                                *)

\* Where the terminal is raw, and where its own modes are not saved: setTTY and
\* restoreTTY do nothing when they are called twice, so each is called where the
\* other was called last.
TermInv ==
    /\ pc \in {"select", "flush", "command", "alarm"} => tty = "raw" /\ saved = "user"
    /\ pc \in {"start", "file", "fork", "wait", "reset", "default", "stop", "stopped",
              "ignore", "raw"} => tty = "user" /\ saved = "none"
    /\ pc \in {"ended", "killed"} => tty = "user"

\* Where the alarm is set, and where SIGALRM has its default action.
AlarmInv ==
    /\ pc \in {"start", "select", "flush", "command", "file", "fork", "wait", "reset"}
         => alarmed /\ sigs = "ignore"
    /\ pc \in {"default", "raw", "alarm"} => ~ alarmed /\ sigs = "ignore"
    /\ pc \in {"stop", "stopped", "ignore"} => ~ alarmed
    /\ AlarmIsHandled

SessionInv == SessionTypes /\ TermInv /\ AlarmInv

LEMMA TermStep == SessionInv /\ SessionStep => TermInv'
<1> SUFFICES ASSUME SessionTypes, TermInv, AlarmInv, SessionStep PROVE TermInv'
  BY DEF SessionInv
<1> USE DEF TermInv, terminal, signals, SessionTypes, setTTY, restoreTTY, Exit
<1>1. CASE Start \/ EndOfFile \/ Character
  BY <1>1 DEF Start, EndOfFile, Character, Next1
<1>2. CASE DoubleBackslash \/ Escape \/ FlushRest
  BY <1>2 DEF DoubleBackslash, Escape, FlushRest, Next1, Flush
<1>3. CASE Fork \/ FileName
  BY <1>3 DEF Fork, FileName
<1>4. CASE ForkFails \/ NoFileName \/ \E ok \in BOOLEAN : Wait(ok)
  BY <1>4 DEF ForkFails, NoFileName, Wait, Return
<1>5. CASE ResetAlarm \/ ResetSignals \/ Stop \/ Resume \/ SetSignals \/ RawAgain \/ AlarmAgain
  BY <1>5 DEF ResetAlarm, ResetSignals, Stop, Resume, SetSignals, RawAgain, AlarmAgain, Goes
<1>6. CASE keepalive \/ Interrupt
  BY <1>6 DEF keepalive, Interrupt
<1>7. CASE \E n \in 1..BufSize : \E s \in [1..n -> Keys] : ReadKeys(s)
  BY <1>7 DEF ReadKeys
<1>8. CASE Continue \/ QuitSession \/ SendBreak \/ Suspend
  BY <1>8 DEF Continue, QuitSession, SendBreak, Suspend, Input
<1>9. CASE \E key \in Keys : OtherCommand(key) \/ RunProgram(key)
  BY <1>9 DEF OtherCommand, RunProgram, Input
<1> QED
  BY <1>1, <1>2, <1>3, <1>4, <1>5, <1>6, <1>7, <1>8, <1>9 DEF SessionStep, Program, User

LEMMA AlarmStep == SessionInv /\ SessionStep => AlarmInv'
<1> SUFFICES ASSUME SessionTypes, AlarmInv, SessionStep PROVE AlarmInv'
  BY DEF SessionInv
<1> USE DEF AlarmInv, AlarmIsHandled, terminal, signals, SessionTypes, Exit
<1>1. CASE Start \/ EndOfFile \/ Character
  BY <1>1 DEF Start, EndOfFile, Character, Next1
<1>2. CASE DoubleBackslash \/ Escape \/ FlushRest
  BY <1>2 DEF DoubleBackslash, Escape, FlushRest, Next1, Flush
<1>3. CASE Fork \/ FileName
  BY <1>3 DEF Fork, FileName
<1>4. CASE ForkFails \/ NoFileName \/ \E ok \in BOOLEAN : Wait(ok)
  BY <1>4 DEF ForkFails, NoFileName, Wait, Return
<1>5. CASE ResetAlarm \/ ResetSignals \/ Stop \/ Resume \/ SetSignals \/ RawAgain \/ AlarmAgain
  BY <1>5 DEF ResetAlarm, ResetSignals, Stop, Resume, SetSignals, RawAgain, AlarmAgain, Goes
<1>6. CASE keepalive \/ Interrupt
  BY <1>6 DEF keepalive, Interrupt, Alive
<1>7. CASE \E n \in 1..BufSize : \E s \in [1..n -> Keys] : ReadKeys(s)
  BY <1>7 DEF ReadKeys
<1>8. CASE Continue \/ QuitSession \/ SendBreak \/ Suspend
  BY <1>8 DEF Continue, QuitSession, SendBreak, Suspend, Input
<1>9. CASE \E key \in Keys : OtherCommand(key) \/ RunProgram(key)
  BY <1>9 DEF OtherCommand, RunProgram, Input
<1> QED
  BY <1>1, <1>2, <1>3, <1>4, <1>5, <1>6, <1>7, <1>8, <1>9 DEF SessionStep, Program, User

LEMMA SessionInvariant == Spec => [](TermInv /\ AlarmInv)
<1>1. Init => TermInv /\ AlarmInv
  BY DEF Init, SessionInit, TermInv, AlarmInv, AlarmIsHandled
<1>2. TypeOK /\ TermInv /\ AlarmInv /\ [Next]_vars => (TermInv /\ AlarmInv)'
  <2> SUFFICES ASSUME TypeOK, TermInv, AlarmInv, [Next]_vars PROVE (TermInv /\ AlarmInv)'
    OBVIOUS
  <2>1. CASE SessionStep
    BY <2>1, TermStep, AlarmStep DEF SessionInv, TypeOK
  <2>2. CASE UNCHANGED session
    BY <2>2 DEF session, TermInv, AlarmInv, AlarmIsHandled
  <2> QED
    BY <2>1, <2>2 DEF Next, vars
<1> QED
  BY <1>1, <1>2, StreamTypeCorrect, PTL DEF Spec

\* Programs run from command mode, a suspended session's shell and whoever has the
\* terminal after the session find it with the modes it had before
\* (xinu-console.c, setTTY and restoreTTY).
THEOREM TerminalIsRestoredAlways == Spec => []TerminalIsRestored
<1>1. TermInv => TerminalIsRestored
  BY DEF TermInv, TerminalIsRestored
<1> QED
  BY <1>1, SessionInvariant, PTL

\* Command z, the programs run from command mode and every way back from them leave
\* the alarm of a session set (xinu-console.c, keepalive and suspend).
THEOREM KeepsAliveAlways == Spec => []KeepsAlive
<1>1. AlarmInv => KeepsAlive
  BY DEF AlarmInv, KeepsAlive
<1> QED
  BY <1>1, SessionInvariant, PTL

\* No interleaving of command z with the clock lets SIGALRM kill the session
\* (xinu-console.c, resetSignals and setSignals).
THEOREM AlarmIsHandledAlways == Spec => []AlarmIsHandled
<1>1. AlarmInv => AlarmIsHandled
  BY DEF AlarmInv
<1> QED
  BY <1>1, SessionInvariant, PTL

-----------------------------------------------------------------------------
(* Short writes                                                              *)

\* What flushdata has counted: without a cooked newline every character of the read
\* is in an escape, or put, or still to come; and once a write was short the count
\* is too small, so that the next thing tty-connect does is to quit.
CountInv ==
    /\ ~ Cooked /\ tpc = "loop" => pc_rv + e + Len(tbuf) = rlen
    /\ ~ Cooked => tpc # "put"
    /\ lost /\ ~ Cooked => \/ tpc = "ended"
                           \/ tpc = "end" /\ pc_rv + e < rlen

\* Without a short write, the line and the buffer have all that was put.
LineInv ==
    ~ lost => /\ tpc # "end"
              /\ tpc = "select" => line = want
              /\ tpc \in {"loop", "put"} => line \o pc_buf = want

LEMMA CookedStays ==
    ASSUME TTYTypes, want' = want \/ \E c \in Chars : want' = Append(want, c), Cooked
    PROVE  Cooked'
<1>1. PICK i \in 1..Len(want) : want[i] = "\r"
  BY DEF Cooked
<1>2. CASE want' = want
  BY <1>1, <1>2 DEF Cooked
<1>3. ASSUME NEW c \in Chars, want' = Append(want, c)
      PROVE  Cooked'
  <2>1. Len(want) \in Nat /\ Len(want') = Len(want) + 1 /\ want'[i] = want[i]
    BY <1>3, LenProperties, AppendProperties DEF TTYTypes
  <2>2. i \in 1..Len(want')
    BY <2>1
  <2> QED
    BY <1>1, <2>1, <2>2 DEF Cooked
<1> QED
  BY <1>2, <1>3

LEMMA CookedNow ==
    ASSUME TTYTypes, want' = Append(want, "\r")
    PROVE  Cooked'
<1>1. /\ Len(want) \in Nat /\ Len(want') = Len(want) + 1
      /\ want'[Len(want) + 1] = "\r"
  BY TTYAssumption, LenProperties, AppendProperties DEF TTYTypes
<1>2. Len(want) + 1 \in 1..Len(want')
  BY <1>1
<1> QED
  BY <1>1, <1>2 DEF Cooked

\* The line and the buffer together grow by what is put.
LEMMA PutGrows ==
    ASSUME TTYTypes, NEW c \in Chars, PutChar(c)
    PROVE  line' \o pc_buf' = Append(line \o pc_buf, c)
<1>1. line \in Seq(Chars) /\ pc_buf \in Seq(Chars) /\ <<c>> \in Seq(Chars)
  BY DEF TTYTypes
<1>2. line \o pc_buf \in Seq(Chars)
  BY <1>1, ConcatProperties
<1>3. (line \o pc_buf) \o <<c>> = Append(line \o pc_buf, c)
  BY <1>2, AppendIsConcat
<1>4. CASE pc_buf' = Append(pc_buf, c) /\ UNCHANGED line
  <2>1. Append(pc_buf, c) = pc_buf \o <<c>>
    BY <1>1, AppendIsConcat
  <2>2. (line \o pc_buf) \o <<c>> = line \o (pc_buf \o <<c>>)
    BY <1>1, ConcatAssociative
  <2> QED
    BY <1>3, <1>4, <2>1, <2>2
<1>5. CASE line' = line \o pc_buf /\ pc_buf' = <<c>>
  BY <1>3, <1>5
<1> QED
  BY <1>4, <1>5 DEF PutChar

LEMMA CountedLess ==
    ASSUME NEW a \in Int, NEW b \in Int, a < b, NEW c \in Int, NEW n \in Int, b + c <= n
    PROVE  a + c < n /\ ~ (a + c >= n)
  OBVIOUS

LEMMA CountStep == TTYTypes /\ WireTypes /\ CountInv /\ LineInv /\ TTYStep => CountInv' /\ LineInv'
<1> SUFFICES ASSUME TTYTypes, WireTypes, CountInv, LineInv, TTYStep PROVE CountInv' /\ LineInv'
  OBVIOUS
<1>0. Len(tbuf) \in Nat /\ e \in Nat /\ pc_rv \in Int /\ rlen \in Int
  BY LenProperties, TTYAssumption DEF TTYTypes
<1>1. CASE Read
  <2>1. PICK n \in 1..MY_BUFSIZE :
             /\ n <= Len(net)
             /\ tbuf' = SubSeq(net, 1, n) /\ rlen' = n
    BY <1>1 DEF Read
  <2>2. n \in Nat /\ Len(tbuf') = n
    <3>1. n \in Nat
      BY TTYAssumption
    <3> QED
      BY <2>1, <3>1, Prefix DEF WireTypes
  <2>3. line' \o pc_buf' = line
    BY <1>1, ConcatEmptySeq DEF Read, TTYTypes
  <2>4. Cooked' = Cooked
    BY <1>1 DEF Read, Cooked
  <2>5. ~ Cooked => ~ lost
    BY <1>1 DEF Read, CountInv
  <2>6. CountInv'
    BY <1>1, <2>1, <2>2, <2>4, <2>5 DEF Read, CountInv
  <2>7. LineInv'
    BY <1>1, <2>3 DEF Read, LineInv
  <2> QED
    BY <2>6, <2>7
<1>2. CASE ReadFails
  <2>1. Cooked' = Cooked
    BY <1>2 DEF ReadFails, Cooked
  <2> QED
    BY <1>2, <2>1 DEF ReadFails, Quit, CountInv, LineInv
<1>3. CASE Backslash \/ Break
  <2>1. Cooked' = Cooked
    BY <1>3 DEF Backslash, Break, Cooked
  <2>2. /\ tpc = "loop" /\ tpc' = "loop" /\ e' = e + 1 /\ Len(tbuf') = Len(tbuf) - 1
        /\ UNCHANGED <<rlen, pc_buf, pc_rv, line, want, lost>>
    BY <1>3, Behead DEF Backslash, Break, TTYTypes
  <2> QED
    BY <1>0, <2>1, <2>2 DEF CountInv, LineInv
<1>4. CASE Newline
  <2>1. want' = Append(want, "\r") /\ tpc = "loop" /\ tpc' = "put"
    BY <1>4 DEF Newline
  <2>2. Cooked'
    BY <2>1, CookedNow
  <2>3. ~ lost' => ~ lost /\ line' \o pc_buf' = Append(line \o pc_buf, "\r")
    <3>1. CASE PutChar("\r")
      BY <3>1, PutGrows, TTYAssumption DEF PutChar
    <3>2. CASE PutCharFails
      BY <3>2 DEF PutCharFails, FlushFails
    <3> QED
      BY <1>4, <3>1, <3>2 DEF Newline
  <2> QED
    BY <2>1, <2>2, <2>3 DEF CountInv, LineInv
<1>5. CASE Put
  <2>1. ch \in Chars /\ Len(tbuf') = Len(tbuf) - 1
    BY <1>5, Behead DEF Put, ch, TTYTypes
  <2>2. Cooked => Cooked'
    BY <1>5, <2>1, CookedStays DEF Put
  <2>3. CASE PutChar(ch) /\ tpc' = "loop"
    <3>1. line' \o pc_buf' = Append(line \o pc_buf, ch) /\ pc_rv' = pc_rv + 1 /\ lost' = lost
      BY <2>1, <2>3, PutGrows DEF PutChar
    <3>2. CountInv'
      <4>1. e' = e /\ rlen' = rlen /\ tpc \in {"loop", "put"} /\ lost' = lost
        BY <1>5, <3>1 DEF Put
      <4>2. ~ Cooked' => pc_rv + e + Len(tbuf) = rlen /\ ~ lost
        BY <2>2, <4>1 DEF CountInv
      <4>3. pc_rv' + e' + Len(tbuf') = pc_rv + e + Len(tbuf)
        BY <1>0, <2>1, <3>1, <4>1
      <4> QED
        BY <2>3, <4>1, <4>2, <4>3 DEF CountInv
    <3>3. LineInv'
      BY <1>5, <2>3, <3>1 DEF Put, LineInv
    <3> QED
      BY <3>2, <3>3
  <2>4. CASE PutCharFails /\ tpc' = "end"
    <3>1. pc_rv' \in Int /\ pc_rv' < pc_rv /\ lost' = TRUE
      BY <2>4, FlushFailsType DEF PutCharFails
    <3>2. e' = e /\ rlen' = rlen /\ tpc \in {"loop", "put"} /\ tbuf # <<>>
      BY <1>5 DEF Put
    <3>3. Len(tbuf) > 0
      BY <1>0, <3>2, Behead DEF TTYTypes
    <3>4. ~ Cooked' => tpc = "loop" /\ pc_rv + e + Len(tbuf) = rlen
      BY <2>2, <3>2 DEF CountInv
    <3>5. ASSUME pc_rv + e + Len(tbuf) = rlen PROVE pc_rv' + e' < rlen'
      <4>1. pc_rv' + e < pc_rv + e + Len(tbuf)
        BY <1>0, <3>1, <3>3
      <4> QED
        BY <3>2, <3>5, <4>1
    <3>6. CountInv'
      BY <2>4, <3>4, <3>5 DEF CountInv
    <3> QED
      BY <3>1, <3>6 DEF LineInv
  <2> QED
    BY <1>5, <2>3, <2>4 DEF Put
<1>6. CASE End
  <2>1. Cooked' = Cooked
    BY <1>6 DEF End, Cooked
  <2>2. tpc' \in {"select", "ended"} /\ (tpc' = "select" => pc_rv' + e >= rlen)
    BY <1>6 DEF End, Quit
  <2>3. CASE Flushed
    <3>1. line' = line \o pc_buf /\ pc_rv' = pc_rv /\ lost' = lost
      BY <2>3 DEF Flushed
    <3>2. CountInv'
      BY <1>0, <1>6, <2>1, <2>2, <3>1 DEF End, CountInv
    <3>3. LineInv'
      BY <1>6, <2>2, <3>1 DEF End, LineInv
    <3> QED
      BY <3>2, <3>3
  <2>4. CASE FlushFails
    <3>1. pc_rv' \in Int /\ pc_rv' < pc_rv /\ lost' = TRUE
      BY <2>4, FlushFailsType
    <3>2. tpc = "loop" => Len(tbuf) = 0
      BY <1>6 DEF End
    <3>3. e' = e /\ rlen' = rlen /\ tpc \in {"loop", "end"}
      BY <1>6 DEF End
    <3>4. ~ Cooked /\ tpc = "loop" => pc_rv + e = rlen
      BY <1>0, <3>2 DEF CountInv
    <3>5. tpc = "end" => lost
      BY DEF LineInv
    <3>6. ~ Cooked => pc_rv + e <= rlen
      BY <1>0, <3>3, <3>4, <3>5 DEF CountInv
    <3>7. ASSUME pc_rv + e <= rlen PROVE tpc' = "ended"
      <4>1. pc_rv' \in Int /\ pc_rv' < pc_rv
        BY <3>1
      <4>2. ~ (pc_rv' + e >= rlen)
        <5>1. e \in Int
          BY <1>0
        <5>2. pc_rv' \in Int /\ pc_rv \in Int /\ rlen \in Int /\ pc_rv' < pc_rv
          BY <1>0, <4>1
        <5>3. pc_rv + e <= rlen
          BY <3>7
        <5> QED
          BY <5>1, <5>2, <5>3, CountedLess
      <4> QED
        BY <2>2, <4>2
    <3>8. Cooked' <=> Cooked
      BY <2>1
    <3>9. ~ Cooked' => tpc' = "ended"
      BY <3>6, <3>7, <3>8
    <3>10. CountInv'
      <4>1. tpc' # "loop" /\ tpc' # "put"
        BY <2>2
      <4>2. ~ Cooked' /\ tpc' = "loop" => pc_rv' + e' + Len(tbuf)' = rlen'
        BY <4>1
      <4>3. ~ Cooked' => tpc' # "put"
        BY <4>1
      <4>4. lost' /\ ~ Cooked' => tpc' = "ended"
        BY <3>9
      <4> QED
        BY <4>2, <4>3, <4>4 DEF CountInv
    <3> QED
      BY <2>2, <3>1, <3>10 DEF LineInv
  <2> QED
    BY <1>6, <2>3, <2>4 DEF End
<1> QED
  BY <1>1, <1>2, <1>3, <1>4, <1>5, <1>6 DEF TTYStep

\* What flushdata has counted, and what is on the line or in the buffer.
LEMMA CountAlways == Spec => [](CountInv /\ LineInv)
<1>1. Init => CountInv /\ LineInv
  BY DEF Init, TTYInit, CountInv, LineInv
<1>2. TypeOK /\ CountInv /\ LineInv /\ [Next]_vars => (CountInv /\ LineInv)'
  <2> SUFFICES ASSUME TypeOK, CountInv, LineInv, [Next]_vars PROVE (CountInv /\ LineInv)'
    OBVIOUS
  <2>1. CASE TTYStep
    BY <2>1, CountStep DEF TypeOK
  <2>2. CASE UNCHANGED ttyconnect
    BY <2>2 DEF ttyconnect, CountInv, LineInv, Cooked
  <2> QED
    BY <2>1, <2>2 DEF Next, vars
<1> QED
  BY <1>1, <1>2, StreamTypeCorrect, PTL DEF Spec

\* For every way in which reads and writes are cut: while tty-connect goes on, no
\* character that it put is missing from the line, unless it cooked a newline
\* (tty-connect.c, PutCharFlush and the test in connectto).
THEOREM NothingLostSilentlyEver == Spec => []NothingLostSilently
<1>1. CountInv /\ LineInv => NothingLostSilently
  BY DEF CountInv, LineInv, NothingLostSilently
<1> QED
  BY <1>1, CountAlways, PTL
-----------------------------------------------------------------------------
(* What a short write leaves on the line                                     *)

\* The line has n characters of what was put, and then m again of a buffer that began
\* behind the k-th.
Twice(k, n, m) ==
    /\ k <= n /\ n < k + PC_LEN /\ m <= PC_LEN
    /\ n <= Len(want) /\ k + m <= Len(want)
    /\ line = SubSeq(want, 1, n) \o SubSeq(want, k + 1, k + m)

\* PutChar's buffer is what was put behind the k-th character.
InBuffer(k) == pc_buf = SubSeq(want, k + 1, k + Len(pc_buf)) /\ k + Len(pc_buf) <= Len(want)

AgainInv ==
    /\ ~ lost /\ tpc = "ended" => line = want
    /\ lost /\ ~ Cooked /\ tpc = "end" =>
         \E k \in Nat, n \in Nat : Twice(k, n, 0) /\ InBuffer(k)
    /\ lost /\ ~ Cooked /\ tpc = "ended" =>
         \E k \in Nat, n \in Nat, m \in Nat : Twice(k, n, m)

LEMMA SameSubSeq ==
    ASSUME NEW X, NEW p \in Seq(X), NEW q \in Seq(X), Len(p) <= Len(q),
           \A i \in 1..Len(p) : q[i] = p[i]
    PROVE  \A a, b \in Nat : b <= Len(p) => SubSeq(p, a + 1, b) = SubSeq(q, a + 1, b)
<1> SUFFICES ASSUME NEW a \in Nat, NEW b \in Nat, b <= Len(p)
             PROVE  SubSeq(p, a + 1, b) = SubSeq(q, a + 1, b)
  OBVIOUS
<1>1. Len(p) \in Nat /\ Len(q) \in Nat
  BY LenProperties
<1>2. \A i \in a + 1..b : i \in 1..Len(p) /\ i \in 1..Len(q)
  BY <1>1
<1> QED
  BY <1>1, <1>2

LEMMA StartsSubSeq ==
    ASSUME NEW X, NEW q \in Seq(X), NEW n \in Nat, n <= Len(q)
    PROVE  Starts(SubSeq(q, 1, n), q, X)
<1>1. SubSeq(q, 1, n) \in Seq(X) /\ SubSeq(q, n + 1, Len(q)) \in Seq(X)
  BY Prefix, Suffix
<1>2. Len(q) \in Nat /\ 1 \in 1..Len(q) + 1 /\ n \in 1 - 1..Len(q) /\ Len(q) \in n..Len(q)
  BY LenProperties
<1>3. SubSeq(q, 1, n) \o SubSeq(q, n + 1, Len(q)) = SubSeq(q, 1, Len(q))
  BY <1>2, ConcatAdjacentSubSeq
<1>4. SubSeq(q, 1, Len(q)) = q
  BY SubSeqFull
<1> QED
  BY <1>1, <1>3, <1>4 DEF Starts

LEMMA NoneAgain ==
    ASSUME NEW X, NEW q \in Seq(X), NEW n \in Nat, n <= Len(q), NEW k \in Nat
    PROVE  SubSeq(q, 1, n) \o SubSeq(q, k + 1, k + 0) = SubSeq(q, 1, n)
<1>1. SubSeq(q, k + 1, k + 0) = <<>>
  OBVIOUS
<1>2. SubSeq(q, 1, n) \in Seq(X)
  BY Prefix
<1> QED
  BY <1>1, <1>2, ConcatEmptySeq

\* The beginning of b, behind a.
LEMMA Behind ==
    ASSUME NEW X, NEW a \in Seq(X), NEW b \in Seq(X), NEW w \in Nat, w <= Len(b)
    PROVE  /\ SubSeq(a \o b, 1, Len(a) + w) = a \o SubSeq(b, 1, w)
           /\ SubSeq(a \o b, Len(a) + 1, Len(a) + w) = SubSeq(b, 1, w)
           /\ Len(a) + w <= Len(a \o b)
<1> DEFINE q == a \o b
           n == Len(a)
           u == SubSeq(b, 1, w)
           v == SubSeq(q, n + 1, n + w)
<1>1. /\ q \in Seq(X) /\ n \in Nat /\ Len(b) \in Nat /\ Len(q) = n + Len(b)
      /\ \A i \in 1..n + Len(b) : q[i] = IF i <= n THEN a[i] ELSE b[i - n]
      /\ \A i \in 1..n + Len(b) : q[i] \in X
      /\ \A i \in 1..Len(b) : b[i] \in X
  <2>1. Len(q) = n + Len(b) /\ \A i \in 1..n + Len(b) : q[i] = IF i <= n THEN a[i] ELSE b[i - n]
    BY ConcatProperties
  <2>2. q \in Seq(X)
    BY ConcatProperties
  <2> QED
    BY <2>1, <2>2, LenProperties, ElementOfSeq
<1> HIDE DEF q, n
<1>2. /\ u \in Seq(X) /\ Len(u) = w
      /\ \A i \in 1..w : u[i] = b[i]
  <2>1. \A i \in 1..w : b[i] \in X
    BY <1>1
  <2>2. w \in Int
    OBVIOUS
  <2>3. \A i \in 1..w - 1 + 1 : u[i] = b[1 + i - 1]
    BY <2>1, <2>2, SubSeqProperties
  <2>4. u \in Seq(X) /\ Len(u) = w
    BY Prefix
  <2> QED
    BY <2>3, <2>4
<1>3. /\ v \in Seq(X) /\ Len(v) = w
      /\ \A i \in 1..w : v[i] = b[i]
  <2>1. \A i \in n + 1..n + w : q[i] \in X
    BY <1>1
  <2>2. n + 1 \in Int /\ n + w \in Int
    BY <1>1
  <2>3. PICK lo \in Int, hi \in Int : lo = n + 1 /\ hi = n + w
    BY <2>2
  <2>4. v = SubSeq(q, lo, hi)
    BY <2>3
  <2> HIDE DEF v
  <2>6. \A i \in lo..hi : q[i] \in X
    BY <2>1, <2>3
  <2>7. /\ v \in Seq(X) /\ Len(v) = IF lo <= hi THEN hi - lo + 1 ELSE 0
        /\ \A i \in 1..hi - lo + 1 : v[i] = q[lo + i - 1]
    BY <2>4, <2>6, SubSeqProperties
  <2>8. hi - lo + 1 = w /\ (~ (lo <= hi) => w = 0)
    BY <1>1, <2>3
  <2>5. ASSUME NEW i \in 1..w PROVE q[n + 1 + i - 1] = b[i]
    <3>1. n + 1 + i - 1 = n + i /\ n + i \in 1..n + Len(b) /\ ~ (n + i <= n) /\ n + i - n = i
      BY <1>1
    <3> QED
      BY <1>1, <3>1
  <2>9. \A i \in 1..w : q[lo + i - 1] = b[i]
    BY <2>3, <2>5
  <2> QED
    BY <2>7, <2>8, <2>9
<1> HIDE DEF u, v
<1>4. v = u
  BY <1>2, <1>3, SeqEqual
<1>5. n + w <= Len(q)
  BY <1>1
<1>6. SubSeq(q, 1, n + w) = SubSeq(q, 1, n) \o v
  <2>1. n \in 1 - 1..Len(q) /\ n + w \in n..Len(q) /\ 1 \in 1..Len(q) + 1
    BY <1>1
  <2> QED
    BY <1>1, <2>1, ConcatAdjacentSubSeq DEF v
<1>7. SubSeq(q, 1, n) = a
  <2>1. \A i \in 1..Len(a) : q[i] = a[i]
    BY <1>1 DEF n
  <2>2. Len(a) <= Len(q) /\ 0 \in Nat /\ n <= Len(a)
    BY <1>1 DEF n
  <2>3. SubSeq(a, 0 + 1, n) = SubSeq(q, 0 + 1, n)
    BY <1>1, <2>1, <2>2, SameSubSeq
  <2>4. SubSeq(a, 1, n) = a
    BY SubSeqFull DEF n
  <2>5. 0 + 1 = 1
    OBVIOUS
  <2>6. SubSeq(a, 1, n) = SubSeq(q, 1, n)
    BY <2>3, <2>5
  <2> QED
    BY <2>4, <2>6
<1> QED
  BY <1>4, <1>5, <1>6, <1>7 DEF q, n, u, v

\* The beginning of a part of s.
LEMMA Within ==
    ASSUME NEW X, NEW s \in Seq(X), NEW k \in Nat, NEW l \in Nat, k + l <= Len(s),
           NEW w \in Nat, w <= l
    PROVE  SubSeq(SubSeq(s, k + 1, k + l), 1, w) = SubSeq(s, k + 1, k + w)
<1>1. CASE w = 0
  BY <1>1
<1>2. CASE w # 0
  <2>1. /\ k + 1 \in 1..Len(s) /\ k + l \in 1..Len(s)
        /\ 1 \in 1..(k + l) - (k + 1) + 1 /\ w \in 1..(k + l) - (k + 1) + 1
    BY <1>2, LenProperties
  <2>2. SubSeq(SubSeq(s, k + 1, k + l), 1, w) = SubSeq(s, (k + 1) + 1 - 1, (k + 1) + w - 1)
    BY <2>1, SubSeqOfSubSeq
  <2>3. (k + 1) + 1 - 1 = k + 1 /\ (k + 1) + w - 1 = k + w
    OBVIOUS
  <2> QED
    BY <2>2, <2>3
<1> QED
  BY <1>1, <1>2

\* A short write, the first one: the buffer began where the line ends.
LEMMA FirstShort ==
    ASSUME TTYTypes, TTYTypes', line \o pc_buf = want, FlushFails,
           want' = want \/ \E c \in Chars : want' = Append(want, c)
    PROVE  \E k \in Nat, n \in Nat : Twice(k, n, 0)' /\ InBuffer(k)'
<1>1. /\ line \in Seq(Chars) /\ pc_buf \in Seq(Chars) /\ want \in Seq(Chars)
      /\ want' \in Seq(Chars) /\ Len(pc_buf) <= PC_LEN
      /\ Len(line) \in Nat /\ Len(pc_buf) \in Nat /\ Len(want) \in Nat /\ PC_LEN \in Nat
  BY LenProperties, TTYAssumption DEF TTYTypes
<1>2. PICK w \in 0..Len(pc_buf) - 1 : line' = line \o SubSeq(pc_buf, 1, w)
  BY DEF FlushFails
<1>3. pc_buf' = pc_buf /\ w \in Nat /\ w < Len(pc_buf)
  BY <1>1 DEF FlushFails
<1>4. Len(want) <= Len(want') /\ \A i \in 1..Len(want) : want'[i] = want[i]
  <2>1. CASE want' = want
    BY <1>1, <2>1
  <2>2. ASSUME NEW c \in Chars, want' = Append(want, c)
        PROVE  Len(want) <= Len(want') /\ \A i \in 1..Len(want) : want'[i] = want[i]
    <3>1. Len(want') = Len(want) + 1 /\ \A i \in 1..Len(want) : want'[i] = want[i]
      BY <1>1, <2>2, AppendProperties
    <3> QED
      BY <1>1, <3>1
  <2> QED
    BY <2>1, <2>2
<1>5. PICK k, n, l : k = Len(line) /\ n = Len(line) + w /\ l = Len(pc_buf)
  OBVIOUS
<1>6. k \in Nat /\ n \in Nat /\ l \in Nat /\ k <= n /\ n < k + l /\ n < k + PC_LEN
  BY <1>1, <1>3, <1>5
<1>7. /\ SubSeq(want, 1, n) = line' /\ n <= Len(want)
      /\ SubSeq(want, k + 1, k + l) = SubSeq(pc_buf, 1, l) /\ k + l <= Len(want)
  <2>0. PICK a \in Seq(Chars), b \in Seq(Chars) : a = line /\ b = pc_buf
    BY <1>1
  <2>1. /\ SubSeq(line \o pc_buf, 1, Len(line) + w) = line \o SubSeq(pc_buf, 1, w)
        /\ Len(line) + w <= Len(line \o pc_buf)
    <3>1. w <= Len(b)
      BY <1>1, <1>3, <2>0
    <3>2. /\ SubSeq(a \o b, 1, Len(a) + w) = a \o SubSeq(b, 1, w)
          /\ Len(a) + w <= Len(a \o b)
      BY <1>3, <3>1, Behind
    <3> QED
      BY <2>0, <3>2
  <2>2. /\ SubSeq(line \o pc_buf, Len(line) + 1, Len(line) + l) = SubSeq(pc_buf, 1, l)
        /\ Len(line) + l <= Len(line \o pc_buf)
    <3>1. l \in Nat /\ l <= Len(b)
      BY <1>1, <1>5, <2>0
    <3>2. /\ SubSeq(a \o b, Len(a) + 1, Len(a) + l) = SubSeq(b, 1, l)
          /\ Len(a) + l <= Len(a \o b)
      BY <3>1, Behind
    <3> QED
      BY <2>0, <3>2
  <2>3. line \o pc_buf = want
    OBVIOUS
  <2> QED
    BY <1>2, <1>5, <2>1, <2>2, <2>3
<1>8. SubSeq(want', 1, n) = line' /\ SubSeq(want', k + 1, k + l) = pc_buf'
  <2>1. SubSeq(want, 0 + 1, n) = SubSeq(want', 0 + 1, n)
    BY <1>1, <1>4, <1>6, <1>7, SameSubSeq
  <2>2. SubSeq(want, k + 1, k + l) = SubSeq(want', k + 1, k + l)
    <3>1. k + l \in Nat /\ k \in Nat /\ k + l <= Len(want)
      BY <1>6, <1>7
    <3>2. \A a, b \in Nat : b <= Len(want) => SubSeq(want, a + 1, b) = SubSeq(want', a + 1, b)
      BY <1>1, <1>4, SameSubSeq
    <3> QED
      BY <3>1, <3>2
  <2>3. SubSeq(pc_buf, 1, l) = pc_buf
    BY <1>1, <1>5, SubSeqFull
  <2>4. 0 + 1 = 1
    OBVIOUS
  <2>5. SubSeq(want, 1, n) = SubSeq(want', 1, n)
    BY <2>1, <2>4
  <2>6. SubSeq(want, 1, n) = line' /\ SubSeq(want, k + 1, k + l) = SubSeq(pc_buf, 1, l)
    BY <1>7
  <2> QED
    BY <1>3, <2>2, <2>3, <2>5, <2>6
<1>9. Len(want') \in Nat /\ n <= Len(want') /\ k + l <= Len(want') /\ k + 0 <= Len(want') /\ 0 <= PC_LEN
  <2>1. Len(want') \in Nat
    BY <1>1, LenProperties
  <2> QED
    BY <1>1, <1>4, <1>6, <1>7, <2>1
<1>10. SubSeq(want', 1, n) \o SubSeq(want', k + 1, k + 0) = SubSeq(want', 1, n)
  BY <1>1, <1>6, <1>9, NoneAgain
<1>11. Twice(k, n, 0)'
  BY <1>6, <1>8, <1>9, <1>10 DEF Twice
<1>12. InBuffer(k)'
  BY <1>3, <1>5, <1>8, <1>9 DEF InBuffer
<1> QED
  BY <1>6, <1>11, <1>12

\* The flush that comes after it, of which nothing, a part or the whole is written.
LEMMA NextFlush ==
    ASSUME TTYTypes, NEW k \in Nat, NEW n \in Nat, Twice(k, n, 0), InBuffer(k),
           Flushed \/ FlushFails, want' = want
    PROVE  \E m \in Nat : Twice(k, n, m)'
<1>1. /\ line \in Seq(Chars) /\ pc_buf \in Seq(Chars) /\ want \in Seq(Chars)
      /\ Len(pc_buf) <= PC_LEN
      /\ Len(pc_buf) \in Nat /\ Len(want) \in Nat /\ PC_LEN \in Nat
  BY LenProperties, TTYAssumption DEF TTYTypes
<1>2. line = SubSeq(want, 1, n)
  BY <1>1, NoneAgain DEF Twice
<1>3. PICK m \in Nat : m <= Len(pc_buf) /\ line' = line \o SubSeq(pc_buf, 1, m)
  <2>1. CASE Flushed
    <3>1. SubSeq(pc_buf, 1, Len(pc_buf)) = pc_buf
      BY <1>1, SubSeqFull
    <3>2. line' = line \o SubSeq(pc_buf, 1, Len(pc_buf)) /\ Len(pc_buf) <= Len(pc_buf)
      BY <1>1, <2>1, <3>1 DEF Flushed
    <3> QED
      BY <1>1, <3>2
  <2>2. CASE FlushFails
    <3>1. PICK w \in 0..Len(pc_buf) - 1 : line' = line \o SubSeq(pc_buf, 1, w)
      BY <2>2 DEF FlushFails
    <3>2. w \in Nat /\ w <= Len(pc_buf)
      BY <1>1
    <3> QED
      BY <3>1, <3>2
  <2> QED
    BY <2>1, <2>2
<1>4. PICK l \in Nat : l = Len(pc_buf)
  BY <1>1
<1>5. SubSeq(pc_buf, 1, m) = SubSeq(want, k + 1, k + m)
  <2>1. pc_buf = SubSeq(want, k + 1, k + l) /\ k + l <= Len(want)
    BY <1>4 DEF InBuffer
  <2> QED
    BY <1>1, <1>3, <1>4, <2>1, Within
<1>6. m <= PC_LEN /\ k + m <= Len(want)
  BY <1>1, <1>3 DEF InBuffer
<1>7. Twice(k, n, m)'
  BY <1>2, <1>3, <1>5, <1>6 DEF Twice
<1> QED
  BY <1>7

LEMMA AgainStep ==
    ASSUME TTYTypes, TTYTypes', CountInv, LineInv, AgainInv, TTYStep
    PROVE  AgainInv'
<1>1. CASE tpc' \notin {"end", "ended"}
  BY <1>1 DEF AgainInv
<1>2. CASE tpc' \in {"end", "ended"}
  <2>1. ReadFails \/ Put \/ End
    BY <1>2 DEF TTYStep, Read, Backslash, Break, Newline
  <2>2. CASE ReadFails
    <3>1. /\ tpc = "select" /\ tpc' = "ended" /\ UNCHANGED <<line, want, lost>>
          /\ (Cooked' <=> Cooked)
      BY <2>2 DEF ReadFails, Quit, Cooked
    <3> QED
      BY <3>1 DEF AgainInv, CountInv, LineInv
  <2>3. CASE Put
    <3>1. /\ tpc \in {"loop", "put"} /\ tpc' = "end" /\ FlushFails /\ ch \in Chars
          /\ want' = Append(want, ch)
      BY <1>2, <2>3, Behead DEF Put, PutCharFails, ch, TTYTypes
    <3>2. ASSUME ~ Cooked' PROVE \E k \in Nat, n \in Nat : Twice(k, n, 0)' /\ InBuffer(k)'
      <4>1. ~ Cooked
        BY <3>1, <3>2, CookedStays
      <4>2. ~ lost
        BY <3>1, <4>1 DEF CountInv
      <4>3. line \o pc_buf = want
        BY <3>1, <4>2 DEF LineInv
      <4> QED
        BY <3>1, <4>3, FirstShort
    <3> QED
      BY <3>1, <3>2 DEF AgainInv, FlushFails
  <2>4. CASE End
    <3>1. /\ tpc' = "ended" /\ tpc \in {"end", "loop"} /\ want' = want
          /\ Flushed \/ FlushFails
          /\ (Cooked' <=> Cooked)
      BY <1>2, <2>4 DEF End, Quit, Cooked
    <3>2. ~ lost' => line' = want'
      <4>1. ~ lost' => ~ lost /\ line' = line \o pc_buf
        BY <3>1 DEF Flushed, FlushFails
      <4>2. ~ lost => line \o pc_buf = want
        BY <3>1 DEF LineInv
      <4> QED
        BY <3>1, <4>1, <4>2
    <3>3. ASSUME lost', ~ Cooked'
          PROVE  \E k \in Nat, n \in Nat, m \in Nat : Twice(k, n, m)'
      <4>1. CASE tpc = "end"
        <5>1. PICK k \in Nat, n \in Nat : Twice(k, n, 0) /\ InBuffer(k)
          BY <3>1, <3>3, <4>1 DEF AgainInv, LineInv
        <5> QED
          BY <3>1, <5>1, NextFlush
      <4>2. CASE tpc = "loop"
        <5>1. ~ lost /\ line \o pc_buf = want
          BY <3>1, <3>3, <4>2 DEF CountInv, LineInv
        <5>2. FlushFails
          BY <3>1, <3>3, <5>1 DEF Flushed
        <5> QED
          BY <3>1, <5>1, <5>2, FirstShort
      <4> QED
        BY <3>1, <4>1, <4>2
    <3> QED
      BY <3>1, <3>2, <3>3 DEF AgainInv
  <2> QED
    BY <2>1, <2>2, <2>3, <2>4
<1> QED
  BY <1>1, <1>2

\* What a short write leaves on the line, and what the flush after it adds.
LEMMA AgainAlways == Spec => []AgainInv
<1>1. Init => AgainInv
  BY DEF Init, TTYInit, AgainInv
<1>2. TypeOK /\ TypeOK' /\ CountInv /\ LineInv /\ AgainInv /\ [Next]_vars => AgainInv'
  <2> SUFFICES ASSUME TypeOK, TypeOK', CountInv, LineInv, AgainInv, [Next]_vars PROVE AgainInv'
    OBVIOUS
  <2>1. CASE TTYStep
    BY <2>1, AgainStep DEF TypeOK
  <2>2. CASE UNCHANGED ttyconnect
    BY <2>2 DEF ttyconnect, AgainInv, Twice, InBuffer, Cooked
  <2> QED
    BY <2>1, <2>2 DEF Next, vars
<1> QED
  BY <1>1, <1>2, StreamTypeCorrect, CountAlways, PTL DEF Spec

-----------------------------------------------------------------------------
(* What a session's characters mean, one more at a time                      *)

Ends == Seq(BOOLEAN)

LEMMA UnderstoodType ==
    ASSUME NEW m \in Readings, NEW key \in Keys, NEW ends \in Ends
    PROVE  Understood(m, key, ends) \in Readings
<1>1. /\ m.mode \in {"text", "command", "running", "over"} /\ m.text \in Seq(Chars)
      /\ m.breaks \in Seq(Nat) /\ m.k \in Nat \ {0}
      /\ m = [mode |-> m.mode, text |-> m.text, breaks |-> m.breaks, k |-> m.k]
  BY DEF Readings
<1>2. ASSUME key # ESC_CHARACTER PROVE Sends(m, key) \in Readings
  <2>1. key \in Chars /\ "\r" \in Chars
    BY <1>2, SessionAssumption, TTYAssumption
  <2> DEFINE x == IF cook /\ key = "\n" THEN <<"\r", key>> ELSE <<key>>
  <2>2. x \in Seq(Chars)
    BY <2>1
  <2> HIDE DEF x
  <2>3. m.text \o x \in Seq(Chars)
    BY <1>1, <2>2, ConcatProperties
  <2>4. Sends(m, key) = [m EXCEPT !.text = m.text \o x]
    BY DEF Sends, x
  <2> QED
    BY <1>1, <2>3, <2>4 DEF Readings
<1>3. Breaks(m) \in Readings
  <2>1. Append(m.breaks, Len(m.text)) \in Seq(Nat)
    BY <1>1, LenProperties, AppendProperties
  <2>2. Breaks(m) = [m EXCEPT !.breaks = Append(m.breaks, Len(m.text)), !.mode = "text"]
    BY DEF Breaks
  <2> QED
    BY <1>1, <2>1, <2>2 DEF Readings
<1>4. Ran(m, key, ends) \in Readings
  <2> DEFINE x == IF ends[m.k] THEN "text" ELSE IF key = "q" THEN "over" ELSE "command"
  <2>1. m.k + 1 \in Nat \ {0} /\ x \in {"text", "command", "over"}
    BY <1>1
  <2>2. [m EXCEPT !.mode = "running"] \in Readings
    BY <1>1 DEF Readings
  <2>3. [m EXCEPT !.k = m.k + 1, !.mode = x] \in Readings
    <3> HIDE DEF x
    <3> QED
      BY <1>1, <2>1 DEF Readings
  <2> QED
    BY <2>2, <2>3 DEF Ran
<1>5. \A x \in {"text", "command", "over"} : [m EXCEPT !.mode = x] \in Readings
  BY <1>1 DEF Readings
<1> QED
  BY <1>2, <1>3, <1>4, <1>5 DEF Understood

LEMMA MeaningNone ==
    ASSUME NEW ends
    PROVE  MeaningOf(<<>>, ends) = Unread /\ Unread \in Readings
<1>1. <<>> \in Seq(Chars) /\ <<>> \in Seq(Nat) /\ 1 \in Nat \ {0}
  BY EmptySeq
<1>2. Unread \in Readings
  BY <1>1 DEF Unread, Readings
<1> QED
  BY <1>2, StepsEmpty DEF MeaningOf

LEMMA MeaningType ==
    ASSUME NEW ends \in Ends
    PROVE  \A s \in Seq(Keys) : MeaningOf(s, ends) \in Readings
<1> DEFINE step == [a \in Readings \X Keys |-> Understood(a[1], a[2], ends)]
<1>1. Unread \in Readings
  BY MeaningNone
<1>2. \A m \in Readings, key \in Keys : step[<<m, key>>] \in Readings
  BY UnderstoodType
<1> HIDE DEF step
<1>3. \A s \in Seq(Keys) : Steps(step, Unread, s) \in Readings
  BY <1>1, <1>2, StepsIn
<1> QED
  BY <1>3 DEF MeaningOf, step

LEMMA MeaningNext ==
    ASSUME NEW ends \in Ends, NEW s \in Seq(Keys), NEW key \in Keys
    PROVE  MeaningOf(Append(s, key), ends) = Understood(MeaningOf(s, ends), key, ends)
<1> DEFINE step == [a \in Readings \X Keys |-> Understood(a[1], a[2], ends)]
           m == MeaningOf(s, ends)
<1>1. m \in Readings
  BY MeaningType
<1>2. m = Steps(step, Unread, s) /\ MeaningOf(Append(s, key), ends) = Steps(step, Unread, Append(s, key))
  BY DEF MeaningOf
<1> HIDE DEF m
<1>3. step[<<m, key>>] = Understood(m, key, ends)
  BY <1>1
<1> HIDE DEF step
<1>4. Steps(step, Unread, Append(s, key)) = step[<<Steps(step, Unread, s), key>>]
  BY StepsAppend
<1> QED
  BY <1>2, <1>3, <1>4 DEF m

\* The text grows at its end and so do the breaks; what is over stays so.
Grows(m, n) == Starts(m.text, n.text, Chars) /\ Starts(m.breaks, n.breaks, Nat)

LEMMA UnderstoodGrows ==
    ASSUME NEW m \in Readings, NEW key \in Keys, NEW ends \in Ends
    PROVE  /\ Grows(m, Understood(m, key, ends))
           /\ m.mode \in {"over", "running"} => Understood(m, key, ends) = m
<1>1. m.text \in Seq(Chars) /\ m.breaks \in Seq(Nat) /\ Len(m.text) \in Nat
  BY LenProperties DEF Readings
<1>2. Starts(m.text, m.text, Chars) /\ Starts(m.breaks, m.breaks, Nat)
  BY <1>1, StartsSelf
<1> DEFINE x == IF cook /\ key = "\n" THEN <<"\r", key>> ELSE <<key>>
           n == Understood(m, key, ends)
<1>3. ASSUME key # ESC_CHARACTER PROVE x \in Seq(Chars)
  <2>1. key \in Chars /\ "\r" \in Chars
    BY <1>3, SessionAssumption, TTYAssumption
  <2> QED
    BY <2>1
<1>4. m = [mode |-> m.mode, text |-> m.text, breaks |-> m.breaks, k |-> m.k]
  BY DEF Readings
<1> HIDE DEF x
<1>5. \/ key # ESC_CHARACTER /\ n.text = m.text \o x /\ n.breaks = m.breaks
      \/ n.text = m.text /\ n.breaks = m.breaks
      \/ n.text = m.text /\ n.breaks = Append(m.breaks, Len(m.text))
  <2>1. CASE m.mode = "text" /\ key # ESC_CHARACTER
    BY <1>4, <2>1 DEF Understood, Sends, x
  <2>2. CASE ~ (m.mode = "text" /\ key # ESC_CHARACTER)
    BY <1>4, <2>2 DEF Understood, Breaks, Ran
  <2> QED
    BY <2>1, <2>2
<1>6. m.mode \in {"over", "running"} => n = m
  BY DEF Understood
<1> HIDE DEF n
<1>7. Grows(m, n)
  <2>1. CASE key # ESC_CHARACTER /\ n.text = m.text \o x /\ n.breaks = m.breaks
    BY <1>1, <1>2, <1>3, <2>1, StartsConcat DEF Grows
  <2>2. CASE n.text = m.text /\ n.breaks = m.breaks
    BY <1>2, <2>2 DEF Grows
  <2>3. CASE n.text = m.text /\ n.breaks = Append(m.breaks, Len(m.text))
    BY <1>1, <1>2, <2>3, StartsAppend DEF Grows
  <2> QED
    BY <1>5, <2>1, <2>2, <2>3
<1> QED
  BY <1>6, <1>7 DEF n

LEMMA MeaningGrows ==
    ASSUME NEW ends \in Ends, NEW s \in Seq(Keys), NEW t \in Seq(Keys)
    PROVE  /\ Grows(MeaningOf(s, ends), MeaningOf(s \o t, ends))
           /\ MeaningOf(s, ends).mode = "over" => MeaningOf(s \o t, ends) = MeaningOf(s, ends)
<1> DEFINE step == [a \in Readings \X Keys |-> Understood(a[1], a[2], ends)]
           m == MeaningOf(s, ends)
           P == {n \in Readings : Grows(m, n) /\ (m.mode = "over" => n = m)}
<1>1. m \in Readings
  BY MeaningType
<1>2. MeaningOf(s \o t, ends) = Steps(step, m, t)
  <2> HIDE DEF step
  <2>1. Steps(step, Unread, s \o t) = Steps(step, Steps(step, Unread, s), t)
    BY StepsConcat
  <2> QED
    BY <2>1 DEF MeaningOf, step
<1> HIDE DEF m
<1>3. m \in P
  <2>1. m.text \in Seq(Chars) /\ m.breaks \in Seq(Nat)
    BY <1>1 DEF Readings
  <2> QED
    BY <1>1, <2>1, StartsSelf DEF Grows
<1>4. ASSUME NEW n \in P, NEW key \in Keys PROVE step[<<n, key>>] \in P
  <2> DEFINE q == Understood(n, key, ends)
  <2>1. n \in Readings /\ Grows(m, n) /\ (m.mode = "over" => n = m)
    OBVIOUS
  <2>2. step[<<n, key>>] = q
    BY <2>1
  <2>3. q \in Readings /\ Grows(n, q) /\ (n.mode = "over" => q = n)
    BY <2>1, UnderstoodType, UnderstoodGrows
  <2> HIDE DEF q, step
  <2>4. Grows(m, q)
    BY <2>1, <2>3, StartsTransitive DEF Grows
  <2> QED
    BY <2>1, <2>2, <2>3, <2>4
<1> HIDE DEF P, step
<1>5. Steps(step, m, t) \in P
  BY <1>3, <1>4, StepsIn
<1> QED
  BY <1>2, <1>5 DEF P, m

\* A program that ends changes nothing in what was understood before it was run.
LEMMA MeaningKept ==
    ASSUME NEW ends \in Ends, NEW ok \in BOOLEAN
    PROVE  \A s \in Seq(Keys) : MeaningOf(s, ends).mode # "running" =>
                                  MeaningOf(s, Append(ends, ok)) = MeaningOf(s, ends)
<1> DEFINE more == Append(ends, ok)
           T == {s \in Seq(Keys) : MeaningOf(s, ends).mode # "running" =>
                                     MeaningOf(s, more) = MeaningOf(s, ends)}
<1>1. /\ more \in Ends /\ Len(ends) \in Nat /\ Len(more) = Len(ends) + 1
      /\ \A k \in 1..Len(ends) : more[k] = ends[k]
  BY LenProperties, AppendProperties DEF Ends
<1> HIDE DEF more
<1>2. <<>> \in T
  BY MeaningNone, EmptySeq
<1>3. ASSUME NEW s \in Seq(Keys), NEW key \in Keys, s \in T PROVE Append(s, key) \in T
  <2> DEFINE m == MeaningOf(s, ends)
  <2>1. m \in Readings
    BY MeaningType
  <2>2. MeaningOf(Append(s, key), ends) = Understood(m, key, ends)
    BY MeaningNext
  <2>3. m.mode # "running" =>
          MeaningOf(Append(s, key), more) = Understood(m, key, more)
    BY <1>1, <1>3, MeaningNext
  <2>4. Append(s, key) \in Seq(Keys)
    BY AppendProperties
  <2> HIDE DEF m
  <2>5. ASSUME Understood(m, key, ends).mode # "running"
        PROVE  m.mode # "running" /\ Understood(m, key, more) = Understood(m, key, ends)
    <3>1. m.mode # "running"
      BY <2>1, <2>5, UnderstoodGrows
    <3>2. CASE m.mode = "command" /\ key \in PowerCommands \union {"d"}
      <4>1. Understood(m, key, ends) = Ran(m, key, ends) /\ Understood(m, key, more) = Ran(m, key, more)
        BY <3>2 DEF Understood, PowerCommands
      <4>2. m.k \in Nat \ {0}
        BY <2>1 DEF Readings
      <4>3. ~ (m.k > Len(ends))
        <5>1. [m EXCEPT !.mode = "running"].mode = "running"
          BY <2>1 DEF Readings
        <5> QED
          BY <2>5, <4>1, <5>1 DEF Ran
      <4>4. ~ (m.k > Len(more)) /\ more[m.k] = ends[m.k]
        BY <1>1, <4>2, <4>3
      <4> QED
        BY <3>1, <4>1, <4>3, <4>4 DEF Ran
    <3>3. CASE ~ (m.mode = "command" /\ key \in PowerCommands \union {"d"})
      BY <3>1, <3>3 DEF Understood
    <3> QED
      BY <3>2, <3>3
  <2> QED
    BY <2>2, <2>3, <2>4, <2>5
<1> HIDE DEF T
<1>4. Seq(Keys) \subseteq T
  BY <1>2, <1>3, SeqInduction
<1> QED
  BY <1>4 DEF T, more
-----------------------------------------------------------------------------
(* What tty-connect makes of a stream that nothing happens to                *)

Decodings == [esc : BOOLEAN, text : Seq(Chars), breaks : Seq(Nat)]

Takes(d, c) ==
    CASE d.esc /\ c = "b" -> [esc |-> FALSE, text |-> d.text,
                              breaks |-> Append(d.breaks, Len(d.text))]
      [] d.esc /\ c # "b" -> [esc |-> FALSE, text |-> Append(d.text, c), breaks |-> d.breaks]
      [] ~ d.esc /\ c = "\\" -> [esc |-> TRUE, text |-> d.text, breaks |-> d.breaks]
      [] ~ d.esc /\ c # "\\" -> [esc |-> FALSE, breaks |-> d.breaks,
                                 text |-> d.text \o IF cook /\ c = "\n" THEN <<"\r", c>> ELSE <<c>>]

Decode(d, s) == Steps([a \in Decodings \X Chars |-> Takes(a[1], a[2])], d, s)

LEMMA TakesType ==
    ASSUME NEW d \in Decodings, NEW c \in Chars
    PROVE  Takes(d, c) \in Decodings /\ Grows(d, Takes(d, c))
<1>1. /\ d.esc \in BOOLEAN /\ d.text \in Seq(Chars) /\ d.breaks \in Seq(Nat)
      /\ Len(d.text) \in Nat
  BY LenProperties DEF Decodings
<1>2. Starts(d.text, d.text, Chars) /\ Starts(d.breaks, d.breaks, Nat)
  BY <1>1, StartsSelf
<1> DEFINE x == IF cook /\ c = "\n" THEN <<"\r", c>> ELSE <<c>>
<1>3. x \in Seq(Chars)
  <2>1. "\r" \in Chars
    BY TTYAssumption
  <2> QED
    BY <2>1
<1> HIDE DEF x
<1>4. d.text \o x \in Seq(Chars) /\ Starts(d.text, d.text \o x, Chars)
  BY <1>1, <1>3, ConcatProperties, StartsConcat
<1>5. Append(d.text, c) \in Seq(Chars) /\ Starts(d.text, Append(d.text, c), Chars)
  BY <1>1, AppendProperties, StartsAppend
<1>6. /\ Append(d.breaks, Len(d.text)) \in Seq(Nat)
      /\ Starts(d.breaks, Append(d.breaks, Len(d.text)), Nat)
  BY <1>1, AppendProperties, StartsAppend
<1>7. CASE d.esc /\ c = "b"
  <2>1. Takes(d, c) = [esc |-> FALSE, text |-> d.text, breaks |-> Append(d.breaks, Len(d.text))]
    BY <1>7 DEF Takes
  <2> QED
    BY <1>1, <1>2, <1>6, <2>1 DEF Decodings, Grows
<1>8. CASE d.esc /\ c # "b"
  <2>1. Takes(d, c) = [esc |-> FALSE, text |-> Append(d.text, c), breaks |-> d.breaks]
    BY <1>8 DEF Takes
  <2> QED
    BY <1>1, <1>2, <1>5, <2>1 DEF Decodings, Grows
<1>9. CASE ~ d.esc /\ c = "\\"
  <2>1. Takes(d, c) = [esc |-> TRUE, text |-> d.text, breaks |-> d.breaks]
    BY <1>9 DEF Takes
  <2> QED
    BY <1>1, <1>2, <2>1 DEF Decodings, Grows
<1>10. CASE ~ d.esc /\ c # "\\"
  <2>1. Takes(d, c) = [esc |-> FALSE, breaks |-> d.breaks, text |-> d.text \o x]
    BY <1>10 DEF Takes, x
  <2> QED
    BY <1>1, <1>2, <1>4, <2>1 DEF Decodings, Grows
<1> QED
  BY <1>1, <1>7, <1>8, <1>9, <1>10

LEMMA DecodeNone ==
    ASSUME NEW d
    PROVE  Decode(d, <<>>) = d
  BY StepsEmpty DEF Decode

LEMMA DecodeConcat ==
    ASSUME NEW d, NEW s \in Seq(Chars), NEW t \in Seq(Chars)
    PROVE  Decode(d, s \o t) = Decode(Decode(d, s), t)
<1> DEFINE step == [a \in Decodings \X Chars |-> Takes(a[1], a[2])]
<1> HIDE DEF step
<1>1. Steps(step, d, s \o t) = Steps(step, Steps(step, d, s), t)
  BY StepsConcat
<1> QED
  BY <1>1 DEF Decode, step

LEMMA DecodeGrows ==
    ASSUME NEW d \in Decodings, NEW s \in Seq(Chars)
    PROVE  Decode(d, s) \in Decodings /\ Grows(d, Decode(d, s))
<1> DEFINE step == [a \in Decodings \X Chars |-> Takes(a[1], a[2])]
           P == {n \in Decodings : Grows(d, n)}
<1>1. d \in P
  <2>1. d.text \in Seq(Chars) /\ d.breaks \in Seq(Nat)
    BY DEF Decodings
  <2> QED
    BY <2>1, StartsSelf DEF Grows
<1>2. ASSUME NEW n \in P, NEW c \in Chars PROVE step[<<n, c>>] \in P
  <2> DEFINE q == Takes(n, c)
  <2>1. n \in Decodings /\ Grows(d, n)
    OBVIOUS
  <2>2. step[<<n, c>>] = q
    BY <2>1
  <2>3. q \in Decodings /\ Grows(n, q)
    BY <2>1, TakesType
  <2> HIDE DEF q, step
  <2>4. Grows(d, q)
    BY <2>1, <2>3, StartsTransitive DEF Grows
  <2> QED
    BY <2>2, <2>3, <2>4
<1> HIDE DEF P, step
<1>3. Steps(step, d, s) \in P
  BY <1>1, <1>2, StepsIn
<1> QED
  BY <1>3 DEF P, Decode, step

LEMMA DecodeNext ==
    ASSUME NEW d \in Decodings, NEW s \in Seq(Chars), NEW c \in Chars
    PROVE  Decode(d, Append(s, c)) = Takes(Decode(d, s), c)
<1> DEFINE step == [a \in Decodings \X Chars |-> Takes(a[1], a[2])]
           n == Decode(d, s)
<1>1. n \in Decodings
  BY DecodeGrows
<1> HIDE DEF n
<1>2. step[<<n, c>>] = Takes(n, c)
  BY <1>1
<1> HIDE DEF step
<1>3. Steps(step, d, Append(s, c)) = step[<<Steps(step, d, s), c>>]
  BY StepsAppend
<1> QED
  BY <1>2, <1>3 DEF Decode, step, n

LEMMA DecodeOne ==
    ASSUME NEW d \in Decodings, NEW c \in Chars
    PROVE  Decode(d, <<c>>) = Takes(d, c)
<1>1. <<>> \in Seq(Chars) /\ Append(<<>>, c) = <<c>>
  BY EmptySeq
<1>2. Decode(d, Append(<<>>, c)) = Takes(Decode(d, <<>>), c)
  BY <1>1, DecodeNext
<1> QED
  BY <1>1, <1>2, DecodeNone

\* The first character of a stream, and the others.
LEMMA DecodeFirst ==
    ASSUME NEW d \in Decodings, NEW s \in Seq(Chars), s # <<>>, NEW t \in Seq(Chars)
    PROVE  Decode(d, s \o t) = Decode(Takes(d, Head(s)), Tail(s) \o t)
<1> DEFINE c == Head(s)
           r == Tail(s)
<1>1. c \in Chars /\ r \in Seq(Chars) /\ <<c>> \in Seq(Chars)
  BY Behead
<1>2. s = <<c>> \o r
  BY HeadFirst
<1> HIDE DEF c, r
<1>3. s \o t = <<c>> \o (r \o t) /\ r \o t \in Seq(Chars)
  BY <1>1, <1>2, ConcatAssociative, ConcatProperties
<1>4. Decode(d, <<c>> \o (r \o t)) = Decode(Decode(d, <<c>>), r \o t)
  BY <1>1, <1>3, DecodeConcat
<1>5. Decode(d, <<c>>) = Takes(d, c)
  BY <1>1, DecodeOne
<1> QED
  BY <1>3, <1>4, <1>5 DEF c, r
-----------------------------------------------------------------------------
(* What is on its way.  Some of the characters that were read, s, the        *)
(* session has looked at; the others are in buf.                             *)

Suspended == {"reset", "default", "stop", "stopped", "ignore", "raw", "alarm"}
Outside == {"file", "fork", "wait"}

\* A session is where the meaning of s leads, and has as many outcomes as s asks for; while
\* a program runs, s has just asked for one more.
ModeInv(s) ==
    /\ pc \in {"start", "select", "flush"} => MeaningOf(s, outcomes).mode = "text"
    /\ pc \in {"command"} \union Suspended => MeaningOf(s, outcomes).mode = "command"
    /\ pc \in Outside /\ running = "s" => MeaningOf(s, outcomes).mode = "command"
    /\ pc \in Outside /\ running # "s" =>
         \E r \in Seq(Keys) : /\ s = Append(r, running)
                              /\ MeaningOf(r, outcomes).mode = "command"
                              /\ MeaningOf(r, outcomes).k = Len(outcomes) + 1
    /\ MeaningOf(s, outcomes).mode \in {"text", "command"}
         => MeaningOf(s, outcomes).k = Len(outcomes) + 1
    /\ pc = "ended" /\ torn = "no" /\ serverUp =>
         MeaningOf(s, outcomes).mode = "over" \/ buf = <<>>

LayoutInv ==
    /\ pc # "flush" => held = <<>>
    /\ pc \in {"start", "select"} => buf = <<>>
    /\ torn = "cut" => pc = "ended"
    /\ serverUp <=> tpc # "ended"
    /\ pc \in Outside => running \in (PowerCommands \union {"d", "s"}) \intersect Keys

PutInv ==
    /\ tpc = "put" => tbuf # <<>> /\ Head(tbuf) = "\n" /\ cook /\ ~ esc
    /\ tpc = "select" /\ ~ lost => tbuf = <<>>

\* What tty-connect has made of the stream so far, with the breaks at tb.
Made(tb) == [esc |-> esc \/ tpc = "put", text |-> want, breaks |-> tb]

Told(m) == [esc |-> FALSE, text |-> m.text, breaks |-> m.breaks]

\* A break came no earlier than PutChar's buffer allows, and no later.
Near(tb) == /\ tb \in Seq(Nat) /\ Len(tb) = Len(breaks)
            /\ \A i \in 1..Len(breaks) : breaks[i] \in tb[i] - PC_LEN .. tb[i]

\* As long as tty-connect goes on, what it has done and what is on its way to it (what it
\* has read, the connection, and what flush2net holds, or what a short write left) are
\* together what s means.
Arriving(s, rest, tb) ==
    /\ torn = "no" => rest = held
    /\ Near(tb)
    /\ Decode(Made(tb), (tbuf \o net) \o rest) = Told(MeaningOf(s, outcomes))

\* Also when it has ended: what it has done is where the meaning of s begins.
Heard(s, tb) ==
    /\ Near(tb)
    /\ Starts(want, MeaningOf(s, outcomes).text, Chars)
    /\ Starts(tb, MeaningOf(s, outcomes).breaks, Nat)

Channel(s) ==
    Sound => /\ tpc # "ended" =>
                  \E rest \in Seq(Chars), tb \in Seq(Nat) : Arriving(s, rest, tb)
             /\ \E tb \in Seq(Nat) : Heard(s, tb)

Looked(s) == typed = s \o buf

StreamInv == LayoutInv /\ PutInv /\ \E s \in Seq(Keys) : Looked(s) /\ ModeInv(s) /\ Channel(s)

\* What a step of the session adds to what is on its way.
Wrote(x) ==
    \/ torn' = "break"
    \/ /\ torn = "no" /\ torn' = "no"
       /\ serverUp => Longer(net', held', net, held, x)
    \/ /\ torn = "no" /\ torn' = "cut"
       /\ serverUp => \E r \in Seq(Chars) : Longer(net', r, net, held, x)

LEMMA ToldType ==
    ASSUME NEW m \in Readings
    PROVE  /\ Told(m) \in Decodings /\ Told(m).text = m.text /\ Told(m).breaks = m.breaks
           /\ ~ Told(m).esc
  BY DEF Told, Readings, Decodings

LEMMA MadeType ==
    ASSUME TTYTypes, NEW tb \in Seq(Nat)
    PROVE  Made(tb) \in Decodings
<1>1. (esc \/ tpc = "put") \in BOOLEAN /\ want \in Seq(Chars)
  BY DEF TTYTypes
<1> QED
  BY <1>1 DEF Made, Decodings

\* A step of the session that adds to the stream what it adds to the meaning.
LEMMA ChannelStep ==
    ASSUME TypeOK, TypeOK', LayoutInv, UNCHANGED ttyconnect,
           NEW s \in Seq(Keys), NEW s2 \in Seq(Keys), NEW x \in Seq(Chars),
           Channel(s), Wrote(x),
           Told(MeaningOf(s2, outcomes')) = Decode(Told(MeaningOf(s, outcomes)), x)
    PROVE  Channel(s2)'
<1>1. /\ tbuf \in Seq(Chars) /\ net \in Seq(Chars) /\ held \in Seq(Chars)
      /\ net' \in Seq(Chars) /\ held' \in Seq(Chars)
  BY DEF TypeOK, WireTypes, SessionTypes, TTYTypes
<1>2. SUFFICES ASSUME Sound'
               PROVE  /\ tpc # "ended" =>
                           \E rest \in Seq(Chars), tb \in Seq(Nat) : Arriving(s2, rest, tb)'
                      /\ \E tb \in Seq(Nat) : Heard(s2, tb)'
  BY DEF Channel, ttyconnect
<1>3. torn = "no" /\ Sound
  BY <1>2 DEF Wrote, Sound, Cooked, ttyconnect
<1>10. \E tb \in Seq(Nat) : Heard(s2, tb)'
  <2>1. PICK tb \in Seq(Nat) : Heard(s, tb)
    BY <1>3 DEF Channel
  <2> DEFINE m == MeaningOf(s, outcomes)
             n == MeaningOf(s2, outcomes')
  <2>2. m \in Readings /\ n \in Readings
    <3>1. outcomes \in Ends /\ outcomes' \in Ends
      BY DEF TypeOK, SessionTypes, Ends
    <3> QED
      BY <3>1, MeaningType
  <2>3. Told(n) = Decode(Told(m), x)
    OBVIOUS
  <2>4. Starts(want, m.text, Chars) /\ Starts(tb, m.breaks, Nat)
    BY <2>1 DEF Heard
  <2> HIDE DEF m, n
  <2>5. Grows(Told(m), Told(n))
    BY <2>2, <2>3, ToldType, DecodeGrows
  <2>6. Starts(m.text, n.text, Chars) /\ Starts(m.breaks, n.breaks, Nat)
    BY <2>2, <2>5, ToldType DEF Grows
  <2>7. Starts(want, n.text, Chars) /\ Starts(tb, n.breaks, Nat)
    BY <2>4, <2>6, StartsTransitive
  <2>8. want' = want /\ Near(tb)' /\ tb \in Seq(Nat)
    BY <2>1 DEF Heard, Near, ttyconnect
  <2>9. Heard(s2, tb)'
    BY <2>7, <2>8 DEF Heard, n
  <2> QED
    BY <2>8, <2>9
<1>11. SUFFICES ASSUME tpc # "ended"
                PROVE  \E rest \in Seq(Chars), tb \in Seq(Nat) : Arriving(s2, rest, tb)'
  BY <1>10
<1>12. serverUp
  BY <1>11 DEF LayoutInv
<1>4. PICK tb \in Seq(Nat) :
         /\ Near(tb)
         /\ Decode(Made(tb), (tbuf \o net) \o held) = Told(MeaningOf(s, outcomes))
  BY <1>3, <1>11 DEF Channel, Arriving
<1>5. Made(tb)' = Made(tb) /\ Near(tb)' = Near(tb) /\ tbuf' = tbuf
  BY DEF Made, Near, ttyconnect
<1>6. Made(tb) \in Decodings
  BY MadeType DEF TypeOK
<1>7. ASSUME NEW rest \in Seq(Chars), Longer(net', rest, net, held, x),
             torn' = "no" => rest = held'
      PROVE  Arriving(s2, rest, tb)'
  <2> DEFINE all == (tbuf \o net) \o held
             d == Made(tb)
  <2>0. Longer(tbuf \o net', rest, tbuf \o net, held, x)
    BY <1>1, <1>7, LongerBehind
  <2>1. (tbuf \o net') \o rest = all \o x /\ all \in Seq(Chars)
    BY <1>1, <2>0, ConcatProperties DEF Longer
  <2>2. Decode(d, all) = Told(MeaningOf(s, outcomes))
    BY <1>4
  <2> HIDE DEF all, d
  <2>3. Decode(d, all \o x) = Decode(Decode(d, all), x)
    BY <2>1, DecodeConcat
  <2>4. Decode(d, (tbuf \o net') \o rest) = Told(MeaningOf(s2, outcomes'))
    BY <2>1, <2>2, <2>3
  <2>5. Near(tb)' /\ (torn = "no" => rest = held)'
    BY <1>4, <1>5, <1>7
  <2>6. (Decode(Made(tb), (tbuf \o net) \o rest) = Told(MeaningOf(s2, outcomes)))'
    BY <1>5, <2>4 DEF d
  <2> QED
    BY <2>5, <2>6 DEF Arriving
<1>8. CASE torn' = "no" /\ Longer(net', held', net, held, x)
  BY <1>1, <1>7, <1>8
<1>9. CASE torn' = "cut" /\ \E r \in Seq(Chars) : Longer(net', r, net, held, x)
  BY <1>7, <1>9
<1>13. torn' # "break"
  BY <1>2 DEF Sound
<1> QED
  BY <1>12, <1>13, <1>8, <1>9 DEF Wrote

LEMMA WroteNothing ==
    ASSUME TypeOK, torn # "cut", UNCHANGED <<net, held, torn>>
    PROVE  Wrote(<<>>)
<1>1. net \in Seq(Chars) /\ held \in Seq(Chars) /\ torn \in {"no", "break", "cut"}
  BY DEF TypeOK, WireTypes, SessionTypes
<1>2. (net \o held) \o <<>> = net \o held
  BY <1>1, ConcatProperties, ConcatEmptySeq
<1> QED
  BY <1>1, <1>2 DEF Wrote, Longer

\* A write of what is held, and of x behind it.
LEMMA FlushWrote ==
    ASSUME TypeOK, torn # "cut", NEW x \in Seq(Chars), NEW pc2,
           Flush(held \o x, pc2), held' = <<>>
    PROVE  Wrote(x)
<1> DEFINE w == held \o x
<1>1. net \in Seq(Chars) /\ held \in Seq(Chars) /\ torn \in {"no", "break"}
  BY DEF TypeOK, WireTypes, SessionTypes
<1>2. w \in Seq(Chars) /\ Len(w) \in Nat /\ net \o w = (net \o held) \o x
  <2>1. Three(net, held, x, (net \o held) \o x) /\ w \in Seq(Chars)
    BY <1>1, ThreeIs
  <2> QED
    BY <2>1, LenProperties DEF Three
<1>3. Flush(w, pc2)
  OBVIOUS
<1> HIDE DEF w
<1>4. CASE torn = "break"
  BY <1>3, <1>4 DEF Flush, Wrote
<1>5. CASE torn = "no" /\ Written(w) /\ torn' = torn
  <2>1. serverUp => net' \o held' = net \o w
    <3>1. net \o w \in Seq(Chars)
      BY <1>1, <1>2, ConcatProperties
    <3>2. (net \o w) \o <<>> = net \o w
      BY <3>1, ConcatEmptySeq
    <3> QED
      BY <1>5, <3>2 DEF Written
  <2> QED
    BY <1>2, <1>5, <2>1 DEF Wrote, Longer
<1>6. CASE torn = "no" /\ Partly(w) /\ torn' = "cut"
  <2> SUFFICES ASSUME serverUp PROVE \E r \in Seq(Chars) : net' \o r = net \o w
    BY <1>2, <1>6 DEF Wrote, Longer
  <2>1. PICK k \in 0..Len(w) - 1 : net' = net \o SubSeq(w, 1, k)
    BY <1>6 DEF Partly
  <2> DEFINE u == SubSeq(w, 1, k)
             v == SubSeq(w, k + 1, Len(w))
  <2>2. k \in Nat /\ k <= Len(w)
    BY <1>2
  <2>3. u \in Seq(Chars) /\ v \in Seq(Chars)
    BY <1>2, <2>2, Prefix, Suffix
  <2>4. u \o v = w
    <3>1. 1 \in 1..Len(w) + 1 /\ k \in 1 - 1..Len(w) /\ Len(w) \in k..Len(w)
      BY <1>2, <2>2
    <3>2. SubSeq(w, 1, k) \o SubSeq(w, k + 1, Len(w)) = SubSeq(w, 1, Len(w))
      BY <1>2, <3>1, ConcatAdjacentSubSeq
    <3> QED
      BY <1>2, <3>2, SubSeqFull
  <2> HIDE DEF u, v
  <2>5. Three(net, u, v, (net \o u) \o v)
    BY <1>1, <2>3, ThreeIs
  <2>6. (net \o u) \o v = net \o w
    BY <2>4, <2>5 DEF Three
  <2> QED
    BY <2>1, <2>3, <2>6 DEF u
<1> QED
  BY <1>1, <1>3, <1>4, <1>5, <1>6 DEF Flush

LEMMA SessionLayout ==
    ASSUME TypeOK, TermInv, LayoutInv, SessionStep, UNCHANGED ttyconnect
    PROVE  LayoutInv'
<1>1. torn \in {"no", "break", "cut"} /\ (torn = "cut" => pc = "ended") /\ tpc' = tpc
      /\ (serverUp <=> tpc # "ended")
  BY DEF TypeOK, SessionTypes, LayoutInv, ttyconnect
<1> USE DEF LayoutInv, Outside, wire, history, terminal, signals
<1>2. CASE Start \/ EndOfFile \/ Character
  BY <1>1, <1>2 DEF Start, EndOfFile, Character, Next1, Exit
<1>3. CASE DoubleBackslash \/ Escape \/ FlushRest
  BY <1>1, <1>3 DEF DoubleBackslash, Escape, FlushRest, Next1, Flush, Exit
<1>4. CASE Fork \/ FileName
  BY <1>1, <1>4 DEF Fork, FileName
<1>5. CASE ForkFails \/ NoFileName \/ \E ok \in BOOLEAN : Wait(ok)
  <2>1. PICK ok \in BOOLEAN : Return(ok)
    BY <1>5 DEF ForkFails, NoFileName, Wait
  <2>2. pc # "flush" /\ torn # "cut"
    BY <1>1, <1>5 DEF ForkFails, NoFileName, Wait
  <2>3. pc' \in {"flush", "ended", "command"} /\ UNCHANGED <<held, torn, serverUp>>
    BY <2>1 DEF Return, Exit
  <2> QED
    BY <1>1, <2>2, <2>3
<1>6. CASE ResetAlarm \/ ResetSignals \/ Stop \/ Resume \/ SetSignals \/ RawAgain \/ AlarmAgain
  BY <1>1, <1>6 DEF ResetAlarm, ResetSignals, Stop, Resume, SetSignals, RawAgain, AlarmAgain, Goes
<1>7. CASE keepalive \/ Interrupt
  <2>1. CASE keepalive
    BY <1>1, <2>1 DEF keepalive
  <2>2. CASE Interrupt
    BY <1>1, <2>2 DEF Interrupt, Alive, TermInv
  <2> QED
    BY <1>7, <2>1, <2>2
<1>8. CASE \E n \in 1..BufSize : \E s \in [1..n -> Keys] : ReadKeys(s)
  BY <1>1, <1>8 DEF ReadKeys
<1>9. CASE Continue \/ QuitSession \/ SendBreak \/ Suspend
  BY <1>1, <1>9 DEF Continue, QuitSession, SendBreak, Suspend, Input, Exit
<1>10. CASE \E key \in Keys : OtherCommand(key) \/ RunProgram(key)
  BY <1>1, <1>10 DEF OtherCommand, RunProgram, Input
<1> QED
  BY <1>2, <1>3, <1>4, <1>5, <1>6, <1>7, <1>8, <1>9, <1>10 DEF SessionStep, Program, User

-----------------------------------------------------------------------------
(* The steps of a session, and what its characters mean                      *)

\* After a step the session has looked at s2, and x was added to the stream.
Went(s, s2, x) ==
    /\ Looked(s2)' /\ ModeInv(s2)' /\ Wrote(x)
    /\ Told(MeaningOf(s2, outcomes')) = Decode(Told(MeaningOf(s, outcomes)), x)

Moves(s) == \E s2 \in Seq(Keys), x \in Seq(Chars) : Went(s, s2, x)

\* Nothing was looked at and nothing is sent.
LEMMA WentNowhere ==
    ASSUME TypeOK, NEW s \in Seq(Keys), outcomes' = outcomes, Looked(s)', ModeInv(s)',
           Wrote(<<>>)
    PROVE  Moves(s)
<1>1. <<>> \in Seq(Chars)
  BY EmptySeq
<1>2. Told(MeaningOf(s, outcomes')) = Decode(Told(MeaningOf(s, outcomes)), <<>>)
  BY DecodeNone
<1> QED
  BY <1>1, <1>2 DEF Went, Moves

\* A character of command mode.
LEMMA InputLooked ==
    ASSUME TypeOK, NEW s \in Seq(Keys), Looked(s), NEW key \in Keys, Input(key)
    PROVE  Looked(Append(s, key))' /\ Append(s, key) \in Seq(Keys)
<1>1. buf \in Seq(Keys) /\ <<key>> \in Seq(Keys) /\ Append(s, key) \in Seq(Keys)
      /\ Append(s, key) = s \o <<key>>
  BY AppendIsConcat, AppendProperties DEF TypeOK, SessionTypes
<1>2. CASE buf # <<>> /\ key = Head(buf) /\ buf' = Tail(buf) /\ typed' = typed
  <2>1. buf = <<key>> \o Tail(buf) /\ Tail(buf) \in Seq(Keys)
    BY <1>1, <1>2, HeadFirst, Behead
  <2> DEFINE b == Tail(buf)
  <2> HIDE DEF b
  <2>2. Three(s, <<key>>, b, (s \o <<key>>) \o b)
    BY <1>1, <2>1, ThreeIs DEF b
  <2>3. (s \o <<key>>) \o b = typed
    BY <2>1, <2>2 DEF Three, b, Looked
  <2> QED
    BY <1>1, <1>2, <2>3 DEF Looked, b
<1>3. CASE buf = <<>> /\ typed' = Append(typed, key) /\ buf' = buf
  <2>1. typed = s
    BY <1>3, ConcatEmptySeq DEF Looked
  <2>2. Append(s, key) \o <<>> = Append(s, key)
    BY <1>1, ConcatEmptySeq
  <2> QED
    BY <1>1, <1>3, <2>1, <2>2 DEF Looked
<1> QED
  BY <1>2, <1>3 DEF Input
\* Where command mode goes when it reads a character.
LEMMA CommandRead ==
    ASSUME TypeOK, LayoutInv, NEW s \in Seq(Keys), Looked(s), ModeInv(s),
           NEW key \in Keys, Input(key)
    PROVE  LET m == MeaningOf(s, outcomes)
           IN  /\ Looked(Append(s, key))' /\ Append(s, key) \in Seq(Keys)
               /\ m \in Readings /\ m.mode = "command" /\ m.k = Len(outcomes) + 1
               /\ MeaningOf(Append(s, key), outcomes) = Understood(m, key, outcomes)
               /\ torn # "cut" /\ held = <<>> /\ outcomes \in Ends
<1>1. pc = "command"
  BY DEF Input
<1>2. outcomes \in Ends
  BY DEF TypeOK, SessionTypes, Ends
<1>3. MeaningOf(s, outcomes) \in Readings
  BY <1>2, MeaningType
<1> QED
  BY <1>1, <1>2, <1>3, InputLooked, MeaningNext DEF ModeInv, LayoutInv

LEMMA ContinueMoves ==
    ASSUME TypeOK, LayoutInv, NEW s \in Seq(Keys), Looked(s), ModeInv(s),
           Continue \/ QuitSession \/ Suspend \/ \E key \in Keys : OtherCommand(key)
    PROVE  Moves(s)
<1> DEFINE m == MeaningOf(s, outcomes)
<1>1. PICK key \in Keys : /\ Input(key)
                          /\ \/ key = "c" /\ Continue
                             \/ key = "x" /\ QuitSession
                             \/ key = "z" /\ Suspend
                             \/ OtherCommand(key)
  <2>1. CASE Continue
    <3>1. Input("c") /\ "c" \in Keys
      BY <2>1 DEF Continue, Input
    <3> QED
      BY <2>1, <3>1
  <2>2. CASE QuitSession
    <3>1. Input("x") /\ "x" \in Keys
      BY <2>2 DEF QuitSession, Input
    <3> QED
      BY <2>2, <3>1
  <2>3. CASE Suspend
    <3>1. Input("z") /\ "z" \in Keys
      BY <2>3 DEF Suspend, Input
    <3> QED
      BY <2>3, <3>1
  <2>4. CASE \E key \in Keys : OtherCommand(key)
    BY <2>4 DEF OtherCommand
  <2> QED
    BY <2>1, <2>2, <2>3, <2>4
<1>2. /\ Looked(Append(s, key))' /\ Append(s, key) \in Seq(Keys)
      /\ m \in Readings /\ m.mode = "command" /\ m.k = Len(outcomes) + 1
      /\ MeaningOf(Append(s, key), outcomes) = Understood(m, key, outcomes)
      /\ torn # "cut" /\ held = <<>>
  BY <1>1, CommandRead
<1> HIDE DEF m
<1>3. UNCHANGED <<net, held, torn, outcomes, serverUp>>
  BY <1>1 DEF Continue, QuitSession, Suspend, OtherCommand, wire
<1>4. Wrote(<<>>)
  BY <1>2, <1>3, WroteNothing
<1> DEFINE n == Understood(m, key, outcomes)
<1>5. /\ n.text = m.text /\ n.breaks = m.breaks /\ n.k = m.k
      /\ \/ pc' = "flush" /\ n.mode = "text"
         \/ pc' = "ended" /\ n.mode = "over"
         \/ pc' \in {"reset", "command"} /\ n.mode = "command"
  <2>1. m = [mode |-> m.mode, text |-> m.text, breaks |-> m.breaks, k |-> m.k]
    BY <1>2 DEF Readings
  <2>2. CASE key = "c" /\ Continue
    <3>1. n = [m EXCEPT !.mode = "text"]
      BY <1>2, <2>2 DEF Understood, PowerCommands
    <3>2. n.text = m.text /\ n.breaks = m.breaks /\ n.k = m.k /\ n.mode = "text"
      <4> HIDE DEF n
      <4> QED
        BY <2>1, <3>1
    <3> QED
      BY <2>2, <3>2 DEF Continue
  <2>3. CASE key = "x" /\ QuitSession
    <3>1. n = [m EXCEPT !.mode = "over"]
      BY <1>2, <2>3 DEF Understood, PowerCommands
    <3>2. n.text = m.text /\ n.breaks = m.breaks /\ n.k = m.k /\ n.mode = "over"
      <4> HIDE DEF n
      <4> QED
        BY <2>1, <3>1
    <3> QED
      BY <2>3, <3>2 DEF QuitSession, Exit
  <2>4. CASE key = "z" /\ Suspend
    BY <1>2, <2>1, <2>4 DEF Understood, Suspend, PowerCommands
  <2>5. CASE OtherCommand(key)
    <3>1. key \notin {"b", "c", "x"} \union PowerCommands \union {"d"} /\ pc' = "command"
      BY <1>1, <2>5 DEF OtherCommand, Commands, PowerCommands, Input
    <3>2. n = m
      BY <1>2, <3>1 DEF Understood
    <3> QED
      BY <1>2, <3>1, <3>2
  <2> QED
    BY <1>1, <2>2, <2>3, <2>4, <2>5
<1> HIDE DEF n
<1>6. MeaningOf(Append(s, key), outcomes') = n
  BY <1>2, <1>3 DEF n
<1>7. ModeInv(Append(s, key))'
  BY <1>2, <1>3, <1>5, <1>6 DEF ModeInv, Outside, Suspended
<1>8. Told(n) = Decode(Told(m), <<>>)
  BY <1>5, DecodeNone DEF Told
<1>9. <<>> \in Seq(Chars)
  BY EmptySeq
<1> QED
  BY <1>2, <1>4, <1>6, <1>7, <1>8, <1>9 DEF Went, Moves, m

LEMMA RunMoves ==
    ASSUME TypeOK, LayoutInv, NEW s \in Seq(Keys), Looked(s), ModeInv(s),
           NEW key \in Keys, RunProgram(key)
    PROVE  Moves(s)
<1> DEFINE m == MeaningOf(s, outcomes)
           t == Append(s, key)
<1>1. Input(key) /\ key \in PowerCommands \union {"d", "s"} /\ running' = key /\ pc' \in Outside
      /\ UNCHANGED <<net, held, torn, outcomes, serverUp>>
  BY DEF RunProgram, wire, Outside
<1>2. /\ Looked(t)' /\ t \in Seq(Keys)
      /\ m \in Readings /\ m.mode = "command" /\ m.k = Len(outcomes) + 1
      /\ MeaningOf(t, outcomes) = Understood(m, key, outcomes)
      /\ torn # "cut" /\ held = <<>> /\ outcomes \in Ends
  BY <1>1, CommandRead
<1>3. Wrote(<<>>)
  BY <1>1, <1>2, WroteNothing
<1> DEFINE n == Understood(m, key, outcomes)
<1>4. key = "s" => n = m
  BY <1>2 DEF Understood, PowerCommands
<1>5. key # "s" => n.mode = "running" /\ n.text = m.text /\ n.breaks = m.breaks
  <2> SUFFICES ASSUME key # "s"
               PROVE  n.mode = "running" /\ n.text = m.text /\ n.breaks = m.breaks
    OBVIOUS
  <2>1. Len(outcomes) \in Nat /\ m.k > Len(outcomes)
    BY <1>2, LenProperties DEF Ends
  <2>2. n = [m EXCEPT !.mode = "running"]
    BY <1>1, <1>2, <2>1 DEF Understood, Ran, PowerCommands
  <2> QED
    BY <1>2, <2>2 DEF Readings
<1>6. m.text = n.text /\ m.breaks = n.breaks
  BY <1>4, <1>5
<1> HIDE DEF n
<1>7. MeaningOf(t, outcomes') = n /\ MeaningOf(s, outcomes') = m
  BY <1>1, <1>2 DEF n
<1> HIDE DEF m
<1>8. ModeInv(t)'
  BY <1>1, <1>2, <1>4, <1>5, <1>7 DEF ModeInv, Outside, Suspended
<1>9. Told(n) = Decode(Told(m), <<>>) /\ <<>> \in Seq(Chars)
  BY <1>6, DecodeNone, EmptySeq DEF Told
<1> QED
  BY <1>2, <1>3, <1>7, <1>8, <1>9 DEF Went, Moves, m

LEMMA BreakMoves ==
    ASSUME TypeOK, LayoutInv, NEW s \in Seq(Keys), Looked(s), ModeInv(s), SendBreak
    PROVE  Moves(s)
<1> DEFINE m == MeaningOf(s, outcomes)
           t == Append(s, "b")
           x == <<"\\", "b">>
<1>1. Input("b") /\ "b" \in Keys /\ pc' = "flush" /\ UNCHANGED <<held, outcomes, serverUp>>
  BY DEF SendBreak, Input
<1>2. /\ Looked(t)' /\ t \in Seq(Keys)
      /\ m \in Readings /\ m.mode = "command" /\ m.k = Len(outcomes) + 1
      /\ MeaningOf(t, outcomes) = Understood(m, "b", outcomes)
      /\ torn # "cut" /\ held = <<>>
  BY <1>1, CommandRead
<1>3. x \in Seq(Chars) /\ "\\" \in Chars /\ "b" \in Chars
  BY CharsAssumption
<1>4. Wrote(x)
  <2>1. CASE torn' = "break"
    BY <2>1 DEF Wrote
  <2>2. CASE torn' # "break"
    <3>1. Written(x) /\ torn' = torn /\ torn \in {"no", "break"}
      BY <1>2, <2>2 DEF SendBreak, TypeOK, SessionTypes
    <3>2. net \in Seq(Chars) /\ net \o x \in Seq(Chars)
      BY <1>3, ConcatProperties DEF TypeOK, WireTypes
    <3> HIDE DEF x
    <3>3. net \o <<>> = net /\ (net \o x) \o <<>> = net \o x
      BY <3>2, ConcatEmptySeq
    <3>4. serverUp => Longer(net', held', net, held, x)
      BY <1>1, <1>2, <3>1, <3>3 DEF Written, Longer
    <3> QED
      BY <2>2, <3>1, <3>4 DEF Wrote
  <2> QED
    BY <2>1, <2>2
<1> DEFINE n == Understood(m, "b", outcomes)
<1>5. n = [m EXCEPT !.breaks = Append(m.breaks, Len(m.text)), !.mode = "text"]
  <2>1. n = Breaks(m)
    BY <1>2 DEF Understood, PowerCommands
  <2> QED
    BY <2>1 DEF Breaks
<1>6. /\ n.text = m.text /\ n.breaks = Append(m.breaks, Len(m.text))
      /\ n.mode = "text" /\ n.k = m.k
  BY <1>2, <1>5 DEF Readings
<1> HIDE DEF n
<1>7. MeaningOf(t, outcomes') = n
  BY <1>1, <1>2 DEF n
<1> HIDE DEF m
<1>8. ModeInv(t)'
  BY <1>1, <1>2, <1>6, <1>7 DEF ModeInv, Outside, Suspended
<1>9. Told(n) = Decode(Told(m), x)
  <2> DEFINE d == Told(m)
             g == Takes(d, "\\")
  <2>1. d \in Decodings /\ d.text = m.text /\ d.breaks = m.breaks /\ ~ d.esc
    BY <1>2, ToldType
  <2> HIDE DEF d
  <2>2. g = [esc |-> TRUE, text |-> d.text, breaks |-> d.breaks]
    BY <2>1 DEF Takes
  <2>3. Decode(d, <<"\\">>) = g /\ g \in Decodings /\ <<"\\">> \in Seq(Chars)
    BY <1>3, <2>1, DecodeOne, TakesType
  <2>4. Append(<<"\\">>, "b") = x
    BY <1>3, AppendPair
  <2>5. Decode(d, Append(<<"\\">>, "b")) = Takes(g, "b")
    BY <1>3, <2>1, <2>3, DecodeNext
  <2>6. Takes(g, "b") = [esc |-> FALSE, text |-> d.text, breaks |-> Append(d.breaks, Len(d.text))]
    BY <2>2 DEF Takes
  <2>7. Told(n) = [esc |-> FALSE, text |-> d.text, breaks |-> Append(d.breaks, Len(d.text))]
    BY <1>6, <2>1 DEF Told
  <2> QED
    BY <2>4, <2>5, <2>6, <2>7 DEF d
<1> QED
  BY <1>2, <1>3, <1>4, <1>7, <1>8, <1>9 DEF Went, Moves, m
\* flush2net looks at a character.
LEMMA FlushLooked ==
    ASSUME TypeOK, LayoutInv, NEW s \in Seq(Keys), Looked(s), ModeInv(s),
           NEW key \in Keys, Next1, key = Key, UNCHANGED <<typed, outcomes>>
    PROVE  LET m == MeaningOf(s, outcomes)
           IN  /\ Looked(Append(s, key))' /\ Append(s, key) \in Seq(Keys)
               /\ m \in Readings /\ m.mode = "text" /\ m.k = Len(outcomes) + 1
               /\ MeaningOf(Append(s, key), outcomes') = Understood(m, key, outcomes)
               /\ torn # "cut" /\ outcomes' = outcomes
<1>1. pc = "flush" /\ buf # <<>> /\ buf' = Tail(buf) /\ key = Head(buf)
  BY DEF Next1, Key
<1>2. outcomes \in Ends /\ buf \in Seq(Keys)
  BY DEF TypeOK, SessionTypes, Ends
<1>3. MeaningOf(s, outcomes) \in Readings
  BY <1>2, MeaningType
<1>4. MeaningOf(Append(s, key), outcomes) = Understood(MeaningOf(s, outcomes), key, outcomes)
  BY <1>2, MeaningNext
<1>5. Append(s, key) = s \o <<key>> /\ Append(s, key) \in Seq(Keys) /\ <<key>> \in Seq(Keys)
  BY AppendIsConcat, AppendProperties
<1>6. Looked(Append(s, key))'
  <2> DEFINE b == Tail(buf)
  <2>1. buf = <<key>> \o b /\ b \in Seq(Keys)
    BY <1>1, <1>2, HeadFirst, Behead
  <2> HIDE DEF b
  <2>2. Three(s, <<key>>, b, (s \o <<key>>) \o b)
    BY <1>5, <2>1, ThreeIs
  <2>3. (s \o <<key>>) \o b = typed
    BY <2>1, <2>2 DEF Three, Looked
  <2>4. buf' = b /\ typed' = typed
    BY <1>1 DEF b
  <2> QED
    BY <1>5, <2>3, <2>4 DEF Looked
<1> QED
  BY <1>1, <1>3, <1>4, <1>5, <1>6 DEF ModeInv, LayoutInv

LEMMA CharacterMoves ==
    ASSUME TypeOK, LayoutInv, NEW s \in Seq(Keys), Looked(s), ModeInv(s), Character
    PROVE  Moves(s)
<1> DEFINE m == MeaningOf(s, outcomes)
<1>1. PICK key \in Keys : key = Key
  BY Behead DEF Character, Next1, Key, TypeOK, SessionTypes
<1> DEFINE n == Understood(m, key, outcomes)
           t == Append(s, key)
           x == <<key>>
<1>2. /\ Next1 /\ key # "\\" /\ key # ESC_CHARACTER /\ held' = Append(held, key)
      /\ UNCHANGED <<pc, torn, outcomes, typed, net, serverUp>>
  BY <1>1 DEF Character, history, wire
<1>3. /\ Looked(t)' /\ t \in Seq(Keys)
      /\ m \in Readings /\ m.mode = "text" /\ m.k = Len(outcomes) + 1
      /\ MeaningOf(t, outcomes') = n
      /\ torn # "cut" /\ outcomes' = outcomes
  BY <1>1, <1>2, FlushLooked
<1>4. key \in Chars /\ x \in Seq(Chars) /\ pc' = "flush"
  <2>1. key \in Chars /\ pc' = "flush"
    BY <1>2, SessionAssumption DEF Next1
  <2> QED
    BY <2>1
<1>5. n = Sends(m, key)
  BY <1>2, <1>3 DEF Understood
<1> DEFINE y == IF cook /\ key = "\n" THEN <<"\r", key>> ELSE <<key>>
<1>6. /\ n.text = m.text \o y /\ n.breaks = m.breaks
      /\ n.mode = "text" /\ n.k = m.k
  <2> HIDE DEF n
  <2>1. n = [m EXCEPT !.text = m.text \o y]
    BY <1>5 DEF Sends
  <2> HIDE DEF y
  <2> QED
    BY <1>3, <2>1 DEF Readings
<1> HIDE DEF m, n, y
<1>7. ModeInv(t)'
  BY <1>3, <1>4, <1>6 DEF ModeInv, Outside, Suspended
<1>8. Wrote(x)
  <2> DEFINE nh == net \o held
  <2>1. net \in Seq(Chars) /\ held \in Seq(Chars) /\ torn \in {"no", "break"}
        /\ nh \in Seq(Chars)
    BY <1>3, ConcatProperties DEF TypeOK, WireTypes, SessionTypes
  <2>2. net \o Append(held, key) = Append(nh, key)
    BY <1>4, <2>1, AppendConcat
  <2> HIDE DEF nh
  <2>3. Append(nh, key) = nh \o <<key>>
    BY <1>4, <2>1, AppendIsConcat
  <2>4. Longer(net', held', net, held, x)
    BY <1>2, <2>2, <2>3 DEF Longer, nh
  <2> QED
    BY <1>2, <2>1, <2>4 DEF Wrote
<1>9. Told(n) = Decode(Told(m), x)
  <2> DEFINE d == Told(m)
  <2>1. d \in Decodings /\ d.text = m.text /\ d.breaks = m.breaks /\ ~ d.esc
    BY <1>3, ToldType
  <2> HIDE DEF d
  <2>2. Decode(d, <<key>>) = Takes(d, key)
    BY <1>4, <2>1, DecodeOne
  <2>3. Takes(d, key) = [esc |-> FALSE, breaks |-> d.breaks, text |-> d.text \o y]
    BY <1>2, <2>1 DEF Takes, y
  <2>4. Told(n) = [esc |-> FALSE, breaks |-> d.breaks, text |-> d.text \o y]
    BY <1>6, <2>1 DEF Told
  <2> QED
    BY <2>2, <2>3, <2>4 DEF d
<1> QED
  BY <1>3, <1>4, <1>7, <1>8, <1>9 DEF Went, Moves, m

LEMMA BackslashMoves ==
    ASSUME TypeOK, LayoutInv, NEW s \in Seq(Keys), Looked(s), ModeInv(s), DoubleBackslash
    PROVE  Moves(s)
<1> DEFINE m == MeaningOf(s, outcomes)
           key == "\\"
           n == Understood(m, key, outcomes)
           t == Append(s, key)
           x == <<"\\", "\\">>
<1>1. /\ Next1 /\ key = Key /\ key \in Keys /\ held' = <<>> /\ Flush(held \o x, "flush")
      /\ UNCHANGED <<outcomes, typed, serverUp>>
  <2>1. Next1 /\ Key = key /\ held' = <<>> /\ Flush(held \o x, "flush")
        /\ UNCHANGED <<outcomes, typed, serverUp>>
    BY DEF DoubleBackslash
  <2>2. Key \in Keys
    BY <2>1, Behead DEF Next1, Key, TypeOK, SessionTypes
  <2> QED
    BY <2>1, <2>2
<1>2. /\ Looked(t)' /\ t \in Seq(Keys)
      /\ m \in Readings /\ m.mode = "text" /\ m.k = Len(outcomes) + 1
      /\ MeaningOf(t, outcomes') = n
      /\ torn # "cut" /\ outcomes' = outcomes
  BY <1>1, FlushLooked
<1>3. "\\" \in Chars /\ x \in Seq(Chars)
  <2>1. "\\" \in Chars
    BY CharsAssumption
  <2> QED
    BY <2>1, AppendPair
<1> HIDE DEF x
<1>4. Wrote(x)
  BY <1>1, <1>2, <1>3, FlushWrote
<1>5. n.text = m.text \o <<key>> /\ n.breaks = m.breaks /\ n.mode = "text" /\ n.k = m.k
  <2>1. n = Sends(m, key)
    BY <1>2 DEF Understood, ESC_CHARACTER
  <2> HIDE DEF n
  <2>2. n = [m EXCEPT !.text = m.text \o <<key>>]
    BY <2>1 DEF Sends
  <2> QED
    BY <1>2, <2>2 DEF Readings
<1>6. pc' = "flush" \/ (pc' = "ended" /\ torn' # "no")
  BY <1>1 DEF Flush, Exit
<1> HIDE DEF m, n
<1>7. ModeInv(t)'
  BY <1>2, <1>5, <1>6 DEF ModeInv, Outside, Suspended
<1>8. Told(n) = Decode(Told(m), x)
  <2> DEFINE d == Told(m)
             g == Takes(d, "\\")
  <2>1. d \in Decodings /\ d.text = m.text /\ d.breaks = m.breaks /\ ~ d.esc
    BY <1>2, ToldType
  <2> HIDE DEF d
  <2>2. g = [esc |-> TRUE, text |-> d.text, breaks |-> d.breaks]
    BY <2>1 DEF Takes
  <2>3. Decode(d, <<"\\">>) = g /\ g \in Decodings /\ <<"\\">> \in Seq(Chars)
    BY <1>3, <2>1, DecodeOne, TakesType
  <2>4. Append(<<"\\">>, "\\") = x
    BY <1>3, AppendPair DEF x
  <2>5. Decode(d, Append(<<"\\">>, "\\")) = Takes(g, "\\")
    BY <1>3, <2>1, <2>3, DecodeNext
  <2>6. Takes(g, "\\") = [esc |-> FALSE, text |-> Append(d.text, "\\"), breaks |-> d.breaks]
    BY <2>2 DEF Takes
  <2>7. Append(d.text, "\\") = d.text \o <<"\\">>
    BY <1>3, <2>1, AppendIsConcat DEF Decodings
  <2>8. Told(n) = [esc |-> FALSE, text |-> Append(d.text, "\\"), breaks |-> d.breaks]
    BY <1>5, <2>1, <2>7 DEF Told
  <2> QED
    BY <2>4, <2>5, <2>6, <2>8 DEF d
<1> QED
  BY <1>2, <1>3, <1>4, <1>7, <1>8 DEF Went, Moves, m

LEMMA HeldAlone ==
    ASSUME TypeOK
    PROVE  held \o <<>> = held /\ <<>> \in Seq(Chars)
  BY ConcatEmptySeq, EmptySeq DEF TypeOK, SessionTypes

LEMMA EscapeMoves ==
    ASSUME TypeOK, LayoutInv, NEW s \in Seq(Keys), Looked(s), ModeInv(s), Escape
    PROVE  Moves(s)
<1> DEFINE m == MeaningOf(s, outcomes)
           key == ESC_CHARACTER
           n == Understood(m, key, outcomes)
           t == Append(s, key)
<1>1. /\ Next1 /\ key = Key /\ key \in Keys /\ held' = <<>> /\ Flush(held, "command")
      /\ UNCHANGED <<outcomes, typed, serverUp>>
  <2>1. Next1 /\ Key = key /\ held' = <<>> /\ Flush(held, "command")
        /\ UNCHANGED <<outcomes, typed, serverUp>>
    BY DEF Escape
  <2>2. Key \in Keys
    BY <2>1, Behead DEF Next1, Key, TypeOK, SessionTypes
  <2> QED
    BY <2>1, <2>2
<1>2. /\ Looked(t)' /\ t \in Seq(Keys)
      /\ m \in Readings /\ m.mode = "text" /\ m.k = Len(outcomes) + 1
      /\ MeaningOf(t, outcomes') = n
      /\ torn # "cut" /\ outcomes' = outcomes
  BY <1>1, FlushLooked
<1>3. Wrote(<<>>)
  <2>1. Flush(held \o <<>>, "command") /\ <<>> \in Seq(Chars)
    BY <1>1, HeldAlone
  <2> QED
    BY <1>1, <1>2, <2>1, FlushWrote
<1>4. n.text = m.text /\ n.breaks = m.breaks /\ n.mode = "command" /\ n.k = m.k
  <2>1. n = [m EXCEPT !.mode = "command"]
    BY <1>2 DEF Understood
  <2> HIDE DEF n
  <2> QED
    BY <1>2, <2>1 DEF Readings
<1>5. pc' = "command" \/ (pc' = "ended" /\ torn' # "no")
  BY <1>1 DEF Flush, Exit
<1> HIDE DEF m, n
<1>6. ModeInv(t)'
  BY <1>2, <1>4, <1>5 DEF ModeInv, Outside, Suspended
<1>7. Told(n) = Decode(Told(m), <<>>) /\ <<>> \in Seq(Chars)
  BY <1>4, DecodeNone, EmptySeq DEF Told
<1> QED
  BY <1>2, <1>3, <1>6, <1>7 DEF Went, Moves, m

\* The steps that look at nothing; those that do not change the mode either are left out.
LEMMA StillMoves ==
    ASSUME TypeOK, LayoutInv, NEW s \in Seq(Keys), Looked(s), ModeInv(s),
           UNCHANGED <<typed, buf, outcomes, running, serverUp>>,
           \/ UNCHANGED torn
           \/ pc' = "ended" /\ torn' # "no",
           \/ pc' = pc
           \/ pc \in {"start", "flush"} /\ pc' = "select"
           \/ pc \in Suspended /\ pc' \in {"command"} \union Suspended
           \/ pc \in Outside /\ pc' \in Outside
           \/ pc' = "killed"
           \/ pc' = "ended" /\ (torn' # "no" \/ buf = <<>>),
           Wrote(<<>>)
    PROVE  Moves(s)
<1>1. Looked(s)'
  BY DEF Looked
<1> DEFINE m == MeaningOf(s, outcomes)
<1>2. MeaningOf(s, outcomes') = m
  OBVIOUS
<1>3. \A r : MeaningOf(r, outcomes') = MeaningOf(r, outcomes)
  OBVIOUS
<1> HIDE DEF m
<1>4. /\ pc' \in {"start", "select", "flush"} => m.mode = "text"
      /\ pc' \in {"command"} \union Suspended => m.mode = "command"
      /\ pc' \in Outside /\ running' = "s" => m.mode = "command"
  BY DEF ModeInv, m, Outside, Suspended
<1>5. pc' \in Outside /\ running' # "s" =>
         \E r \in Seq(Keys) : /\ s = Append(r, running')
                              /\ MeaningOf(r, outcomes').mode = "command"
                              /\ MeaningOf(r, outcomes').k = Len(outcomes') + 1
  <2>1. pc' \in Outside => pc \in Outside
    BY DEF Outside, Suspended
  <2> QED
    BY <1>3, <2>1 DEF ModeInv
<1>6. m.mode \in {"text", "command"} => m.k = Len(outcomes') + 1
  BY DEF ModeInv, m
<1>7. pc' = "ended" /\ torn' = "no" /\ serverUp' => m.mode = "over" \/ buf' = <<>>
  BY DEF ModeInv, m, Outside, Suspended
<1>8. ModeInv(s)'
  BY <1>2, <1>4, <1>5, <1>6, <1>7 DEF ModeInv
<1> QED
  BY <1>1, <1>8, WentNowhere
LEMMA ReadMoves ==
    ASSUME TypeOK, LayoutInv, NEW s \in Seq(Keys), Looked(s), ModeInv(s),
           NEW n \in 1..BufSize, NEW keys \in [1..n -> Keys], ReadKeys(keys)
    PROVE  Moves(s)
<1>1. /\ pc = "select" /\ pc' = "flush" /\ buf' = keys /\ held' = <<>> /\ typed' = typed \o keys
      /\ UNCHANGED <<outcomes, torn, net>>
  BY DEF ReadKeys, wire
<1>2. buf = <<>> /\ held = <<>> /\ torn # "cut"
  BY <1>1 DEF LayoutInv
<1>3. typed = s
  BY <1>2, ConcatEmptySeq DEF Looked
<1>4. Looked(s)'
  BY <1>1, <1>3 DEF Looked
<1>5. Wrote(<<>>)
  BY <1>1, <1>2, WroteNothing
<1> DEFINE m == MeaningOf(s, outcomes)
<1>6. MeaningOf(s, outcomes') = m
  BY <1>1
<1>7. m.mode = "text" /\ m.k = Len(outcomes) + 1
  BY <1>1 DEF ModeInv
<1> HIDE DEF m
<1>8. ModeInv(s)'
  BY <1>1, <1>6, <1>7 DEF ModeInv, Outside, Suspended
<1> QED
  BY <1>1, <1>4, <1>5, <1>8, WentNowhere

\* A program has ended, or could not be run.
LEMMA ReturnMoves ==
    ASSUME TypeOK, LayoutInv, NEW s \in Seq(Keys), Looked(s), ModeInv(s),
           pc \in Outside, NEW ok \in BOOLEAN, Return(ok)
    PROVE  Moves(s)
<1> DEFINE m == MeaningOf(s, outcomes)
           ends == Append(outcomes, ok)
<1>1. /\ UNCHANGED <<buf, held, typed, torn, net, serverUp>>
      /\ running \in (PowerCommands \union {"d", "s"}) \intersect Keys
      /\ torn # "cut"
  BY DEF Return, LayoutInv, Outside
<1>2. Looked(s)' /\ Wrote(<<>>)
  BY <1>1, WroteNothing DEF Looked
<1>3. outcomes \in Ends /\ m \in Readings
  <2>1. outcomes \in Ends
    BY DEF TypeOK, SessionTypes, Ends
  <2> QED
    BY <2>1, MeaningType
<1>4. CASE running = "s"
  <2>1. outcomes' = outcomes /\ pc' = "command"
    BY <1>4 DEF Return
  <2>2. m.mode = "command" /\ m.k = Len(outcomes) + 1
    BY <1>4 DEF ModeInv
  <2>3. MeaningOf(s, outcomes') = m
    BY <2>1
  <2> HIDE DEF m
  <2>4. ModeInv(s)'
    BY <2>1, <2>2, <2>3 DEF ModeInv, Outside, Suspended
  <2> QED
    BY <1>2, <2>1, <2>4, WentNowhere
<1>5. CASE running # "s"
  <2>1. outcomes' = ends
    BY <1>5 DEF Return
  <2>2. PICK r \in Seq(Keys) : /\ s = Append(r, running)
                               /\ MeaningOf(r, outcomes).mode = "command"
                               /\ MeaningOf(r, outcomes).k = Len(outcomes) + 1
    BY <1>5 DEF ModeInv
  <2>3. PICK key \in Keys : key = running
    BY <1>1
  <2> DEFINE q == MeaningOf(r, outcomes)
  <2>4. /\ ends \in Ends /\ Len(outcomes) \in Nat /\ Len(ends) = Len(outcomes) + 1
        /\ ends[Len(outcomes) + 1] = ok
    BY <1>3, LenProperties, AppendProperties DEF Ends
  <2>5. q \in Readings /\ MeaningOf(r, ends) = q
    <3>1. q \in Readings
      BY <1>3, MeaningType
    <3>2. q.mode # "running"
      BY <2>2
    <3> QED
      BY <1>3, <3>1, <3>2, MeaningKept
  <2>6. m = Understood(q, key, outcomes) /\ MeaningOf(s, ends) = Understood(q, key, ends)
    <3>1. MeaningOf(Append(r, key), outcomes) = Understood(MeaningOf(r, outcomes), key, outcomes)
      BY <1>3, MeaningNext
    <3>2. MeaningOf(Append(r, key), ends) = Understood(MeaningOf(r, ends), key, ends)
      BY <2>4, MeaningNext
    <3> QED
      BY <2>2, <2>3, <2>5, <3>1, <3>2
  <2>7. q.mode = "command" /\ q.k = Len(outcomes) + 1
    BY <2>2
  <2> HIDE DEF m, q
  <2>8. key \in PowerCommands \union {"d"} /\ key \notin {"b", "c", "x"}
    BY <1>1, <1>5, <2>3 DEF PowerCommands
  <2>9. m = [q EXCEPT !.mode = "running"]
    <3>1. Understood(q, key, outcomes) = Ran(q, key, outcomes)
      BY <2>7, <2>8 DEF Understood
    <3>2. q.k > Len(outcomes)
      BY <2>4, <2>7
    <3> QED
      BY <2>6, <3>1, <3>2 DEF Ran
  <2> DEFINE n == Understood(q, key, ends)
             mode == IF ok THEN "text" ELSE IF key = "q" THEN "over" ELSE "command"
  <2>10. n = [q EXCEPT !.k = q.k + 1, !.mode = mode]
    <3>1. Understood(q, key, ends) = Ran(q, key, ends)
      BY <2>7, <2>8 DEF Understood
    <3>2. ~ (q.k > Len(ends)) /\ ends[q.k] = ok
      BY <2>4, <2>7
    <3> HIDE DEF ends
    <3> QED
      BY <3>1, <3>2 DEF Ran
  <2> HIDE DEF n, mode, ends
  <2>11. /\ m.text = q.text /\ m.breaks = q.breaks
         /\ n.text = q.text /\ n.breaks = q.breaks /\ n.mode = mode /\ n.k = q.k + 1
    BY <2>5, <2>9, <2>10 DEF Readings
  <2>12. Told(n) = Decode(Told(m), <<>>)
    BY <2>11, DecodeNone DEF Told
  <2>13. \/ pc' = "flush" /\ mode = "text"
         \/ pc' = "ended" /\ mode = "over"
         \/ pc' = "command" /\ mode = "command"
    BY <1>5, <2>3 DEF Return, Exit, mode
  <2>14. MeaningOf(s, outcomes') = n
    BY <2>1, <2>6 DEF n
  <2>15. n.k = Len(outcomes') + 1
    BY <2>1, <2>4, <2>7, <2>11
  <2>16. ModeInv(s)'
    BY <2>11, <2>13, <2>14, <2>15 DEF ModeInv, Outside, Suspended
  <2>17. <<>> \in Seq(Chars)
    BY EmptySeq
  <2>18. Told(MeaningOf(s, outcomes')) = Decode(Told(MeaningOf(s, outcomes)), <<>>)
    BY <2>12, <2>14 DEF m
  <2> QED
    BY <1>2, <2>16, <2>17, <2>18 DEF Went, Moves
<1> QED
  BY <1>4, <1>5

LEMMA SessionMoves ==
    ASSUME TypeOK, TermInv, LayoutInv, SessionStep, UNCHANGED ttyconnect,
           NEW s \in Seq(Keys), Looked(s), ModeInv(s)
    PROVE  Moves(s)
<1> USE DEF wire, history, terminal, signals
<1>0. (pc # "ended" => torn # "cut") /\ (serverUp <=> tpc # "ended") /\ torn \in {"no", "break", "cut"}
  BY DEF LayoutInv, TypeOK, SessionTypes
<1>1. CASE Start \/ Fork \/ FileName \/ keepalive \/ EndOfFile \/ Interrupt
  <2>1. pc # "ended" /\ torn # "cut"
    BY <1>0, <1>1 DEF Start, Fork, FileName, keepalive, EndOfFile, Interrupt, Alive
  <2>2. UNCHANGED <<net, held, torn, typed, buf, outcomes, running, serverUp>>
    BY <1>1 DEF Start, Fork, FileName, keepalive, EndOfFile, Interrupt
  <2>3. \/ pc' = pc
        \/ pc \in {"start", "flush"} /\ pc' = "select"
        \/ pc \in Outside /\ pc' \in Outside
        \/ pc' = "killed"
        \/ pc' = "ended" /\ buf = <<>>
    BY <1>1 DEF Start, Fork, FileName, keepalive, EndOfFile, Interrupt, Exit, Outside, LayoutInv
  <2>4. Wrote(<<>>)
    BY <2>1, <2>2, WroteNothing
  <2> QED
    BY <2>2, <2>3, <2>4, StillMoves
<1>2. CASE ResetAlarm \/ ResetSignals \/ Stop \/ Resume \/ SetSignals \/ RawAgain \/ AlarmAgain
  <2>1. /\ pc \in Suspended /\ pc' \in {"command"} \union Suspended
        /\ UNCHANGED <<running, buf, held, typed, outcomes, torn, net, serverUp>>
    BY <1>2 DEF ResetAlarm, ResetSignals, Stop, Resume, SetSignals, RawAgain, AlarmAgain, Goes,
       Suspended
  <2>2. torn # "cut"
    BY <1>0, <2>1 DEF Suspended
  <2>3. Wrote(<<>>)
    BY <2>1, <2>2, WroteNothing
  <2> QED
    BY <2>1, <2>3, StillMoves
<1>3. CASE FlushRest
  <2>1. /\ pc = "flush" /\ Flush(held, "select") /\ held' = <<>>
        /\ UNCHANGED <<typed, buf, outcomes, running, serverUp>>
    BY <1>3 DEF FlushRest
  <2>2. Flush(held \o <<>>, "select") /\ <<>> \in Seq(Chars)
    BY <2>1, HeldAlone
  <2>3. Wrote(<<>>)
    BY <1>0, <2>1, <2>2, FlushWrote
  <2>4. \/ pc' = "select" /\ UNCHANGED torn
        \/ pc' = "ended" /\ torn' # "no"
    BY <2>1 DEF Flush, Exit
  <2> QED
    BY <2>1, <2>3, <2>4, StillMoves
<1>4. CASE ForkFails \/ NoFileName \/ \E ok \in BOOLEAN : Wait(ok)
  <2>1. PICK ok \in BOOLEAN : Return(ok)
    BY <1>4 DEF ForkFails, NoFileName, Wait
  <2>2. pc \in Outside
    BY <1>4 DEF ForkFails, NoFileName, Wait, Outside
  <2> QED
    BY <2>1, <2>2, ReturnMoves
<1> QED
  BY <1>1, <1>2, <1>3, <1>4, CharacterMoves, BackslashMoves, EscapeMoves, ReadMoves,
     ContinueMoves, BreakMoves, RunMoves DEF SessionStep, Program, User
-----------------------------------------------------------------------------
(* The steps of tty-connect                                                  *)

LEMMA PutInvStep ==
    ASSUME TypeOK, LineInv, PutInv, TTYStep
    PROVE  PutInv'
<1>1. CASE Read
  BY <1>1 DEF Read, PutInv
<1>2. CASE ReadFails
  BY <1>2 DEF ReadFails, Quit, PutInv
<1>3. CASE Backslash \/ Break
  BY <1>3 DEF Backslash, Break, PutInv
<1>4. CASE Newline
  BY <1>4 DEF Newline, PutInv, ch
<1>5. CASE Put
  BY <1>5 DEF Put, PutInv
<1>6. CASE End
  <2>1. tpc' # "put" /\ tbuf' = tbuf /\ (lost' \/ lost' = lost)
    BY <1>6 DEF End, Flushed, FlushFails, Quit
  <2>2. ~ lost => tbuf = <<>>
    BY <1>6 DEF End, LineInv
  <2> QED
    BY <2>1, <2>2 DEF PutInv
<1> QED
  BY <1>1, <1>2, <1>3, <1>4, <1>5, <1>6 DEF TTYStep

\* The first character of what tty-connect has read.
LEMMA FirstArrives ==
    ASSUME NEW b \in Seq(Chars), b # <<>>, NEW n \in Seq(Chars), NEW rest \in Seq(Chars),
           NEW d \in Decodings
    PROVE  Decode(d, (b \o n) \o rest) = Decode(Takes(d, Head(b)), (Tail(b) \o n) \o rest)
<1>1. Head(b) \in Chars /\ Tail(b) \in Seq(Chars)
  BY Behead
<1> DEFINE a == Tail(b)
           f == Takes(d, Head(b))
<1>2. a \in Seq(Chars) /\ f \in Decodings
  BY <1>1, TakesType
<1>3. n \o rest \in Seq(Chars)
  BY ConcatProperties
<1>4. Decode(d, b \o (n \o rest)) = Decode(f, a \o (n \o rest))
  BY <1>3, DecodeFirst
<1> HIDE DEF a, f
<1>5. Three(b, n, rest, (b \o n) \o rest) /\ Three(a, n, rest, (a \o n) \o rest)
  BY <1>2, ThreeIs
<1>6. (b \o n) \o rest = b \o (n \o rest) /\ (a \o n) \o rest = a \o (n \o rest)
  BY <1>5 DEF Three
<1> QED
  BY <1>4, <1>6 DEF a, f

\* A step that takes the first character.
LEMMA TakesArrives ==
    ASSUME TypeOK, UNCHANGED <<session, net>>, tbuf # <<>>, tbuf' = Tail(tbuf),
           NEW s \in Seq(Keys), NEW rest \in Seq(Chars), NEW tb \in Seq(Nat), NEW tb2 \in Seq(Nat),
           Arriving(s, rest, tb), Near(tb2)', Made(tb2)' = Takes(Made(tb), ch)
    PROVE  Arriving(s, rest, tb2)'
<1>1. Decode(Takes(Made(tb), ch), (Tail(tbuf) \o net) \o rest) = Told(MeaningOf(s, outcomes))
  <2>1. Made(tb) \in Decodings /\ tbuf \in Seq(Chars) /\ net \in Seq(Chars)
    BY MadeType DEF TypeOK, TTYTypes, WireTypes
  <2> QED
    BY <2>1, FirstArrives DEF Arriving, ch
<1>2. Decode(Made(tb2)', (tbuf' \o net') \o rest) = Told(MeaningOf(s, outcomes'))
  BY <1>1 DEF session, history
<1>3. torn' = "no" => rest = held'
  BY DEF Arriving, session, history
<1> QED
  BY <1>2, <1>3 DEF Arriving

LEMMA NearSame ==
    ASSUME NEW tb, Near(tb), breaks' = breaks
    PROVE  Near(tb)'
  BY DEF Near

\* What was lost is lost, and what was cooked is cooked.
LEMMA SoundBefore ==
    ASSUME TypeOK, TTYStep, UNCHANGED session, Sound'
    PROVE  Sound
<1>1. lost => lost'
  BY DEF TTYStep, Read, ReadFails, Backslash, Break, Newline, Put, End, PutChar, PutCharFails,
         Flushed, FlushFails
<1>2. want' = want \/ \E c \in Chars : want' = Append(want, c)
  <2>1. CASE Newline
    BY <2>1, TTYAssumption DEF Newline
  <2>2. CASE Put
    <3>1. ch \in Chars
      BY <2>2, Behead DEF Put, ch, TypeOK, TTYTypes
    <3> QED
      BY <2>2, <3>1 DEF Put
  <2>3. CASE Read \/ ReadFails \/ Backslash \/ Break \/ End
    BY <2>3 DEF Read, ReadFails, Backslash, Break, End
  <2> QED
    BY <2>1, <2>2, <2>3 DEF TTYStep
<1>3. Cooked => Cooked'
  BY <1>2, CookedStays DEF TypeOK
<1>4. torn' = torn
  BY DEF session, history
<1> QED
  BY <1>1, <1>3, <1>4 DEF Sound

\* What tty-connect has done is where the meaning of what is arriving begins.
LEMMA HeardNext ==
    ASSUME TypeOK', NEW s \in Seq(Keys), NEW rest \in Seq(Chars), NEW tb \in Seq(Nat),
           Arriving(s, rest, tb)'
    PROVE  Heard(s, tb)'
<1> DEFINE m == MeaningOf(s, outcomes')
           all == (tbuf' \o net') \o rest
<1>1. m \in Readings
  BY MeaningType DEF TypeOK, SessionTypes, Ends
<1>2. all \in Seq(Chars) /\ want' \in Seq(Chars) /\ (esc' \/ tpc' = "put") \in BOOLEAN
  BY ConcatProperties DEF TypeOK, TTYTypes, WireTypes
<1>3. PICK d : d = Made(tb)'
  OBVIOUS
<1>4. d \in Decodings /\ d.text = want' /\ d.breaks = tb
  BY <1>2, <1>3 DEF Made, Decodings
<1>5. Decode(d, all) = Told(m)
  BY <1>3 DEF Arriving
<1> HIDE DEF m, all
<1>6. Grows(d, Told(m))
  BY <1>2, <1>4, <1>5, DecodeGrows
<1>7. Starts(want', m.text, Chars) /\ Starts(tb, m.breaks, Nat)
  BY <1>1, <1>4, <1>6, ToldType DEF Grows
<1> QED
  BY <1>7 DEF Heard, Arriving, m

LEMMA TTYChannel ==
    ASSUME TypeOK, TypeOK', CountInv, LineInv, PutInv, TTYStep, UNCHANGED session,
           NEW s \in Seq(Keys), Channel(s)
    PROVE  Channel(s)'
<1> SUFFICES ASSUME Sound'
             PROVE  /\ tpc' # "ended" =>
                         \E rest \in Seq(Chars), tb \in Seq(Nat) : Arriving(s, rest, tb)'
                    /\ \E tb \in Seq(Nat) : Heard(s, tb)'
  BY DEF Channel
<1>13. Sound
  BY SoundBefore
<1>14. lost => tpc \in {"end", "ended"}
  BY <1>13 DEF Sound, CountInv
<1>15. CASE tpc' = "ended"
  <2>1. PICK tb \in Seq(Nat) : Heard(s, tb)
    BY <1>13 DEF Channel
  <2>2. UNCHANGED <<want, breaks, outcomes>>
    BY <1>15 DEF TTYStep, Read, ReadFails, Backslash, Break, Newline, Put, End, session, history
  <2>3. Heard(s, tb)'
    BY <2>1, <2>2 DEF Heard, Near
  <2> QED
    BY <1>15, <2>3
<1>16. SUFFICES ASSUME tpc' # "ended"
                PROVE  \E rest \in Seq(Chars), tb \in Seq(Nat) : Arriving(s, rest, tb)'
  BY <1>15, HeardNext
<1>1. tpc # "ended"
  BY <1>16 DEF TTYStep, Read, ReadFails, Backslash, Break, Newline, Put, End
<1>2. PICK rest \in Seq(Chars), tb \in Seq(Nat) : Arriving(s, rest, tb)
  BY <1>1, <1>13 DEF Channel
<1>3. Near(tb)
  BY <1>2 DEF Arriving
<1>4. /\ tbuf \in Seq(Chars) /\ net \in Seq(Chars) /\ want \in Seq(Chars) /\ esc \in BOOLEAN
      /\ net' \in Seq(Chars) /\ tbuf' \in Seq(Chars)
  BY DEF TypeOK, TTYTypes, WireTypes
<1>5. ASSUME Made(tb)' = Made(tb), tbuf' \o net' = tbuf \o net, breaks' = breaks
      PROVE  Arriving(s, rest, tb)'
  <2>1. Near(tb)'
    BY <1>3, <1>5, NearSame
  <2>2. Decode(Made(tb)', (tbuf' \o net') \o rest) = Told(MeaningOf(s, outcomes'))
    BY <1>2, <1>5 DEF Arriving, session, history
  <2>3. torn' = "no" => rest = held'
    BY <1>2 DEF Arriving, session, history
  <2> QED
    BY <2>1, <2>2, <2>3 DEF Arriving
<1>6. CASE Read
  <2>1. tbuf = <<>> /\ tpc = "select" /\ tpc' = "loop" /\ esc' = esc /\ want' = want /\ breaks' = breaks
    BY <1>14, <1>6 DEF Read, PutInv
  <2>2. PICK n \in 1..MY_BUFSIZE :
          n <= Len(net) /\ tbuf' = SubSeq(net, 1, n) /\ net' = SubSeq(net, n + 1, Len(net))
    BY <1>6 DEF Read
  <2>3. tbuf' \o net' = net
    <3>1. Len(net) \in Nat /\ n \in Nat /\ n >= 1 /\ n <= Len(net)
      BY <1>4, <2>2, LenProperties, TTYAssumption
    <3>2. 1 \in 1..Len(net) + 1 /\ n \in 1 - 1..Len(net) /\ Len(net) \in n..Len(net)
      BY <3>1
    <3>3. SubSeq(net, 1, n) \o SubSeq(net, n + 1, Len(net)) = SubSeq(net, 1, Len(net))
      BY <1>4, <3>2, ConcatAdjacentSubSeq
    <3> QED
      BY <1>4, <2>2, <3>3, SubSeqFull
  <2>4. tbuf \o net = net
    BY <1>4, <2>1, ConcatEmptySeq
  <2>5. Made(tb)' = Made(tb)
    BY <2>1 DEF Made
  <2> QED
    BY <1>5, <2>1, <2>3, <2>4, <2>5
<1>7. CASE ReadFails
  BY <1>7, <1>16 DEF ReadFails, Quit
<1>8. CASE Backslash
  <2>1. /\ tpc = "loop" /\ tpc' = "loop" /\ tbuf # <<>> /\ ~ esc /\ ch = "\\" /\ esc' = TRUE
        /\ tbuf' = Tail(tbuf) /\ UNCHANGED <<want, breaks, net>>
    BY <1>8 DEF Backslash, wire
  <2>2. Made(tb)' = Takes(Made(tb), ch)
    BY <2>1 DEF Made, Takes
  <2> QED
    BY <1>2, <1>3, <2>1, <2>2, NearSame, TakesArrives
<1>9. CASE Break
  <2>1. /\ tpc = "loop" /\ tpc' = "loop" /\ tbuf # <<>> /\ esc /\ ch = "b" /\ esc' = FALSE
        /\ tbuf' = Tail(tbuf) /\ breaks' = Append(breaks, Len(line)) /\ UNCHANGED <<want, net>>
    BY <1>9 DEF Break, wire
  <2>0. PICK t2 : t2 = Append(tb, Len(want))
    OBVIOUS
  <2>2. /\ Len(want) = Len(line) + Len(pc_buf) /\ Len(pc_buf) \in 0..PC_LEN
        /\ Len(line) \in Nat /\ Len(want) \in Nat /\ PC_LEN \in Nat
    <3>1. line \o pc_buf = want
      BY <1>14, <2>1 DEF LineInv
    <3>2. line \in Seq(Chars) /\ pc_buf \in Seq(Chars) /\ Len(pc_buf) <= PC_LEN
      BY DEF TypeOK, TTYTypes
    <3>3. Len(line \o pc_buf) = Len(line) + Len(pc_buf)
      BY <3>2, ConcatProperties
    <3> QED
      BY <3>1, <3>2, <3>3, LenProperties, TTYAssumption
  <2>3. /\ t2 \in Seq(Nat) /\ Len(t2) = Len(tb) + 1 /\ t2[Len(tb) + 1] = Len(want)
        /\ \A i \in 1..Len(tb) : t2[i] = tb[i]
    BY <2>0, <2>2, AppendProperties
  <2>4. /\ Len(breaks') = Len(breaks) + 1 /\ breaks'[Len(breaks) + 1] = Len(line)
        /\ \A i \in 1..Len(breaks) : breaks'[i] = breaks[i]
    <3>1. breaks \in Seq(Nat)
      BY DEF TypeOK, TTYTypes
    <3> QED
      BY <2>1, <2>2, <3>1, AppendProperties
  <2>5. Near(t2)'
    <3>1. Len(tb) = Len(breaks) /\ Len(tb) \in Nat
      BY <1>3, LenProperties DEF Near
    <3>2. ASSUME NEW i \in 1..Len(breaks') PROVE breaks'[i] \in t2[i] - PC_LEN .. t2[i]
      <4>1. CASE i \in 1..Len(breaks)
        BY <1>3, <2>3, <2>4, <3>1, <4>1 DEF Near
      <4>2. CASE i = Len(breaks) + 1
        <5>1. breaks'[i] = Len(line) /\ t2[i] = Len(want)
          BY <2>3, <2>4, <3>1, <4>2
        <5>2. Len(line) \in Len(want) - PC_LEN .. Len(want)
          BY <2>2
        <5> QED
          BY <5>1, <5>2
      <4> QED
        BY <2>4, <3>1, <4>1, <4>2
    <3>3. t2 \in Seq(Nat) /\ Len(t2) = Len(breaks')
      BY <2>3, <2>4, <3>1
    <3> QED
      BY <3>2, <3>3 DEF Near
  <2>6. Made(t2)' = Takes(Made(tb), ch)
    BY <2>0, <2>1 DEF Made, Takes
  <2>7. Arriving(s, rest, t2)'
    BY <1>2, <2>1, <2>3, <2>5, <2>6, TakesArrives
  <2> QED
    BY <2>3, <2>7
<1>10. CASE Newline
  <2>1. /\ tpc = "loop" /\ tpc' = "put" /\ tbuf # <<>> /\ cook /\ ~ esc /\ ch = "\n"
        /\ want' = Append(want, "\r") /\ UNCHANGED <<tbuf, esc, breaks, net>>
    BY <1>10 DEF Newline, wire
  <2>2. Near(tb)'
    BY <1>3, <2>1, NearSame
  <2>3. Takes(Made(tb)', ch) = Takes(Made(tb), ch)
    <3> DEFINE w == Append(want, "\r")
    <3>1. /\ Made(tb)' = [esc |-> TRUE, text |-> w, breaks |-> tb]
          /\ Made(tb) = [esc |-> FALSE, text |-> want, breaks |-> tb]
      BY <2>1 DEF Made
    <3>2. "\r" \in Chars /\ "\n" \in Chars
      BY TTYAssumption
    <3>3. Append(w, "\n") = want \o <<"\r", "\n">>
      <4>1. Append(<<"\r">>, "\n") = <<"\r", "\n">> /\ <<"\r">> \in Seq(Chars)
        BY <3>2, AppendPair
      <4>2. want \o Append(<<"\r">>, "\n") = Append(want \o <<"\r">>, "\n")
        BY <1>4, <3>2, <4>1, AppendConcat
      <4>3. Append(want, "\r") = want \o <<"\r">>
        BY <1>4, <3>2, AppendIsConcat
      <4> QED
        BY <4>1, <4>2, <4>3
    <3> HIDE DEF w
    <3>4. Takes(Made(tb)', ch) = [esc |-> FALSE, text |-> Append(w, "\n"), breaks |-> tb]
      BY <2>1, <3>1 DEF Takes
    <3>5. Takes(Made(tb), ch) = [esc |-> FALSE, text |-> want \o <<"\r", "\n">>, breaks |-> tb]
      BY <2>1, <3>1 DEF Takes
    <3> QED
      BY <3>3, <3>4, <3>5
  <2>4. Decode(Made(tb), (tbuf \o net) \o rest)
          = Decode(Takes(Made(tb), ch), (Tail(tbuf) \o net) \o rest)
    <3>1. Made(tb) \in Decodings
      BY MadeType DEF TypeOK
    <3> QED
      BY <1>4, <2>1, <3>1, FirstArrives DEF ch
  <2>5. PICK d : d = Made(tb)'
    OBVIOUS
  <2>6. Decode(d, (tbuf \o net) \o rest) = Decode(Takes(d, ch), (Tail(tbuf) \o net) \o rest)
    <3>1. d \in Decodings
      <4>1. want' \in Seq(Chars)
        BY DEF TypeOK, TTYTypes
      <4> QED
        BY <2>1, <2>5, <4>1 DEF Made, Decodings
    <3> QED
      BY <1>4, <2>1, <3>1, FirstArrives DEF ch
  <2>7. Decode(Made(tb)', (tbuf' \o net') \o rest) = Told(MeaningOf(s, outcomes'))
    BY <1>2, <2>1, <2>3, <2>4, <2>5, <2>6 DEF Arriving, session, history
  <2>8. torn' = "no" => rest = held'
    BY <1>2 DEF Arriving, session, history
  <2>9. Arriving(s, rest, tb)'
    BY <2>2, <2>7, <2>8 DEF Arriving
  <2> QED
    BY <2>9
<1>11. CASE Put
  <2>1. /\ tbuf # <<>> /\ esc' = FALSE
        /\ tpc = "put" \/ (tpc = "loop" /\ Plain)
        /\ tbuf' = Tail(tbuf) /\ want' = Append(want, ch) /\ tpc' # "put"
        /\ UNCHANGED <<breaks, net>>
    BY <1>11 DEF Put, wire
  <2>2. Made(tb)' = Takes(Made(tb), ch)
    <3>1. Made(tb)' = [esc |-> FALSE, text |-> Append(want, ch), breaks |-> tb]
      BY <2>1 DEF Made
    <3>2. CASE tpc = "put"
      <4>1. ch # "b"
        BY <3>2 DEF PutInv, ch
      <4> QED
        BY <3>1, <3>2, <4>1 DEF Made, Takes
    <3>3. CASE tpc = "loop" /\ esc
      <4>1. ch # "b"
        BY <2>1, <3>3 DEF Plain
      <4> QED
        BY <3>1, <3>3, <4>1 DEF Made, Takes
    <3>4. CASE tpc = "loop" /\ ~ esc
      <4>1. ch # "\\" /\ ~ (cook /\ ch = "\n")
        BY <2>1, <3>4 DEF Plain
      <4>2. Append(want, ch) = want \o <<ch>>
        <5>1. ch \in Chars
          BY <1>4, <2>1, Behead DEF ch
        <5> QED
          BY <1>4, <5>1, AppendIsConcat
      <4>3. Made(tb) = [esc |-> FALSE, text |-> want, breaks |-> tb]
        BY <3>4 DEF Made
      <4>4. PICK y : y = IF cook /\ ch = "\n" THEN <<"\r", ch>> ELSE <<ch>>
        OBVIOUS
      <4>5. y = <<ch>>
        BY <4>1, <4>4
      <4>6. Takes(Made(tb), ch) = [esc |-> FALSE, breaks |-> tb, text |-> want \o y]
        BY <4>1, <4>3, <4>4 DEF Takes
      <4>7. Takes(Made(tb), ch) = [esc |-> FALSE, text |-> want \o <<ch>>, breaks |-> tb]
        BY <4>5, <4>6
      <4> QED
        BY <3>1, <4>2, <4>7
    <3> QED
      BY <2>1, <3>2, <3>3, <3>4
  <2>3. Near(tb)'
    BY <1>3, <2>1, NearSame
  <2>4. Arriving(s, rest, tb)'
    BY <1>2, <2>1, <2>2, <2>3, TakesArrives
  <2> QED
    BY <2>4
<1>12. CASE End
  <2>1. /\ tpc # "put" /\ tpc' = "select" /\ UNCHANGED <<tbuf, esc, breaks, want, net>>
    BY <1>16, <1>12 DEF End, Quit, wire
  <2>2. Made(tb)' = Made(tb)
    BY <2>1 DEF Made
  <2> QED
    BY <1>5, <2>1, <2>2
<1> QED
  BY <1>6, <1>7, <1>8, <1>9, <1>10, <1>11, <1>12 DEF TTYStep
-----------------------------------------------------------------------------
(* From the user to the line                                                 *)

LEMMA StreamInit == Init => StreamInv
<1> SUFFICES ASSUME Init PROVE StreamInv
  OBVIOUS
<1>1. /\ <<>> \in Seq(Keys) /\ <<>> \in Seq(Chars) /\ <<>> \in Seq(Nat) /\ <<>> \in Seq(BOOLEAN)
      /\ Len(<<>>) = 0 /\ <<>> \o <<>> = <<>>
  BY EmptySeq, ConcatEmptySeq
<1>2. LayoutInv /\ PutInv
  BY DEF Init, SessionInit, TTYInit, WireInit, LayoutInv, PutInv, Outside
<1>3. /\ MeaningOf(<<>>, outcomes) = Unread
      /\ Unread.mode = "text" /\ Unread.k = 1 /\ Unread.text = <<>> /\ Unread.breaks = <<>>
  BY MeaningNone DEF Unread
<1>4. Looked(<<>>)
  BY <1>1 DEF Init, SessionInit, Looked
<1>5. ModeInv(<<>>)
  BY <1>1, <1>3 DEF Init, SessionInit, ModeInv, Suspended, Outside
<1>6. Arriving(<<>>, <<>>, <<>>)
  <2>1. Near(<<>>)
    BY <1>1 DEF Init, TTYInit, Near
  <2>2. /\ Made(<<>>) = [esc |-> FALSE, text |-> <<>>, breaks |-> <<>>]
        /\ Told(Unread) = [esc |-> FALSE, text |-> <<>>, breaks |-> <<>>]
    BY <1>3 DEF Init, TTYInit, Made, Told
  <2>3. (tbuf \o net) \o <<>> = <<>>
    BY <1>1 DEF Init, TTYInit, WireInit
  <2>4. Decode(Made(<<>>), (tbuf \o net) \o <<>>) = Told(MeaningOf(<<>>, outcomes))
    BY <1>3, <2>2, <2>3, DecodeNone
  <2> QED
    BY <2>1, <2>4 DEF Init, SessionInit, Arriving
<1>7. Channel(<<>>)
  <2>1. Near(<<>>)
    BY <1>6 DEF Arriving
  <2>2. Starts(<<>>, <<>>, Chars) /\ Starts(<<>>, <<>>, Nat)
    BY <1>1, StartsSelf
  <2>3. Heard(<<>>, <<>>)
    BY <1>3, <2>1, <2>2 DEF Init, TTYInit, Heard
  <2> QED
    BY <1>1, <1>6, <2>3 DEF Channel
<1> QED
  BY <1>1, <1>2, <1>4, <1>5, <1>7 DEF StreamInv

LEMMA StreamSessionStep ==
    ASSUME TypeOK, TypeOK', TermInv, StreamInv, SessionStep, UNCHANGED ttyconnect
    PROVE  StreamInv'
<1>1. LayoutInv /\ PutInv
  BY DEF StreamInv
<1>2. PICK s \in Seq(Keys) : Looked(s) /\ ModeInv(s) /\ Channel(s)
  BY DEF StreamInv
<1>3. Moves(s)
  BY <1>1, <1>2, SessionMoves
<1>4. PICK s2 \in Seq(Keys), x \in Seq(Chars) : Went(s, s2, x)
  BY <1>3 DEF Moves
<1>5. Looked(s2)' /\ ModeInv(s2)' /\ Channel(s2)'
  BY <1>1, <1>2, <1>4, ChannelStep DEF Went
<1>6. LayoutInv'
  BY <1>1, SessionLayout
<1>7. PutInv'
  BY <1>1 DEF PutInv, ttyconnect
<1> QED
  BY <1>5, <1>6, <1>7 DEF StreamInv

LEMMA StreamTTYStep ==
    ASSUME TypeOK, TypeOK', CountInv, LineInv, StreamInv, TTYStep, UNCHANGED session
    PROVE  StreamInv'
<1>1. LayoutInv /\ PutInv
  BY DEF StreamInv
<1>2. PICK s \in Seq(Keys) : Looked(s) /\ ModeInv(s) /\ Channel(s)
  BY DEF StreamInv
<1>3. \/ tpc # "ended" /\ tpc' # "ended" /\ serverUp' = serverUp
      \/ tpc' = "ended" /\ serverUp' = FALSE
  BY DEF TTYStep, Read, ReadFails, Quit, Backslash, Break, Newline, Put, End, wire
<1>4. UNCHANGED <<pc, running, buf, held, typed, outcomes, torn>>
  BY DEF session, history
<1>5. LayoutInv'
  <2>1. serverUp <=> tpc # "ended"
    BY <1>1 DEF LayoutInv
  <2>2. serverUp' <=> tpc' # "ended"
    BY <1>3, <2>1
  <2> QED
    BY <1>1, <1>4, <2>2 DEF LayoutInv
<1>6. Looked(s)'
  BY <1>2, <1>4 DEF Looked
<1>7. ModeInv(s)'
  <2>1. serverUp' => serverUp
    BY <1>1, <1>3 DEF LayoutInv
  <2> QED
    BY <1>2, <1>4, <2>1 DEF ModeInv
<1>8. Channel(s)'
  BY <1>1, <1>2, TTYChannel
<1>9. PutInv'
  BY <1>1, PutInvStep
<1> QED
  BY <1>5, <1>6, <1>7, <1>8, <1>9 DEF StreamInv

LEMMA StreamSame ==
    ASSUME StreamInv, UNCHANGED vars
    PROVE  StreamInv'
<1> USE DEF vars, session, history, terminal, signals, ttyconnect, wire
<1>1. PICK s \in Seq(Keys) : Looked(s) /\ ModeInv(s) /\ Channel(s)
  BY DEF StreamInv
<1>2. Looked(s)' /\ ModeInv(s)'
  BY <1>1 DEF Looked, ModeInv
<1>3. Channel(s)'
  BY <1>1 DEF Channel, Arriving, Heard, Near, Made, Sound, Cooked
<1>4. LayoutInv' /\ PutInv'
  BY DEF StreamInv, LayoutInv, PutInv
<1> QED
  BY <1>2, <1>3, <1>4 DEF StreamInv

LEMMA StreamAlways == Spec => []StreamInv
<1>1. TypeOK /\ TypeOK' /\ TermInv /\ CountInv /\ LineInv /\ StreamInv /\ [Next]_vars
        => StreamInv'
  <2> SUFFICES ASSUME TypeOK, TypeOK', TermInv, CountInv, LineInv, StreamInv, [Next]_vars
               PROVE  StreamInv'
    OBVIOUS
  <2>1. CASE SessionStep /\ UNCHANGED ttyconnect
    BY <2>1, StreamSessionStep
  <2>2. CASE TTYStep /\ UNCHANGED session
    BY <2>2, StreamTTYStep
  <2>3. CASE UNCHANGED vars
    BY <2>3, StreamSame
  <2> QED
    BY <2>1, <2>2, <2>3 DEF Next
<1> QED
  BY <1>1, StreamInit, StreamTypeCorrect, SessionInvariant, CountAlways, PTL DEF Spec

\* What tty-connect has done is where the meaning of all that was typed begins.
LEMMA WellHeard ==
    ASSUME TypeOK, StreamInv, Sound
    PROVE  \E tb \in Seq(Nat) : /\ Near(tb)
                                /\ Starts(want, Meaning.text, Chars)
                                /\ Starts(tb, Meaning.breaks, Nat)
<1>1. PICK s \in Seq(Keys) : Looked(s) /\ Channel(s)
  BY DEF StreamInv
<1>2. PICK tb \in Seq(Nat) : Heard(s, tb)
  BY <1>1 DEF Channel
<1>3. buf \in Seq(Keys) /\ outcomes \in Ends
  BY DEF TypeOK, SessionTypes, Ends
<1>4. Grows(MeaningOf(s, outcomes), Meaning)
  BY <1>1, <1>3, MeaningGrows DEF Meaning, Looked
<1>5. Starts(want, Meaning.text, Chars) /\ Starts(tb, Meaning.breaks, Nat)
  BY <1>2, <1>4, StartsTransitive DEF Grows, Heard
<1> QED
  BY <1>2, <1>5 DEF Heard

\* For every cut of the stream into reads and writes and every order of the two programs'
\* steps: the line is sent a prefix of what the user's characters mean, but for the end of
\* a tty-connect that a short write stopped, which may send a part of its buffer again
\* (xinu-console.c, flush2net and handlebreak; tty-connect.c, flushdata and PutCharFlush).
THEOREM TextInOrderAlways == Spec => []TextInOrder
<1>1. TypeOK /\ CountInv /\ LineInv /\ AgainInv /\ StreamInv => TextInOrder
  <2> DEFINE text == Meaning.text
  <2> SUFFICES ASSUME TypeOK, CountInv, LineInv, AgainInv, StreamInv, Sound
               PROVE  \/ IsPrefix(line, text)
                      \/ lost /\ tpc = "ended" /\ SentAgain(text)
    BY DEF TextInOrder
  <2>1. Starts(want, text, Chars)
    BY WellHeard
  <2> HIDE DEF text
  <2>2. line \in Seq(Chars) /\ want \in Seq(Chars) /\ pc_buf \in Seq(Chars)
    BY DEF TypeOK, TTYTypes
  <2>3. CASE ~ lost
    <3>1. line \o pc_buf = want \/ line = want
      BY <2>3 DEF LineInv, AgainInv, TypeOK, TTYTypes
    <3>2. Starts(line, want, Chars)
      BY <2>2, <3>1, StartsConcat, StartsSelf
    <3> QED
      BY <2>1, <3>2, StartsTransitive, StartsIsPrefix
  <2>4. CASE lost
    <3>1. PICK k \in Nat, n \in Nat, m \in Nat :
             Twice(k, n, m) /\ (tpc # "ended" => m = 0)
      BY <2>4 DEF Sound, CountInv, AgainInv
    <3>2. /\ Len(want) \in Nat /\ Len(text) \in Nat /\ Len(want) <= Len(text)
          /\ \A i \in 1..Len(want) : text[i] = want[i]
      BY <2>1, <2>2, LenProperties, StartsAt DEF Starts
    <3>3. text \in Seq(Chars)
      BY <2>1, ConcatProperties DEF Starts
    <3>4. /\ SubSeq(want, 1, n) = SubSeq(text, 1, n)
          /\ SubSeq(want, k + 1, k + m) = SubSeq(text, k + 1, k + m)
      BY <2>2, <3>1, <3>2, <3>3, SameSubSeq DEF Twice
    <3>5. CASE m = 0
      <4>1. line = SubSeq(text, 1, n)
        BY <2>2, <3>1, <3>4, <3>5, NoneAgain DEF Twice
      <4>2. Starts(line, text, Chars)
        <5>1. n \in Nat /\ n <= Len(text)
          BY <3>1, <3>2 DEF Twice
        <5> QED
          BY <3>3, <4>1, <5>1, StartsSubSeq
      <4> QED
        BY <4>2, StartsIsPrefix
    <3>6. CASE m # 0
      <4>1. /\ k \in 0..Len(text) /\ n \in k..k + PC_LEN - 1 /\ m \in 1..PC_LEN
            /\ n <= Len(text) /\ k + m <= Len(text)
        BY <3>1, <3>2, <3>6, TTYAssumption DEF Twice
      <4>2. line = SubSeq(text, 1, n) \o SubSeq(text, k + 1, k + m)
        BY <3>1, <3>4 DEF Twice
      <4> QED
        BY <2>4, <3>1, <3>6, <4>1, <4>2 DEF SentAgain
    <3> QED
      BY <3>5, <3>6
  <2> QED
    BY <2>3, <2>4
<1> QED
  BY <1>1, StreamTypeCorrect, CountAlways, AgainAlways, StreamAlways, PTL

\* For every size of PutChar's buffer: each break that the line was sent is one that the
\* user asked for, behind at most as many characters too few as the buffer holds
\* (tty-connect.c, PutChar and SendTTYBreak).
THEOREM BreaksInPlaceAlways == Spec => []BreaksInPlace
<1>1. TypeOK /\ StreamInv => BreaksInPlace
  <2> DEFINE b == Meaning.breaks
  <2> SUFFICES ASSUME TypeOK, StreamInv, Sound
               PROVE  \A i \in DOMAIN breaks :
                        i \in DOMAIN b /\ breaks[i] \in b[i] - PC_LEN .. b[i]
    BY DEF BreaksInPlace
  <2>2. PICK tb \in Seq(Nat) : Near(tb) /\ Starts(tb, b, Nat)
    BY WellHeard
  <2> HIDE DEF b
  <2>3. Len(tb) <= Len(b) /\ \A i \in 1..Len(tb) : b[i] = tb[i]
    BY <2>2, StartsAt
  <2>4. Len(tb) = Len(breaks) /\ \A i \in 1..Len(breaks) : breaks[i] \in tb[i] - PC_LEN .. tb[i]
    BY <2>2 DEF Near
  <2>5. breaks \in Seq(Nat) /\ b \in Seq(Nat)
    BY <2>2, StartsAt DEF TypeOK, TTYTypes
  <2>6. DOMAIN breaks = 1..Len(breaks) /\ DOMAIN b = 1..Len(b) /\ Len(b) \in Nat
    BY <2>5, LenProperties
  <2>7. DOMAIN breaks \subseteq DOMAIN b
    BY <2>3, <2>4, <2>6
  <2> QED
    BY <2>3, <2>4, <2>6, <2>7
<1> QED
  BY <1>1, StreamTypeCorrect, StreamAlways, PTL

\* When nothing is left on the way the line has been sent all of it, with every break, also
\* when x has ended the session (xinu-console.c, the end of flush2net and command x).
THEOREM AllArrivesAlways == Spec => []AllArrives
<1>1. TypeOK /\ CountInv /\ LineInv /\ StreamInv => AllArrives
  <2> SUFFICES ASSUME TypeOK, CountInv, LineInv, StreamInv, Sound, tpc = "select", net = <<>>,
                      pc = "select" \/ (pc = "ended" /\ torn = "no" /\ Meaning.mode = "over")
               PROVE  line = Meaning.text /\ Len(breaks) = Len(Meaning.breaks)
    BY DEF AllArrives
  <2>0. ~ lost
    BY DEF Sound, CountInv
  <2>1. PICK s \in Seq(Keys) : Looked(s) /\ ModeInv(s) /\ Channel(s)
    BY DEF StreamInv
  <2>2. PICK rest \in Seq(Chars), tb \in Seq(Nat) : Arriving(s, rest, tb)
    BY <2>1 DEF Channel
  <2>3. LayoutInv /\ PutInv
    BY DEF StreamInv
  <2>4. torn = "no" /\ serverUp /\ held = <<>> /\ tbuf = <<>>
    BY <2>0, <2>3 DEF LayoutInv, PutInv, Sound, TypeOK, SessionTypes
  <2>5. <<>> \o <<>> = <<>>
    BY EmptySeq, ConcatEmptySeq
  <2>6. rest = <<>> /\ (tbuf \o net) \o rest = <<>>
    BY <2>2, <2>4, <2>5 DEF Arriving
  <2>7. Made(tb) = Told(MeaningOf(s, outcomes))
    BY <2>2, <2>6, DecodeNone DEF Arriving
  <2>8. Meaning = MeaningOf(s, outcomes)
    <3>1. CASE pc = "select"
      <4>1. buf = <<>>
        BY <2>3, <3>1 DEF LayoutInv
      <4>2. typed = s
        BY <2>1, <4>1, ConcatEmptySeq DEF Looked
      <4> QED
        BY <4>2 DEF Meaning
    <3>2. CASE pc = "ended"
      <4>1. MeaningOf(s, outcomes).mode = "over" \/ buf = <<>>
        BY <2>1, <2>4, <3>2 DEF ModeInv
      <4>2. buf \in Seq(Keys) /\ outcomes \in Ends
        BY DEF TypeOK, SessionTypes, Ends
      <4>3. CASE buf = <<>>
        BY <2>1, <4>3, ConcatEmptySeq DEF Looked, Meaning
      <4>4. CASE MeaningOf(s, outcomes).mode = "over"
        BY <2>1, <4>2, <4>4, MeaningGrows DEF Looked, Meaning
      <4> QED
        BY <4>1, <4>3, <4>4
    <3> QED
      BY <3>1, <3>2
  <2>9. want = Meaning.text /\ tb = Meaning.breaks
    BY <2>7, <2>8 DEF Made, Told
  <2>10. line = want /\ Len(tb) = Len(breaks)
    BY <2>0, <2>2 DEF LineInv, Arriving, Near
  <2> QED
    BY <2>9, <2>10
<1> QED
  BY <1>1, StreamTypeCorrect, CountAlways, StreamAlways, PTL
=============================================================================

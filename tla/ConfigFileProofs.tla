-------------------------- MODULE ConfigFileProofs --------------------------
(* Proofs about the reader of the configuration file: types, the room in     *)
(* argsline, and that the table is what the file says by its lines.          *)
EXTENDS ConfigFile, DataLemmas

-----------------------------------------------------------------------------
(* Arithmetic                                                                *)

\* One argument more needs one MAXARGLENGTH more.
LEMMA OneMore ==
    ASSUME NEW k \in Nat, NEW m \in Nat
    PROVE  (k + 1) * m = k * m + m
  OBVIOUS

\* A product grows with its first factor.
LEMMA TimesGrows ==
    ASSUME NEW k \in Nat, NEW n \in Nat, NEW m \in Nat, k <= n
    PROVE  k * m <= n * m
<1>1. n - k \in Nat /\ n = k + (n - k)
  OBVIOUS
<1>2. n * m = k * m + (n - k) * m
  BY <1>1
<1>3. (n - k) * m \in Nat /\ k * m \in Nat
  BY <1>1
<1> QED
  BY <1>2, <1>3

\* A product of numbers that are not zero is not zero.
LEMMA TimesPositive ==
    ASSUME NEW n \in Nat \ {0}, NEW m \in Nat \ {0}
    PROVE  n * m \in Nat \ {0}
<1>1. 1 * m <= n * m
  BY TimesGrows
<1>2. n * m \in Nat
  OBVIOUS
<1> QED
  BY <1>1, <1>2

-----------------------------------------------------------------------------
(* Types                                                                     *)

LEMMA NoEntryType == NoEntry \in Entries /\ NoEntry.progargs = <<>>
  BY FileAssumption DEF NoEntry, Entries

LEMMA ScanType ==
    ASSUME TypeOK, NEW x \in Lexemes, Scan(x)
    PROVE  file' \in Seq(Lexemes)
  BY DEF TypeOK, Scan

LEMMA BlankLexemes == Words \subseteq Lexemes /\ {Newline, Continuation, Comment} \subseteq Lexemes
  BY DEF Lexemes

LEMMA InitType == Init => TypeOK
<1>1. <<>> \in Seq(Lexemes) /\ <<>> \in Seq(Entries)
  OBVIOUS
<1>2. 0 <= MAXNUMBERARGS
  BY FileAssumption
<1>3. EverySection \in Sections
  BY FileAssumption
<1> QED
  BY <1>1, <1>2, <1>3, NoEntryType DEF Init, TypeOK

LEMMA KeptType ==
    ASSUME TypeOK, Kept
    PROVE  table' \in Seq(Entries)
  BY DEF TypeOK, Kept

LEMMA StepType == TypeOK /\ [Next]_vars => TypeOK'
<1> SUFFICES ASSUME TypeOK, [Next]_vars PROVE TypeOK'
  OBVIOUS
<1>1. CASE Blank
  BY <1>1, ScanType, BlankLexemes DEF Blank, TypeOK
<1>2. CASE skipNewlines
  BY <1>2, ScanType, BlankLexemes DEF skipNewlines, TypeOK
<1>3. CASE TooShort
  BY <1>3, ScanType, BlankLexemes DEF TooShort, Error, TypeOK
<1>4. CASE EndOfEntry
  BY <1>4, ScanType, BlankLexemes, KeptType DEF EndOfEntry, TypeOK
<1>5. CASE EndOfFile
  BY <1>5, KeptType DEF EndOfFile, Ready, TypeOK
<1>6. ASSUME NEW x \in Words, Section(x) PROVE TypeOK'
  BY <1>6, ScanType, BlankLexemes DEF Section, TypeOK
<1>7. ASSUME NEW x \in Words, Connection(x) PROVE TypeOK'
  <2>1. file' \in Seq(Lexemes)
    BY <1>7, ScanType, BlankLexemes DEF Connection
  <2>2. cdata' \in Entries /\ cdata'.progargs = <<>>
    BY <1>7, NoEntryType DEF Connection, Entries, NoEntry
  <2>3. 0 <= MAXNUMBERARGS
    BY FileAssumption
  <2> QED
    BY <1>7, <2>1, <2>2, <2>3 DEF Connection, TypeOK
<1>8. ASSUME NEW x \in Words, Class(x) PROVE TypeOK'
  <2>1. file' \in Seq(Lexemes)
    BY <1>8, ScanType, BlankLexemes DEF Class
  <2>2. cdata' \in Entries /\ cdata'.progargs = cdata.progargs
    BY <1>8 DEF Class, Entries, TypeOK
  <2> QED
    BY <1>8, <2>1, <2>2 DEF Class, TypeOK
<1>9. ASSUME NEW x \in Words, Program(x) PROVE TypeOK'
  <2>1. file' \in Seq(Lexemes)
    BY <1>9, ScanType, BlankLexemes DEF Program
  <2>2. cdata' \in Entries /\ cdata'.progargs = cdata.progargs
    BY <1>9 DEF Program, Error, Entries, TypeOK
  <2> QED
    BY <1>9, <2>1, <2>2 DEF Program, Error, TypeOK
<1>10. ASSUME NEW x \in Words, Argument(x) PROVE TypeOK'
  <2>1. file' \in Seq(Lexemes)
    BY <1>10, ScanType, BlankLexemes DEF Argument
  <2>2. cdata' \in Entries /\ Len(cdata'.progargs) <= MAXNUMBERARGS
    <3>1. CASE cdata' = cdata
      BY <3>1 DEF TypeOK
    <3>2. CASE /\ cdata' = [cdata EXCEPT !.progargs = Append(@, x)]
               /\ Len(cdata.progargs) < MAXNUMBERARGS
      <4>1. cdata.progargs \in Seq(Words)
        BY DEF TypeOK, Entries
      <4>2. Append(cdata.progargs, x) \in Seq(Words)
        BY <4>1
      <4>3. cdata' \in Entries /\ cdata'.progargs = Append(cdata.progargs, x)
        BY <3>2, <4>2 DEF TypeOK, Entries
      <4>4. Len(cdata'.progargs) = Len(cdata.progargs) + 1
        BY <4>1, <4>3
      <4>5. MAXNUMBERARGS \in Nat /\ Len(cdata.progargs) \in Nat
        BY <4>1, FileAssumption
      <4> QED
        BY <3>2, <4>3, <4>4, <4>5
    <3> QED
      BY <1>10, <3>1, <3>2 DEF Argument, Error
  <2>3. argslen' \in Nat
    <3>1. LengthOf[x] \in Nat /\ argslen \in Nat
      BY FileAssumption DEF TypeOK
    <3>2. argslen' \in {argslen, argslen + LengthOf[x], argslen + LengthOf[x] + 1}
      BY <1>10, <3>1 DEF Argument, Error
    <3> QED
      BY <3>1, <3>2
  <2> QED
    BY <1>10, <2>1, <2>2, <2>3 DEF Argument, Error, TypeOK
<1>11. CASE UNCHANGED vars
  BY <1>11 DEF vars, TypeOK
<1> QED
  BY <1>1, <1>2, <1>3, <1>4, <1>5, <1>6, <1>7, <1>8, <1>9, <1>10, <1>11 DEF Next

\* The reader's variables keep their types; progargs has no more than MAXNUMBERARGS
\* elements, so makeEntry writes none behind the array.
THEOREM FileTypeCorrect == Spec => []TypeOK
  BY InitType, StepType, PTL DEF Spec

-----------------------------------------------------------------------------
(* argsline                                                                  *)

\* What k arguments and the blanks between them need, with the NUL.
ArgsInv == argslen + 1 <= IF cdata.progargs = <<>> THEN 1
                          ELSE Len(cdata.progargs) * MAXARGLENGTH

LEMMA InitArgs == Init => ArgsInv
  BY NoEntryType DEF Init, ArgsInv

LEMMA StepArgs == TypeOK /\ ArgsInv /\ [Next]_vars => ArgsInv'
<1> SUFFICES ASSUME TypeOK, ArgsInv, [Next]_vars PROVE ArgsInv'
  OBVIOUS
<1>1. CASE UNCHANGED <<cdata, argslen>>
  BY <1>1 DEF ArgsInv
<1>2. ASSUME NEW x \in Words, Connection(x) PROVE ArgsInv'
  BY <1>2, NoEntryType DEF Connection, ArgsInv, NoEntry
<1>3. ASSUME NEW x \in Words, Class(x) PROVE ArgsInv'
  BY <1>3 DEF Class, ArgsInv, TypeOK, Entries
<1>4. ASSUME NEW x \in Words, Program(x) PROVE ArgsInv'
  BY <1>4 DEF Program, Error, ArgsInv, TypeOK, Entries
<1>5. ASSUME NEW x \in Words, Argument(x) PROVE ArgsInv'
  <2>1. CASE UNCHANGED <<cdata, argslen>>
    BY <2>1 DEF ArgsInv
  <2>2. CASE ~ UNCHANGED <<cdata, argslen>>
    <3> DEFINE k == Len(cdata.progargs)
    <3>1. /\ cdata' = [cdata EXCEPT !.progargs = Append(@, x)]
          /\ argslen' = argslen + LengthOf[x] + IF cdata.progargs = <<>> THEN 0 ELSE 1
          /\ LengthOf[x] < MAXARGLENGTH
      BY <1>5, <2>2 DEF Argument, Error
    <3>2. cdata.progargs \in Seq(Words) /\ k \in Nat
      BY DEF TypeOK, Entries
    <3>3. cdata'.progargs = Append(cdata.progargs, x)
      BY <3>1 DEF TypeOK, Entries
    <3>4. cdata'.progargs # <<>> /\ Len(cdata'.progargs) = k + 1
      BY <3>2, <3>3
    <3>5. LengthOf[x] \in Nat /\ MAXARGLENGTH \in Nat /\ argslen \in Nat
      BY FileAssumption DEF TypeOK
    <3>6. (k + 1) * MAXARGLENGTH = k * MAXARGLENGTH + MAXARGLENGTH
      BY <3>2, <3>5, OneMore
    <3>7. argslen' + 1 <= (k + 1) * MAXARGLENGTH
      <4>1. CASE cdata.progargs = <<>>
        <5>1. argslen + 1 <= 1 /\ k = 0
          BY <4>1 DEF ArgsInv
        <5>2. (0 + 1) * MAXARGLENGTH = MAXARGLENGTH
          BY <3>5
        <5> QED
          BY <3>1, <3>5, <4>1, <5>1, <5>2
      <4>2. CASE cdata.progargs # <<>>
        <5>1. argslen + 1 <= k * MAXARGLENGTH
          BY <4>2 DEF ArgsInv
        <5>2. k * MAXARGLENGTH \in Nat
          BY <3>2, <3>5
        <5> HIDE DEF k
        <5> QED
          BY <3>1, <3>5, <3>6, <4>2, <5>1, <5>2
      <4> QED
        BY <4>1, <4>2
    <3> QED
      BY <3>4, <3>7 DEF ArgsInv
  <2> QED
    BY <2>1, <2>2
<1> QED
  BY <1>1, <1>2, <1>3, <1>4, <1>5
  DEF Next, Blank, skipNewlines, TooShort, Error, EndOfEntry, EndOfFile, Section, vars

LEMMA ArgsFit == TypeOK /\ ArgsInv => ArgslineFits
<1> SUFFICES ASSUME TypeOK, ArgsInv PROVE ArgslineFits
  OBVIOUS
<1> DEFINE k == Len(cdata.progargs)
<1>1. k \in Nat /\ k <= MAXNUMBERARGS
  BY DEF TypeOK, Entries
<1>2. MAXNUMBERARGS \in Nat \ {0} /\ MAXARGLENGTH \in Nat \ {0} /\ argslen \in Nat
  BY FileAssumption DEF TypeOK
<1>3. MAXNUMBERARGS * MAXARGLENGTH \in Nat \ {0}
  BY <1>2, TimesPositive
<1>4. k * MAXARGLENGTH <= MAXNUMBERARGS * MAXARGLENGTH
  BY <1>1, <1>2, TimesGrows
<1>5. k * MAXARGLENGTH \in Nat
  BY <1>1, <1>2
<1> QED
  BY <1>2, <1>3, <1>4, <1>5 DEF ArgsInv, ArgslineFits

\* However many arguments a line has, and however long they are, strcat writes nothing
\* behind argsline: a bound that holds with equality for MAXNUMBERARGS arguments of
\* MAXARGLENGTH - 1 characters.
THEOREM ArgslineFitsAlways == Spec => []ArgslineFits
<1>1. TypeOK /\ ArgsInv /\ [Next]_vars => (TypeOK /\ ArgsInv)'
  BY StepType, StepArgs
<1>2. Init => TypeOK /\ ArgsInv
  BY InitType, InitArgs
<1> QED
  BY <1>1, <1>2, ArgsFit, PTL DEF Spec

-----------------------------------------------------------------------------
(* Lines                                                                     *)

Line == Seq(Words)
AllRight(L) == \A k \in DOMAIN L : RightEntry(Fields(L[k]))

\* A lexeme more in the file, where l is its last line and F those before.
LEMMA LinesNext ==
    ASSUME TypeOK, NEW x \in Lexemes, file' = Append(file, x),
           NEW F \in Seq(Line), NEW l \in Line, Lines = Append(F, l)
    PROVE  /\ x = Newline => Lines' = Append(Append(F, l), <<>>)
           /\ x \in Words => Lines' = Append(F, Append(l, x))
           /\ x \in {Continuation, Comment} => Lines' = Lines
<1>1. Lines' = AddLexeme[<<Lines, x>>]
  <2>1. Lines' = Steps(AddLexeme, << <<>> >>, Append(file, x))
    BY DEF Lines
  <2>2. file \in Seq(Lexemes)
    BY DEF TypeOK
  <2> QED
    BY <2>1, <2>2, StepsAppend DEF Lines
<1>2. Lines \in Seq(Seq(Words)) /\ Front(Lines) = F /\ Last(Lines) = l
  BY FrontLast DEF Line
<1>3. <<Lines, x>> \in Seq(Seq(Words)) \X Lexemes
  BY <1>2
<1>4. AddLexeme[<<Lines, x>>] =
        CASE x = Newline -> Append(Lines, <<>>)
          [] x \in Words -> Append(Front(Lines), Append(Last(Lines), x))
          [] OTHER -> Lines
  BY <1>3 DEF AddLexeme
<1>5. CASE x = Newline
  <2>1. x \notin Words /\ x \notin {Continuation, Comment}
    BY <1>5, LexemeAssumption DEF Newline, Continuation, Comment
  <2> QED
    BY <1>1, <1>4, <1>5, <2>1
<1>6. CASE x \in Words
  <2>1. x # Newline /\ x \notin {Continuation, Comment}
    BY <1>6, LexemeAssumption
  <2> QED
    BY <1>1, <1>2, <1>4, <1>6, <2>1
<1>7. CASE x \in {Continuation, Comment}
  <2>1. x # Newline /\ x \notin Words
    BY <1>7, LexemeAssumption DEF Newline, Continuation, Comment
  <2> QED
    BY <1>1, <1>4, <1>7, <2>1
<1> QED
  BY <1>5, <1>6, <1>7 DEF Lexemes

\* There is one place where the connection of a line begins.
LEMMA FirstIs ==
    ASSUME NEW l \in Line, NEW m, IsFirst(l, m)
    PROVE  First(l) = m
<1>1. \E k \in 1..Len(l) + 1 : IsFirst(l, k)
  BY DEF IsFirst
<1>2. First(l) \in 1..Len(l) + 1 /\ IsFirst(l, First(l))
  BY <1>1 DEF First
<1>3. ASSUME NEW j, NEW k, IsFirst(l, j), IsFirst(l, k), j < k PROVE FALSE
  <2>1. Len(l) \in Nat /\ j \in 1..Len(l) + 1 /\ k \in 1..Len(l) + 1
    BY <1>3 DEF IsFirst, Line
  <2>2. j \in 1..k - 1 /\ j <= Len(l)
    BY <1>3, <2>1
  <2> QED
    BY <1>3, <2>2 DEF IsFirst
<1>4. Len(l) \in Nat /\ m \in Nat /\ First(l) \in Nat
  BY <1>2 DEF IsFirst, Line
<1>5. ~ (m < First(l)) /\ ~ (First(l) < m)
  BY <1>2, <1>3
<1> QED
  BY <1>4, <1>5

LEMMA EmptyLine == /\ <<>> \in Line /\ IsFirst(<<>>, 1) /\ First(<<>>) = 1
                   /\ Fields(<<>>) = <<>> /\ \A s : SectionIn(s, <<>>) = s
<1>1. <<>> \in Line /\ Len(<<>>) = 0
  BY DEF Line
<1>2. IsFirst(<<>>, 1)
  BY <1>1 DEF IsFirst
<1>3. First(<<>>) = 1
  BY <1>1, <1>2, FirstIs
<1>4. Fields(<<>>) = <<>>
  BY <1>1, <1>3, SubSeqEmpty DEF Fields
<1> QED
  BY <1>1, <1>2, <1>3, <1>4 DEF SectionIn

\* A word more in a line: a section, the connection's name, or a field of it.
LEMMA LineNext ==
    ASSUME NEW l \in Line, IsFirst(l, First(l)), NEW x \in Words
    PROVE  /\ Append(l, x) \in Line /\ Len(Append(l, x)) = Len(l) + 1
           /\ First(l) \in 1..Len(l) + 1 /\ Len(l) \in Nat
           /\ IsFirst(Append(l, x), First(Append(l, x)))
           /\ First(l) <= Len(l) =>
                /\ First(Append(l, x)) = First(l)
                /\ Fields(l) \in Line
                /\ Fields(Append(l, x)) = Append(Fields(l), x)
           /\ First(l) = Len(l) + 1 /\ x \notin Sections =>
                /\ First(Append(l, x)) = Len(l) + 1
                /\ Fields(Append(l, x)) = <<x>>
           /\ First(l) = Len(l) + 1 /\ x \in Sections =>
                /\ First(Append(l, x)) = Len(l) + 2
<1> DEFINE n == Len(l)
           m == First(l)
           r == Append(l, x)
<1>1. /\ n \in Nat /\ m \in 1..n + 1 /\ r \in Line /\ Len(r) = n + 1
      /\ r[n + 1] = x /\ \A k \in 1..n : r[k] = l[k]
  BY AppendProperties DEF IsFirst, Line
<1>2. IsFirst(l, m)
  OBVIOUS
<1> HIDE DEF n, m, r
<1>3. CASE m <= n
  <2>1. IsFirst(r, m)
    <3>1. m \in 1..Len(r) + 1 /\ m \in 1..n
      BY <1>1, <1>3
    <3>2. ASSUME NEW q \in 1..m - 1 PROVE r[q] \in Sections
      <4>1. q \in 1..n /\ l[q] \in Sections
        BY <1>1, <1>2, <1>3 DEF IsFirst
      <4> QED
        BY <1>1, <4>1
    <3>3. r[m] \notin Sections
      BY <1>1, <1>2, <1>3, <3>1 DEF IsFirst, n
    <3> QED
      BY <3>1, <3>2, <3>3 DEF IsFirst
  <2>2. First(r) = m
    BY <1>1, <2>1, FirstIs
  <2>3. Fields(r) = Append(Fields(l), x)
    BY <1>1, <2>2, SubSeqAppend DEF Fields, n, m, r, Line
  <2>4. Fields(l) \in Line
    <3>1. /\ m \in Int /\ Len(l) \in Int /\ \A k \in m..Len(l) : l[k] \in Words
      BY <1>1, ElementOfSeq DEF Line, n
    <3> QED
      BY <3>1, SubSeqProperties DEF Fields, Line, m
  <2> QED
    BY <1>1, <1>3, <2>1, <2>2, <2>3, <2>4 DEF n, m, r
<1>4. CASE m = n + 1
  <2>1. ASSUME NEW q \in 1..n PROVE r[q] \in Sections
    BY <1>1, <1>2, <1>4 DEF IsFirst
  <2>2. CASE x \notin Sections
    <3>1. IsFirst(r, n + 1)
      <4>1. n + 1 \in 1..Len(r) + 1 /\ r[n + 1] \notin Sections
        BY <1>1, <2>2
      <4>2. \A q \in 1..(n + 1) - 1 : r[q] \in Sections
        BY <1>1, <2>1
      <4> QED
        BY <4>1, <4>2 DEF IsFirst
    <3>2. First(r) = n + 1
      BY <1>1, <3>1, FirstIs
    <3>3. Fields(r) = Append(SubSeq(l, n + 1, n), x)
      <4>1. n + 1 \in 1..Len(l) + 1
        BY <1>1 DEF n
      <4> QED
        BY <3>2, <4>1, <1>1, SubSeqAppend DEF Fields, Line, r, n
    <3>4. SubSeq(l, n + 1, n) = <<>>
      BY <1>1, SubSeqEmpty
    <3>5. Append(<<>>, x) = <<x>>
      OBVIOUS
    <3>6. Fields(r) = <<x>>
      BY <3>3, <3>4, <3>5
    <3> QED
      BY <1>1, <1>4, <2>2, <3>1, <3>2, <3>6 DEF n, m, r
  <2>3. CASE x \in Sections
    <3>1. IsFirst(r, n + 2)
      <4>1. n + 2 \in 1..Len(r) + 1 /\ ~ (n + 2 <= Len(r))
        BY <1>1
      <4>2. ASSUME NEW q \in 1..(n + 2) - 1 PROVE r[q] \in Sections
        <5>1. q = n + 1 \/ q \in 1..n
          BY <1>1
        <5> QED
          BY <1>1, <2>1, <2>3, <5>1
      <4> QED
        BY <4>1, <4>2 DEF IsFirst
    <3>2. First(r) = n + 2
      BY <1>1, <3>1, FirstIs
    <3>3. ~ (m <= n)
      BY <1>1, <1>4
    <3> QED
      BY <1>1, <1>4, <2>3, <3>1, <3>2, <3>3 DEF n, m, r
  <2> QED
    BY <2>2, <2>3
<1>5. m <= n \/ m = n + 1
  BY <1>1
<1> QED
  BY <1>3, <1>4, <1>5

\* The section that a line is in changes with a section, and with nothing else.
LEMMA SectionNext ==
    ASSUME NEW l \in Line, IsFirst(l, First(l)), NEW x \in Words, NEW s
    PROVE  SectionIn(s, Append(l, x)) =
             IF First(l) = Len(l) + 1 /\ x \in Sections THEN x ELSE SectionIn(s, l)
<1> DEFINE n == Len(l)
           m == First(l)
           r == Append(l, x)
<1>1. n \in Nat /\ m \in 1..n + 1 /\ r[n + 1] = x /\ \A k \in 1..n : r[k] = l[k]
  BY LineNext, AppendProperties DEF Line
<1>2. CASE m = n + 1 /\ x \in Sections
  <2>1. First(r) = n + 2
    BY <1>2, LineNext
  <2>2. First(r) # 1 /\ First(r) - 1 = n + 1
    BY <1>1, <2>1
  <2> QED
    BY <1>1, <1>2, <2>2 DEF SectionIn
<1>3. CASE ~ (m = n + 1 /\ x \in Sections)
  <2>1. First(r) = m
    <3>1. CASE m <= n
      BY <3>1, LineNext
    <3>2. CASE m = n + 1
      BY <1>3, <3>2, LineNext
    <3> QED
      BY <1>1, <3>1, <3>2
  <2>2. m # 1 => m - 1 \in 1..n
    BY <1>1
  <2>3. m # 1 => r[m - 1] = l[m - 1]
    BY <1>1, <2>2
  <2>4. SectionIn(s, r) = IF m = 1 THEN s ELSE r[m - 1]
    BY <2>1 DEF SectionIn
  <2>5. SectionIn(s, l) = IF m = 1 THEN s ELSE l[m - 1]
    BY DEF SectionIn
  <2> QED
    BY <1>3, <2>3, <2>4, <2>5
<1> QED
  BY <1>2, <1>3

\* What the lines say up to a line, and with it.
LEMMA SaidNext ==
    ASSUME NEW F \in Seq(Line), NEW l \in Line, NEW s \in Sections, NEW T \in Seq(Entries),
           Said(F) = [section |-> s, table |-> T]
    PROVE  Said(Append(F, l)) =
             [section |-> SectionIn(s, l),
              table |-> IF Fields(l) # <<>> /\ Mine(SectionIn(s, l))
                        THEN Append(T, EntryOf(Fields(l))) ELSE T]
<1>1. Said(Append(F, l)) = AddLine[<<Said(F), l>>]
  BY StepsAppend DEF Said
<1>2. <<Said(F), l>> \in [section : Sections, table : Seq(Entries)] \X Seq(Words)
  BY DEF Line
<1> DEFINE a == <<Said(F), l>>
<1>3. a[1].section = s /\ a[1].table = T /\ a[2] = l
  OBVIOUS
<1>4. AddLine[a] = LET S == SectionIn(a[1].section, a[2])
                       f == Fields(a[2])
                   IN  [section |-> S,
                        table |-> IF f # <<>> /\ Mine(S) THEN Append(a[1].table, EntryOf(f))
                                  ELSE a[1].table]
  <2> HIDE DEF a
  <2>1. a \in [section : Sections, table : Seq(Entries)] \X Seq(Words)
    BY <1>2 DEF a
  <2> QED
    BY <2>1 DEF AddLine
<1> QED
  BY <1>1, <1>3, <1>4

-----------------------------------------------------------------------------
(* The table and the file.  What was read consists of complete lines F and a *)
(* last line l, which the reader's variables describe as far as it goes.     *)

Reading == {"entry", "class", "prog", "arg"}

\* The connection of the line, by what is read of it.
FieldsInv(l) ==
    LET f == Fields(l)
        args == cdata.progargs
    IN  /\ pc = "entry" => First(l) = Len(l) + 1
        /\ pc \in {"class", "prog", "arg"} => First(l) <= Len(l) /\ f[1] = cdata.conname
        /\ pc \in {"class", "prog"} => args = <<>>
        /\ pc = "class" => Len(f) = 1
        /\ pc = "prog" => Len(f) = 2 /\ f[2] = cdata.conclass
        /\ pc = "arg" => /\ Len(f) = 3 + Len(args)
                         /\ f[2] = cdata.conclass /\ f[3] = cdata.conprog
                         /\ \A j \in 1..Len(args) : f[3 + j] = args[j]
                         /\ RightEntry(f)

SaidInv(F, l) == \E s \in Sections : /\ Said(F) = [section |-> s, table |-> table]
                                     /\ defaulthost = SectionIn(s, l)

LineInv(F, l) == /\ AllRight(F)
                 /\ IsFirst(l, First(l))
                 /\ SaidInv(F, l)
                 /\ FieldsInv(l)

EndInv == /\ pc = "done" => /\ AllRight(Lines) /\ Said(Lines).table = table
                            /\ Len(table) <= MAXCONNECTIONS
          /\ pc = "error" => ~ AllRight(Lines) \/ Len(Said(Lines).table) > MAXCONNECTIONS

FileInv == /\ EndInv
           /\ \E F \in Seq(Line), l \in Line :
                Lines = Append(F, l) /\ (pc \in Reading => LineInv(F, l))

LEMMA AllRightNext ==
    ASSUME NEW F \in Seq(Line), NEW l \in Line
    PROVE  AllRight(Append(F, l)) <=> AllRight(F) /\ RightEntry(Fields(l))
<1> DEFINE r == Append(F, l)
           n == Len(F)
<1>1. /\ n \in Nat /\ DOMAIN F = 1..n /\ DOMAIN r = 1..n + 1 /\ r[n + 1] = l
      /\ \A k \in 1..n : r[k] = F[k]
  BY AppendProperties, LenProperties
<1> HIDE DEF r, n
<1>2. \A k \in 1..n : k \in 1..n + 1
  BY <1>1
<1>3. \A k \in 1..n + 1 : k = n + 1 \/ k \in 1..n
  BY <1>1
<1>4. n + 1 \in 1..n + 1
  BY <1>1
<1>5. AllRight(r) <=> AllRight(F) /\ RightEntry(Fields(l))
  BY <1>1, <1>2, <1>3, <1>4 DEF AllRight
<1> QED
  BY <1>5 DEF r

\* A line that ends where no connection begins says nothing.
LEMMA NoFields ==
    ASSUME NEW l \in Line, First(l) = Len(l) + 1
    PROVE  Fields(l) = <<>> /\ RightEntry(Fields(l))
<1>1. Len(l) \in Nat
  BY DEF Line
<1> QED
  BY <1>1, SubSeqEmpty DEF Fields, RightEntry

\* One that ends within the first three words is wrong.
LEMMA ShortLine ==
    ASSUME NEW l \in Line, FieldsInv(l), pc \in {"class", "prog"}
    PROVE  ~ RightEntry(Fields(l))
<1>1. Len(Fields(l)) \in {1, 2}
  BY DEF FieldsInv
<1>2. Fields(l) # <<>>
  BY <1>1
<1>3. Len(Fields(l)) \notin 3..3 + MAXNUMBERARGS
  <2>1. 1 \notin 3..3 + MAXNUMBERARGS /\ 2 \notin 3..3 + MAXNUMBERARGS
    BY FileAssumption
  <2> QED
    BY <1>1, <2>1
<1> QED
  BY <1>2, <1>3 DEF RightEntry

\* The entry that was read is the one that the line says.
LEMMA EntryRead ==
    ASSUME TypeOK, NEW l \in Line, IsFirst(l, First(l)), FieldsInv(l), pc = "arg"
    PROVE  Fields(l) # <<>> /\ RightEntry(Fields(l)) /\ EntryOf(Fields(l)) = cdata
<1> DEFINE f == Fields(l)
           args == cdata.progargs
           m == Len(args)
<1>1. /\ args \in Seq(Words) /\ m \in Nat
      /\ cdata = [conname |-> cdata.conname, conclass |-> cdata.conclass,
                  conprog |-> cdata.conprog, progargs |-> args]
  BY DEF TypeOK, Entries
<1>2. /\ Len(f) = 3 + m /\ f[1] = cdata.conname /\ f[2] = cdata.conclass
      /\ f[3] = cdata.conprog /\ RightEntry(f) /\ \A j \in 1..m : f[3 + j] = args[j]
  BY DEF FieldsInv
<1>3. f # <<>>
  BY <1>1, <1>2
<1> HIDE DEF f, args, m
<1> DEFINE g == SubSeq(f, 4, 3 + m)
<1>4. /\ g \in Seq(Words) /\ Len(g) = m /\ \A j \in 1..m : g[j] = args[j]
  <2>1. ASSUME NEW k \in 4..3 + m PROVE f[k] \in Words
    <3>1. k - 3 \in 1..m /\ 3 + (k - 3) = k
      BY <1>1
    <3>2. args[k - 3] \in Words
      BY <1>1, <3>1, ElementOfSeq DEF m
    <3> QED
      BY <1>2, <3>1, <3>2
  <2> DEFINE p == 3 + m
  <2>2. p \in Int /\ 4 \in Int /\ p - 4 + 1 = m /\ (4 <= p <=> m # 0)
    BY <1>1
  <2> HIDE DEF p
  <2>3. /\ SubSeq(f, 4, p) \in Seq(Words)
        /\ Len(SubSeq(f, 4, p)) = IF 4 <= p THEN p - 4 + 1 ELSE 0
        /\ \A j \in 1..p - 4 + 1 : SubSeq(f, 4, p)[j] = f[4 + j - 1]
    <3>1. \A k \in 4..p : f[k] \in Words
      BY <2>1 DEF p
    <3> QED
      BY <2>2, <3>1, SubSeqProperties
  <2>4. ASSUME NEW j \in 1..m PROVE SubSeq(f, 4, p)[j] = args[j]
    <3>1. 4 + j - 1 = 3 + j
      OBVIOUS
    <3> QED
      BY <1>2, <2>2, <2>3, <3>1
  <2> QED
    BY <2>2, <2>3, <2>4 DEF p
<1>5. g = args
  <2> HIDE DEF g
  <2> QED
    BY <1>1, <1>4, SeqEqual DEF m
<1>6. EntryOf(f) = cdata
  BY <1>1, <1>2, <1>5 DEF EntryOf
<1> QED
  BY <1>2, <1>3, <1>6 DEF f

LEMMA InitFile == Init => FileInv
<1> SUFFICES ASSUME Init PROVE FileInv
  OBVIOUS
<1>1. Lines = << <<>> >>
  BY StepsEmpty DEF Init, Lines
<1>2. <<>> \in Seq(Line) /\ Append(<<>>, <<>>) = << <<>> >>
  OBVIOUS
<1>3. AllRight(<<>>)
  BY DEF AllRight
<1>4. Said(<<>>) = [section |-> EverySection, table |-> <<>>]
  BY StepsEmpty DEF Said
<1>5. SaidInv(<<>>, <<>>)
  BY <1>4, EmptyLine, FileAssumption DEF Init, SaidInv
<1>6. FieldsInv(<<>>)
  <2>1. First(<<>>) = Len(<<>>) + 1
    BY EmptyLine
  <2> QED
    BY <2>1 DEF Init, FieldsInv
<1>7. LineInv(<<>>, <<>>)
  BY <1>3, <1>5, <1>6, EmptyLine DEF LineInv
<1>8. EndInv
  BY DEF Init, EndInv
<1> QED
  BY <1>1, <1>2, <1>7, <1>8, EmptyLine DEF FileInv

\* A newline where the line is right: it joins the complete ones.
LEMMA LineEnds ==
    ASSUME TypeOK, NEW F \in Seq(Line), NEW l \in Line, Lines = Append(F, l), LineInv(F, l),
           RightEntry(Fields(l)), file' = Append(file, Newline),
           pc' = "entry", defaulthost' = defaulthost,
           table' = IF Fields(l) # <<>> /\ Mine(defaulthost)
                    THEN Append(table, EntryOf(Fields(l))) ELSE table
    PROVE  FileInv'
<1> DEFINE G == Append(F, l)
<1>1. G \in Seq(Line)
  OBVIOUS
<1>2. Lines' = Append(G, <<>>)
  BY LinesNext DEF Lexemes
<1>3. AllRight(G)
  BY AllRightNext DEF LineInv
<1>4. SaidInv(G, <<>>)'
  <2>1. PICK s \in Sections : Said(F) = [section |-> s, table |-> table]
                              /\ defaulthost = SectionIn(s, l)
    BY DEF LineInv, SaidInv
  <2>2. table \in Seq(Entries) /\ defaulthost \in Sections
    BY DEF TypeOK
  <2>3. Said(G) = [section |-> defaulthost, table |-> table']
    BY <2>1, <2>2, SaidNext
  <2>4. SectionIn(defaulthost, <<>>) = defaulthost
    BY EmptyLine
  <2> HIDE DEF G
  <2> QED
    BY <2>2, <2>3, <2>4 DEF SaidInv
<1> HIDE DEF G
<1>5. FieldsInv(<<>>)'
  <2>1. First(<<>>) = Len(<<>>) + 1
    BY EmptyLine
  <2> QED
    BY <2>1 DEF FieldsInv
<1>6. LineInv(G, <<>>)'
  BY <1>3, <1>4, <1>5, EmptyLine DEF LineInv
<1>7. EndInv'
  BY DEF EndInv
<1> QED
  BY <1>1, <1>2, <1>6, <1>7, EmptyLine DEF FileInv

\* The file is refused with a line in it that is wrong.
LEMMA LineWrong ==
    ASSUME TypeOK, NEW F \in Seq(Line), NEW l \in Line, ~ RightEntry(Fields(l)),
           NEW G \in Seq(Line), NEW r \in Line,
           Lines' = Append(G, r), Append(G, r) = Append(F, l) \/ G = Append(F, l),
           pc' = "error"
    PROVE  FileInv'
<1>1. ~ AllRight(Append(F, l))
  BY AllRightNext
<1>2. ~ AllRight(Append(G, r))
  BY <1>1, AllRightNext
<1>3. EndInv'
  BY <1>2 DEF EndInv
<1>4. pc' \notin Reading
  BY DEF Reading
<1> QED
  BY <1>3, <1>4 DEF FileInv

\* A word that the reader takes: the line goes on.
LEMMA LineGoesOn ==
    ASSUME TypeOK, NEW F \in Seq(Line), NEW l \in Line, Lines = Append(F, l), LineInv(F, l),
           NEW x \in Words, file' = Append(file, x), table' = table,
           defaulthost' = IF First(l) = Len(l) + 1 /\ x \in Sections THEN x ELSE defaulthost,
           FieldsInv(Append(l, x))', pc' \in Reading
    PROVE  FileInv'
<1> DEFINE r == Append(l, x)
<1>1. IsFirst(l, First(l)) /\ r \in Line /\ IsFirst(r, First(r))
  BY LineNext DEF LineInv
<1>2. Lines' = Append(F, r)
  BY LinesNext DEF Lexemes
<1>3. SaidInv(F, r)'
  <2>1. PICK s \in Sections : Said(F) = [section |-> s, table |-> table]
                              /\ defaulthost = SectionIn(s, l)
    BY DEF LineInv, SaidInv
  <2>2. SectionIn(s, r) = IF First(l) = Len(l) + 1 /\ x \in Sections THEN x ELSE SectionIn(s, l)
    BY <1>1, SectionNext
  <2>3. SectionIn(s, r) = defaulthost'
    BY <2>1, <2>2
  <2> HIDE DEF r
  <2> QED
    BY <2>1, <2>3 DEF SaidInv
<1> HIDE DEF r
<1>4. LineInv(F, r)'
  BY <1>1, <1>3 DEF LineInv, r
<1>5. EndInv'
  BY DEF EndInv, Reading
<1> QED
  BY <1>1, <1>2, <1>4, <1>5 DEF FileInv

LEMMA StepFile == TypeOK /\ FileInv /\ [Next]_vars => FileInv'
<1> SUFFICES ASSUME TypeOK, FileInv, [Next]_vars PROVE FileInv'
  OBVIOUS
<1>1. PICK F \in Seq(Line), l \in Line :
        Lines = Append(F, l) /\ (pc \in Reading => LineInv(F, l))
  BY DEF FileInv
<1>2. CASE Blank
  <2>1. PICK x \in {Continuation, Comment} : Scan(x)
    BY <1>2 DEF Blank
  <2>2. Lines' = Lines
    BY <1>1, <2>1, LinesNext DEF Scan, Lexemes
  <2>3. UNCHANGED <<pc, defaulthost, cdata, argslen, table>>
    BY <1>2 DEF Blank
  <2>4. LineInv(F, l) => LineInv(F, l)'
    BY <2>3 DEF LineInv, SaidInv, FieldsInv
  <2>5. EndInv'
    BY <2>2, <2>3 DEF FileInv, EndInv
  <2> QED
    BY <1>1, <2>2, <2>3, <2>4, <2>5 DEF FileInv
<1>3. CASE skipNewlines
  <2>1. LineInv(F, l) /\ First(l) = Len(l) + 1
    BY <1>1, <1>3 DEF skipNewlines, Reading, LineInv, FieldsInv
  <2>2. Fields(l) = <<>> /\ RightEntry(Fields(l))
    BY <2>1, NoFields
  <2> QED
    BY <1>1, <1>3, <2>1, <2>2, LineEnds DEF skipNewlines, Scan
<1>4. CASE TooShort
  <2>1. LineInv(F, l)
    BY <1>1, <1>4 DEF TooShort, Reading
  <2>2. ~ RightEntry(Fields(l))
    BY <1>4, <2>1, ShortLine DEF TooShort, LineInv
  <2> DEFINE G == Append(F, l)
  <2>3. G \in Seq(Line) /\ Lines' = Append(G, <<>>)
    BY <1>1, <1>4, LinesNext DEF TooShort, Scan, Lexemes
  <2>4. pc' = "error"
    BY <1>4 DEF TooShort, Error
  <2> QED
    BY <2>2, <2>3, <2>4, LineWrong, EmptyLine
<1>5. CASE EndOfEntry
  <2>1. LineInv(F, l)
    BY <1>1, <1>5 DEF EndOfEntry, Reading
  <2>2. Fields(l) # <<>> /\ RightEntry(Fields(l)) /\ EntryOf(Fields(l)) = cdata
    BY <1>5, <2>1, EntryRead DEF EndOfEntry, LineInv
  <2>3. table' = IF Fields(l) # <<>> /\ Mine(defaulthost)
                 THEN Append(table, EntryOf(Fields(l))) ELSE table
    BY <1>5, <2>2 DEF EndOfEntry, Kept, Mine
  <2> QED
    BY <1>1, <1>5, <2>1, <2>2, <2>3, LineEnds DEF EndOfEntry, Scan
<1>6. CASE EndOfFile
  <2>1. LineInv(F, l) /\ Lines' = Lines /\ pc \in Reading
    BY <1>1, <1>6 DEF EndOfFile, Reading, Lines
  <2>2. PICK s \in Sections : Said(F) = [section |-> s, table |-> table]
                              /\ defaulthost = SectionIn(s, l)
    BY <2>1 DEF LineInv, SaidInv
  <2>3. Said(Lines).table = IF Fields(l) # <<>> /\ Mine(defaulthost)
                            THEN Append(table, EntryOf(Fields(l))) ELSE table
    <3>1. table \in Seq(Entries)
      BY DEF TypeOK
    <3>2. Said(Append(F, l)) =
            [section |-> SectionIn(s, l),
             table |-> IF Fields(l) # <<>> /\ Mine(SectionIn(s, l))
                       THEN Append(table, EntryOf(Fields(l))) ELSE table]
      BY <2>2, <3>1, SaidNext
    <3> QED
      BY <1>1, <2>2, <3>2
  <2>4. AllRight(Lines) <=> RightEntry(Fields(l))
    BY <1>1, <2>1, AllRightNext DEF LineInv
  <2>5. CASE pc = "entry" /\ UNCHANGED table /\ Ready(Len(table))
    <3>1. Fields(l) = <<>> /\ RightEntry(Fields(l))
      BY <2>1, <2>5, NoFields DEF LineInv, FieldsInv
    <3>2. Said(Lines).table = table'
      BY <2>3, <2>5, <3>1
    <3>3. pc' = IF Len(table') > MAXCONNECTIONS THEN "error" ELSE "done"
      BY <2>5 DEF Ready
    <3>4. Len(table') \in Nat /\ MAXCONNECTIONS \in Nat
      BY <2>5, FileAssumption DEF TypeOK
    <3>5. EndInv' /\ pc' \notin Reading
      BY <2>1, <2>4, <3>1, <3>2, <3>3, <3>4 DEF EndInv, Reading
    <3> QED
      BY <1>1, <2>1, <3>5 DEF FileInv
  <2>6. CASE pc = "arg" /\ Kept /\ Ready(Len(table'))
    <3>1. Fields(l) # <<>> /\ RightEntry(Fields(l)) /\ EntryOf(Fields(l)) = cdata
      BY <2>1, <2>6, EntryRead DEF LineInv
    <3>2. Said(Lines).table = table'
      BY <2>3, <2>6, <3>1 DEF Kept, Mine
    <3>3. pc' = IF Len(table') > MAXCONNECTIONS THEN "error" ELSE "done"
      BY <2>6 DEF Ready
    <3>4. Len(table') \in Nat /\ MAXCONNECTIONS \in Nat
      BY <2>6, KeptType, FileAssumption DEF TypeOK
    <3>5. EndInv' /\ pc' \notin Reading
      BY <2>1, <2>4, <3>1, <3>2, <3>3, <3>4 DEF EndInv, Reading
    <3> QED
      BY <1>1, <2>1, <3>5 DEF FileInv
  <2>7. CASE pc \in {"class", "prog"} /\ pc' = "error" /\ UNCHANGED table
    <3>1. ~ RightEntry(Fields(l))
      BY <2>1, <2>7, ShortLine DEF LineInv
    <3> QED
      BY <1>1, <2>1, <2>7, <3>1, LineWrong
  <2> QED
    BY <1>6, <2>5, <2>6, <2>7 DEF EndOfFile
<1>7. ASSUME NEW x \in Words, Section(x) PROVE FileInv'
  <2>1. LineInv(F, l) /\ First(l) = Len(l) + 1 /\ IsFirst(l, First(l))
    BY <1>1, <1>7 DEF Section, Reading, LineInv, FieldsInv
  <2>2. FieldsInv(Append(l, x))'
    <3>1. First(Append(l, x)) = Len(Append(l, x)) + 1
      BY <1>7, <2>1, LineNext DEF Section
    <3> QED
      BY <1>7, <3>1 DEF Section, FieldsInv
  <2> QED
    BY <1>1, <1>7, <2>1, <2>2, LineGoesOn DEF Section, Scan, Reading
<1>8. ASSUME NEW x \in Words, Connection(x) PROVE FileInv'
  <2>1. LineInv(F, l) /\ First(l) = Len(l) + 1 /\ IsFirst(l, First(l))
    BY <1>1, <1>8 DEF Connection, Reading, LineInv, FieldsInv
  <2>2. FieldsInv(Append(l, x))'
    <3>1. /\ First(Append(l, x)) <= Len(Append(l, x)) /\ Fields(Append(l, x)) = <<x>>
      BY <1>8, <2>1, LineNext DEF Connection
    <3>2. cdata'.conname = x /\ cdata'.progargs = <<>> /\ pc' = "class"
      BY <1>8, NoEntryType DEF Connection, NoEntry
    <3> QED
      BY <3>1, <3>2 DEF FieldsInv
  <2> QED
    BY <1>1, <1>8, <2>1, <2>2, LineGoesOn DEF Connection, Scan, Reading
<1>9. ASSUME NEW x \in Words, pc \in {"class", "prog", "arg"}, Scan(x)
      PROVE  /\ LineInv(F, l) /\ First(l) <= Len(l) /\ First(l) # Len(l) + 1
             /\ Append(l, x) \in Line /\ Lines' = Append(F, Append(l, x))
             /\ First(Append(l, x)) <= Len(Append(l, x))
             /\ Fields(l) \in Line /\ Len(Fields(l)) \in Nat
             /\ Fields(Append(l, x)) = Append(Fields(l), x)
             /\ Len(Fields(Append(l, x))) = Len(Fields(l)) + 1
             /\ Fields(Append(l, x))[Len(Fields(l)) + 1] = x
             /\ \A k \in 1..Len(Fields(l)) : Fields(Append(l, x))[k] = Fields(l)[k]
  <2>1. LineInv(F, l) /\ First(l) <= Len(l) /\ IsFirst(l, First(l))
    BY <1>1, <1>9 DEF Reading, LineInv, FieldsInv
  <2>2. /\ First(Append(l, x)) = First(l) /\ Fields(l) \in Line /\ Append(l, x) \in Line
        /\ Fields(Append(l, x)) = Append(Fields(l), x)
        /\ Len(Append(l, x)) = Len(l) + 1 /\ First(l) \in 1..Len(l) + 1 /\ Len(l) \in Nat
    BY <2>1, LineNext
  <2>3. First(Append(l, x)) <= Len(Append(l, x)) /\ First(l) # Len(l) + 1
    BY <2>1, <2>2
  <2>4. Lines' = Append(F, Append(l, x))
    BY <1>1, <1>9, LinesNext DEF Scan, Lexemes
  <2>5. /\ Len(Fields(l)) \in Nat /\ Len(Append(Fields(l), x)) = Len(Fields(l)) + 1
        /\ Append(Fields(l), x)[Len(Fields(l)) + 1] = x
        /\ \A k \in 1..Len(Fields(l)) : Append(Fields(l), x)[k] = Fields(l)[k]
    BY <2>2, AppendProperties, LenProperties DEF Line
  <2> QED
    BY <2>1, <2>2, <2>3, <2>4, <2>5
<1>10. ASSUME NEW x \in Words, Class(x) PROVE FileInv'
  <2>1. pc = "class" /\ Scan(x) /\ pc' = "prog"
    BY <1>10 DEF Class
  <2>2. Len(Fields(l)) = 1 /\ Fields(l)[1] = cdata.conname /\ cdata.progargs = <<>>
    BY <1>9, <2>1 DEF LineInv, FieldsInv
  <2>3. cdata'.conname = cdata.conname /\ cdata'.conclass = x /\ cdata'.progargs = cdata.progargs
    BY <1>10 DEF Class, TypeOK, Entries
  <2>4. /\ Len(Fields(Append(l, x))) = 2 /\ Fields(Append(l, x))[2] = x
        /\ Fields(Append(l, x))[1] = cdata.conname
    BY <1>9, <2>1, <2>2
  <2>5. FieldsInv(Append(l, x))'
    BY <1>9, <2>1, <2>2, <2>3, <2>4 DEF FieldsInv
  <2> QED
    BY <1>1, <1>9, <1>10, <2>1, <2>5, LineGoesOn DEF Class, Scan, Reading
<1>11. ASSUME NEW x \in Words, Program(x) PROVE FileInv'
  <2> DEFINE g == Fields(Append(l, x))
  <2>1. pc = "prog" /\ Scan(x)
    BY <1>11 DEF Program
  <2>2. /\ Len(Fields(l)) = 2 /\ Fields(l)[1] = cdata.conname /\ Fields(l)[2] = cdata.conclass
        /\ cdata.progargs = <<>>
    BY <1>9, <2>1 DEF LineInv, FieldsInv
  <2>3. /\ Len(g) = 3 /\ g[3] = x /\ g[1] = cdata.conname /\ g[2] = cdata.conclass
    BY <1>9, <2>1, <2>2
  <2> HIDE DEF g
  <2>4. g # <<>>
    <3>1. Len(<<>>) = 0
      OBVIOUS
    <3>2. Len(g) # 0
      BY <2>3
    <3> QED
      BY <3>1, <3>2, Zenon
  <2>5. CASE /\ LengthOf[cdata.conname] < MAXCONNECTIONNAME
             /\ LengthOf[cdata.conclass] < MAXCLASSNAME
    <3>1. RightEntry(g)
      <4>1. 3 \in 3..3 + MAXNUMBERARGS /\ \A j \in 4..3 : FALSE
        BY FileAssumption
      <4> QED
        BY <2>3, <2>5, <4>1 DEF RightEntry
    <3>2. /\ cdata' = [cdata EXCEPT !.conprog = x] /\ pc' = "arg"
          /\ UNCHANGED <<defaulthost, argslen, table>>
      BY <1>11, <2>5 DEF Program
    <3>3. /\ cdata'.conname = cdata.conname /\ cdata'.conclass = cdata.conclass
          /\ cdata'.conprog = x /\ cdata'.progargs = <<>>
      BY <2>2, <3>2 DEF TypeOK, Entries
    <3>4. FieldsInv(Append(l, x))'
      <4>1. Len(<<>>) = 0 /\ \A j \in 1..0 : FALSE
        OBVIOUS
      <4>2. First(Append(l, x)) <= Len(Append(l, x))
        BY <1>9, <2>1
      <4> QED
        BY <2>3, <3>1, <3>2, <3>3, <4>1, <4>2 DEF FieldsInv, g
    <3> QED
      BY <1>1, <1>9, <2>1, <3>2, <3>4, LineGoesOn DEF Scan, Reading
  <2>6. CASE ~ /\ LengthOf[cdata.conname] < MAXCONNECTIONNAME
               /\ LengthOf[cdata.conclass] < MAXCLASSNAME
    <3>1. ~ RightEntry(g)
      BY <2>3, <2>4, <2>6 DEF RightEntry
    <3>2. pc' = "error"
      BY <1>11, <2>6 DEF Program, Error
    <3> DEFINE r == Append(l, x)
    <3>3. r \in Line /\ Lines' = Append(F, r) /\ ~ RightEntry(Fields(r))
      BY <1>9, <2>1, <3>1 DEF g
    <3> HIDE DEF r
    <3> QED
      BY <3>2, <3>3, LineWrong
  <2> QED
    BY <2>5, <2>6
<1>12. ASSUME NEW x \in Words, Argument(x) PROVE FileInv'
  <2> DEFINE g == Fields(Append(l, x))
             args == cdata.progargs
             m == Len(args)
  <2>1. pc = "arg" /\ Scan(x)
    BY <1>12 DEF Argument
  <2>2. /\ args \in Seq(Words) /\ m \in Nat
    BY DEF TypeOK, Entries
  <2>3. /\ Len(Fields(l)) = 3 + m /\ Fields(l)[1] = cdata.conname
        /\ Fields(l)[2] = cdata.conclass /\ Fields(l)[3] = cdata.conprog
        /\ \A j \in 1..m : Fields(l)[3 + j] = args[j]
        /\ RightEntry(Fields(l))
    BY <1>9, <2>1 DEF LineInv, FieldsInv
  <2>4. /\ Len(g) = 4 + m /\ g[4 + m] = x
        /\ \A k \in 1..3 + m : g[k] = Fields(l)[k]
    <3>1. 3 + m + 1 = 4 + m
      BY <2>2
    <3> QED
      BY <1>9, <2>1, <2>2, <2>3, <3>1
  <2>5. g # <<>>
    BY <2>2, <2>4
  <2> HIDE DEF g, m
  <2>6. CASE m < MAXNUMBERARGS /\ LengthOf[x] < MAXARGLENGTH
    <3>1. RightEntry(g)
      <4>1. /\ LengthOf[Fields(l)[1]] < MAXCONNECTIONNAME
            /\ LengthOf[Fields(l)[2]] < MAXCLASSNAME
            /\ \A j \in 4..3 + m : LengthOf[Fields(l)[j]] < MAXARGLENGTH
        <5>1. Fields(l) # <<>>
          BY <2>2, <2>3
        <5> QED
          BY <2>3, <5>1 DEF RightEntry
      <4>2. 1 \in 1..3 + m /\ 2 \in 1..3 + m
        BY <2>2
      <4>3. 4 + m \in 3..3 + MAXNUMBERARGS
        BY <2>2, <2>6, FileAssumption
      <4>4. ASSUME NEW j \in 4..4 + m PROVE LengthOf[g[j]] < MAXARGLENGTH
        <5>1. j = 4 + m \/ (j \in 4..3 + m /\ j \in 1..3 + m)
          BY <2>2
        <5> QED
          BY <2>4, <2>6, <4>1, <5>1
      <4>5. LengthOf[g[1]] < MAXCONNECTIONNAME /\ LengthOf[g[2]] < MAXCLASSNAME
        BY <2>4, <4>1, <4>2
      <4> QED
        BY <2>4, <4>3, <4>4, <4>5 DEF RightEntry
    <3>2. /\ cdata' = [cdata EXCEPT !.progargs = Append(@, x)]
          /\ UNCHANGED <<pc, defaulthost, table>>
      BY <1>12, <2>6 DEF Argument, m
    <3> DEFINE brgs == cdata'.progargs
    <3>3. /\ cdata'.conname = cdata.conname /\ cdata'.conclass = cdata.conclass
          /\ cdata'.conprog = cdata.conprog /\ brgs = Append(args, x)
      BY <3>2 DEF TypeOK, Entries
    <3>4. Len(brgs) = m + 1 /\ brgs[m + 1] = x /\ \A j \in 1..m : brgs[j] = args[j]
      BY <2>2, <3>3, AppendProperties DEF m
    <3>5. FieldsInv(Append(l, x))'
      <4>1. Len(g) = 3 + Len(brgs)
        BY <2>2, <2>4, <3>4
      <4>2. g[1] = cdata.conname /\ g[2] = cdata.conclass /\ g[3] = cdata.conprog
        <5>1. 1 \in 1..3 + m /\ 2 \in 1..3 + m /\ 3 \in 1..3 + m
          BY <2>2
        <5> QED
          BY <2>3, <2>4, <5>1
      <4>3. ASSUME NEW j \in 1..Len(brgs) PROVE g[3 + j] = brgs[j]
        <5>1. CASE j = m + 1
          <6>1. 3 + j = 4 + m
            BY <2>2, <5>1
          <6> QED
            BY <2>4, <3>4, <5>1, <6>1
        <5>2. CASE j # m + 1
          <6>1. j \in 1..m /\ 3 + j \in 1..3 + m
            BY <2>2, <3>4, <5>2
          <6> QED
            BY <2>3, <2>4, <3>4, <6>1
        <5> QED
          BY <5>1, <5>2
      <4>4. First(Append(l, x)) <= Len(Append(l, x)) /\ pc' = "arg"
        BY <1>9, <2>1, <3>2
      <4> QED
        BY <3>1, <3>3, <4>1, <4>2, <4>3, <4>4 DEF FieldsInv, g
    <3> QED
      BY <1>1, <1>9, <2>1, <3>2, <3>5, LineGoesOn DEF Scan, Reading
  <2>7. CASE ~ (m < MAXNUMBERARGS /\ LengthOf[x] < MAXARGLENGTH)
    <3>1. ~ RightEntry(g)
      <4>1. CASE ~ (m < MAXNUMBERARGS)
        <5>1. 4 + m \notin 3..3 + MAXNUMBERARGS
          BY <2>2, <4>1, FileAssumption
        <5> QED
          BY <2>4, <2>5, <5>1 DEF RightEntry
      <4>2. CASE ~ (LengthOf[x] < MAXARGLENGTH)
        <5>1. 4 + m \in 4..4 + m
          BY <2>2
        <5> QED
          BY <2>4, <2>5, <4>2, <5>1 DEF RightEntry
      <4> QED
        BY <2>7, <4>1, <4>2
    <3>2. pc' = "error"
      BY <1>12, <2>7 DEF Argument, Error, m
    <3> DEFINE r == Append(l, x)
    <3>3. r \in Line /\ Lines' = Append(F, r) /\ ~ RightEntry(Fields(r))
      BY <1>9, <2>1, <3>1 DEF g
    <3> HIDE DEF r
    <3> QED
      BY <3>2, <3>3, LineWrong
  <2> QED
    BY <2>6, <2>7
<1>13. CASE UNCHANGED vars
  <2>1. Lines' = Lines
    BY <1>13 DEF vars, Lines
  <2>2. UNCHANGED <<pc, defaulthost, cdata, table>>
    BY <1>13 DEF vars
  <2>3. LineInv(F, l) => LineInv(F, l)'
    BY <2>2 DEF LineInv, SaidInv, FieldsInv
  <2>4. EndInv'
    BY <2>1, <2>2 DEF FileInv, EndInv
  <2> QED
    BY <1>1, <2>1, <2>2, <2>3, <2>4 DEF FileInv
<1> QED
  BY <1>2, <1>3, <1>4, <1>5, <1>6, <1>7, <1>8, <1>10, <1>11, <1>12, <1>13 DEF Next

LEMMA FileMeans == TypeOK /\ FileInv => TableIsFile /\ RefusedIfWrong
<1> SUFFICES ASSUME TypeOK, FileInv PROVE TableIsFile /\ RefusedIfWrong
  OBVIOUS
<1>1. PICK F \in Seq(Line), l \in Line :
        Lines = Append(F, l) /\ (pc \in Reading => LineInv(F, l))
  BY DEF FileInv
<1>2. CASE pc = "entry"
  <2>1. LineInv(F, l) /\ First(l) = Len(l) + 1
    BY <1>1, <1>2 DEF Reading, LineInv, FieldsInv
  <2>2. Fields(l) = <<>> /\ RightEntry(Fields(l))
    BY <2>1, NoFields
  <2>3. AllRight(Lines)
    BY <1>1, <2>1, <2>2, AllRightNext DEF LineInv
  <2>4. PICK s \in Sections : Said(F) = [section |-> s, table |-> table]
    BY <2>1 DEF LineInv, SaidInv
  <2>5. Said(Lines) = [section |-> SectionIn(s, l), table |-> table]
    <3>1. table \in Seq(Entries)
      BY DEF TypeOK
    <3>2. Said(Append(F, l)) =
            [section |-> SectionIn(s, l),
             table |-> IF Fields(l) # <<>> /\ Mine(SectionIn(s, l))
                       THEN Append(table, EntryOf(Fields(l))) ELSE table]
      BY <2>4, <3>1, SaidNext
    <3> QED
      BY <1>1, <2>2, <3>2
  <2> QED
    BY <1>2, <2>3, <2>5 DEF TableIsFile, RefusedIfWrong, AllRight, Meaning
<1> QED
  BY <1>2 DEF FileInv, EndInv, TableIsFile, RefusedIfWrong, AllRight, Meaning

\* Wherever lines are continued, comments and empty lines stand and sections change: the
\* table is what the file says by its lines for this host, in the file's order.
THEOREM TableIsFileAlways == Spec => []TableIsFile
<1>1. TypeOK /\ FileInv /\ [Next]_vars => (TypeOK /\ FileInv)'
  BY StepType, StepFile
<1>2. Init => TypeOK /\ FileInv
  BY InitType, InitFile
<1> QED
  BY <1>1, <1>2, FileMeans, PTL DEF Spec

\* A file is refused exactly if one of its lines is wrong, or if it has more than
\* MAXCONNECTIONS connections for this host.
THEOREM RefusedIfWrongAlways == Spec => []RefusedIfWrong
<1>1. TypeOK /\ FileInv /\ [Next]_vars => (TypeOK /\ FileInv)'
  BY StepType, StepFile
<1>2. Init => TypeOK /\ FileInv
  BY InitType, InitFile
<1> QED
  BY <1>1, <1>2, FileMeans, PTL DEF Spec
=============================================================================

----------------------------- MODULE ConfigFile -----------------------------
(* readConfigurationFile and makeEntry, from the lexemes of the scanner to   *)
(* the table.  A file is read as it is written: each step takes the next     *)
(* lexeme, which may be any.                                                 *)
EXTENDS Integers, Sequences, FiniteSets, Steps

CONSTANTS
    Words,              \* strings without blanks or newlines
    LengthOf,           \* their lengths
    Sections,           \* those that end in ":"
    EverySection,       \* ":" itself
    CanonicalName,      \* gethostbyname of what stands before the ":", as a
                        \* sequence of characters; empty for an unknown name
    MyName,             \* that of the machine
    MAXNUMBERARGS, MAXARGLENGTH, MAXCONNECTIONNAME, MAXCLASSNAME,
    MAXCONNECTIONS,
    MaxFile, MaxBlank   \* bounds on the lexemes of a file, and on those that are
                        \* comments or continued lines

ASSUME FileAssumption ==
    /\ LengthOf \in [Words -> Nat \ {0}]
    /\ Sections \subseteq Words /\ EverySection \in Sections
    /\ CanonicalName \in [Sections \ {EverySection} -> Seq(STRING)]
    /\ MyName \in Seq(STRING)
    /\ \A n \in {MAXNUMBERARGS, MAXARGLENGTH, MAXCONNECTIONNAME, MAXCLASSNAME} :
         n \in Nat \ {0}
    /\ MAXCONNECTIONS \in Nat /\ MaxFile \in Nat /\ MaxBlank \in Nat

\* The scanner's rules: blanks are implicit; "\\" is a backslash that stands alone at
\* the end of a line, with the newline; "#" a comment, up to its newline.
Newline == "\n"
Continuation == "\\"
Comment == "#"
Lexemes == Words \union {Newline, Continuation, Comment}
ASSUME LexemeAssumption == {Newline, Continuation, Comment} \cap Words = {}

VARIABLES
    file,         \* what was read
    pc,           \* what makeEntry reads next: "entry", "class", "prog", "arg"; or
                  \* "done", "error": exit(1)
    defaulthost,  \* the section, EverySection for NULL
    cdata,        \* the entry that is being read
    argslen,      \* strlen of its argsline
    table         \* the list

vars == <<file, pc, defaulthost, cdata, argslen, table>>

NoEntry == [conname |-> EverySection, conclass |-> EverySection,
            conprog |-> EverySection, progargs |-> <<>>]
Entries == [conname : Words, conclass : Words, conprog : Words, progargs : Seq(Words)]

TypeOK ==
    /\ file \in Seq(Lexemes)
    /\ pc \in {"entry", "class", "prog", "arg", "done", "error"}
    /\ defaulthost \in Sections
    /\ cdata \in Entries /\ Len(cdata.progargs) <= MAXNUMBERARGS
    /\ argslen \in Nat
    /\ table \in Seq(Entries)

Init == /\ file = <<>> /\ pc = "entry"
        /\ defaulthost = EverySection
        /\ cdata = NoEntry /\ argslen = 0
        /\ table = <<>>

-----------------------------------------------------------------------------
(* The scanner                                                               *)

\* Nothing but a newline follows a comment.
Scan(x) == /\ pc \in {"entry", "class", "prog", "arg"}
           /\ Len(file) < MaxFile
           /\ file # <<>> /\ Last(file) = Comment => x = Newline
           /\ file' = Append(file, x)

Blank == /\ Cardinality({p \in DOMAIN file : file[p] \in {Continuation, Comment}}) < MaxBlank
         /\ \E x \in {Continuation, Comment} : Scan(x)
         /\ UNCHANGED <<pc, defaulthost, cdata, argslen, table>>

Error == pc' = "error" /\ UNCHANGED <<defaulthost, cdata, argslen, table>>

-----------------------------------------------------------------------------
(* makeEntry                                                                 *)

skipNewlines == /\ pc = "entry" /\ Scan(Newline)
                /\ UNCHANGED <<pc, defaulthost, cdata, argslen, table>>

Section(x) == /\ pc = "entry" /\ x \in Sections /\ Scan(x)
              /\ defaulthost' = x
              /\ UNCHANGED <<pc, cdata, argslen, table>>

Connection(x) == /\ pc = "entry" /\ x \in Words \ Sections /\ Scan(x)
                 /\ cdata' = [NoEntry EXCEPT !.conname = x]
                 /\ argslen' = 0
                 /\ pc' = "class"
                 /\ UNCHANGED <<defaulthost, table>>

Class(x) == /\ pc = "class" /\ x \in Words /\ Scan(x)
            /\ cdata' = [cdata EXCEPT !.conclass = x]
            /\ pc' = "prog"
            /\ UNCHANGED <<defaulthost, argslen, table>>

\* The lengths are looked at when the third word is there.
Program(x) ==
    /\ pc = "prog" /\ x \in Words /\ Scan(x)
    /\ IF LengthOf[cdata.conname] < MAXCONNECTIONNAME
          /\ LengthOf[cdata.conclass] < MAXCLASSNAME
       THEN /\ cdata' = [cdata EXCEPT !.conprog = x]
            /\ pc' = "arg"
            /\ UNCHANGED <<defaulthost, argslen, table>>
       ELSE Error

\* Mutant: an argument may have MAXARGLENGTH characters.
ArgumentLonger(x) ==
    /\ pc = "arg" /\ x \in Words /\ Scan(x)
    /\ IF Len(cdata.progargs) < MAXNUMBERARGS /\ LengthOf[x] <= MAXARGLENGTH
       THEN /\ cdata' = [cdata EXCEPT !.progargs = Append(@, x)]
            /\ argslen' = argslen + LengthOf[x] + IF cdata.progargs = <<>> THEN 0 ELSE 1
            /\ UNCHANGED <<pc, defaulthost, table>>
       ELSE Error

\* Mutant: one argument too many is kept.
ArgumentMore(x) ==
    /\ pc = "arg" /\ x \in Words /\ Scan(x)
    /\ IF Len(cdata.progargs) <= MAXNUMBERARGS /\ LengthOf[x] < MAXARGLENGTH
       THEN /\ cdata' = [cdata EXCEPT !.progargs = Append(@, x)]
            /\ argslen' = argslen + LengthOf[x] + IF cdata.progargs = <<>> THEN 0 ELSE 1
            /\ UNCHANGED <<pc, defaulthost, table>>
       ELSE Error

\* strcat to argsline, with a blank in between.  The argument that is one too many is
\* the token that should have been a newline.
Argument(x) ==
    /\ pc = "arg" /\ x \in Words /\ Scan(x)
    /\ IF Len(cdata.progargs) < MAXNUMBERARGS /\ LengthOf[x] < MAXARGLENGTH
       THEN /\ cdata' = [cdata EXCEPT !.progargs = Append(@, x)]
            /\ argslen' = argslen + LengthOf[x] + IF cdata.progargs = <<>> THEN 0 ELSE 1
            /\ UNCHANGED <<pc, defaulthost, table>>
       ELSE Error

\* matchtoken finds the end of the line.
TooShort == /\ pc \in {"class", "prog"} /\ Scan(Newline)
            /\ Error

\* The length that strncmp compares is the section's.
ismyname(x) == /\ CanonicalName[x] # <<>>
               /\ IsPrefix(CanonicalName[x], MyName)

\* Mutant: an entry is kept wherever it stands.
KeptAll == table' = Append(table, cdata)

Kept == table' = IF defaulthost = EverySection \/ ismyname(defaulthost)
                 THEN Append(table, cdata) ELSE table

EndOfEntry == /\ pc = "arg" /\ Scan(Newline)
              /\ Kept
              /\ pc' = "entry"
              /\ UNCHANGED <<defaulthost, cdata, argslen>>

\* Mutant: one connection too many is let through.
ReadyLate(n) == pc' = IF n > MAXCONNECTIONS + 1 THEN "error" ELSE "done"

\* readConfigurationFile counts at the end.
Ready(n) == pc' = IF n > MAXCONNECTIONS THEN "error" ELSE "done"

EndOfFile ==
    /\ \/ pc = "entry" /\ UNCHANGED table /\ Ready(Len(table))
       \/ pc = "arg" /\ Kept /\ Ready(Len(table'))
       \/ pc \in {"class", "prog"} /\ pc' = "error" /\ UNCHANGED table
    /\ UNCHANGED <<file, defaulthost, cdata, argslen>>

Next == \/ Blank \/ skipNewlines \/ TooShort \/ EndOfEntry \/ EndOfFile
        \/ \E x \in Words : \/ Section(x) \/ Connection(x) \/ Class(x)
                            \/ Program(x) \/ Argument(x)

Spec == Init /\ [][Next]_vars

-----------------------------------------------------------------------------
(* What a configuration file says, by lines: continued lines are joined,     *)
(* comments and empty lines are not there, and every other line is a         *)
(* connection, after any number of sections.                                 *)

\* A newline begins a line, a word goes to the last one.
AddLexeme == [a \in Seq(Seq(Words)) \X Lexemes |->
    LET L == a[1]
        x == a[2]
    IN  CASE x = Newline -> Append(L, <<>>)
          [] x \in Words -> Append(Front(L), Append(Last(L), x))
          [] OTHER -> L]
Lines == Steps(AddLexeme, << <<>> >>, file)

\* Where the connection of a line begins; after the sections.
IsFirst(line, m) == /\ m \in 1..Len(line) + 1
                    /\ \A q \in 1..m - 1 : line[q] \in Sections
                    /\ m <= Len(line) => line[m] \notin Sections
First(line) == CHOOSE m \in 1..Len(line) + 1 : IsFirst(line, m)
Fields(line) == SubSeq(line, First(line), Len(line))

RightEntry(f) == f = <<>> \/
    /\ Len(f) \in 3..3 + MAXNUMBERARGS
    /\ LengthOf[f[1]] < MAXCONNECTIONNAME /\ LengthOf[f[2]] < MAXCLASSNAME
    /\ \A j \in 4..Len(f) : LengthOf[f[j]] < MAXARGLENGTH

EntryOf(f) == [conname |-> f[1], conclass |-> f[2], conprog |-> f[3],
               progargs |-> SubSeq(f, 4, Len(f))]

\* The section of a connection is the last one before it, in s if its line has none.
SectionIn(s, line) == IF First(line) = 1 THEN s ELSE line[First(line) - 1]
Mine(s) == s = EverySection \/ ismyname(s)
AddLine == [a \in [section : Sections, table : Seq(Entries)] \X Seq(Words) |->
    LET s == SectionIn(a[1].section, a[2])
        f == Fields(a[2])
    IN  [section |-> s,
         table |-> IF f # <<>> /\ Mine(s) THEN Append(a[1].table, EntryOf(f))
                   ELSE a[1].table]]
Said(L) == Steps(AddLine, [section |-> EverySection, table |-> <<>>], L)

Meaning == Said(Lines).table

-----------------------------------------------------------------------------
(* Properties                                                                *)

\* Wherever lines are continued, comments stand and sections change, the table is
\* the connections that the file has for this host, each once, in the file's order.
TableIsFile == pc \in {"entry", "done"} => table = Meaning

\* A file is refused exactly if a connection in it has too few or too many words, a word that
\* is too long (also in a section of another host), or if they are too many.
RefusedIfWrong ==
    LET Right == \A k \in DOMAIN Lines : RightEntry(Fields(Lines[k]))
    IN  /\ pc \in {"entry", "done"} => Right
        /\ pc = "done" => Len(table) <= MAXCONNECTIONS
        /\ pc = "error" => ~ Right \/ Len(Meaning) > MAXCONNECTIONS

\* As many arguments as there may be, of whatever length they may have, fit into
\* argsline with the blanks between them and the NUL.
ArgslineFits == argslen + 1 <= MAXNUMBERARGS * MAXARGLENGTH
=============================================================================

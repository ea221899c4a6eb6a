---------------------------- MODULE ConsoleToLine ----------------------------
(* xinu-console and tty-connect at the two ends of a connection: from what    *)
(* the user types to what the serial line is sent.                           *)
EXTENDS ConsoleSession, TTYConnect, Steps

vars == <<session, ttyconnect, wire>>

Init == SessionInit /\ TTYInit /\ WireInit

Next == \/ SessionStep /\ UNCHANGED ttyconnect
        \/ TTYStep /\ UNCHANGED session

Spec == Init /\ [][Next]_vars

TypeOK == WireTypes /\ SessionTypes /\ TTYTypes

-----------------------------------------------------------------------------
(* What a session's characters mean, with no reads, buffers, writes or       *)
(* programs: text is sent, a command is not, and b sends a break, as the     *)
(* help of command mode says.  A program that command mode runs ends well or *)
(* not: then the session or command mode goes on.  For q the code is         *)
(* followed against the help and the manual ("quit"): the session goes on    *)
(* when q's program ends well and is over when it does not.                  *)

\* What has been understood: how the next character is taken, the text, where in it the
\* breaks are, and which outcome comes next.
Readings == [mode : {"text", "command", "running", "over"},
             text : Seq(Chars), breaks : Seq(Nat), k : Nat \ {0}]
Unread == [mode |-> "text", text |-> <<>>, breaks |-> <<>>, k |-> 1]

Sends(m, key) == [m EXCEPT !.text = @ \o IF cook /\ key = "\n" THEN <<"\r", key>> ELSE <<key>>]
Breaks(m) == [m EXCEPT !.breaks = Append(@, Len(m.text)), !.mode = "text"]
Ran(m, key, ends) == IF m.k > Len(ends) THEN [m EXCEPT !.mode = "running"]
                     ELSE [m EXCEPT !.k = @ + 1,
                                    !.mode = IF ends[m.k] THEN "text"
                                             ELSE IF key = "q" THEN "over"
                                             ELSE "command"]

Understood(m, key, ends) ==
  CASE m.mode = "text" /\ key # ESC_CHARACTER -> Sends(m, key)
    [] m.mode = "text" /\ key = ESC_CHARACTER -> [m EXCEPT !.mode = "command"]
    [] m.mode = "command" /\ key = "b" -> Breaks(m)
    [] m.mode = "command" /\ key = "c" -> [m EXCEPT !.mode = "text"]
    [] m.mode = "command" /\ key = "x" -> [m EXCEPT !.mode = "over"]
    [] m.mode = "command" /\ key \in PowerCommands \union {"d"} -> Ran(m, key, ends)
    [] OTHER -> m

\* Of the characters s, if the programs end as ends says.
MeaningOf(s, ends) ==
  Steps([a \in Readings \X Keys |-> Understood(a[1], a[2], ends)], Unread, s)

Meaning == MeaningOf(typed, outcomes)

\* Nothing has gone wrong that nobody was told of: the connection did not fail between
\* the two characters of a break, and no write to the line was short in a stream with a
\* cooked newline.  After a cooked newline nothing is promised of what follows a short
\* write: \r is put without a look at the result, and the count hides what was lost.
Sound == torn # "break" /\ ~ (lost /\ Cooked)

\* The line has n characters of a text and then once more some of those that were in
\* PutChar's buffer, which began behind the k-th: a short write sent n - k of them, and
\* the next flush began with the first of them again.
SentAgain(text) ==
    \E k \in 0..Len(text) : \E n \in k..k + PC_LEN - 1, m \in 1..PC_LEN :
      /\ n <= Len(text) /\ k + m <= Len(text)
      /\ line = SubSeq(text, 1, n) \o SubSeq(text, k + 1, k + m)

-----------------------------------------------------------------------------
(* Properties                                                                *)

\* However reads cut the stream, wherever it breaks off, and whatever programs were run
\* from command mode: the line is sent what the user typed, no command, in order and with
\* nothing left out.  Nothing is sent twice while tty-connect goes on; one that a short
\* write has ended may have sent a part of PutChar's buffer again as its last words.
TextInOrder ==
    LET text == Meaning.text
    IN  Sound => \/ IsPrefix(line, text)
                 \/ lost /\ tpc = "ended" /\ SentAgain(text)

\* When both ends have read what there was, all of it is there, with the
\* breaks; also when x has just ended the session.
AllArrives ==
    LET m == Meaning
    IN  /\ Sound /\ tpc = "select" /\ net = <<>>
        /\ pc = "select" \/ (pc = "ended" /\ torn = "no" /\ m.mode = "over")
        => line = m.text /\ Len(breaks) = Len(m.breaks)

\* A break is not ordered with the characters in PutChar's buffer: it may overtake those,
\* up to PC_LEN, but no other; no character overtakes a break.
BreaksInPlace ==
    LET m == Meaning
    IN  Sound => \A i \in DOMAIN breaks :
                   /\ i \in DOMAIN m.breaks
                   /\ breaks[i] \in m.breaks[i] - PC_LEN .. m.breaks[i]

\* Whenever somebody else has the terminal (a program, the shell, or whoever
\* comes after the session) it has the modes that it had before.
TerminalIsRestored ==
    pc \in {"file", "wait", "stopped", "ended", "killed"} => tty = "user"

\* A session that is not suspended has its alarm set, whatever it did before:
\* without it nobody touches the connection and it may be stolen.
KeepsAlive == pc \in {"select", "flush", "command", "wait"} => alarmed

\* SIGALRM never finds the default action, which would end the session with the
\* terminal in whatever mode it is.
AlarmIsHandled == alarmed => sigs = "ignore"
=============================================================================

----------------------------- MODULE TTYConnect -----------------------------
(* tty-connect: connectto's loop and flushdata, from the connection to the   *)
(* serial line.  A backslash in the stream begins an escape: \b is a break,  *)
(* \c any other character c.                                                 *)
EXTENDS Wire

CONSTANTS
    MY_BUFSIZE,   \* the most characters that one read returns
    PC_LEN,       \* the size of PutChar's buffer
    cook,         \* option -c
    LineFaults    \* whether a write to the line, which is O_NONBLOCK, may be
                  \* short or fail, and the line may go away

ASSUME TTYAssumption == /\ MY_BUFSIZE \in Nat \ {0} /\ PC_LEN \in Nat \ {0}
                        /\ cook \in BOOLEAN /\ LineFaults \in BOOLEAN
                        /\ {"\r", "\n"} \subseteq Chars

VARIABLES
    tpc,      \* "select", "loop" (flushdata's loop), "put" (the loop, once \r
              \* has been put before \n), "end" (PutChar failed), "ended"
    tbuf,     \* what is left of the characters of the last read
    rlen,     \* how many there were
    esc,      \* the static variable of flushdata: a backslash came last
    e,        \* characters of this read that are part of an escape
    pc_buf,   \* PutChar's buffer, pc_len characters
    pc_rv,    \* characters put and not known to be lost
    line,     \* history: the characters that the line was sent
    breaks,   \* history: for each break, how many characters came before it
    want,     \* history: the characters that PutChar was called with
    lost      \* history: a write to the line was short

ttyconnect == <<tpc, tbuf, rlen, esc, e, pc_buf, pc_rv, line, breaks, want, lost>>

TTYTypes ==
    /\ tpc \in {"select", "loop", "put", "end", "ended"}
    /\ tbuf \in Seq(Chars) /\ pc_buf \in Seq(Chars) /\ Len(pc_buf) <= PC_LEN
    /\ rlen \in 0..MY_BUFSIZE
    /\ esc \in BOOLEAN
    /\ e \in Nat /\ pc_rv \in Int
    /\ line \in Seq(Chars) /\ want \in Seq(Chars) /\ breaks \in Seq(Nat)
    /\ lost \in BOOLEAN

TTYInit == /\ tpc = "select" /\ tbuf = <<>> /\ rlen = 0
           /\ esc = FALSE /\ e = 0
           /\ pc_buf = <<>> /\ pc_rv = 0
           /\ line = <<>> /\ breaks = <<>> /\ want = <<>> /\ lost = FALSE

-----------------------------------------------------------------------------
(* PutChar                                                                   *)

\* PutCharFlush writes the buffer ...
Flushed == /\ line' = line \o pc_buf
           /\ pc_buf' = <<>>
           /\ UNCHANGED <<pc_rv, lost>>

\* Mutant: a short write counts as a whole one.
FlushIgnored == /\ LineFaults /\ pc_buf # <<>>
                /\ \E w \in 0..Len(pc_buf) - 1 :
                     line' = line \o SubSeq(pc_buf, 1, w)
                /\ lost' = TRUE
                /\ UNCHANGED <<pc_buf, pc_rv>>

\* ... or a part of it, and keeps it all.
FlushFails == /\ LineFaults /\ pc_buf # <<>>
              /\ \E w \in 0..Len(pc_buf) - 1 :
                   /\ line' = line \o SubSeq(pc_buf, 1, w)
                   /\ pc_rv' = pc_rv - (Len(pc_buf) - w)
              /\ lost' = TRUE
              /\ UNCHANGED pc_buf

\* Mutant: the buffer is flushed one character too late.
PutCharLate(c) == /\ pc_rv' = pc_rv + 1 /\ UNCHANGED lost
                  /\ \/ /\ Len(pc_buf) <= PC_LEN
                        /\ pc_buf' = Append(pc_buf, c)
                        /\ UNCHANGED line
                     \/ /\ Len(pc_buf) > PC_LEN
                        /\ line' = line \o pc_buf
                        /\ pc_buf' = <<c>>

\* Into the buffer, which is flushed first when it is full.
PutChar(c) == /\ pc_rv' = pc_rv + 1 /\ UNCHANGED lost
              /\ \/ /\ Len(pc_buf) < PC_LEN
                    /\ pc_buf' = Append(pc_buf, c)
                    /\ UNCHANGED line
                 \/ /\ Len(pc_buf) = PC_LEN
                    /\ line' = line \o pc_buf
                    /\ pc_buf' = <<c>>
PutCharFails == Len(pc_buf) = PC_LEN /\ FlushFails

-----------------------------------------------------------------------------
(* connectto                                                                 *)

\* select, and read: PutCharStart.
Read == /\ tpc = "select" /\ net # <<>>
        /\ \E n \in 1..MY_BUFSIZE :
             /\ n <= Len(net)
             /\ tbuf' = SubSeq(net, 1, n) /\ rlen' = n
             /\ net' = SubSeq(net, n + 1, Len(net))
        /\ e' = 0 /\ pc_buf' = <<>> /\ pc_rv' = 0
        /\ tpc' = "loop"
        /\ UNCHANGED <<esc, line, breaks, want, lost, clientUp, serverUp>>

\* exit: quit.
Quit == /\ tpc' = "ended" /\ serverUp' = FALSE
        /\ UNCHANGED <<net, clientUp>>

\* read returns 0, or the line is gone.
ReadFails == /\ tpc = "select"
             /\ (net = <<>> /\ ~ clientUp) \/ LineFaults
             /\ Quit
             /\ UNCHANGED <<tbuf, rlen, esc, e, pc_buf, pc_rv, line, breaks, want, lost>>

-----------------------------------------------------------------------------
(* flushdata: one iteration of its loop                                      *)

ch == Head(tbuf)

\* Mutant: the escape is forgotten when it ends a read.
BackslashForgotten == /\ tpc = "loop" /\ tbuf # <<>>
                      /\ ~ esc /\ ch = "\\"
                      /\ esc' = (Len(tbuf) > 1) /\ e' = e + 1
                      /\ tbuf' = Tail(tbuf)
                      /\ UNCHANGED <<tpc, rlen, pc_buf, pc_rv, line, breaks, want, lost, wire>>

Backslash == /\ tpc = "loop" /\ tbuf # <<>>
             /\ ~ esc /\ ch = "\\"
             /\ esc' = TRUE /\ e' = e + 1
             /\ tbuf' = Tail(tbuf)
             /\ UNCHANGED <<tpc, rlen, pc_buf, pc_rv, line, breaks, want, lost, wire>>

\* Mutant: the break is sent when the rest of the read is.
BreakAtEnd == /\ tpc = "loop" /\ tbuf # <<>>
              /\ esc /\ ch = "b"
              /\ esc' = FALSE /\ e' = e + 1
              /\ breaks' = Append(breaks, Len(line) + Len(pc_buf) + Len(tbuf) - 1)
              /\ tbuf' = Tail(tbuf)
              /\ UNCHANGED <<tpc, rlen, pc_buf, pc_rv, line, want, lost, wire>>

\* SendTTYBreak waits for what was written, not for what is in the buffer.
Break == /\ tpc = "loop" /\ tbuf # <<>>
         /\ esc /\ ch = "b"
         /\ esc' = FALSE /\ e' = e + 1
         /\ breaks' = Append(breaks, Len(line))
         /\ tbuf' = Tail(tbuf)
         /\ UNCHANGED <<tpc, rlen, pc_buf, pc_rv, line, want, lost, wire>>

\* What PutChar('\r') returns is ignored.
Newline == /\ tpc = "loop" /\ tbuf # <<>>
           /\ cook /\ ~ esc /\ ch = "\n"
           /\ PutChar("\r") \/ PutCharFails
           /\ want' = Append(want, "\r")
           /\ tpc' = "put"
           /\ UNCHANGED <<tbuf, rlen, esc, e, breaks, wire>>

\* Any other character, and the one after a backslash.
Plain == IF esc THEN ch # "b" ELSE ch # "\\" /\ ~ (cook /\ ch = "\n")

Put == /\ tbuf # <<>>
       /\ tpc = "put" \/ (tpc = "loop" /\ Plain)
       /\ esc' = FALSE
       /\ tbuf' = Tail(tbuf)
       /\ want' = Append(want, ch)
       /\ \/ PutChar(ch) /\ tpc' = "loop"
          \/ PutCharFails /\ tpc' = "end"
       /\ UNCHANGED <<rlen, e, breaks, wire>>

\* PutCharEnd, and what connectto makes of the number returned: less than what was
\* read ends it.
End == /\ tpc = "end" \/ (tpc = "loop" /\ tbuf = <<>>)
       /\ Flushed \/ FlushFails
       /\ IF pc_rv' + e >= rlen
          THEN tpc' = "select" /\ UNCHANGED wire
          ELSE Quit
       /\ UNCHANGED <<tbuf, rlen, esc, e, breaks, want>>

TTYStep == Read \/ ReadFails \/ Backslash \/ Break \/ Newline \/ Put \/ End

-----------------------------------------------------------------------------
\* A newline was put as two characters: PutCharEnd then returns one too many,
\* which hides a character that was not written.
Cooked == \E i \in 1..Len(want) : want[i] = "\r"

\* Whatever the line does to the writes: as long as tty-connect goes on, every
\* character that PutChar was called with is on the line, once and in order, or
\* in the buffer; only a cooked newline can hide a short write.
NothingLostSilently ==
    ~ (lost /\ Cooked) => /\ (tpc = "select" => line = want)
                         /\ (tpc = "loop" => line \o pc_buf = want)
=============================================================================

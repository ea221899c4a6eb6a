--------------------------- MODULE ConsoleSession ---------------------------
(* A session of xinu-console, once makeConnection has given it a connection: *)
(* the terminal, connectto's loop, flush2net, command mode, the programs it  *)
(* runs from there, and its signals.  Standard input is a terminal.  What    *)
(* the terminal has not given to a read is not part of the state: each       *)
(* change of the terminal's mode discards it (TCSAFLUSH).                    *)
EXTENDS Wire

CONSTANTS
    Keys,       \* what the user types
    BufSize,    \* the most characters that one read returns
    MaxKeys,    \* a bound on the characters of a session
    NetFaults   \* whether a write to the connection may be short

\* The commands that run a program, and how often its outcome matters.
Commands == {"b", "c", "x", "z", "q", "f", "p", "n", "d", "s"}
PowerCommands == {"q", "f", "p", "n"}

ASSUME SessionAssumption ==
    /\ Keys \subseteq Chars \union {ESC_CHARACTER} /\ Commands \subseteq Chars
    /\ BufSize \in Nat \ {0} /\ MaxKeys \in Nat /\ NetFaults \in BOOLEAN

VARIABLES
    pc,       \* "start", "select", "flush" (flush2net's loop), "command"
              \* (handlebreak's), "file" (getFilename), "fork", "wait",
              \* "reset" .. "alarm" (command z), "ended", "killed"
    running,  \* the command that runs a program
    buf,      \* stdin_buf from stdin_curr on
    held,     \* stdin_buf from start to stdin_curr
    tty,      \* the terminal's modes: "user" or "raw"
    saved,    \* savedttys[0], or "none": ttyissaved[0] is 0
    sigs,     \* "ignore": as setSignals leaves them; "default": as resetSignals
    alarmed,  \* alarm is set
    gotinput, \* g_gotinput
    typed,    \* history: what was read
    outcomes, \* history: how the programs ended that command mode looks at
    torn      \* history: "break": a write of \b was short; "cut": one that was
              \* short ended the session; or "no"

session == <<pc, running, buf, held, tty, saved, sigs, alarmed, gotinput,
             typed, outcomes, torn>>
terminal == <<tty, saved>>
signals == <<sigs, alarmed>>
history == <<typed, outcomes, torn>>

SessionTypes ==
    /\ pc \in {"start", "select", "flush", "command", "file", "fork", "wait",
               "reset", "default", "stop", "stopped", "ignore", "raw", "alarm",
               "ended", "killed"}
    /\ running \in Commands \union {"none"}
    /\ buf \in Seq(Keys) /\ held \in Seq(Chars)
    /\ tty \in {"user", "raw"} /\ saved \in {"none", "user", "raw"}
    /\ sigs \in {"ignore", "default"} /\ alarmed \in BOOLEAN
    /\ gotinput \in BOOLEAN
    /\ typed \in Seq(Keys) /\ outcomes \in Seq(BOOLEAN) /\ torn \in {"no", "break", "cut"}

\* After setSignals, makeConnection and alarm.
SessionInit ==
    /\ pc = "start" /\ running = "none"
    /\ buf = <<>> /\ held = <<>>
    /\ tty = "user" /\ saved = "none"
    /\ sigs = "ignore" /\ alarmed = TRUE
    /\ gotinput = FALSE
    /\ typed = <<>> /\ outcomes = <<>> /\ torn = "no"

-----------------------------------------------------------------------------
(* The terminal                                                              *)

\* setTTY: rawtty does nothing when there are modes saved.
setTTY == IF saved # "none" THEN UNCHANGED terminal
          ELSE saved' = tty /\ tty' = "raw"

\* Mutant: the modes are not put back.
restoreForgets == saved' = "none" /\ tty' = tty

restoreTTY == /\ saved' = "none"
              /\ tty' = IF saved = "none" THEN tty ELSE saved

\* exit at the end of main.
Exit == pc' = "ended" /\ restoreTTY /\ clientUp' = FALSE

-----------------------------------------------------------------------------
(* The connection                                                            *)

\* write: all of it, or nobody is there to read it.
Written(s) == net' = IF serverUp THEN net \o s ELSE net

\* A part of it: a signal came, or the connection is broken.
Partly(s) == /\ NetFaults \/ ~ serverUp
             /\ \E k \in 0..Len(s) - 1 :
                  net' = IF serverUp THEN net \o SubSeq(s, 1, k) ELSE net

\* flush2net writes s and goes on at pc2; a short write ends the session.
Flush(s, pc2) == \/ /\ Written(s) /\ pc' = pc2
                    /\ UNCHANGED <<terminal, clientUp, torn>>
                 \/ /\ Partly(s) /\ Exit
                    /\ torn' = IF torn = "no" THEN "cut" ELSE torn

-----------------------------------------------------------------------------
(* connectto                                                                 *)

Start == /\ pc = "start"
         /\ setTTY
         /\ pc' = "select"
         /\ UNCHANGED <<running, buf, held, signals, gotinput, history, wire>>

\* flushdata, and the beginning of flush2net.
ReadKeys(s) == /\ pc = "select"
               /\ buf' = s /\ held' = <<>>
               /\ typed' = typed \o s
               /\ gotinput' = TRUE
               /\ pc' = "flush"
               /\ UNCHANGED <<running, terminal, signals, outcomes, torn, wire>>

\* A read returns 0 or -1, here or in getInput: the terminal has hung up, or the other
\* end has closed the connection.
EndOfFile == /\ pc = "select" \/ (pc = "command" /\ buf = <<>>)
             /\ Exit
             /\ UNCHANGED <<net, serverUp, running, buf, held, signals, gotinput, history>>

-----------------------------------------------------------------------------
(* flush2net: one iteration of its loop, and its end                         *)

Next1 == pc = "flush" /\ buf # <<>> /\ buf' = Tail(buf)
Key == Head(buf)

Character == /\ Next1 /\ Key \notin {"\\", ESC_CHARACTER}
             /\ held' = Append(held, Key)
             /\ UNCHANGED <<pc, running, terminal, signals, gotinput, history, wire>>

\* Two writes, of which either may fail.
DoubleBackslash == /\ Next1 /\ Key = "\\"
                   /\ Flush(held \o <<"\\", "\\">>, "flush")
                   /\ held' = <<>>
                   /\ UNCHANGED <<running, signals, gotinput, typed, outcomes, serverUp>>

\* Mutant: start is not moved when command mode ends.
EscapeKeepsStart == /\ Next1 /\ Key = ESC_CHARACTER
                    /\ Flush(held, "command")
                    /\ UNCHANGED <<held, running, signals, gotinput, typed, outcomes, serverUp>>

Escape == /\ Next1 /\ Key = ESC_CHARACTER
          /\ Flush(held, "command")
          /\ held' = <<>>
          /\ UNCHANGED <<running, signals, gotinput, typed, outcomes, serverUp>>

FlushRest == /\ pc = "flush" /\ buf = <<>>
             /\ Flush(held, "select")
             /\ held' = <<>>
             /\ UNCHANGED <<buf, running, signals, gotinput, typed, outcomes, serverUp>>

-----------------------------------------------------------------------------
(* handlebreak: one command.  It returns 1 ("flush"), or 0, which ends the   *)
(* session, or goes on.                                                      *)

\* getInput: from what flush2net has not looked at, or from the terminal.
Input(key) == /\ pc = "command" /\ key \in Keys
              /\ \/ /\ buf # <<>> /\ key = Head(buf) /\ buf' = Tail(buf)
                    /\ typed' = typed
                 \/ /\ buf = <<>> /\ Len(typed) < MaxKeys
                    /\ typed' = Append(typed, key) /\ buf' = buf

Continue == /\ Input("c")
            /\ pc' = "flush"
            /\ UNCHANGED <<running, held, terminal, signals, gotinput, outcomes, torn, wire>>

QuitSession == /\ Input("x")
               /\ Exit
               /\ UNCHANGED <<running, held, signals, gotinput, outcomes, torn, net, serverUp>>

\* What write returns is ignored.
SendBreak == /\ Input("b")
             /\ \/ Written(<<"\\", "b">>) /\ UNCHANGED torn
                \/ Partly(<<"\\", "b">>) /\ torn' = "break"
             /\ pc' = "flush"
             /\ UNCHANGED <<running, held, terminal, signals, gotinput, outcomes,
                            clientUp, serverUp>>

\* h, ?, an empty line, or no command at all.
OtherCommand(key) == /\ Input(key) /\ key \notin Commands
                     /\ UNCHANGED <<pc, running, held, terminal, signals, gotinput,
                                    outcomes, torn, wire>>

\* subconnect and spawnconnect, as far as the fork or the file's name.
RunProgram(key) == /\ key \in PowerCommands \union {"d", "s"}
                   /\ Input(key)
                   /\ restoreTTY
                   /\ running' = key
                   /\ pc' = IF key \in PowerCommands THEN "fork" ELSE "file"
                   /\ UNCHANGED <<held, signals, gotinput, outcomes, torn, wire>>

\* setTTY, and what handlebreak makes of the number that subconnect returns.
Return(ok) == /\ outcomes' = IF running = "s" THEN outcomes ELSE Append(outcomes, ok)
              /\ running' = "none"
              /\ \/ /\ ok /\ running # "s"
                    /\ setTTY
                    /\ pc' = "flush" /\ UNCHANGED clientUp
                 \/ /\ ~ ok /\ running = "q"
                    /\ Exit
                 \/ /\ running = "s" \/ (~ ok /\ running # "q")
                    /\ setTTY
                    /\ pc' = "command" /\ UNCHANGED clientUp
              /\ UNCHANGED <<buf, held, signals, gotinput, typed, torn, net, serverUp>>

\* The user types a line, or an end of file.
FileName == /\ pc = "file"
            /\ pc' = "fork"
            /\ UNCHANGED <<running, buf, held, terminal, signals, gotinput, history, wire>>
NoFileName == pc = "file" /\ Return(FALSE)

Fork == /\ pc = "fork"
        /\ pc' = "wait"
        /\ UNCHANGED <<running, buf, held, terminal, signals, gotinput, history, wire>>
ForkFails == pc = "fork" /\ Return(FALSE)

Wait(ok) == pc = "wait" /\ Return(ok)

-----------------------------------------------------------------------------
(* z, from one system call to the next that a signal can tell apart.  The    *)
(* first of resetSignals and of setSignals is alarm(0).                      *)

Goes(from, to) == /\ pc = from /\ pc' = to
                  /\ UNCHANGED <<running, buf, held, gotinput, history, wire>>

Suspend == /\ Input("z")
           /\ restoreTTY
           /\ pc' = "reset"
           /\ UNCHANGED <<running, held, signals, gotinput, outcomes, torn, wire>>

\* Mutant: the order of resetSignals is turned round.
ResetFirst == /\ Goes("reset", "default")
              /\ sigs' = "default"
              /\ UNCHANGED <<alarmed, terminal>>

ResetAlarm == Goes("reset", "default") /\ alarmed' = FALSE /\ UNCHANGED <<sigs, terminal>>
ResetSignals == Goes("default", "stop") /\ sigs' = "default" /\ UNCHANGED <<alarmed, terminal>>
Stop == Goes("stop", "stopped") /\ UNCHANGED <<signals, terminal>>
Resume == Goes("stopped", "ignore") /\ UNCHANGED <<signals, terminal>>
SetSignals == /\ Goes("ignore", "raw")
              /\ sigs' = "ignore" /\ alarmed' = FALSE /\ UNCHANGED terminal
RawAgain == Goes("raw", "alarm") /\ setTTY /\ UNCHANGED signals

\* Mutant: the alarm is not set again.
AlarmForgotten == Goes("alarm", "command") /\ UNCHANGED <<alarmed, sigs, terminal>>

AlarmAgain == Goes("alarm", "command") /\ alarmed' = TRUE /\ UNCHANGED <<sigs, terminal>>

-----------------------------------------------------------------------------
(* Signals                                                                   *)

Alive == pc \notin {"ended", "killed"}

\* SIGALRM: keepalive touches the connection and sets the alarm again.
keepalive == /\ Alive /\ pc # "stopped" /\ alarmed /\ sigs = "ignore"
             /\ gotinput
             /\ gotinput' = FALSE
             /\ UNCHANGED <<pc, running, buf, held, terminal, signals, history, wire>>

\* SIGINT from the terminal, which makes none while it is raw.
Interrupt == /\ Alive /\ pc # "stopped" /\ tty = "user" /\ sigs = "default"
             /\ pc' = "killed" /\ clientUp' = FALSE
             /\ UNCHANGED <<running, buf, held, terminal, signals, gotinput, history,
                            net, serverUp>>

-----------------------------------------------------------------------------
Program == \/ Start \/ EndOfFile
           \/ Character \/ DoubleBackslash \/ Escape \/ FlushRest
           \/ Fork \/ ForkFails
           \/ ResetAlarm \/ ResetSignals \/ Stop \/ SetSignals \/ RawAgain \/ AlarmAgain
           \/ keepalive

User == \/ \E n \in 1..BufSize : /\ Len(typed) + n <= MaxKeys
                                 /\ \E s \in [1..n -> Keys] : ReadKeys(s)
        \/ Continue \/ QuitSession \/ SendBreak \/ Suspend
        \/ \E key \in Keys : OtherCommand(key) \/ RunProgram(key)
        \/ FileName \/ NoFileName
        \/ \E ok \in BOOLEAN : Wait(ok)
        \/ Resume \/ Interrupt

SessionStep == Program \/ User
=============================================================================

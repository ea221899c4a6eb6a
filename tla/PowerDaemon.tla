----------------------------- MODULE PowerDaemon -----------------------------
(***************************************************************************)
(* The power daemon, src/src/xinu-powerd.c with src/lib/rpc.c, and its     *)
(* clients: a server that handles one TCP connection at a time, keeps in   *)
(* outlets[] what it believes of each power outlet, and writes commands to *)
(* the power controller on a serial line.  The clients are xinu-power, or  *)
(* anything else that connects.                                            *)
(***************************************************************************)
EXTENDS Naturals, Sequences

CONSTANTS
    NUM_OUTLETS,  \* outlets are numbered 1..NUM_OUTLETS, outlets[] from 0
    Clients,
    NoClient,
    Barred,       \* clients that hosts_ctl refuses
    MaxFiles,     \* descriptors left for the serial line beside a connection
    Faults        \* "write": a write to the line may fail; "open": so may open

Outlets == 1..NUM_OUTLETS

ASSUME OutletAssumption == NUM_OUTLETS \in Nat \ {0}
ASSUME ClientAssumption == NoClient \notin Clients
ASSUME FileAssumption == MaxFiles \in Nat /\ MaxFiles >= 2
ASSUME FaultAssumption == Faults \subseteq {"write", "open"}

Off == [op |-> "off", n |-> 0]
Commands == [op : {"u", "d", "r"}, n : Outlets] \union {Off}

\* "u00" stands for all that is no command.
Bad == [op |-> "u", n |-> 0]

\* Mutant: outlets are counted from 0.
ValidFromZero(m) == \/ m = Off
                    \/ m.op \in {"u", "d", "r"} /\ m.n <= NUM_OUTLETS

ValidCommand(m) == \/ m = Off
                   \/ m.op \in {"u", "d", "r"} /\ 1 <= m.n /\ m.n <= NUM_OUTLETS

VARIABLES
    pc,        \* where the daemon is
    state,     \* outlets[n].state = ON, for the n that are in the array
    dev,       \* g_dev is an open descriptor
    files,     \* descriptors of the serial line that are open
    conn,      \* the client that is being served
    cmd,       \* received_cmd; recvbuf begins with the same characters
    backlog,   \* clients whose connection is not accepted yet
    client,    \* what each client has done
    sent,      \* the command that each client has sent
    answer,    \* what each client got
    power,     \* the outlets that are on
    lost       \* the controller missed something since it last heard "off all"

daemon == <<state, dev, files, conn, cmd>>
outside == <<client, sent>>
line == <<power, lost>>
vars == <<pc, daemon, backlog, outside, answer, line>>

TypeOK ==
    /\ pc \in {"start", "accept", "recv", "run", "sleep", "reply", "exited"}
    /\ state \in [Outlets -> BOOLEAN]
    /\ dev \in BOOLEAN
    /\ files \in 0..MaxFiles
    /\ conn \in Clients \union {NoClient}
    /\ cmd \in Commands \union {Bad}
    /\ pc \in {"run", "sleep", "reply"} => cmd \in Commands /\ conn \in Clients
    /\ pc = "recv" => conn \in Clients
    /\ backlog \in Seq(Clients)
    /\ client \in [Clients -> {"away", "silent", "sent", "closed", "gone"}]
    /\ sent \in [Clients -> Commands \union {Bad}]
    /\ answer \in [Clients -> {"none", "success", "closed"}]
    /\ power \in [Outlets -> BOOLEAN]
    /\ lost \in BOOLEAN

-----------------------------------------------------------------------------
(* The serial line.  The daemon ignores what write returns.                *)

\* The controller obeys, or the write failed; next is the outlets' new power.
Write(next) == \/ dev /\ power' = next /\ UNCHANGED lost
               \/ (~ dev \/ "write" \in Faults) /\ lost' = TRUE /\ UNCHANGED power

rpc_off(n) == Write([power EXCEPT ![n] = FALSE])
rpc_on(n) == Write([power EXCEPT ![n] = TRUE])

\* outlets[NUM_OUTLETS] is past the end of the array: what is read there is
\* whatever the build has there.
ReadState(n, v) == IF n = NUM_OUTLETS THEN v \in BOOLEAN ELSE v = state[n]
WriteState(n, v) == state' = IF n = NUM_OUTLETS THEN state
                             ELSE [state EXCEPT ![n] = v]

\* Mutant: the line is opened anew, but outlets[] is not cleared.
InitKeepsState(ok) ==
    /\ dev' = TRUE /\ lost' = FALSE
    /\ power' = [n \in Outlets |-> FALSE]
    /\ UNCHANGED <<state, files>>

\* init_device clears outlets[], opens the line again without closing the old
\* descriptor, and writes "off all"; ok is whether all that succeeded.
InitDevice(ok) ==
    /\ state' = [n \in Outlets |-> FALSE]
    /\ lost' = ~ ok
    /\ \/ /\ ok
          /\ files < MaxFiles
          /\ dev' = TRUE /\ files' = files + 1
          /\ power' = [n \in Outlets |-> FALSE]
       \/ /\ ~ ok /\ "write" \in Faults
          /\ files < MaxFiles
          /\ dev' = TRUE /\ files' = files + 1
          /\ UNCHANGED power
       \/ /\ ~ ok /\ (files = MaxFiles \/ "open" \in Faults)
          /\ dev' = FALSE
          /\ UNCHANGED <<files, power>>

-----------------------------------------------------------------------------
(* The daemon's loop.                                                      *)

\* main, up to the loop.
Start == /\ pc = "start"
         /\ InitDevice(TRUE)
         /\ pc' = "accept"
         /\ UNCHANGED <<conn, cmd, backlog, outside, answer>>

\* The connection with client c ends, without an answer or after one.
Close(c, a) == /\ answer' = [answer EXCEPT ![c] = a]
               /\ conn' = NoClient
               /\ pc' = "accept"

Accept == /\ pc = "accept"
          /\ backlog # <<>> /\ Head(backlog) \notin Barred
          /\ conn' = Head(backlog)
          /\ backlog' = Tail(backlog)
          /\ pc' = "recv"
          /\ UNCHANGED <<state, dev, files, cmd, outside, answer, line>>

\* LIBWRAP.
Refuse == /\ pc = "accept"
          /\ backlog # <<>> /\ Head(backlog) \in Barred
          /\ Close(Head(backlog), "closed")
          /\ backlog' = Tail(backlog)
          /\ UNCHANGED <<state, dev, files, cmd, outside, line>>

\* get_command: recv fails.
ReceiveFails == /\ pc = "recv"
                /\ client[conn] = "gone"
                /\ Close(conn, "closed")
                /\ UNCHANGED <<state, dev, files, cmd, backlog, outside, line>>

\* get_command copies three characters of the buffer: what the client sent, or
\* what the buffer happens to hold, on the same stack as the last time, when the
\* client has closed and recv is 0.
Arrived(m) == \/ client[conn] \in {"sent", "gone"} /\ m = sent[conn]
              \/ client[conn] = "closed" /\ m \in {cmd, Bad}

GetCommand == /\ pc = "recv"
              /\ \E m \in Commands \union {Bad} :
                   /\ Arrived(m) /\ ValidCommand(m)
                   /\ cmd' = m
              /\ pc' = "run"
              /\ UNCHANGED <<state, dev, files, conn, backlog, outside, answer, line>>

\* valid_command rejects it; the client is told nothing.
BadCommand == /\ pc = "recv"
              /\ \E m \in Commands \union {Bad} :
                   /\ Arrived(m) /\ ~ ValidCommand(m)
                   /\ cmd' = m
              /\ Close(conn, "closed")
              /\ UNCHANGED <<state, dev, files, backlog, outside, line>>

\* execute_command: "off".
PowerOffAll == /\ pc = "run" /\ cmd = Off
               /\ \E ok \in BOOLEAN : InitDevice(ok)
               /\ pc' = "reply"
               /\ UNCHANGED <<conn, cmd, backlog, outside, answer>>

\* Mutant: the outlet is off, and outlets[] is not told.
DownKeepsState == /\ pc = "run" /\ cmd.op = "d"
                  /\ rpc_off(cmd.n)
                  /\ pc' = "reply"
                  /\ UNCHANGED <<daemon, backlog, outside, answer>>

PowerDown == /\ pc = "run" /\ cmd.op = "d"
             /\ WriteState(cmd.n, FALSE)
             /\ rpc_off(cmd.n)
             /\ pc' = "reply"
             /\ UNCHANGED <<dev, files, conn, cmd, backlog, outside, answer>>

\* "u", and "r" of an outlet that is off; nothing for "u" of one that is on.
PowerUp == /\ pc = "run" /\ cmd.op \in {"u", "r"}
           /\ \/ /\ ReadState(cmd.n, FALSE)
                 /\ WriteState(cmd.n, TRUE)
                 /\ rpc_on(cmd.n)
              \/ /\ ReadState(cmd.n, TRUE) /\ cmd.op = "u"
                 /\ UNCHANGED <<state, line>>
           /\ pc' = "reply"
           /\ UNCHANGED <<dev, files, conn, cmd, backlog, outside, answer>>

\* rpc_reset: off, sleep(1), on.
ResetOff == /\ pc = "run" /\ cmd.op = "r"
            /\ ReadState(cmd.n, TRUE)
            /\ rpc_off(cmd.n)
            /\ pc' = "sleep"
            /\ UNCHANGED <<daemon, backlog, outside, answer>>

ResetOn == /\ pc = "sleep"
           /\ rpc_on(cmd.n)
           /\ pc' = "reply"
           /\ UNCHANGED <<daemon, backlog, outside, answer>>

\* Mutant: the client has to close first.
ReplyWaits == /\ pc = "reply" /\ client[conn] \in {"closed", "gone"}
              /\ Close(conn, "success")
              /\ UNCHANGED <<state, dev, files, cmd, backlog, outside, line>>

Reply == /\ pc = "reply"
         /\ Close(conn, "success")
         /\ UNCHANGED <<state, dev, files, cmd, backlog, outside, line>>

\* exit(1), or SIGPIPE.
Exit == /\ pc' = "exited"
        /\ conn' = NoClient
        /\ backlog' = <<>>
        /\ answer' = [c \in Clients |->
                        IF c = conn \/ \E i \in 1..Len(backlog) : backlog[i] = c
                        THEN "closed" ELSE answer[c]]
        /\ dev' = FALSE /\ files' = 0 /\ lost' = TRUE
        /\ UNCHANGED <<state, cmd, outside, power>>

\* init_device fails.  (If init_socket does, that is Start and then Terminate.)
StartFails == /\ pc = "start"
              /\ Faults # {}
              /\ Exit

\* The client has gone: send fails.
ReplyFails == /\ pc = "reply"
              /\ client[conn] = "gone"
              /\ Exit

\* Somebody ends the daemon, or accept fails; and somebody starts it again.
Terminate == pc \notin {"start", "exited"} /\ Exit

Restart == /\ pc = "exited"
           /\ pc' = "start"
           /\ cmd' = Bad
           /\ state' = [n \in Outlets |-> FALSE]
           /\ UNCHANGED <<dev, files, conn, backlog, outside, answer, line>>

-----------------------------------------------------------------------------
(* The clients.                                                            *)

Connect(c) == /\ client[c] = "away" /\ pc \notin {"start", "exited"}
              /\ client' = [client EXCEPT ![c] = "silent"]
              /\ backlog' = Append(backlog, c)
              /\ UNCHANGED <<pc, daemon, sent, answer, line>>

SendCommand(c, m) == /\ client[c] = "silent"
                     /\ client' = [client EXCEPT ![c] = "sent"]
                     /\ sent' = [sent EXCEPT ![c] = m]
                     /\ UNCHANGED <<pc, daemon, backlog, answer, line>>

\* The client closes without having sent anything, or its connection breaks.
LeaveEarly(c) == /\ \/ /\ client[c] = "silent"
                       /\ client' = [client EXCEPT ![c] = "closed"]
                    \/ /\ client[c] \in {"silent", "sent"}
                       /\ client' = [client EXCEPT ![c] = "gone"]
                 /\ UNCHANGED <<pc, daemon, backlog, sent, answer, line>>

\* The client reads its answer, or the end of the connection.
Leave(c) == /\ answer[c] # "none"
            /\ client' = [client EXCEPT ![c] = "away"]
            /\ answer' = [answer EXCEPT ![c] = "none"]
            /\ sent' = [sent EXCEPT ![c] = Bad]
            /\ UNCHANGED <<pc, daemon, backlog, line>>

-----------------------------------------------------------------------------
Init == /\ pc = "start"
        /\ state = [n \in Outlets |-> FALSE]
        /\ dev = FALSE /\ files = 0
        /\ conn = NoClient
        /\ cmd = Bad
        /\ backlog = <<>>
        /\ client = [c \in Clients |-> "away"]
        /\ sent = [c \in Clients |-> Bad]
        /\ answer = [c \in Clients |-> "none"]
        /\ power \in [Outlets -> BOOLEAN]
        /\ lost = TRUE

Serve == \/ Start \/ Accept \/ Refuse \/ ReceiveFails \/ GetCommand \/ BadCommand
         \/ PowerOffAll \/ PowerDown \/ PowerUp \/ ResetOff \/ ResetOn \/ Reply

Next == \/ Serve \/ StartFails \/ ReplyFails \/ Terminate \/ Restart
        \/ \E c \in Clients : \/ Connect(c)
                              \/ \E m \in Commands \union {Bad} : SendCommand(c, m)
                              \/ LeaveEarly(c)
                              \/ Leave(c)

Spec == Init /\ [][Next]_vars

FairSpec == Spec /\ WF_vars(Serve)

-----------------------------------------------------------------------------
(* Properties.                                                             *)

\* What cmd asks for is the case.
Done == \/ cmd.op \in {"u", "r"} /\ power[cmd.n]
        \/ cmd.op = "d" /\ ~ power[cmd.n]
        \/ cmd.op = "off" /\ \A n \in Outlets : ~ power[n]

\* "Command executed successfully.": when the daemon is about to say so, the
\* outlets of the array are as the command asks, if the controller has heard all
\* that was sent to it since the last "off all".
DoneUnlessLost == pc = "reply" /\ ~ lost /\ cmd.n # NUM_OUTLETS => Done

\* Then the cache that lets "u" skip the write is right about every outlet of
\* the array; during a reset it runs ahead.
CacheAgrees ==
    ~ lost => \A n \in Outlets \ {NUM_OUTLETS} :
                state[n] = power[n] \/ (pc = "sleep" /\ cmd.n = n)

\* Whoever waits to be accepted is accepted or sees the connection end, if no
\* accepted client keeps the daemon waiting for ever.
Waiting(c) == \E i \in 1..Len(backlog) : backlog[i] = c

EveryoneIsAccepted ==
    \A c \in Clients : []<>(pc # "recv") => (Waiting(c) ~> ~ Waiting(c))
=============================================================================

# A TLA+ model of xinu-console-tools

xinu-console-tools lets many users share the serial consoles and the power
controller of a pool of backend machines. This directory holds the model: what
each part of the program does, translated from the source, and what must hold
of it, checked by TLC on small instances and, for the parts named below, proved
by TLAPS for every instance. Paths are relative to the repository's root;
`PROJECT.json` names the lines that each definition stands for.

## 1. The system

### Parts

| part | source | state it keeps | operations | talks to |
|---|---|---|---|---|
| console daemon `xinu-consoled` | `src/xinu-consoled.c`, `src/support.c` | the list of `condata` (name, class, program; `user`, `conpid`, `contime`), verbose flag, pid of a child just forked or reaped | requests STATUS, TOUCH, MAKE, BREAK, VERBOSE; reaping; SIGHUP, SIGINT, SIGQUIT; start | clients (UDP), its children (fork, SIGKILL, wait3), the init script |
| a child of the daemon | `makeTCPConnection`, `MakeConnection` | its listening port, its alarm | send the port, accept one client, exec the connection's program | the client (UDP, then TCP), the kernel |
| request library | `lib/connectUtils.c`, `lib/makeConnection.c`, `lib/breakConnection.c` | one cached UDP socket and server address | status, make, touch, break, choose a free connection, steal one that is idle too long, second serial line | daemons |
| status collection | `lib/obtainStatus.c`, `src/xinu-status.c` | the list of servers, the rows received | send to all servers, collect until a timeout, print | daemons |
| console client `xinu-console` | `src/xinu-console.c` | terminal modes, escape state, child processes, time of the last keepalive | copy loop, escape commands, download and power scripts, keepalive, signals | request library, `tty-connect`, the terminal |
| `tty-connect` | `src/tty-connect.c`, `lib/connectto.c` | bytes not yet written, escape state | copy between network and serial line, break | client, serial line |
| power daemon `xinu-powerd` | `src/xinu-powerd.c`, `lib/rpc.c` | `outlets[]`, the serial line's descriptor, the command buffer | accept, one command, answer, close | clients (TCP), the power controller (serial) |
| power client `xinu-power` | `src/xinu-power.c`, `lib/xinu-power.c` | none | connect with retries, send, wait | power daemon |
| configuration file | `src/support.c`, `src/scanner.l` | the parser's position | read, match host names, make entries | daemon at its start |
| terminals, sockets | `lib/ttymode.c`, `lib/ttyutils.c`, `lib/netutils.c` | saved terminal modes | wrappers of system calls | kernel |
| logging, helpers, scripts | `src/log.c`, `lib/getuser.c`, `lib/xmalloc.c`, `scripts/` | none | | |

### What is hard in it

* **The table and the processes.** The daemon's table says who has a connection;
  the processes on the lines are what matters. A child dies when it likes; the
  daemon learns of it from `wait3`, which it calls only after a request or a
  timeout of `readDelay`. BREAK sends SIGKILL and leaves the entry taken. Process
  numbers come back into use. The table must never name a process that is not
  the daemon's, must show every line in use, and must never let two processes
  onto one line.
* **Signals between two statements.** SIGHUP, SIGINT and SIGQUIT run `CleanUp`
  wherever they hit: between `fork` and the assignment of `conpid`, between
  `wait3` and the loop that clears the entry. The SIGHUP handler executes the
  daemon anew from inside itself.
* **Start and stop.** The init script stops the daemon with SIGTERM, which has no
  handler. Children inherit the UDP socket.
* **UDP.** Replies get lost, come late, and carry no number that ties them to
  a request. TOUCH has no reply at all.
* **The power daemon** caches what it believes of the outlets, ignores every
  failure of the serial line, and serves one connection at a time, with no
  timeout.
* **Stealing.** A client breaks a connection idle for RESERVETIME minutes and
  makes it its own, in four messages that anyone may overtake.
* **Escapes** are sequences of characters that may be cut anywhere by a read, and by a
  short write on either side of the connection.
* **The terminal** is lent to programs and to the shell in the middle of a session, by
  code that changes the terminal's modes, the alarm and the signals in separate calls.
* **Counting.** How many servers are asked and how many replies are awaited is decided
  in three places, about a list in which names may be unknown, doubled or "*".

### What makes each part correct

* Console daemon: one process per line; a line that is worked on is reserved for
  the user it was given to; SIGKILL hits only own children; an entry whose child
  is gone becomes free without anybody asking; a restart serves again.
* Power daemon: the answer is true; the cache is right; nobody waits for ever.
* Request library: an answer is used for the request it answers; who has
  been given a connection is who uses it.
* Status: every daemon that is asked is shown, as often as it was asked, with its own rows and nobody else's.
* Console client and `tty-connect`: every character arrives in order, and once while both
  programs go on, with escape commands wherever a read cuts them; the terminal is restored whichever
  way the session ends.
* Configuration file: every well-formed entry for this host is in the list once.

## 2. The modules

| module | what it is |
|---|---|
| `ConsoleLock` | abstract: connections held by users, granted only while nobody is on the line, released when nobody is, forgotten when the server stops |
| `Consoled` | the console daemon, its children, the kernel's process table, the UDP queue and the init script |
| `ConsoledProps` | its properties, and the refinement mapping to `ConsoleLock` |
| `ConsoledProofs` | proofs: types, the table, signals, the line |
| `ConsoledRefines` | proofs: one process per line on the machine, what a status shows, steps of the lock |
| `ConsoleClient` | runs of `xinu-console` composed with `Consoled`: status, choice of a connection, MAKE, stealing, session |
| `ConsoleClientProps`, `ConsoleClientProofs` | what its users rely on; proofs: it is a run of the daemon, whose port it is, who works on which line |
| `PowerDaemon` | the power daemon, its clients, the controller; its properties |
| `PowerDaemonProofs` | proofs: types, the cache, the answers |
| `Wire` | the TCP connection of a session, in the direction from the user to the line |
| `ConsoleSession` | xinu-console in a session: terminal, copy loop, command mode, the programs it runs, alarm and signals |
| `TTYConnect` | tty-connect: copy loop, escapes, breaks, buffered output with short writes |
| `ConsoleToLine` | the two composed over `Wire`, and what the characters that the user types mean; the properties of both |
| `ConsoleToLineProofs` | proofs: types, the terminal, the alarm, no silent loss, what the line is sent and what it is sent twice |
| `StatusCollect` | xinu-status: the list of servers, the requests, the daemons and the network, the replies and what is printed; its properties |
| `StatusCollectProofs` | proofs: types, the list of servers, whose rows are printed, how often, nobody left out |
| `ConfigFile` | the parser of the configuration file, and what a file says; its properties |
| `ConfigFileProofs` | proofs: types, the room for arguments, the table and the file, which files are refused |
| `Steps` | a fold over a sequence whose operator is a function; `ConsoleToLine` and `ConfigFile` say with it what characters and lines mean |
| `DataLemmas` | proofs about data: induction over numbers and sequences, `Steps`, counting, prefixes |
| `MCConsoled`, `MCConsoleClient`, `MCPowerDaemon`, `MCConsoleToLine`, `MCStatusCollect`, `MCConfigFile` | instances for TLC |

`ConsoleClient` composes programs with the daemon, `ConsoleToLine` the two programs at the ends of a
session's connection. The table that `ConfigFile` reads is the constant `Config` of `Consoled`; the status
that `ConsoleClient` asks of one daemon is asked of all of them in `StatusCollect`. These seams are not checked.

### Consoled and the code

`pc` is the place in `main`'s loop: `bind` (passiveUDP), `recv` (recvfromRequest),
`reap` (wait3 in findDeadChildren), `clear` (its loop over the table), `serve`
(ProcessRequest), `record` (MakeConnection after fork), `exited`. A daemon step is
what happens between two points where a signal, a child or a client can tell
the difference. `user`, `conpid`, `idle` are the columns of `condata`
(`idle` is the time since `contime`, up to `MaxIdle`). `cur`, `reaped`, `forked` are the
locals `req`, `childpid`, `pid`. Of the kernel: `proc`, the state of every process
number (`unused`, `other` for somebody else's process, then the life of
a child: `listening`, `accepting`, `session`, `dying` once SIGKILL is sent, `zombie`);
`job`, the connection and request it was forked for; `kids`, the children of the
running daemon; `holds`, the children with a copy of its UDP socket; `hup` and
`hupBlocked`, the pending and blocked SIGHUP. `queue` is the socket's buffer, `net` the
replies in flight.

| code | actions |
|---|---|
| `main`'s loop, `recvfromRequest`, `readDelay` | `Open`, `OpenFails`, `Receive`, `ReceiveTimeout` |
| `findDeadChildren` | `Reap`, `Clear`, `ReapDone` |
| `ProcessRequest` | `Refuse` (hosts_ctl), `BadVersion`, `SetVerbose`, `Invalid`, `Status`, `Touch`, `MakeRefused`, `Fork`, `ForkFails`, `Record`, `BreakRefused`, `Break` |
| the child | `PortReply`, `Accept`, `ListenFails`, `AcceptTimeout`, `SessionEnd`, `Die` |
| handlers, init script | `SignalHup`, `Reboot`, `RebootFails`, `Quit`, `Terminate`, `Start` |
| network, clock, other processes | `SendRequest`, `Deliver`, `Tick`, `OtherStarts`, `OtherEnds` |

What the model takes from the environment: `signal()` is that of glibc (the
handler's own signal is blocked while it runs, system calls restart). Signals go
to the daemon's process alone, not to its group. With `Background` the daemon
forks after its start (`-bg`, `+bg`), so that a re-executed image has no children;
without it, it keeps them. SIGHUP comes from whoever sends it: the init script has a `reload()`, but its case statement never calls it.
`setSignals` is done at `Init`: a signal that hits the few
statements before it is not modelled. Requests and replies may be lost (a
request that is lost is one that was not sent); a reply that finds `MaxNet` others in
flight is lost. The status of a connection is a set of rows; the
characters of a reply are not modelled.

### ConsoleClient and the code

`ConsoleClient` extends `Consoled` and replaces its anonymous clients: each element of
`Programs` is one run of `xinu-console`, a step of which may put a request into the daemon's buffer
(`Transmit`) or take a reply from `net` (`Deliver`). `cpc` is where it is: `status` (obtainStatus),
`next` (the loop of getTCPConnection), `break`, `make` (recvReply in reqGeneric), `usleep`,
`connect` (connectTCP), `session`, and the ends `failed`, `done`, `SIGFPE`. `phase` tells the named
connection from the two calls of getTCPConnection; `rows` is the status it got,
`todo` the elements of `indeces` not tried yet, `target` the connection in its last request,
`port` the port it was told. A port is the number of the child that listens there: the
kernel gives a new child no port that a reply or a program still holds (`NewPort`).

| code | actions |
|---|---|
| `makeConnection` | `AskNamed`, `AskStatus`, `TryNoMore` |
| `obtainStatus` | `GetStatus`, `NoStatus` |
| `getTCPConnection` | `Enter`, `Take` |
| `reqTCPConnection`, `reqGeneric` | `TryFree`, `SkipFree`, `TrySteal`, `BreakAnswer`, `MakeAfterBreak`, `MakeAnswer`, `NoAnswer`, `Connect` |
| `keepalive`, end of `main` | `Keepalive`, `Quits` |

`recvfromReply` fills at most `MAXNCONNECTIONS` rows, the width of the field that holds the digits of
their number, and getTCPConnection reads as many as the number says: the
rest is one row of `Unfilled`, memory that malloc returned. `rand() % free` with nothing
free either ends the program or, on machines that do not trap, leads to a loop that does nothing. The order in which
connections are tried begins anywhere and goes round; the model lets it be any order. One server answers;
the second serial line is left out. `keepalive` may send at any time, whether or not there was input.

### PowerDaemon and the code

`pc`: `start` (up to the loop), `accept`, `recv` (get_command), `run`
(execute_command), `sleep` (the second that rpc_reset sleeps), `reply`, `exited`.
`state` is `outlets[]`, `dev` whether `g_dev` is open, `files` the descriptors of the
serial line that are open, `cmd` the command (the receive buffer begins with the same
characters), `power` what the controller really has switched on. `lost` is
a history variable: something written since the controller last heard
"off all" has not reached it. `outlets[NUM_OUTLETS]` is past the array: reading it
yields either value, writing it changes nothing the model sees. When `recv` returns 0 the
uninitialised buffer holds the last command or no command. `"u00"` stands for
everything `valid_command` rejects. `MSG_INVALID` is never sent: get_command has rejected
every such command before. A command arrives in one piece. A start of which any part fails ends the process (`StartFails`); `accept`
that returns -1 does too, in the place where `Terminate` ends it.

### ConsoleToLine and the code

A character is its low seven bits, since `flush2net` strips the eighth. `Chars` can be written to the connection;
`ESC_CHARACTER` is the one that opens command mode. What the user has typed and no read has returned yet is not state, because
each change of the terminal's mode discards it (TCSAFLUSH).

In `ConsoleSession`, `buf` is `stdin_buf` from `stdin_curr` on, `held` what lies between `start` and `stdin_curr`;
`tty` and `saved` are the terminal's modes and `savedttys[0]`; `sigs` says whether signals are as `setSignals` or as
`resetSignals` leaves them; `alarmed` whether an alarm is set. `typed`, `outcomes`, `torn` are history: what reads returned, how the
programs ended whose outcome is looked at, and whether a write was short.

| code | actions |
|---|---|
| `connectto`, `flushdata` of xinu-console | `Start`, `ReadKeys`, `EndOfFile` |
| `flush2net` | `Character`, `DoubleBackslash`, `Escape`, `FlushRest` |
| `handlebreak`, `getInput` | `Continue`, `QuitSession`, `SendBreak`, `OtherCommand`, `RunProgram`, `Suspend` |
| `subconnect`, `spawnconnect`, `getFilename`, `setTTY`, `restoreTTY` | `RunProgram`, `FileName`, `NoFileName`, `Fork`, `ForkFails`, `Wait` |
| command `z`: `resetSignals`, SIGTSTP, `setSignals` | `ResetAlarm`, `ResetSignals`, `Stop`, `Resume`, `SetSignals`, `RawAgain`, `AlarmAgain` |
| `keepalive`, SIGINT | `keepalive`, `Interrupt` |

In `TTYConnect`, `tpc` is the place in `flushdata` of tty-connect, `tbuf` what is left of the last read, `esc` its static
variable, `e` the characters that were part of an escape, `pc_buf` and `pc_rv` the buffer of `PutChar` and the number it counts.
`line` and `breaks` are what the serial line was sent. A flush writes the buffer, or (`FlushFails`) a part of it:
then the number goes down and the buffer stays as it is.

| code | actions |
|---|---|
| `connectto`, `PutCharStart` | `Read`, `ReadFails` |
| `flushdata` | `Backslash`, `Break`, `Newline`, `Put`, `End` |
| `PutChar`, `PutCharFlush`, `PutCharEnd` | operators `PutChar`, `PutCharFails`, `Flushed`, `FlushFails`, used by these |

A write of xinu-console to a connection whose other end is gone is short, since SIGPIPE does not end the program.

### StatusCollect and the code

`sb` is what is left of XINU_SERVERS, `servers` the list, `i` and `bcast` the variables of
`fakemulticast`; `asked` and `replied` count the datagrams under way per daemon, so that any of them may
come next; `nets` is `bcastUDP`'s count of the networks it has sent the request on: `Networks` says which daemons
each reaches, and a daemon on two of them is asked, and answers, twice. `host` is the argument of `-s`, known or not; then XINU_SERVERS is not read.
`details` is the memory of `reply`, of which `recvfromReply` writes the first MAXNCONNECTIONS rows and
`printstatus` reads as many as the reply says there are. `shown` is the history of what was printed.

| code | actions |
|---|---|
| `getservers` | `Init` (leading blanks), `NextName`, `LastName` |
| `fakemulticast`, `statusrequest`, `bcastUDP` | `Star`, `AskServer`, `UnknownHost`, `AllAsked`, `bcastUDP`, `BroadcastEnds`, `BroadcastFails` |
| `statusrecv`, `recvfromReply`, `printstatus`, the loop of xinu-status' `main` | `statusrecv`, `BadReply`, `Timeout`, `EnoughReplies` |
| daemons and network | `Answer`, `Lose` |

### ConfigFile and the code

A file is read as it is written: every action takes the next lexeme, which may be any, so that TLC goes through all
files up to a length. `pc` is the token that `makeEntry` waits for. A word is known by its length, whether it ends in a
colon, and the canonical name of the host before the colon.

| code | actions |
|---|---|
| the scanner's comments and continued lines | `Blank` |
| `skipNewlines`, `makeEntry`, `matchtoken` | `skipNewlines`, `Section`, `Connection`, `Class`, `Program`, `Argument`, `TooShort`, `EndOfEntry` |
| `ismyname`, `readConfigurationFile` | operators `ismyname`, `Kept`, `Ready`; `EndOfFile` |

## 3. The runs

| run | instance | what it shows |
|---|---|---|
| `lock` | two lines that share a name, two users, three process numbers, every signal, TERM, restart, failing fork and exec, other processes; requests with another version, an unknown code, and from a client that is refused | the table names only own children; a child on a line is in that entry, under its user; never two children on a line; SIGKILL hits only own children |
| `refine` | the same lines, two process numbers; every request that is served, replies, SIGINT, failing fork, fairness | one process per line; a status shows every line in use; an entry leads to a session or is free again; implements `ConsoleLock`, with its liveness |
| `restart` | one line, TERM and start | *violated*: a status after the init script's restart hides the sessions that are left |
| `hup_blocked` | one line, HUP, fairness | *violated*: the second SIGHUP is never handled |
| `hup_socket` | one line, HUP | *violated*: the re-executed daemon cannot bind its port and ends |
| `client` | two programs with a user each, two lines that share a name, two process numbers, one row read of a status, every request and reply lost or late | nobody uses a port that was another program's; who works on a line has it in the daemon's table; no two programs on a line, through every race of stealing |
| `client_late` | the same, two rows read | *violated*: the late reply to one MAKE is read as the answer to the next, and the program works on a line that is not the one it shows |
| `power` | two clients, one barred; the last outlet and one other; two descriptors; writes and opens fail; fairness | the cache agrees with the controller, and answers are true, unless a write was lost; a waiting client is accepted or told |
| `stream` | up to four characters typed, out of every kind (text, backslash, newline, escape, each sort of command but `s`), read by two; reads of three and a buffer of two at the other end; every write on either side short or failing; suspension and SIGINT at every step | the line is sent what the user typed, in order, with nothing left out, and nothing twice but as the last words of a tty-connect that a short write has ended; all of it if nothing failed; breaks in their place up to the buffer; a short write is noticed; the terminal is restored, the alarm is set and handled |
| `status` | every XINU_SERVERS of up to seven characters over two letters, "*" and blank, and every `-s` of up to two letters; three daemons, one far, one on one network and one on two; lost, late and malformed datagrams, in any order | the list is the words of the text; every daemon asked is shown, as often as it was asked and no more; the rows printed are its own |
| `colons` | the same, with ":" among the letters, three characters, and nothing lost | *violated*: names separated by colons are one name |
| `config` | every file of up to eight lexemes out of a word, three sections (the empty one, one that is the beginning of this machine's name, another host's) and newlines, with one comment or continued line; all limits small | the table is what the file says, in order; exactly the wrong files are refused; the arguments fit |

Bounds. Two lines and two users make every conflict of the table; three process numbers
let one be reused, by a child or by somebody else, while two others are in the
table. One request in the queue is enough, because the daemon reads it before it
does anything else: a longer queue delays requests and nothing more.
No property of the daemon alone looks at the replies: `MaxNet` is 0 in `lock`, where they are sent and lost, and 1 in `refine`.
`MaxIdle` is 0, because no property of the daemon alone looks at the idle time either. In `client`, `MaxIdle` and `RESERVETIME` are 0: every
active connection may be stolen at once, which allows more thefts than any larger value. One reply
in flight is enough for a late one, since the reply that would follow it is lost
or sent after it is taken. With one row read, a status by name has a row that is not filled. `SYMMETRY` permutes process numbers
(in `client` also the two programs, with their users), in runs without liveness only. In `power`, two outlets are the one past the array and one
of the array; outlets interact only through "off", which treats them alike.
In `stream`, `MaxKeys` 4 is an escape and its command with a character before and behind, or two escapes, and with `BufSize` 2 a read ends
before, in and behind each of them; `MY_BUFSIZE` 3 and `PC_LEN` 2 make a cooked newline straddle the buffer, fill it in the middle of
a read, and cut the two characters of an escape; as in the program (1024 and 4096) a read may fill the buffer more than once. In `status`, seven characters are three names with blanks around them or four names without room
for the fourth (`MAXSERVERS` 4); `MAXNCONNECTIONS` 2 below `NumRows` 3 gives one daemon a row that is not filled, with replies
of one and two rows before and after it. Two networks are enough for a daemon to be asked twice by one broadcast.
A `MaxHost` of two holds a host's name and names that no host has. In `config`, eight lexemes are two entries of three words with the newline between them,
or one with a section before and an argument behind; `MaxBlank` 1, because comments and continued lines leave no state. An entry has one argument at most here and a
connection's name is never too long: that several arguments with the blanks between them fit, and the limit on the name, rest on
the proofs (`ArgslineFitsAlways`, `RefusedIfWrongAlways`).
In `stream` command `s` is not typed: it runs a program like the others and stays in command mode whatever
became of it; the proofs have it. The last three of these runs have ends (a session that is over, a status that is printed, a file that is read), hence no check of deadlock.

Fairness. `FairSpec` of Consoled: the kernel schedules the daemon (`WF(Daemon)`), runs the
handler of a pending signal that is not blocked (`WF(Reboot)`), lets a child come as far as its alarm
(`PortReply` or `ListenFails`, `AcceptTimeout`: the alarm of `makeTCPConnection`), and finishes a SIGKILL
(`Die`). No client has to connect, no session has to end, no request has to be sent: that an entry
becomes free rests on `ReceiveTimeout` alone. `FairSpec` of PowerDaemon: the daemon does
its next step if it has one. No client has to send anything: `EveryoneIsAccepted` is stated
for clients that do not keep the daemon in `recv` for ever.

## 4. The proofs

All theorems hold for every configuration file, set of requests, users, process
numbers and outlets, buffer sizes and texts, under the `ASSUME`s of the modules, which TLC evaluates in the runs.
Every safety invariant that a passing run checks is a theorem.

*DataLemmas.* What a fold makes of every sequence takes induction, and the library's induction theorems have an operator as
a parameter, which the provers cannot instantiate. `SetInduction` says the same of a set T of numbers, which is a constant
like any other; it is proved from the finiteness of 1..n: if n were missing from T, the successor would map the elements of T up to n into
themselves, one to one and missing 0. `SeqInduction` follows for a set of sequences. `StepsEmpty` and `StepsAppend` are the two equations of
`Steps`, which need that the iteration that the community modules `CHOOSE` for a fold exists; `StepsIn` (a set that each step
stays in) and `StepsConcat` come from them by induction. `Fibres` counts the elements of a finite set by what a function makes of them.

*ConsoledProofs.* `TableNamesChildren` is not inductive. `TableInv` adds what is known at
each place of the loop: a request is there when one is served; children of the daemon are on a line or
zombies, so their number is in nobody else's hands; a daemon that is not up has an empty table; the
number that `wait3` returned is no child's; the number that `fork` returned is a child's, in no entry,
and its entry is free. From it: `TypeCorrect`, `TableNamesChildrenAlways`, and
`KillsOnlyChildrenAlways` (each SIGKILL goes to numbers of the table). `LineInv` adds
`LineIsReserved`; it is preserved if the re-executed daemon keeps no child: `LineIsReservedAlways` and
`OneChildPerLineAlways` assume `Background \/ "HUP" \notin Events`. Without that, the child
that `fork` has just returned when SIGHUP hits stays a child of the new image and is in no entry.

*ConsoledRefines.* If only SIGINT or SIGQUIT ends the daemon and nothing starts it again
(`EndsCleanly`), `RefInv` adds that everybody on a line is a child of the daemon, that a taken entry has a user
and that no two entries have one pid. From it: `OneProcessPerLineAlways`, and `ImplementsLockSafely`:
the initial state is one of the lock, `Fork` is `Grant`, the end of a child is `Finish`, `Clear` is `Release`, `Quit`
is `Stop`, and no other step is seen by the lock. `StatusShowsWhoWorksAlways` has the same assumption: with a restart it is false, as the
run `restart` shows.

*ConsoleClientProofs.* A step of `ConsoleClient` is a step of `Consoled` or leaves it alone
(`SysStep`), hence `SystemIsDaemon`: `SysSpec => Spec`, and every theorem above holds of the system,
among them the refinement (`SystemImplementsLockSafely`).
`PortInv` follows a port: a reply that holds the port of a living child goes to the
socket of the program it was forked for, and so does what a program has been told; it needs `NewPort` at `Fork` and nothing
about the order of replies. `JobInv` follows the login name: a request in the buffer, being served, or
of a living child is one that its program issues under its own name. With `RefInv`, they give
`PortIsOwnAlways`, `OneProgramPerLineAlways` (under `EndsCleanly`) and `SessionIsReservedAlways` (if
nothing stops the daemon: a daemon that has ended leaves sessions that are in no table). `SystemTypeCorrect` is the types.

*PowerDaemonProofs.* `Inv` adds to types, cache and answers that a reset in its sleep was asked for an outlet that
`outlets[]` has on, and that a daemon that is not up knows nothing of the outlets.
`PowerTypeCorrect`, `CacheAgreesAlways`, `DoneUnlessLostAlways`.

*ConsoleToLineProofs.* `StreamTypeCorrect`; it needs that every character that flush2net writes is one of `Chars`.
`TermInv` says at each place of the session which of `tty` and `saved` holds the user's modes: saved modes are the user's and
the terminal is raw exactly between `setTTY` and `restoreTTY`. `TerminalIsRestored` alone is not inductive, because `restoreTTY` puts back
whatever is saved. `AlarmInv` follows the alarm and the signals' actions through the calls of command `z`; from it `KeepsAliveAlways` and
`AlarmIsHandledAlways`. For `NothingLostSilentlyEver`, `CountInv` says that, while no newline has been cooked, the number that `PutChar` counts, the characters that were part of
an escape and those still to be looked at add up to what was read, and that after a short write they add up to less, at `end`, or the program
has ended; and `LineInv` that line and buffer together are what was put, as long as no write was short. So `End` goes on after a short write
only if a newline was cooked.

The three theorems about what the line is sent have one invariant, `StreamInv`. `Understood` reads the user's characters forwards and knows
of no buffer; the programs at each moment have some characters behind them, some half way and some not looked at. So `StreamInv` says that
what was typed is s followed by `buf` (`Looked`), that the session is where the meaning of s leads (`ModeInv`: command mode, text, over, or
waiting for the outcome of the last command), and that `Decode`, which does to a stream what tty-connect does if nothing
happens to it, makes of tty-connect's present state and of all that is on its way (the rest of its read, the connection, and `held`, or what a short write cut off) exactly
the text and the breaks that s means (`Channel`). A step of the session moves characters from `buf` to s and adds x to the stream, and the
meaning of s grows by what `Decode` makes of x (`SessionMoves`, `ChannelStep`); a step of tty-connect takes the first character, as `Decode`
does (`TTYChannel`). Two things stay open in the invariant by `\E`: what a short write cut off, for which only its existence matters, and where the
breaks were before PutChar's buffer delayed the characters (`Near`). As meaning and `Decode` only add at the end
(`MeaningGrows`, `DecodeGrows`), what is on the line is a prefix of what is meant, as long as no write of tty-connect was short, and breaks are in their
place: `BreaksInPlaceAlways`; with nothing on its way
it is all of it: `AllArrivesAlways`. For `TextInOrderAlways`, `AgainInv` follows the line through a short write: until then line and buffer
together are the beginning of what is meant; the short write (`FirstShort`) leaves a line that ends inside the buffer, which stays as it is, and the
last flush puts a part of that buffer behind it (`Twice`), while what is meant only grows. `MeaningKept` is what lets a program's outcome be appended without changing what was understood before.

*StatusCollectProofs.* `StatusTypeCorrect` with the bound on the list's length. `RowsInv` adds to `RowsAreItsOwn` that the rows of
the buffer behind the MAXNCONNECTIONS-th have never been written. The `CountInv` of `NobodyTooOftenAlways` balances, for each daemon, the times it is on
the screen and the requests and replies under way against how often the list up to `i` names it and how many of the first `nets` networks reach it;
`DueIs` says that the two counts make up `Due`.
`EvenInv` is the other direction, for as long as nothing is lost; for a list with "*" in it, `EveryoneIsShownAlways` also needs the sum over all daemons, which
`Fibres` turns into the length of `shown` and the number of requests. For `ListIsWordsAlways`, `WordsInv` says while getservers reads that what is left begins with a
word (`Left`), and that the list has exactly the words that begin before it, each at the place that the number of words up to it gives.
`OneWord` is the step: skipping a name and its blanks passes the beginning of one word and of no other.

*ConfigFileProofs.* `FileTypeCorrect`. `ArgslineFitsAlways`: with k arguments, each shorter than MAXARGLENGTH, the line with
its blanks is shorter than k times MAXARGLENGTH. For `TableIsFileAlways` and `RefusedIfWrongAlways`, `FileInv` splits the lines of what was read into the complete ones, which
are right and say what `table` holds, and the last, of which `pc`, `cdata` and `defaulthost` know as many fields as there are (`FieldsInv`);
a step adds a word to the last line or completes it. When the reader stops, `EndInv` has what it stopped for.

Only model-checked: everything that needs fairness (`EntryComesBack`, the liveness of
`ImplementsLock`, `EveryoneIsAccepted`), since TLAPS does not reach it. The runs that expect a violation have no theorem, of course; what
their properties would promise is proved without the cause, where there is one: `StatusShowsWhoWorksAlways` without the restart,
`PortIsOwnAlways` for every late reply.

## 5. What was found

Five disagreements have runs of their own, and are listed in `PROJECT.json` under findings: the init script's restart, the
two ways in which SIGHUP does not restart the daemon, the late reply that leads to another line, and the colons of XINU_SERVERS: it is
colon separated according to `include/cserver.h:47`, `man/xinu-status.1:38` and `man/xinu-console.1:63`, and the code splits it at blanks.
`ListIsWords` says what the code does with blanks, `ColonsSeparate`, which the run `colons` violates, what the words about it ask.

The models contain these too, as what the code does; properties are stated around them, and no run is spent on showing them:

* `outlets[]` is indexed from 1 and has no room for the last outlet (`src/xinu-powerd.c:306`); the power properties leave it out.
* Every "off" opens the serial line again and does not close it (`lib/rpc.c:34`): after enough of them open fails, and
  commands reach nobody and are answered with success. This is one of the ways in which `lost` becomes true.
* When every connection of a class is taken, `rand() % free` divides by zero (`lib/makeConnection.c:124`); `TryNoMore` has both outcomes.
* A status reply has MAXCONNECTIONS rows, but `recvfromReply` fills at most MAXNCONNECTIONS (4), the width of
  the number's field (`lib/connectUtils.c:96`): the rows behind it are printed, and chosen from, as memory nobody has written.
  `RowsAreItsOwn` allows these rows to be nobody's; a code that filled them would satisfy it too.
* A list of MAXSERVERS names in XINU_SERVERS, or of more, loses one that would have had room.
* A broadcast is sent on every network, and nobody compares the answers: a daemon on two networks is asked, and shown, twice.
* "*" in the list of servers makes a broadcast, but the loop stops after as many replies as the list has names.
* One malformed reply ends the collection like a timeout.
* A section of the configuration file is this host's if its name is the beginning of this host's name (`src/support.c`, `ismyname`).
* When the program that `q` runs to switch the power off succeeds, the session goes on; when it fails, the session ends.
* After a short write to the line, `PutCharFlush` keeps the whole buffer (`src/tty-connect.c:211-220`), and when the read is done with,
  `PutCharEnd` writes it again (line 252, called at 326): characters that the line has had already are sent a second time. With `PC_LEN` 2 and a
  read of "bcd", a short write of one sends "b" and then "bc". tty-connect ends then; `TextInOrder` allows these last words and describes
  them exactly (`SentAgain`).
* A newline that tty-connect cooks counts as two characters written, which hides one character that was not (`NothingLostSilently` makes
  the exception, and so does `TextInOrder`, through `Sound`). A break goes out before characters that are still in the buffer (`BreaksInPlace` allows as many as it holds).
* When `write` of a break's two characters is short, the lone backslash escapes the next character (`torn`).

## 6. Not modelled

* The direction from the serial line to the screen, and so the case that both ends of the connection write and neither reads; and what TCP
  throws away when an end is closed with unread data. The speed of the line and the size of the kernel's buffers decide there, and no state of the program.
* xinu-console's transparent mode, standard input that is not a terminal (there `fgets` keeps characters that `read` then misses),
  and what a program that command mode runs writes to the connection itself.
* tty-connect's `-t`, `-b` and `-f`, and xinu-console's `-f` (connectto's `flushc`: what the other side still sends is read after the end of the input).
* Signals that end xinu-console without a handler, SIGTERM and SIGHUP: they leave the terminal raw. A SIGALRM that is delivered inside the
  call `alarm(0)` itself, before it has cancelled the alarm.
* A host whose own name `gethostbyname` does not find: `ismyname` follows the null pointer (`src/support.c:116-117`).
* The second serial line (`findSecond`, `grabSecond`): which replies it is looked for among depends on memory that the code does not write.
  Several servers in `ConsoleClient`; `breakConnection`, which nothing calls.
* xinu-power's retries of the connect and its comparison of the answer with the expected text.
* The characters of requests and replies: their fields have a fixed width and are read back by the functions that wrote them.
* Liveness of `ConsoleClient`: every loop of it ends in two seconds or with its list, so what is left to say is fairness towards thieves, of which the
  code makes no promise.
* Logging and messages, command line parsing, the generated
  `src/scanner.c`, the build, the wrappers around system calls (modelled as the step that uses them),
  and the shell scripts other than the init scripts.

-------------------------- MODULE PowerDaemonProofs --------------------------
(***************************************************************************)
(* Theorems about PowerDaemon, for every number of outlets and clients.    *)
(***************************************************************************)
EXTENDS PowerDaemon, TLAPS

\* A reset that has switched the outlet off was asked for by "r", of an outlet
\* that outlets[] has on; a daemon that is not up knows nothing of the outlets.
PhaseInv == /\ pc = "sleep" => cmd.op = "r" /\ (cmd.n # NUM_OUTLETS => state[cmd.n])
            /\ pc \in {"start", "exited"} => lost

Inv == TypeOK /\ PhaseInv /\ CacheAgrees /\ DoneUnlessLost

\* valid_command accepts the commands and nothing else.
LEMMA ValidCommands ==
    \A m \in Commands \union {Bad} : ValidCommand(m) <=> m \in Commands
<1>1. Bad \notin Commands /\ ~ ValidCommand(Bad)
  BY OutletAssumption DEF Bad, Commands, Off, Outlets, ValidCommand
<1>2. \A m \in Commands : ValidCommand(m)
  BY OutletAssumption DEF Commands, Off, Outlets, ValidCommand
<1> QED BY <1>1, <1>2

\* A command is "off", or one of three for an outlet of the controller.
LEMMA CommandShape ==
    /\ Off.op = "off" /\ Off.n = 0 /\ 0 # NUM_OUTLETS
    /\ \A m \in Commands : m # Off => m.op \in {"u", "d", "r"} /\ m.n \in Outlets
BY OutletAssumption DEF Commands, Off, Outlets

\* What a write to the line leaves behind keeps its type.
LEMMA WriteTypes ==
    ASSUME TypeOK, NEW next \in [Outlets -> BOOLEAN], Write(next)
    PROVE  power' \in [Outlets -> BOOLEAN] /\ lost' \in BOOLEAN /\ (~ lost' => power' = next /\ ~ lost)
BY DEF TypeOK, Write

\* init_device succeeds with outlets[] and the controller both off.
LEMMA InitDeviceTypes ==
    ASSUME TypeOK, NEW ok \in BOOLEAN, InitDevice(ok)
    PROVE  /\ state' = [n \in Outlets |-> FALSE]
           /\ dev' \in BOOLEAN /\ files' \in 0..MaxFiles
           /\ power' \in [Outlets -> BOOLEAN]
           /\ lost' \in BOOLEAN
           /\ ~ lost' => power' = [n \in Outlets |-> FALSE]
<1>1. state' = [n \in Outlets |-> FALSE] /\ lost' = ~ ok
  BY DEF InitDevice
<1>2. dev' \in BOOLEAN
  BY DEF InitDevice
<1>3. files' \in 0..MaxFiles
  BY FileAssumption DEF TypeOK, InitDevice
<1>4. power' \in [Outlets -> BOOLEAN]
  BY DEF TypeOK, InitDevice
<1>5. ok => power' = [n \in Outlets |-> FALSE]
  BY DEF InitDevice
<1> QED BY <1>1, <1>2, <1>3, <1>4, <1>5

LEMMA InitInv == Init => Inv
<1> SUFFICES ASSUME Init PROVE Inv
  OBVIOUS
<1>1. backlog \in Seq(Clients)
  BY DEF Init
<1>2. 0 \in 0..MaxFiles
  BY FileAssumption
<1> QED
  BY <1>1, <1>2 DEF Init, Inv, TypeOK, PhaseInv, CacheAgrees, DoneUnlessLost

\* Types, one step per action.
LEMMA NextTypes == TypeOK /\ [Next]_vars => TypeOK'
<1> SUFFICES ASSUME TypeOK, [Next]_vars PROVE TypeOK'
  OBVIOUS
<1> USE DEF daemon, outside, line
<1>1. CASE Start
  BY <1>1, InitDeviceTypes DEF Start, TypeOK
<1>2. CASE Accept
  <2>1. Head(backlog) \in Clients /\ Tail(backlog) \in Seq(Clients)
    BY <1>2 DEF Accept, TypeOK
  <2> QED BY <1>2, <2>1 DEF Accept, TypeOK
<1>3. CASE Refuse
  <2>1. Head(backlog) \in Clients /\ Tail(backlog) \in Seq(Clients)
    BY <1>3 DEF Refuse, TypeOK
  <2> QED BY <1>3, <2>1 DEF Refuse, Close, TypeOK
<1>4. CASE ReceiveFails
  BY <1>4 DEF ReceiveFails, Close, TypeOK
<1>5. CASE GetCommand
  BY <1>5, ValidCommands DEF GetCommand, TypeOK
<1>6. CASE BadCommand
  BY <1>6 DEF BadCommand, Close, TypeOK
<1>7. CASE PowerOffAll
  <2> PICK ok \in BOOLEAN : InitDevice(ok)
    BY <1>7 DEF PowerOffAll
  <2> QED BY <1>7, InitDeviceTypes DEF PowerOffAll, TypeOK
<1>8. CASE PowerDown
  <2>1. [power EXCEPT ![cmd.n] = FALSE] \in [Outlets -> BOOLEAN]
    BY DEF TypeOK
  <2> QED BY <1>8, <2>1, WriteTypes DEF PowerDown, WriteState, rpc_off, TypeOK
<1>9. CASE PowerUp
  <2>1. [power EXCEPT ![cmd.n] = TRUE] \in [Outlets -> BOOLEAN]
    BY DEF TypeOK
  <2> QED BY <1>9, <2>1, WriteTypes DEF PowerUp, WriteState, rpc_on, TypeOK
<1>10. CASE ResetOff
  <2>1. [power EXCEPT ![cmd.n] = FALSE] \in [Outlets -> BOOLEAN]
    BY DEF TypeOK
  <2> QED BY <1>10, <2>1, WriteTypes DEF ResetOff, rpc_off, TypeOK
<1>11. CASE ResetOn
  <2>1. [power EXCEPT ![cmd.n] = TRUE] \in [Outlets -> BOOLEAN]
    BY DEF TypeOK
  <2> QED BY <1>11, <2>1, WriteTypes DEF ResetOn, rpc_on, TypeOK
<1>12. CASE Reply
  BY <1>12 DEF Reply, Close, TypeOK
<1>13. CASE StartFails \/ ReplyFails \/ Terminate
  <2>1. 0 \in 0..MaxFiles /\ <<>> \in Seq(Clients)
    BY FileAssumption
  <2> QED BY <1>13, <2>1 DEF StartFails, ReplyFails, Terminate, Exit, TypeOK
<1>14. CASE Restart
  BY <1>14 DEF Restart, TypeOK
<1>15. ASSUME NEW c \in Clients, Connect(c) PROVE TypeOK'
  BY <1>15 DEF Connect, TypeOK
<1>16. ASSUME NEW c \in Clients, NEW m \in Commands \union {Bad}, SendCommand(c, m)
       PROVE TypeOK'
  BY <1>16 DEF SendCommand, TypeOK
<1>17. ASSUME NEW c \in Clients, LeaveEarly(c) \/ Leave(c) PROVE TypeOK'
  BY <1>17 DEF LeaveEarly, Leave, TypeOK
<1>18. CASE UNCHANGED vars
  BY <1>18 DEF vars, TypeOK
<1> QED
  BY <1>1, <1>2, <1>3, <1>4, <1>5, <1>6, <1>7, <1>8, <1>9, <1>10, <1>11, <1>12,
     <1>13, <1>14, <1>15, <1>16, <1>17, <1>18 DEF Next, Serve

\* THE CACHE: outlets[], the outlets and what is about to be answered.
LEMMA NextInv == Inv /\ [Next]_vars => Inv'
<1> SUFFICES ASSUME Inv, [Next]_vars PROVE Inv'
  OBVIOUS
<1> DEFINE Cached == PhaseInv' /\ CacheAgrees' /\ DoneUnlessLost'
<1>0. TypeOK /\ TypeOK' /\ PhaseInv /\ CacheAgrees /\ DoneUnlessLost
  BY NextTypes DEF Inv
<1> SUFFICES Cached
  BY <1>0 DEF Inv
<1> USE DEF daemon, outside, line
\* Steps that leave the outlets, and what is known of them, alone.
<1>1. ASSUME UNCHANGED <<state, power, lost>>, pc # "sleep",
             pc' \notin {"sleep", "reply", "start", "exited"}
      PROVE  Cached
  BY <1>0, <1>1 DEF PhaseInv, CacheAgrees, DoneUnlessLost
<1>2. ASSUME UNCHANGED <<pc, state, cmd, power, lost>> PROVE Cached
  BY <1>0, <1>2 DEF PhaseInv, CacheAgrees, DoneUnlessLost, Done
\* Steps that lose something.
<1>3. ASSUME lost', pc' # "sleep" PROVE Cached
  BY <1>3 DEF PhaseInv, CacheAgrees, DoneUnlessLost
<1>4. CASE Start \/ PowerOffAll
  <2> PICK ok \in BOOLEAN : InitDevice(ok)
    BY <1>4 DEF Start, PowerOffAll
  <2>1. CacheAgrees'
    BY <1>0, InitDeviceTypes DEF CacheAgrees
  <2>2. PhaseInv'
    BY <1>4 DEF Start, PowerOffAll, PhaseInv, InitDevice
  <2>3. DoneUnlessLost'
    BY <1>0, <1>4, InitDeviceTypes, CommandShape DEF Start, PowerOffAll, DoneUnlessLost, Done
  <2> QED BY <2>1, <2>2, <2>3
<1>5. CASE PowerDown
  <2> DEFINE next == [power EXCEPT ![cmd.n] = FALSE]
  <2>1. next \in [Outlets -> BOOLEAN] /\ Write(next) /\ pc' = "reply" /\ cmd' = cmd
    BY <1>0, <1>5 DEF PowerDown, rpc_off, TypeOK
  <2>2. cmd.n \in Outlets /\ cmd.op = "d"
    BY <1>0, <1>5, CommandShape DEF PowerDown, TypeOK
  <2>3. CASE ~ lost'
    <3>1. power' = next /\ ~ lost
      BY <1>0, <2>1, <2>3, WriteTypes
    <3>2. state' = IF cmd.n = NUM_OUTLETS THEN state ELSE [state EXCEPT ![cmd.n] = FALSE]
      BY <1>5 DEF PowerDown, WriteState
    <3>3. CacheAgrees'
      <4> SUFFICES ASSUME NEW n \in Outlets \ {NUM_OUTLETS} PROVE state'[n] = power'[n]
        BY DEF CacheAgrees
      <4>1. state[n] = power[n]
        BY <1>0, <1>5, <3>1 DEF CacheAgrees, PowerDown
      <4>2. CASE n = cmd.n
        BY <1>0, <3>1, <3>2, <4>2 DEF TypeOK
      <4>3. CASE n # cmd.n
        BY <1>0, <3>1, <3>2, <4>1, <4>3 DEF TypeOK
      <4> QED BY <4>2, <4>3
    <3>4. DoneUnlessLost'
      BY <1>0, <2>1, <2>2, <3>1 DEF DoneUnlessLost, Done, TypeOK
    <3> QED BY <2>1, <3>3, <3>4 DEF PhaseInv
  <2> QED BY <1>3, <2>1, <2>3
<1>6. CASE PowerUp
  <2> DEFINE next == [power EXCEPT ![cmd.n] = TRUE]
  <2>1. next \in [Outlets -> BOOLEAN] /\ pc' = "reply" /\ cmd' = cmd
    BY <1>0, <1>6 DEF PowerUp, TypeOK
  <2>2. cmd.n \in Outlets /\ cmd.op \in {"u", "r"}
    BY <1>0, <1>6, CommandShape DEF PowerUp, TypeOK
  <2>3. CASE WriteState(cmd.n, TRUE) /\ rpc_on(cmd.n) /\ ~ lost'
    <3>1. power' = next /\ ~ lost
      BY <1>0, <2>1, <2>3, WriteTypes DEF rpc_on
    <3>2. state' = IF cmd.n = NUM_OUTLETS THEN state ELSE [state EXCEPT ![cmd.n] = TRUE]
      BY <2>3 DEF WriteState
    <3>3. CacheAgrees'
      <4> SUFFICES ASSUME NEW n \in Outlets \ {NUM_OUTLETS} PROVE state'[n] = power'[n]
        BY DEF CacheAgrees
      <4>1. state[n] = power[n]
        BY <1>0, <1>6, <3>1 DEF CacheAgrees, PowerUp
      <4>2. CASE n = cmd.n
        BY <1>0, <3>1, <3>2, <4>2 DEF TypeOK
      <4>3. CASE n # cmd.n
        BY <1>0, <3>1, <3>2, <4>1, <4>3 DEF TypeOK
      <4> QED BY <4>2, <4>3
    <3>4. DoneUnlessLost'
      BY <1>0, <2>1, <2>2, <3>1 DEF DoneUnlessLost, Done, TypeOK
    <3> QED BY <2>1, <3>3, <3>4 DEF PhaseInv
  <2>4. CASE ReadState(cmd.n, TRUE) /\ UNCHANGED <<state, line>>
    <3>1. CacheAgrees'
      BY <1>0, <1>6, <2>4 DEF CacheAgrees, PowerUp
    <3>2. DoneUnlessLost'
      BY <1>0, <1>6, <2>1, <2>2, <2>4 DEF CacheAgrees, DoneUnlessLost, Done, ReadState, PowerUp
    <3> QED BY <2>1, <3>1, <3>2 DEF PhaseInv
  <2> QED BY <1>3, <1>6, <2>1, <2>3, <2>4 DEF PowerUp
<1>7. CASE ResetOff
  <2> DEFINE next == [power EXCEPT ![cmd.n] = FALSE]
  <2>1. next \in [Outlets -> BOOLEAN] /\ Write(next) /\ pc' = "sleep"
    BY <1>0, <1>7 DEF ResetOff, rpc_off, TypeOK
  <2>2. PhaseInv'
    BY <1>0, <1>7 DEF ResetOff, PhaseInv, ReadState
  <2>3. CacheAgrees'
    BY <1>0, <1>7, <2>1, WriteTypes DEF ResetOff, CacheAgrees, TypeOK
  <2> QED BY <2>1, <2>2, <2>3 DEF DoneUnlessLost
<1>8. CASE ResetOn
  <2> DEFINE next == [power EXCEPT ![cmd.n] = TRUE]
  <2>1. next \in [Outlets -> BOOLEAN] /\ Write(next) /\ pc' = "reply" /\ cmd' = cmd /\ state' = state
    BY <1>0, <1>8 DEF ResetOn, rpc_on, TypeOK
  <2>2. cmd.n \in Outlets /\ cmd.op = "r" /\ (cmd.n # NUM_OUTLETS => state[cmd.n])
    BY <1>0, <1>8, CommandShape DEF ResetOn, TypeOK, PhaseInv
  <2>3. CASE ~ lost'
    <3>1. power' = next /\ ~ lost
      BY <1>0, <2>1, <2>3, WriteTypes
    <3>2. CacheAgrees'
      <4> SUFFICES ASSUME NEW n \in Outlets \ {NUM_OUTLETS}
                   PROVE  state[n] = next[n]
        BY <2>1, <3>1 DEF CacheAgrees
      <4>1. CASE n = cmd.n
        <5>1. state[n] = TRUE
          BY <1>0, <2>2, <4>1 DEF TypeOK
        <5>2. next[n] = TRUE
          BY <1>0, <4>1 DEF TypeOK
        <5> QED BY <5>1, <5>2
      <4>2. CASE n # cmd.n
        <5>1. next[n] = power[n]
          BY <1>0, <4>2 DEF TypeOK
        <5>2. state[n] = power[n]
          BY <1>0, <3>1, <4>2 DEF CacheAgrees
        <5> QED BY <5>1, <5>2
      <4> QED BY <4>1, <4>2
    <3>3. DoneUnlessLost'
      BY <1>0, <2>1, <2>2, <3>1 DEF DoneUnlessLost, Done, TypeOK
    <3> QED BY <2>1, <3>2, <3>3 DEF PhaseInv
  <2> QED BY <1>3, <2>1, <2>3
<1>9. CASE Accept \/ Refuse \/ ReceiveFails \/ GetCommand \/ BadCommand \/ Reply
  BY <1>1, <1>9 DEF Accept, Refuse, ReceiveFails, GetCommand, BadCommand, Reply, Close
<1>10. CASE StartFails \/ ReplyFails \/ Terminate
  BY <1>3, <1>10 DEF StartFails, ReplyFails, Terminate, Exit
<1>11. CASE Restart
  BY <1>0, <1>11 DEF Restart, PhaseInv, CacheAgrees, DoneUnlessLost, TypeOK
<1>12. CASE \E c \in Clients : \/ Connect(c)
                               \/ \E m \in Commands \union {Bad} : SendCommand(c, m)
                               \/ LeaveEarly(c)
                               \/ Leave(c)
  BY <1>2, <1>12 DEF Connect, SendCommand, LeaveEarly, Leave
<1>13. CASE UNCHANGED vars
  BY <1>2, <1>13 DEF vars
<1> QED
  BY <1>4, <1>5, <1>6, <1>7, <1>8, <1>9, <1>10, <1>11, <1>12, <1>13 DEF Next, Serve

\* Every variable of the power daemon and its clients keeps its type; in
\* particular only commands that valid_command accepts are executed.
THEOREM PowerTypeCorrect == Spec => []TypeOK
<1>1. Init => TypeOK
  BY InitInv DEF Inv
<1> QED BY <1>1, NextTypes, PTL DEF Spec

LEMMA InvAlways == Spec => []Inv
<1> QED BY InitInv, NextInv, PTL DEF Spec

\* While nothing that was sent to the controller is lost, outlets[] agrees with
\* the outlets that are in the array, whatever the clients do.
THEOREM CacheAgreesAlways == Spec => []CacheAgrees
<1>1. Inv => CacheAgrees
  BY DEF Inv
<1> QED BY <1>1, InvAlways, PTL

\* And then a success that execute_command is about to report is one: also of
\* "u" when the cache makes it skip the write.
THEOREM DoneUnlessLostAlways == Spec => []DoneUnlessLost
<1>1. Inv => DoneUnlessLost
  BY DEF Inv
<1> QED BY <1>1, InvAlways, PTL
=============================================================================

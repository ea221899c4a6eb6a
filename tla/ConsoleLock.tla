----------------------------- MODULE ConsoleLock -----------------------------
(***************************************************************************)
(* What xinu-consoled promises about its connections, and nothing of how:  *)
(* a connection is held by at most one user at a time, it is granted only  *)
(* while no process is on its line, the lock outlives the process, and     *)
(* when the process is gone the lock is given back without anyone asking.  *)
(* When the server stops it forgets every lock and grants nothing more,    *)
(* whatever processes it leaves behind.                                    *)
(***************************************************************************)

CONSTANTS Conns,     \* the connections of the configuration file
          Users,     \* login names
          NoUser     \* the holder of a free connection

VARIABLES holder,    \* connection -> the user who has it reserved
          busy,      \* the connections a process is working on
          up         \* the server runs

vars == <<holder, busy, up>>

TypeOK == /\ holder \in [Conns -> Users \union {NoUser}]
          /\ busy \subseteq Conns
          /\ up \in BOOLEAN

Init == /\ holder = [c \in Conns |-> NoUser]
        /\ busy = {}
        /\ up = TRUE

Grant(c, u) == /\ up
               /\ holder[c] = NoUser
               /\ c \notin busy
               /\ holder' = [holder EXCEPT ![c] = u]
               /\ busy' = busy \union {c}
               /\ UNCHANGED up

Finish(c) == /\ c \in busy
             /\ busy' = busy \ {c}
             /\ UNCHANGED <<holder, up>>

Release(c) == /\ up
              /\ holder[c] # NoUser
              /\ c \notin busy
              /\ holder' = [holder EXCEPT ![c] = NoUser]
              /\ UNCHANGED <<busy, up>>

Stop == /\ up
        /\ up' = FALSE
        /\ holder' = [c \in Conns |-> NoUser]
        /\ UNCHANGED busy

Next == \/ \E c \in Conns : \/ \E u \in Users : Grant(c, u)
                            \/ Finish(c)
                            \/ Release(c)
        \/ Stop

SafeSpec == Init /\ [][Next]_vars

Spec == SafeSpec /\ \A c \in Conns : WF_vars(Release(c))
=============================================================================

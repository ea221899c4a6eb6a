-------------------------------- MODULE Wire --------------------------------
(* The TCP connection between xinu-console and the program that xinu-consoled *)
(* executed on it, in the direction from the user to the serial line, and the *)
(* characters that travel on it.  A character is its low seven bits: flush2net *)
(* strips the eighth from all that the user types.                           *)
EXTENDS Integers, Sequences

CONSTANT Chars   \* what can be written to the connection

\* NUL, which begins a command of xinu-console, is written by nobody.
ESC_CHARACTER == "esc"

ASSUME CharsAssumption == /\ {"\\", "b"} \subseteq Chars
                          /\ ESC_CHARACTER \notin Chars

VARIABLES
    net,        \* written by xinu-console and not read by tty-connect
    clientUp,   \* xinu-console has its end open
    serverUp    \* tty-connect has its end open

wire == <<net, clientUp, serverUp>>

WireTypes == net \in Seq(Chars) /\ clientUp \in BOOLEAN /\ serverUp \in BOOLEAN

WireInit == net = <<>> /\ clientUp = TRUE /\ serverUp = TRUE
=============================================================================

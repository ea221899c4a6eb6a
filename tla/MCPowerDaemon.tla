--------------------------- MODULE MCPowerDaemon ---------------------------
(* Instances of PowerDaemon for TLC.                                       *)
EXTENDS PowerDaemon

CONSTANTS c1, c2
=============================================================================

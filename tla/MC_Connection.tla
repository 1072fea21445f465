--------------------------- MODULE MC_Connection ---------------------------
(* Connection on small instances.  Player c1 may be given a second port.   *)
EXTENDS Connection, TLC

CONSTANTS c1, c2

MC_PortsOf == c1 :> {1, 2} @@ c2 :> {3}
=============================================================================

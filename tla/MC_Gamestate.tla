---------------------------- MODULE MC_Gamestate ----------------------------
(* Gamestate on small instances; the constants are in the .cfg files.       *)
EXTENDS Gamestate
=============================================================================

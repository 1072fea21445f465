---------------------------- MODULE MC_Reliable ----------------------------
(* Reliable on small instances; the constants are in the .cfg files.       *)
EXTENDS Reliable
=============================================================================

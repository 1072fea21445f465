---------------------------- MODULE MC_Netchan -----------------------------
(* Netchan on small instances; the constants are in the .cfg files.        *)
EXTENDS Netchan
=============================================================================

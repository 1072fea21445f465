------------------------------- MODULE MC_P2P -------------------------------
(* Instances of P2P for TLC; the constants are in the .cfg files.           *)
EXTENDS P2P

=============================================================================

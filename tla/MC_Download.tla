---------------------------- MODULE MC_Download ----------------------------
(* Download on small instances; the constants are in the .cfg files.       *)
EXTENDS Download
=============================================================================

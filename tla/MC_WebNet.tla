----------------------------- MODULE MC_WebNet -----------------------------
(* Instances of WebNet for TLC; the constants are in the .cfg files.  The   *)
(* servers are alike; only the run without liveness uses that.              *)
EXTENDS WebNet, TLC

Symmetry == Permutations(Addrs)

=============================================================================

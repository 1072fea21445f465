---------------------------- MODULE MC_Snapshot ----------------------------
(* Snapshot on small instances; the constants are in the .cfg files.       *)
EXTENDS Snapshot, TLC

\* Between the two, and again, entities change, stay as they are, are new or gone.
SmallWorlds == {(1 :> "a") @@ (2 :> "a"), (2 :> "b")}
=============================================================================

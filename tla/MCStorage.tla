----------------------------- MODULE MCStorage -----------------------------
(***************************************************************************)
(* A DAG in which the addition of s4 confirms a record and its parent at   *)
(* once, with three approvals each; the name of the parent comes last.     *)
(* c4 is built on what then is left, and the others may still advertise    *)
(* the parent.                                                             *)
(***************************************************************************)
EXTENDS MCLedger, Storage

CONSTANTS s4, c4

StorageData ==
     [r \in {g1, g2, b1, c1, d1, b2} |-> AllData[r]]
  @@ s4 :> Generic(self, {d1, b2})
  @@ c4 :> Generic(c, {b2, s4})
StorageRecord == DOMAIN StorageData
StorageNameOrder ==
  c4 :> 0 @@ c1 :> 1 @@ d1 :> 2 @@ b2 :> 3 @@ b1 :> 4 @@ s4 :> 5 @@ g1 :> 6 @@ g2 :> 7
StorageAdvert == {Sync({b2}), Sync({b1}), Sync({c4})}
=============================================================================

------------------------- MODULE MCStagingDelivery --------------------------
(***************************************************************************)
(* Small instances of StagingDelivery.  Events a and c have the same key   *)
(* and different bodies; the second request repeats an event of the first. *)
(***************************************************************************)
EXTENDS StagingDelivery, TLC

CONSTANTS a, b, c, r1, r2, r3

MCKey == (a :> "ka") @@ (b :> "kb") @@ (c :> "ka")
MCBody == (r1 :> {a}) @@ (r2 :> {a, b}) @@ (r3 :> {c})

NothingInId == [w \in Workers |-> "any"]
=============================================================================

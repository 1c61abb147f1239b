--------------------------- MODULE MCSensorDaemon ---------------------------
(***************************************************************************)
(* Small instances of SensorDaemon: a file of distinct events, and one     *)
(* whose last event collides with the first.                               *)
(***************************************************************************)
EXTENDS SensorDaemon, TLC

CONSTANTS a, b, c, d

MCKey    == (a :> "ka") @@ (b :> "kb") @@ (c :> "kc") @@ (d :> "ka")
Distinct == <<a, b, c>>
Collides == <<a, b, c, d>>

DistinctRequests == (0..3) \X (0..3)
CollidesRequests == (0..4) \X (0..4)
=============================================================================

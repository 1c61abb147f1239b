------------------------- MODULE MCPassiveExporter --------------------------
(***************************************************************************)
(* Small instances of PassiveExporter: an alert, a review, an observation  *)
(* and an event that does not pass validation.                             *)
(***************************************************************************)
EXTENDS PassiveExporter, TLC

CONSTANTS alert, review, obs, bad

MCPriority == (alert :> 1) @@ (review :> 2) @@ (obs :> 5) @@ (bad :> 5)

\* In a spool that is too large for the queue the last file is the most
\* important event, which recover() lets in, or the least, which makes it fail.
AlertLast == (review :> 1) @@ (obs :> 2) @@ (alert :> 3) @@ (bad :> 4)
ObsLast   == (review :> 1) @@ (alert :> 2) @@ (obs :> 3) @@ (bad :> 4)

MCSubmits == (alert :> 1) @@ (review :> 2) @@ (obs :> 1) @@ (bad :> 1)
=============================================================================

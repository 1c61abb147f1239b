---------------------------- MODULE AtLeastOnce -----------------------------
(***************************************************************************)
(* What the transport promises, "at_least_once_with_semantic_idempotency"  *)
(* in src/ml/protocols/v0_3_17_protocol.yaml, whatever the connector that  *)
(* implements it: an event is taken over for good, reaches the receiver's  *)
(* set at least once, and is confirmed only when it is there.              *)
(***************************************************************************)
CONSTANT Events

VARIABLES journaled, delivered, confirmed

vars == <<journaled, delivered, confirmed>>

Init == journaled = {} /\ delivered = {} /\ confirmed = {}

TypeOK == /\ journaled \in SUBSET Events
          /\ delivered \in SUBSET Events
          /\ confirmed \in SUBSET Events

\* The connector takes over the events of a request.
TakeOver == /\ \E S \in SUBSET Events : journaled' = journaled \union S
            /\ UNCHANGED <<delivered, confirmed>>

\* A batch is in the receiver's store, some of it perhaps from before.
Deliver == /\ \E S \in SUBSET journaled : delivered' = delivered \union S
           /\ UNCHANGED <<journaled, confirmed>>

\* The connector learns it.
Confirm == /\ \E S \in SUBSET delivered : confirmed' = confirmed \union S
           /\ UNCHANGED <<journaled, delivered>>

Next == TakeOver \/ Deliver \/ Confirm

Spec == Init /\ [][Next]_vars
=============================================================================

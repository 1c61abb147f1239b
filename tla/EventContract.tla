--------------------------- MODULE EventContract ----------------------------
(***************************************************************************)
(* What the transport contracts of src/staging/contracts/models.py say     *)
(* that its state machines depend on.  An element of Events is a canonical *)
(* event body; Key[e] stands for its event_id and idempotency_key, so two  *)
(* different bodies with the same key are an idempotency collision.        *)
(***************************************************************************)
EXTENDS Naturals, FiniteSets

CONSTANTS Events,      \* event bodies
          Key,         \* the identity columns of a body
          MaxEvents    \* 50: events of one request, of one batch, of one page

ASSUME EventAssumption ==
  /\ IsFiniteSet(Events)
  /\ DOMAIN Key = Events
  /\ MaxEvents \in Nat \ {0}

\* Two bodies that cannot both be stored.
Collide(e, f) == e # f /\ Key[e] = Key[f]

\* No row of S stands in the way of the events of B, nor one of B of another.
Consistent(B, S) == \A e \in B : \A f \in B \union S : ~ Collide(e, f)

\* The bodies a request or a batch may carry: one to MaxEvents events.
WellFormed(B) ==
  /\ B \in SUBSET Events
  /\ B # {}
  /\ Cardinality(B) <= MaxEvents
=============================================================================

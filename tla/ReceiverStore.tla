--------------------------- MODULE ReceiverStore ----------------------------
(***************************************************************************)
(* The receiver's durable store, class ReceiverStore of                    *)
(* src/staging/storage.py.  A batch is a record with an id (the digest of  *)
(* the sender, its sequence number and the event ids, so the id determines *)
(* the events) and an attempt number.  commit() is one transaction.        *)
(***************************************************************************)
EXTENDS EventContract

VARIABLES
  stored,   \* receiver_events
  acks      \* acks: one stored answer per batch id

receiver == <<stored, acks>>

ReceiverInit ==
  /\ stored = {}
  /\ acks = {}

\* An answer lists its events as accepted or duplicate.
Acks(BatchIds, Attempts) ==
  [id : BatchIds, attempt : Attempts,
   accepted : SUBSET Events, duplicate : SUBSET Events]

Answered(b) == \E a \in acks : a.id = b.id

\* A batch with an event whose key the store holds under another body.
Refused(b) ==
  /\ ~ Answered(b)
  /\ ~ Consistent(b.id.events, stored)

\* Mutant of NewAck: every event is accepted, also one stored before.
NewAckAcceptsAll(b) == [id |-> b.id, attempt |-> b.attempt,
                        accepted |-> b.id.events, duplicate |-> {}]

NewAck(b) == [id |-> b.id, attempt |-> b.attempt,
              accepted |-> b.id.events \ stored,
              duplicate |-> b.id.events \intersect stored]

\* The answer commit() returns: the stored one for a batch id it has seen,
\* without looking at the attempt or the rest of the body.
AckOf(b) == IF Answered(b) THEN CHOOSE a \in acks : a.id = b.id ELSE NewAck(b)

\* commit(): a known batch id changes nothing; a new one stores its events,
\* its answer, or, on a collision, nothing at all.
Commit(b) ==
  IF Answered(b) \/ Refused(b)
  THEN UNCHANGED receiver
  ELSE /\ stored' = stored \union b.id.events
       /\ acks' = acks \union {NewAck(b)}
=============================================================================

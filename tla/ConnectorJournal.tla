-------------------------- MODULE ConnectorJournal --------------------------
(***************************************************************************)
(* The connector's durable journal, class ConnectorJournal of              *)
(* src/staging/storage.py: one SQLite database in WAL mode with            *)
(* synchronous=FULL, every operation one transaction under one lock, so    *)
(* every operation is one atomic action here and survives every crash.     *)
(***************************************************************************)
EXTENDS EventContract

CONSTANTS Requests,    \* ingress request ids
          NoRequest,   \* owner of a row that does not exist
          NoBatch      \* batch reference of a row never acknowledged

ASSUME JournalAssumption == NoRequest \notin Requests

VARIABLES
  commits,      \* journal_commits.request_id
  owner,        \* journal_events.ingress_request_id
  status,       \* journal_events.delivery_status
  earlier,      \* the rows that were durable before this one: the order of
                \* journal_durable_ns, the column pending() sorts by
  ref,          \* journal_events.batch_id, set by checkpoint
  checkpoints   \* checkpoints.batch_id

journal == <<commits, owner, status, earlier, ref, checkpoints>>

JournalTypeOK(BatchIds) ==
  /\ commits \in SUBSET Requests
  /\ owner \in [Events -> Requests \union {NoRequest}]
  /\ status \in [Events -> {"absent", "pending", "acknowledged"}]
  /\ earlier \in [Events -> SUBSET Events]
  /\ ref \in [Events -> BatchIds \union {NoBatch}]
  /\ checkpoints \in SUBSET BatchIds

JournalInit ==
  /\ commits = {}
  /\ owner = [e \in Events |-> NoRequest]
  /\ status = [e \in Events |-> "absent"]
  /\ earlier = [e \in Events |-> {}]
  /\ ref = [e \in Events |-> NoBatch]
  /\ checkpoints = {}

Journaled == {e \in Events : status[e] # "absent"}
Pending   == {e \in Events : status[e] = "pending"}
Acked     == {e \in Events : status[e] = "acknowledged"}
-----------------------------------------------------------------------------
\* The request runs into a row, or into a sibling, with its key and another
\* body: the whole transaction is rolled back and the request refused.
Rejected(r, S) ==
  /\ r \notin commits
  /\ ~ Consistent(S, Journaled)

\* Mutant of Fresh: a known event is accepted again.
FreshOrKnown(S) == S

\* The events of S that get a row; the others are already there unchanged.
Fresh(S) == S \ Journaled

\* append() of a request the journal has not seen: the commit row and a
\* pending row for every event it does not hold yet, all or nothing.
AppendRequest(r, S) ==
  /\ r \notin commits
  /\ Consistent(S, Journaled)
  /\ commits' = commits \union {r}
  /\ owner' = [e \in Events |-> IF e \in Fresh(S) THEN r ELSE owner[e]]
  /\ status' = [e \in Events |-> IF e \in Fresh(S) THEN "pending" ELSE status[e]]
  /\ earlier' = [e \in Events |-> IF e \in Fresh(S) THEN Journaled ELSE earlier[e]]
  /\ UNCHANGED <<ref, checkpoints>>

\* What append() calls the duplicates of a request it has already committed:
\* the rows that request created, not the ones it found.
Known(r) == {e \in Events : owner[e] = r}

\* pending(limit): the oldest pending rows.
Page(limit, P) ==
  /\ P \in SUBSET Pending
  /\ \/ P = Pending /\ Cardinality(P) <= limit
     \/ Cardinality(P) = limit
  /\ \A p \in P, q \in Pending \ P : q \notin earlier[p]

\* checkpoint(batch, ack): record the batch and acknowledge its events,
\* overwriting the reference of an event acknowledged before.
Checkpoint(id, S) ==
  /\ checkpoints' = checkpoints \union {id}
  /\ status' = [e \in Events |-> IF e \in S THEN "acknowledged" ELSE status[e]]
  /\ ref' = [e \in Events |-> IF e \in S THEN id ELSE ref[e]]
  /\ UNCHANGED <<commits, owner, earlier>>
=============================================================================

---------------------------- MODULE BatchSender -----------------------------
(***************************************************************************)
(* The part the two connectors share: the bounded queue of chunks, the     *)
(* sender threads that drain it, the network and the receiver.             *)
(*   src/staging/connector/app.py    class Delivery                        *)
(*   src/rehearsal/connector_app.py  class DurableDelivery                 *)
(*                                                                         *)
(* A thread takes a chunk and tries to send it up to MaxAttempts times.    *)
(* Every attempt is a new batch with a new sequence number, so it has a    *)
(* new id: the receiver recognises a resent event, never a resent batch,   *)
(* except after a restart, when the sequence starts again at one.  The     *)
(* rehearsal connector digests the thread into the id, the staging one     *)
(* does not, so there a batch of another thread can have the same id.      *)
(*                                                                         *)
(* The network: a batch in wire may reach the receiver at any later time,  *)
(* also after its sender has timed out; it may be lost, and the answer may *)
(* be lost.  The transport is TCP, so nothing is duplicated.  An answer    *)
(* reaches its sender in the step that commits the batch, or never: a slow *)
(* answer behaves like an answer to a batch that was slow to arrive.       *)
(***************************************************************************)
EXTENDS ConnectorJournal, ReceiverStore, Sequences

CONSTANTS Workers,       \* sender threads
          InId,          \* what a batch id says of the thread that made it
          QueueCap,      \* maxsize of the queue, in chunks
          MaxAttempts,   \* sends of one chunk before it goes back
          MaxFailures    \* bound of the model: network failures in a behaviour

ASSUME SenderAssumption ==
  /\ QueueCap \in Nat \ {0}
  /\ MaxAttempts \in Nat \ {0}
  /\ MaxFailures \in Nat

VARIABLES
  queue,      \* self.queue, a sequence of chunks
  seq,        \* self.sequence
  wpc,        \* where each thread is in _worker
  chunk,      \* events of the chunk the thread holds
  attempt,    \* its loop counter
  sent,       \* the batch of the current attempt
  wire,       \* batches on the network, not yet with the receiver
  failures    \* network failures so far

sender  == <<queue, seq, wpc, chunk, attempt, sent>>
network == <<wire, failures>>

BatchIds == [seq : Nat \ {0}, thread : {InId[w] : w \in Workers}, events : SUBSET Events]
Batches  == [id : BatchIds, attempt : 1..MaxAttempts]

WorkerStates == {"idle", "ready", "waiting", "acked", "release", "giveup", "dead"}

SenderTypeOK ==
  /\ queue \in Seq(SUBSET Events)
  /\ seq \in Nat
  /\ wpc \in [Workers -> WorkerStates]
  /\ chunk \in [Workers -> SUBSET Events]
  /\ attempt \in [Workers -> 1..MaxAttempts]
  /\ sent \in [Workers -> Batches \union {NoBatch}]
  /\ wire \in SUBSET Batches
  /\ failures \in 0..MaxFailures
  /\ stored \in SUBSET Events
  /\ acks \in SUBSET Acks(BatchIds, 1..MaxAttempts)

\* The threads and the queue of a process that has just started.
IdleSender(q) ==
  /\ queue = q
  /\ seq = 0
  /\ wpc = [w \in Workers |-> "idle"]
  /\ chunk = [w \in Workers |-> {}]
  /\ attempt = [w \in Workers |-> 1]
  /\ sent = [w \in Workers |-> NoBatch]

RestartSender(q) ==
  /\ queue' = q
  /\ seq' = 0
  /\ wpc' = [w \in Workers |-> "idle"]
  /\ chunk' = [w \in Workers |-> {}]
  /\ attempt' = [w \in Workers |-> 1]
  /\ sent' = [w \in Workers |-> NoBatch]

NetworkInit == wire = {} /\ failures = 0
-----------------------------------------------------------------------------
\* events = self.queue.get()
Take(w) ==
  /\ wpc[w] = "idle"
  /\ queue # <<>>
  /\ queue' = Tail(queue)
  /\ chunk' = [chunk EXCEPT ![w] = Head(queue)]
  /\ attempt' = [attempt EXCEPT ![w] = 1]
  /\ wpc' = [wpc EXCEPT ![w] = "ready"]
  /\ UNCHANGED <<seq, sent, network, journal, receiver>>

\* _batch() under the lock, and the send.
NextBatch(w) ==
  [id |-> [seq |-> seq + 1, thread |-> InId[w], events |-> chunk[w]],
   attempt |-> attempt[w]]

Send(w) ==
  /\ wpc[w] = "ready"
  /\ seq' = seq + 1
  /\ sent' = [sent EXCEPT ![w] = NextBatch(w)]
  /\ wire' = wire \union {NextBatch(w)}
  /\ wpc' = [wpc EXCEPT ![w] = "waiting"]
  /\ UNCHANGED <<queue, chunk, attempt, failures, journal, receiver>>

\* The except branch: another attempt, or none left.
AttemptFails(w) ==
  /\ IF attempt[w] < MaxAttempts
     THEN /\ attempt' = [attempt EXCEPT ![w] = @ + 1]
          /\ wpc' = [wpc EXCEPT ![w] = "ready"]
     ELSE /\ wpc' = [wpc EXCEPT ![w] = "giveup"]
          /\ UNCHANGED attempt
  /\ UNCHANGED <<queue, seq, chunk, sent>>

NetworkFails == failures < MaxFailures /\ failures' = failures + 1

\* The batch is lost, with the connection or with a receiver that crashes
\* before it commits.
LoseBatch(b) ==
  /\ b \in wire
  /\ NetworkFails
  /\ wire' = wire \ {b}
  /\ UNCHANGED <<sender, journal, receiver>>

\* The receiver commits a batch whose sender no longer listens, or whose
\* answer is lost, also with a receiver that crashes after it commits.
CommitUnheard(b) ==
  /\ b \in wire
  /\ wire' = wire \ {b}
  /\ Commit(b)
  /\ IF \E w \in Workers : wpc[w] = "waiting" /\ sent[w] = b
     THEN NetworkFails
     ELSE UNCHANGED failures
  /\ UNCHANGED <<sender, journal>>

\* The receiver commits and its answer passes validate_receiver_ack: it names
\* the batch and the attempt, and one result for every event of the batch.
CommitHeard(w) ==
  /\ wpc[w] = "waiting"
  /\ sent[w] \in wire
  /\ ~ Refused(sent[w])
  /\ AckOf(sent[w]).attempt = sent[w].attempt
  /\ wire' = wire \ {sent[w]}
  /\ Commit(sent[w])
  /\ wpc' = [wpc EXCEPT ![w] = "acked"]
  /\ UNCHANGED <<queue, seq, chunk, attempt, sent, failures, journal>>

\* A collision is answered 422; the stored answer to a batch id of an earlier
\* process that was sent at another attempt fails with ack_linkage_mismatch.
AnswerRejected(w) ==
  /\ wpc[w] = "waiting"
  /\ sent[w] \in wire
  /\ Refused(sent[w]) \/ AckOf(sent[w]).attempt # sent[w].attempt
  /\ wire' = wire \ {sent[w]}
  /\ AttemptFails(w)
  /\ UNCHANGED <<failures, journal, receiver>>

\* The sender stops waiting: the batch or its answer was lost, or is slow.
Timeout(w) ==
  /\ wpc[w] = "waiting"
  /\ IF sent[w] \in wire THEN NetworkFails ELSE UNCHANGED failures
  /\ AttemptFails(w)
  /\ UNCHANGED <<wire, journal, receiver>>

\* Mutant of CheckpointAck: the checkpoint does not wait for the answer.
CheckpointOnSend(w, next) ==
  /\ wpc[w] = "waiting"
  /\ Checkpoint(sent[w].id, sent[w].id.events)
  /\ wpc' = [wpc EXCEPT ![w] = next]
  /\ UNCHANGED <<queue, seq, chunk, attempt, sent, network, receiver>>

\* journal.checkpoint(batch, ack)
CheckpointAck(w, next) ==
  /\ wpc[w] = "acked"
  /\ Checkpoint(sent[w].id, sent[w].id.events)
  /\ wpc' = [wpc EXCEPT ![w] = next]
  /\ UNCHANGED <<queue, seq, chunk, attempt, sent, network, receiver>>

\* The locals of a thread that is done with its chunk, or dead.
NextIteration(w, pc) ==
  /\ wpc' = [wpc EXCEPT ![w] = pc]
  /\ chunk' = [chunk EXCEPT ![w] = {}]
  /\ attempt' = [attempt EXCEPT ![w] = 1]
  /\ sent' = [sent EXCEPT ![w] = NoBatch]

\* Mutant of Requeue: the thread waits for a second free place.
RequeueLate(w) ==
  /\ wpc[w] = "giveup"
  /\ Len(queue) + 1 < QueueCap
  /\ queue' = Append(queue, chunk[w])
  /\ NextIteration(w, "idle")
  /\ UNCHANGED <<seq, network, journal, receiver>>

\* After the last attempt the chunk goes to the end of the queue.
Requeue(w) ==
  /\ wpc[w] = "giveup"
  /\ Len(queue) < QueueCap
  /\ queue' = Append(queue, chunk[w])
  /\ NextIteration(w, "idle")
  /\ UNCHANGED <<seq, network, journal, receiver>>

Receive == \/ \E b \in wire : LoseBatch(b)
           \/ \E b \in wire : CommitUnheard(b)

Attempt(w) == \/ Take(w)
              \/ Send(w)
              \/ CommitHeard(w)
              \/ AnswerRejected(w)
              \/ Timeout(w)
              \/ Requeue(w)
-----------------------------------------------------------------------------
(* Properties of both connectors *)

Queued  == UNION {queue[i] : i \in DOMAIN queue}
Sending == UNION {chunk[w] : w \in Workers}

\* What the connector records as acknowledged is in the receiver's store, and
\* the batch it refers to was answered with a result for that event: a
\* checkpoint never precedes the receiver's durable commit, whatever is lost,
\* late or answered by the stored answer of an earlier process.
AckedIsDurable ==
  /\ checkpoints \subseteq {a.id : a \in acks}
  /\ \A e \in Acked :
       /\ e \in stored
       /\ ref[e] \in checkpoints
       /\ \E a \in acks : a.id = ref[e] /\ e \in a.accepted \union a.duplicate

\* Every event that is queued, being sent, on the network or at the receiver
\* was journaled first: a restart can always find it again.
JournaledFirst ==
  /\ Queued \union Sending \union stored \subseteq Journaled
  /\ \A b \in wire : b.id.events \subseteq Journaled

\* The receiver stores each event in exactly one batch; every other batch that
\* carries it was told duplicate, so resending never double counts.
AcceptedOnce ==
  /\ \A a, b \in acks : a # b => a.accepted \intersect b.accepted = {}
  /\ UNION {a.accepted : a \in acks} = stored

\* The journal's collision check protects the receiver: no batch a connector
\* can send is ever refused with idempotency_collision.
NeverRefused == \A b \in wire : ~ Refused(b)

\* Every step of a connector, the network and the receiver, a crash included,
\* is a step of the abstract transport or changes nothing in it.
Transport == INSTANCE AtLeastOnce
  WITH journaled <- Journaled, delivered <- stored, confirmed <- Acked

ImplementsAtLeastOnce == Transport!Spec

\* No event is in two places of the queue and the sender threads at once, so
\* two threads never send the same event at the same time.
OneSender ==
  /\ \A i, j \in DOMAIN queue : i # j => queue[i] \intersect queue[j] = {}
  /\ \A w, v \in Workers : w # v => chunk[w] \intersect chunk[v] = {}
  /\ Queued \intersect Sending = {}

\* A row that is pending is eventually acknowledged.
PendingIsDelivered ==
  \A e \in Events : (status[e] = "pending") ~> (status[e] = "acknowledged")
=============================================================================

-------------------------- MODULE PassiveExporter ---------------------------
(***************************************************************************)
(* The passive exporter of shadow events,                                  *)
(*   src/collectors/shadow/integrated_exporter.py                          *)
(*   src/collectors/shadow/durable_runtime.py   spool, checkpoint, queue   *)
(* with any sink that keeps the acknowledgement contract.                  *)
(*                                                                         *)
(* An event is written to the spool, queued by priority, sent in batches,  *)
(* retried, entered in the checkpoint and removed from the spool.  Spool   *)
(* and checkpoint survive the process, which may end between any two of    *)
(* its writes; the next one reads the spool back.  An event id and its     *)
(* idempotency key are digests of one identity, so an event stands for     *)
(* both and for its spool file.                                            *)
(***************************************************************************)
EXTENDS Naturals, FiniteSets

CONSTANTS Events,
          NoEvent,
          Valid,        \* the events that pass schema and privacy validation
          Priority,     \* priorities[event_type] of each event, 1 first
          Path,         \* the place of its file in the sorted spool
          Capacity,     \* capacity of the queue
          SpoolSize,    \* spool_bytes, in events
          BatchSize,
          MaxAttempts,  \* maximum_attempts
          MaxSubmits,   \* bound of the model: times the source submits each event
          MaxFailures,  \* bound of the model: sends that do not go well
          MaxCrashes    \* bound of the model: ends of the process

ASSUME ExporterAssumption ==
  /\ NoEvent \notin Events
  /\ Valid \subseteq Events
  /\ Priority \in [Events -> Nat]
  /\ Path \in [Events -> Nat]
  /\ \A d, e \in Events : Path[d] = Path[e] => d = e
  /\ Capacity \in Nat \ {0} /\ BatchSize \in Nat \ {0}
  /\ SpoolSize \in Nat /\ MaxAttempts \in Nat \ {0}
  /\ MaxSubmits \in [Events -> Nat]
  /\ MaxFailures \in Nat /\ MaxCrashes \in Nat

VARIABLES
  spool,      \* events with a file in the spool directory
  saved,      \* checkpoint.acknowledged, as in its file
  sink,       \* what the sink has stored
  queue,      \* _items of the priority queue: events with their number
  number,     \* _sequence of the queue
  pc,         \* where the process is
  current,    \* the event of the call or of the loop
  todo,       \* files recover() has still to look at
  pending,    \* entries of the batch that have no outcome yet
  retry,      \* retry_events
  attempt,
  answer,     \* the decision on the acknowledgement of each event
  dropped,    \* events in drop_registry
  dropCount,  \* its length
  total,      \* total_input_events
  taken,      \* history: every event that was ever in the spool
  repeated,   \* history: this process was given an event it already held
  submits, failures, crashes

disk   == <<spool, saved, taken>>
batch  == <<pending, retry, attempt, answer>>
counts == <<dropped, dropCount, total, repeated>>
bounds == <<submits, failures, crashes>>
vars   == <<disk, sink, queue, number, pc, current, todo, batch, counts, bounds>>

Entries == [event : Events, number : Nat]
EventsOf(S) == {x.event : x \in S}

\* Decisions of validate_ack(), and none before the answer.
Outcomes == {"none", "success", "retryable", "permanent"}

Init ==
  /\ spool = {} /\ saved = {} /\ sink = {} /\ taken = {}
  /\ queue = {} /\ number = 0
  /\ pc = "down" /\ current = NoEvent
  /\ todo = {} /\ pending = {} /\ retry = {} /\ attempt = 1
  /\ answer = [e \in Events |-> "none"]
  /\ dropped = {} /\ dropCount = 0 /\ total = 0 /\ repeated = FALSE
  /\ submits = [e \in Events |-> 0] /\ failures = 0 /\ crashes = 0

\* The process is gone, and with it everything that is not on disk.
MemoryLost ==
  /\ queue' = {} /\ number' = 0
  /\ pc' = "down" /\ current' = NoEvent
  /\ todo' = {} /\ pending' = {} /\ retry' = {} /\ attempt' = 1
  /\ answer' = [e \in Events |-> "none"]
  /\ dropped' = {} /\ dropCount' = 0 /\ total' = 0 /\ repeated' = FALSE

TypeOK ==
  /\ spool \subseteq Events /\ saved \subseteq Events
  /\ sink \subseteq Events /\ taken \subseteq Events
  /\ queue \subseteq Entries /\ number \in Nat
  /\ pc \in {"down", "recover", "idle", "validated", "spooled",
             "drain", "send", "acks", "compact"}
  /\ current \in Events \union {NoEvent}
  /\ todo \subseteq Events
  /\ pending \subseteq Entries /\ retry \subseteq Entries
  /\ attempt \in 1..MaxAttempts
  /\ answer \in [Events -> Outcomes]
  /\ dropped \subseteq Events /\ dropCount \in Nat /\ total \in Nat /\ repeated \in BOOLEAN
  /\ submits \in [Events -> Nat] /\ \A e \in Events : submits[e] <= MaxSubmits[e]
  /\ failures \in 0..MaxFailures /\ crashes \in 0..MaxCrashes
-----------------------------------------------------------------------------
(* The priority queue *)

\* The order of the heap's tuples: priority, then arrival.
Before(x, y) ==
  \/ Priority[x.event] < Priority[y.event]
  \/ Priority[x.event] = Priority[y.event] /\ x.number < y.number

First(x, S) == x \in S /\ \A y \in S \ {x} : Before(x, y)
Worst(x, S) == x \in S /\ \A y \in S \ {x} : Before(y, x)

Entry(e) == [event |-> e, number |-> number]
HasRoom  == Cardinality(queue) < Capacity

\* put(): there is room.
PutAccepts(e) ==
  /\ HasRoom
  /\ queue' = queue \union {Entry(e)}
  /\ number' = number + 1

\* put(): the queue is full and x, its worst entry, has a lower priority.
PutEvicts(e, x) ==
  /\ ~ HasRoom
  /\ Worst(x, queue) /\ Priority[e] < Priority[x.event]
  /\ queue' = (queue \ {x}) \union {Entry(e)}
  /\ number' = number + 1

\* put(): the queue is full of entries at least as important.
PutRejects(e) ==
  /\ ~ HasRoom
  /\ \E x \in queue : Worst(x, queue) /\ Priority[e] >= Priority[x.event]
  /\ number' = number + 1
  /\ UNCHANGED queue

\* _account_drop()
Drop(e) ==
  /\ dropped' = dropped \union {e}
  /\ dropCount' = dropCount + 1
-----------------------------------------------------------------------------
(* Construction and recover() *)

\* __init__ loads the checkpoint, and recover() lists the spool.
Start ==
  /\ pc = "down"
  /\ pc' = "recover"
  /\ todo' = spool
  /\ total' = Cardinality(saved)
  /\ UNCHANGED <<disk, sink, queue, number, current, batch, dropped, dropCount, repeated, bounds>>

NextFile(e) == e \in todo /\ \A d \in todo \ {e} : Path[e] < Path[d]

\* Mutant of RecoverAcked: the file stays.
RecoverAckedKeepsFile(e) ==
  /\ pc = "recover" /\ NextFile(e)
  /\ e \in saved
  /\ todo' = todo \ {e}
  /\ UNCHANGED <<disk, sink, queue, number, pc, current, batch, counts, bounds>>

\* The checkpoint wins: its events leave the spool without being sent again.
RecoverAcked(e) ==
  /\ pc = "recover" /\ NextFile(e)
  /\ e \in saved
  /\ spool' = spool \ {e}
  /\ todo' = todo \ {e}
  /\ UNCHANGED <<saved, taken, sink, queue, number, pc, current, batch, counts, bounds>>

\* The others are queued.  What put() evicts is not looked at.
RecoverQueued(e) ==
  /\ pc = "recover" /\ NextFile(e)
  /\ e \notin saved
  /\ PutAccepts(e) \/ \E x \in queue : PutEvicts(e, x)
  /\ todo' = todo \ {e}
  /\ total' = total + 1
  /\ UNCHANGED <<disk, sink, pc, current, batch, dropped, dropCount, repeated, bounds>>

\* recovery_queue_capacity_insufficient: the exception ends the process.
RecoverFails(e) ==
  /\ pc = "recover" /\ NextFile(e)
  /\ e \notin saved
  /\ ~ HasRoom
  /\ \E x \in queue : Worst(x, queue) /\ Priority[e] >= Priority[x.event]
  /\ MemoryLost
  /\ UNCHANGED <<disk, sink, bounds>>

RecoverDone ==
  /\ pc = "recover" /\ todo = {}
  /\ pc' = "idle"
  /\ UNCHANGED <<disk, sink, queue, number, current, todo, batch, counts, bounds>>
-----------------------------------------------------------------------------
(* submit() *)

\* The call, and a validation that fails.
SubmitInvalid(e) ==
  /\ pc = "idle" /\ e \notin Valid
  /\ submits[e] < MaxSubmits[e]
  /\ submits' = [submits EXCEPT ![e] = @ + 1]
  /\ total' = total + 1
  /\ Drop(e)
  /\ UNCHANGED <<disk, sink, queue, number, pc, current, todo, batch, repeated, failures, crashes>>

Submit(e) ==
  /\ pc = "idle" /\ e \in Valid
  /\ submits[e] < MaxSubmits[e]
  /\ submits' = [submits EXCEPT ![e] = @ + 1]
  /\ total' = total + 1
  /\ repeated' = (repeated \/ e \in spool \union saved)
  /\ pc' = "validated" /\ current' = e
  /\ UNCHANGED <<disk, sink, queue, number, todo, batch, dropped, dropCount, failures, crashes>>

\* Mutant of SpoolAppend: the event is queued without a file.
SpoolNothing ==
  /\ pc = "validated"
  /\ pc' = "spooled"
  /\ UNCHANGED <<disk, sink, queue, number, current, todo, batch, counts, bounds>>

\* spool.append(), a replace of a file that is synced.
SpoolAppend ==
  /\ pc = "validated"
  /\ Cardinality(spool) < SpoolSize
  /\ spool' = spool \union {current}
  /\ taken' = taken \union {current}
  /\ pc' = "spooled"
  /\ UNCHANGED <<saved, sink, queue, number, current, todo, batch, counts, bounds>>

\* SpoolFull, also when the file would replace its own old copy.
SpoolIsFull ==
  /\ pc = "validated"
  /\ Cardinality(spool) >= SpoolSize
  /\ Drop(current)
  /\ pc' = "idle" /\ current' = NoEvent
  /\ UNCHANGED <<disk, sink, queue, number, todo, batch, total, repeated, bounds>>

Enqueue ==
  /\ pc = "spooled"
  /\ PutAccepts(current)
  /\ pc' = "idle" /\ current' = NoEvent
  /\ UNCHANGED <<disk, sink, todo, batch, counts, bounds>>

\* Mutant of EnqueueEvicts: the file of the new event goes.
EnqueueEvictsWrongFile ==
  /\ pc = "spooled"
  /\ \E x \in queue : PutEvicts(current, x) /\ Drop(x.event) /\ spool' = spool \ {current}
  /\ pc' = "idle" /\ current' = NoEvent
  /\ UNCHANGED <<saved, taken, sink, todo, batch, total, repeated, bounds>>

EnqueueEvicts ==
  /\ pc = "spooled"
  /\ \E x \in queue : PutEvicts(current, x) /\ Drop(x.event) /\ spool' = spool \ {x.event}
  /\ pc' = "idle" /\ current' = NoEvent
  /\ UNCHANGED <<saved, taken, sink, todo, batch, total, repeated, bounds>>

\* Mutant of EnqueueRejected: the rejection is not accounted.
EnqueueRejectedSilently ==
  /\ pc = "spooled"
  /\ PutRejects(current)
  /\ spool' = spool \ {current}
  /\ pc' = "idle" /\ current' = NoEvent
  /\ UNCHANGED <<saved, taken, sink, todo, batch, counts, bounds>>

EnqueueRejected ==
  /\ pc = "spooled"
  /\ PutRejects(current)
  /\ Drop(current)
  /\ spool' = spool \ {current}
  /\ pc' = "idle" /\ current' = NoEvent
  /\ UNCHANGED <<saved, taken, sink, todo, batch, total, repeated, bounds>>
-----------------------------------------------------------------------------
(* drain() *)

Drain ==
  /\ pc = "idle"
  /\ pc' = "drain"
  /\ UNCHANGED <<disk, sink, queue, number, current, todo, batch, counts, bounds>>

DrainDone ==
  /\ pc = "drain" /\ queue = {}
  /\ pc' = "idle"
  /\ UNCHANGED <<disk, sink, queue, number, current, todo, batch, counts, bounds>>

\* get_batch(): the most important entries, as many as a batch takes.
TakeBatch ==
  /\ pc = "drain" /\ queue # {}
  /\ \E S \in SUBSET queue :
       /\ Cardinality(S) = IF Cardinality(queue) < BatchSize THEN Cardinality(queue) ELSE BatchSize
       /\ \A x \in S, y \in queue \ S : Before(x, y)
       /\ pending' = S
       /\ queue' = queue \ S
  /\ attempt' = 1 /\ retry' = {}
  /\ pc' = "send"
  /\ UNCHANGED <<disk, sink, number, current, todo, answer, counts, bounds>>

\* The batch leaves the process; what is not settled stays in the spool.
BatchEnds ==
  /\ pending' = {} /\ retry' = {} /\ attempt' = 1
  /\ answer' = [e \in Events |-> "none"]
  /\ pc' = "drain"

\* The next round of the loop with the entries S, or retry_exhausted.
TryAgain(S) ==
  IF attempt < MaxAttempts
  THEN /\ pending' = S /\ retry' = {}
       /\ attempt' = attempt + 1
       /\ answer' = [e \in Events |-> "none"]
       /\ pc' = "send"
  ELSE BatchEnds

SendGoesWrong == failures < MaxFailures /\ failures' = failures + 1

\* What the sink has stored of the batch before the call fails.
SinkStores(S) == sink' = sink \union S

\* A timeout, a reset before or after the sink stored the batch, ...
SendFails ==
  /\ pc = "send" /\ SendGoesWrong
  /\ \E S \in SUBSET EventsOf(pending) : SinkStores(S)
  /\ TryAgain(pending)
  /\ UNCHANGED <<disk, queue, number, current, todo, counts, submits, crashes>>

\* A failure that is not retryable: every event of the batch is given up, one
\* by one, as if the sink had answered so (AckPermanent).
SendRefused ==
  /\ pc = "send" /\ SendGoesWrong
  /\ answer' = [e \in Events |-> IF e \in EventsOf(pending) THEN "permanent" ELSE "none"]
  /\ pc' = "acks"
  /\ UNCHANGED <<disk, sink, queue, number, current, todo, pending, retry, attempt, counts, submits, crashes>>

\* Mutant of AnswerMalformed: the batch is compacted all the same.
AnswerMalformedRemoves ==
  /\ pc = "send" /\ SendGoesWrong
  /\ spool' = spool \ EventsOf(pending)
  /\ BatchEnds
  /\ UNCHANGED <<saved, taken, sink, queue, number, current, todo, counts, submits, crashes>>

\* AckContractError: the batch is not retried and its files stay.
AnswerMalformed ==
  /\ pc = "send" /\ SendGoesWrong
  /\ \E S \in SUBSET EventsOf(pending) : SinkStores(S)
  /\ BatchEnds
  /\ UNCHANGED <<disk, queue, number, current, todo, counts, submits, crashes>>

\* Mutant of SendAnswered: a temporary rejection counts as a success.
SendAnsweredLoosely ==
  /\ pc = "send"
  /\ \E A \in [EventsOf(pending) -> {"success", "retryable"}] :
       /\ (\E e \in DOMAIN A : A[e] # "success") => failures < MaxFailures
       /\ SinkStores({e \in DOMAIN A : A[e] = "success"})
       /\ failures' = IF \E e \in DOMAIN A : A[e] # "success" THEN failures + 1 ELSE failures
  /\ answer' = [e \in Events |-> IF e \in EventsOf(pending) THEN "success" ELSE "none"]
  /\ pc' = "acks"
  /\ UNCHANGED <<disk, queue, number, current, todo, pending, retry, attempt, counts, submits, crashes>>

\* An acknowledgement for every event, matched by key: the sink has stored
\* those it accepts or calls duplicates.
SendAnswered ==
  /\ pc = "send"
  /\ \E A \in [EventsOf(pending) -> {"success", "retryable", "permanent"}] :
       /\ SinkStores({e \in DOMAIN A : A[e] = "success"})
       /\ IF \A e \in DOMAIN A : A[e] = "success" THEN UNCHANGED failures ELSE SendGoesWrong
       /\ answer' = [e \in Events |-> IF e \in DOMAIN A THEN A[e] ELSE "none"]
  /\ pc' = "acks"
  /\ UNCHANGED <<disk, queue, number, current, todo, pending, retry, attempt, counts, submits, crashes>>

\* The decisions, in the order of the batch.
AckSuccess(x) ==
  /\ pc = "acks" /\ First(x, pending)
  /\ answer[x.event] = "success"
  /\ saved' = saved \union {x.event}
  /\ pending' = pending \ {x}
  /\ pc' = "compact" /\ current' = x.event
  /\ UNCHANGED <<spool, taken, sink, queue, number, todo, retry, attempt, answer, counts, bounds>>

Compact ==
  /\ pc = "compact"
  /\ spool' = spool \ {current}
  /\ pc' = "acks" /\ current' = NoEvent
  /\ UNCHANGED <<saved, taken, sink, queue, number, todo, batch, counts, bounds>>

AckRetryable(x) ==
  /\ pc = "acks" /\ First(x, pending)
  /\ answer[x.event] = "retryable"
  /\ pending' = pending \ {x} /\ retry' = retry \union {x}
  /\ UNCHANGED <<disk, sink, queue, number, pc, current, todo, attempt, answer, counts, bounds>>

AckPermanent(x) ==
  /\ pc = "acks" /\ First(x, pending)
  /\ answer[x.event] = "permanent"
  /\ Drop(x.event)
  /\ spool' = spool \ {x.event}
  /\ pending' = pending \ {x}
  /\ UNCHANGED <<saved, taken, sink, queue, number, pc, current, todo, retry, attempt, answer, total, repeated, bounds>>

AcksDone ==
  /\ pc = "acks" /\ pending = {}
  /\ IF retry = {} THEN BatchEnds ELSE TryAgain(retry)
  /\ UNCHANGED <<disk, sink, queue, number, current, todo, counts, bounds>>
-----------------------------------------------------------------------------
\* The process ends anywhere; the boundaries the tests name are all here.
Crash ==
  /\ pc # "down"
  /\ crashes < MaxCrashes
  /\ crashes' = crashes + 1
  /\ MemoryLost
  /\ UNCHANGED <<disk, sink, submits, failures>>

RecoverStep == \E e \in todo : RecoverAcked(e) \/ RecoverQueued(e) \/ RecoverFails(e)

SubmitStep == SpoolAppend \/ SpoolIsFull \/ Enqueue \/ EnqueueEvicts \/ EnqueueRejected

DrainStep ==
  \/ DrainDone \/ TakeBatch
  \/ SendFails \/ SendRefused \/ AnswerMalformed \/ SendAnswered
  \/ \E x \in pending : AckSuccess(x) \/ AckRetryable(x) \/ AckPermanent(x)
  \/ Compact \/ AcksDone

Next ==
  \/ Start \/ RecoverStep \/ RecoverDone
  \/ \E e \in Events : SubmitInvalid(e) \/ Submit(e)
  \/ SubmitStep
  \/ Drain \/ DrainStep
  \/ Crash

Spec == Init /\ [][Next]_vars

\* The caller starts a new process when one has ended, recovers, and drains a
\* queue that is not empty; the process runs.  Nothing that goes wrong is fair.
Fairness ==
  /\ WF_vars(Start) /\ WF_vars(RecoverStep) /\ WF_vars(RecoverDone)
  /\ WF_vars(SubmitStep)
  /\ WF_vars(queue # {} /\ Drain) /\ WF_vars(DrainStep)

FairSpec == Spec /\ Fairness
-----------------------------------------------------------------------------
(* Properties *)

\* The checkpoint names only events the sink has stored: whatever acknowledgements,
\* retries and restarts there were, "delivered" is never said too early.
CheckpointedIsDelivered == saved \subseteq sink

\* A file leaves the spool only when the checkpoint has its event or a drop
\* record names it, so nothing that was taken over vanishes without a trace.
RemovedOnlyWhenSettled == [][spool \ spool' \subseteq saved' \union dropped']_vars

\* reconciliation(): unaccounted_drop_count is zero whenever no call is under
\* way, after any number of retries, evictions, rejections and restarts, for a
\* source that gives an event again only when the exporter does not have it.
Reconciled ==
  pc = "idle" /\ ~ repeated => total = Cardinality(saved) + Cardinality(spool) + dropCount

\* What waits in memory is on disk: for the same source the queue, the batch and
\* the retries never hold the only copy of an event.
QueuedIsDurable == repeated \/ EventsOf(queue \union pending \union retry) \subseteq spool

\* put() under pressure drops the least important: while an event waits in the
\* queue nothing more important was evicted or rejected for it.
LeastImportantDropped ==
  [][pc = "spooled" =>
       \A e \in dropped' \ dropped, x \in queue' : Priority[x.event] <= Priority[e]]_vars

\* The abstract transport of AtLeastOnce.tla: taken over when spooled.
Abstract == INSTANCE AtLeastOnce WITH
              journaled <- taken, delivered <- sink, confirmed <- saved

ImplementsAtLeastOnce == Abstract!Spec

\* "eventual reconciliation" of the scenarios exporter_restart and sink_restart
\* (src/collectors/shadow/fault_registry.py): an event that a new process finds
\* in the spool is settled, if the sink works from then on.
RestartReconciles ==
  \A e \in Events :
    (pc = "recover" /\ e \in spool /\ failures = MaxFailures) ~> (e \notin spool)

\* It does hold of the last process when its queue can hold all of the spool.
SpoolFits == Cardinality(spool) <= Capacity /\ crashes = MaxCrashes

FittingSpoolReconciles ==
  \A e \in Events :
    (pc = "recover" /\ todo = spool /\ e \in spool /\ SpoolFits /\ failures = MaxFailures)
      ~> (e \notin spool)
=============================================================================

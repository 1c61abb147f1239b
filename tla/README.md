# Filin: a verification development

Filin collects network telemetry in a laboratory, decides on it with frozen
models, and moves the resulting *shadow events* to an operator without acting
on the network. Most of the repository is data work: feature extraction,
training, reports, validators of documents. What is concurrent, persistent or
exposed to failures is small and central: the transport of events, the
passive exporter, and the operator console that runs tasks and laboratory
workflows. This directory models that part in TLA+, checks it with TLC and
proves its main guarantees with TLAPS.

## 1. Inventory

| Component | State it keeps | Operations | Talks to | What is hard | What makes it correct |
|---|---|---|---|---|---|
| Sensor daemon `rehearsal/sensor_daemon.py` | `events.jsonl` offset in memory and in a checkpoint file | read a page, post it, save the offset | connector (HTTP) | lost answers, late calls, crash between answer and checkpoint, a file that grows while a request is retried | never skips a line; ships every line |
| Connector journal `staging/storage.py` (`ConnectorJournal`) | SQLite: request commits, event rows with status `pending`/`acked`, batch reference, traces | `append`, `pending`, `checkpoint`, `trace` | connector threads | replayed and overlapping requests, colliding identities, rollback | a request is taken over as a whole or not at all |
| Rehearsal connector `rehearsal/connector_app.py` | in-flight set, bounded queue, sequence, sender threads | HTTP ingress, submit, pump, send, retry, requeue | journal, receiver (HTTPS) | mark under a lock and put outside it, full queue, timeout against a late commit, restart with the same batch ids | no event at two senders; acknowledged rows are stored; pending rows are delivered |
| Staging connector `staging/connector/app.py` | bounded queue, sequence, sender threads | the same without marks and pump | journal, receiver | no rehydration while running, one page at restart, ids shared by threads | the same |
| Receiver `staging/storage.py` (`ReceiverStore`), `*/reference_receiver*` | SQLite: stored events, stored acknowledgement per batch | `commit` | connector | batch id seen before, event seen before, collision | each event is accepted once |
| Operator view `rehearsal/operator_view.py` | rowid cursor, bounded buffer | poll | receiver database | cursor against concurrent commits | no event skipped |
| Integrated exporter `collectors/shadow/integrated_exporter.py` | spool directory, checkpoint file, priority queue, drop registry | `submit`, `recover`, `drain` | sink | nine crash boundaries, partial batches, eviction, retries, accounting | no event lost without a drop record; nothing delivered twice to the sink's set |
| Task runner `lab_console/jobs/runner.py` | processes in memory, `task_runs` rows | `run`, watcher thread, `cancel`, `recover` | child processes, database | watcher against cancel, restart | a finished run keeps its outcome; the limit on parallel runs |
| Laboratory runs `lab_console/lab_runs.py` | a row per run, a bundle of files per run | create, validate, execute (with an interruption the operator asks for), recover, cancel | database, files | an end of the console between any two files or rows; a revision of the code that changes between two executions of one run | a completed run has a whole bundle, from one execution; a bundle with a manifest is never touched; no started run is stranded |
| Blind validation `lab_console/blind_validations.py` | one row, a prediction file per participant, a review | overlap and blindness checks, plan freeze, inference runs, recovery, prediction freeze, unlock, evaluation, comparison, review, decision | database, files | most requests may come again at any time; ends of the console between files and row | what is evaluated was inferred and committed before the labels were unlocked; the procedure can be finished |
| Candidate proposal `lab_console/candidate_proposals.py` | training records, one proposal row, reviews | train (twice at most), cancel, recover, verify reproducibility, freeze, screen, compare, gate, review, decision | database, files | three records are written one after the other and read by different requests; requests after the decision | what is screened is what was shown to be reproducible and frozen; an admission has its screening and its review |
| Review sessions `lab_console/review.py` | versioned rows | note, step, complete | database | read-modify-write of one row | no update lost |
| Shadow trial `collectors/shadow_trial/` | session state file, exporter | process windows, recover | exporter | crash between window and state | no window twice |
| Decision state machine, alert lifecycle `ml/experiments/v0_3_11`, `ml/decision` | pending evidence | pure step functions | | boundaries of time windows | deterministic, bounded |
| Incident reconstruction, marker intervals | none | pure algorithms | | ordering, ties | agree with a reference definition |
| Campaign `lab/network_validation/phase1_runtime.py`, `phase1_docker_runner.py` | the journal and its lock file, the mapping of sealed sessions, one directory per attempt, containers | run or preflight the next session, recover a sealed completion | Docker, files | several commands at a time, a lock file, deaths and errors between any two stores, the retry of a failed attempt | the plan is walked in order, at most two attempts each; completed units are sealed; failed evidence is kept; the campaign can go on |
| Everything else | | scripts, validators, reports, static data | | | not modelled, section 10 |

The file `PROJECT.json` lists the components with their status, and the
hazards of the code, each at its line with the properties that cover it.

## 2. Plan

1. **Transport** (done): `EventContract`, `ConnectorJournal`,
   `ReceiverStore`, `BatchSender`; `DurableDelivery` and `StagingDelivery`
   compose them; `AtLeastOnce` is the abstract transport; `SensorDaemon` is
   the client of the journal. Proof modules for all of them.
2. **Passive exporter** (done): `PassiveExporter` with the spool, the
   checkpoint and the priority queue, and an end of the process at any step;
   it implements `AtLeastOnce` too.
3. **Task runner** (done): `TaskRunner` with the watcher threads, cancel and
   restart.
4. **Procedures** (done): `CampaignLedger` and `CampaignRunner`, which
   implements `PlanWalk`; `LabRun`; `BlindValidation`; `CandidateProposal`;
   `Procedures` puts them side by side for the runs.
5. **Readers and trials** (left): `OperatorView` over `ReceiverStore`; the
   shadow trial over the exporter; `ReviewSession`.
6. **Pure algorithms** (left): decision state machine, alert lifecycle, marker
   intervals, reconstruction ordering, each against a reference definition.

The abstract specifications are the at-least-once transport (shown by TLC and
proved for both connectors and the exporter) and the walk through the plan of a
campaign (likewise). Theorems: type correctness of every module, its safety
invariants and action properties, the refinements, and the safety half of the
liveness properties.

## 3. The transport modules

| Module | Models | Correspondence |
|---|---|---|
| `EventContract` | event identity and request shape | `Key` is the idempotency key; two events collide when the key or the id agrees and the body does not |
| `ConnectorJournal` | `ConnectorJournal` | `commits`: requests with a commit row; `status`: the row of an event (`absent`, `pending`, `acked`); `owner`, `earlier`: the ids a request created and the duplicates it met; `ref`: the batch reference |
| `ReceiverStore` | `ReceiverStore` | `stored`: event rows; `acks`: the stored acknowledgements |
| `BatchSender` | what both connectors share | `queue`, `seq`, and per thread `wpc`, `chunk`, `attempt`, `sent`; `wire` holds the batches that the receiver has not seen. One action per call in `_worker` that another thread can observe |
| `DurableDelivery` | `rehearsal/connector_app.py` | adds `inFlight` and the submitters: `Ingress`, `PumpReads`, `Mark` (under the lock), `Put`/`PutTimesOut` (outside it), `Release`, `HandlerFails`, `PumpDies`, `WorkerDies`, `Crash` |
| `StagingDelivery` | `staging/connector/app.py` | `held`: what a handler has journaled and not queued; no marks, `Crash` queues one page |
| `AtLeastOnce` | the promise `at_least_once_with_semantic_idempotency` of `ml/protocols/v0_3_17_protocol.yaml` | `journaled`, `delivered`, `confirmed`; both connectors implement it with journaled rows, the receiver's rows and acknowledged rows |
| `SensorDaemon` | `rehearsal/sensor_daemon.py` with the journal as its server | `written` lines so far, `offset` in memory, `saved` in the file, the call in progress and late calls |

Choices a reader should know:

* A transaction is one step. Each store holds one connection (`self.db`, with
  `isolation_level=None`) and brackets its writes with `BEGIN IMMEDIATE` and
  `COMMIT` under a lock of the store, so that no other call sees one half done. An
  SQLite error is `StorageFault` (rehearsal) or `Fault` (staging), and what
  follows is what the code does with the exception: a handler answers 503
  after its commit, a sender or pump thread ends.
* Rows are pending in the order of their commits. The code orders them by the time
  it takes (`storage.py:47`) before it has the lock (`:51`), so two handlers may be the
  other way round there; no property depends on the order.
* A call on the network is delivered now, delivered late after its sender
  timed out, or lost; its answer may be lost. The transport is TCP, so the
  network does not duplicate. `wire` is a set: two batches with the same
  id, attempt and events are one element. They exist only across a restart
  and the second commit is answered with the stored acknowledgement and
  changes nothing, so merging them loses no behaviour of the stores.
* A batch id is a record (sequence, what it says of the thread, events): the
  code digests exactly these. `InId` is the identity in the rehearsal
  connector and constant in the staging one; the assumption of each module
  says which. Digests are taken to be injective.
* The names with `Mutant of` before them are deliberately wrong variants
  kept for testing that the properties notice them. Nothing uses them.

## 4. The exporter and the task runner

`PassiveExporter` models `IntegratedPassiveExporter` with
`durable_runtime.py` and `acknowledgement.py`.

| State | In the code |
|---|---|
| `spool`, `saved` | files of the spool directory; `checkpoint.acknowledged` as its file has it |
| `queue`, `number` | `_items` and `_sequence` of the priority queue; an entry is an event with its number |
| `pc`, `current`, `todo`, `pending`, `retry`, `attempt`, `answer` | where `submit`, `recover` or `drain` is, and their local variables |
| `dropped`, `dropCount`, `total` | the drop registry, its length, `total_input_events` |
| `sink` | the keys the sink has stored |
| `taken`, `repeated` | history: what was ever spooled; whether this process was given an event that it already had |

* An event id and its idempotency key are digests of the same identity and the
  key names the spool file, so one value stands for all three.
* Every event has the same size; the spool's limit is a number of events. The
  token bucket delays a batch and changes nothing else, so it is left out. A
  damaged file or a disk error, which the code refuses or lets through as an
  exception, is not modelled.
* The sink keeps the contract of `validate_ack`: it answers accepted or
  duplicate only for what it has stored. An answer that breaks the contract is
  `AnswerMalformed`. A failure that cannot be retried gives up each event
  of the batch one after the other, like a permanent answer (`SendRefused`).
* `Crash` may happen at every step, which includes each of `CRASH_BOUNDARIES`;
  what remains is `spool`, `saved` and the sink.
* `Reconciled` and `QueuedIsDurable` are conditioned on `~ repeated`. A second
  submit of an event that waits in a full queue is rejected and removes the
  file of the first; the totals then count one event twice. The scenarios give
  an event again only when it was lost before it was spooled. Every other
  property holds of any source.

`TaskRunner` models `jobs/runner.py`: the one request handler (`hpc`, `hrun`),
a watcher thread per run (`wpc`, `verdict`), the children (`child`, `reaped`,
`asked`), the rows (`status`) and the dictionary `processes`. `MCTaskRunner` names
two tasks of the catalog.

* The console's endpoints are coroutines that call the runner without an
  `await`, so two requests never interleave; watchers and children interleave
  with everything, between any two transactions.
* `Terminate` is both platforms: `taskkill` of one process tree, or `killpg`.
  `Popen` makes no new group on POSIX, so the signal reaches the console and
  all its children; the server then finishes the request and exits (`Exit`).
* To be told to end is not to end. SIGTERM can be caught, the return code of
  `taskkill` is not looked at, and neither the watcher nor `cancel` waits before it writes
  the row. `Terminate` therefore only puts the process among those that were `asked`, and
  `ChildExits` may take it at any later time or never. So a row may say cancelled
  while its child lives, and `run` may start another beside it: `LiveWithinLimit` is about the
  children that nobody told to end, and `FinishedOrTold` about what a row supports, an
  exit code or an order to end. That a finished row has no process is claimed by
  neither.
* `run` counts the running rows of the same task id. `allowed_tasks_v2.yaml` gives several
  tasks one `exclusive_group`, and two different ones of a group do run together;
  `InConflict` follows the code, and `LiveWithinLimit` says what it gives: of a task with a group,
  one at a time.
* Rows of an earlier
  console stay; `recover` changes `running` only, so a row left `cancelling`
  stays so although `docs/research/laboratory-console.md` says unfinished records
  become orphaned. `EveryRunEnds` names that exception (`Abandoned`).
* `parent` is history: the runs started by this console. The limit is stated
  of them; children that survive their console are counted by nobody.
* An SQLite error is not modelled.

## 5. The procedures

`CampaignLedger` and `CampaignRunner` model the journal
(`phase1_runtime.py`) and the commands over it (`phase1_docker_runner.py`).

| State | In the code |
|---|---|
| `ledger`, `lock` | `campaign-ledger.jsonl`, as the records' sequence number, unit, event and attempt; its lock file |
| `mapping`, `dir`, `containers` | the units of `sealed-mapping.jsonl`; the directory of each attempt (none, staging, used by the behaviour, ready, sealed, failed); Docker's containers and networks in its namespace |
| `pc`, `mode`, `at`, `started`, `reason` | where each command is, and its local variables |
| `inside`, `seen` | commands in `_exclusive_lock` and the length of the journal each has read |

* A command is a process; `Operators` of them run at a time. An append
  is two steps: `Enter` takes the lock file and reads the journal, `Write` appends and
  lets go. A command that finds the lock file removes it in its `finally` clause, as
  the code does.
* A unit's state in the transition table of
  `execution/phase1_runtime_contract.json` is the set of its lines in the
  journal, because each state is reached along one path.
* `PlanWalk` is what the journal promises: units in the order of the plan, one or
  two attempts each, one attempt open at a time.

`LabRun` models `lab_runs.py`. `state` and `result` are a run's row; `files`,
`manifest` and `semantic` are the parts of its bundle in the order they are
written, each told by the revision of the execution that wrote it; `lpc`, `lrun`
and `built` are the request in progress. The listed files count as one write, since
they may be overwritten until there is a manifest. A row can fail to be written in three
places where nothing catches it: for the interruption that was asked for (`:167`, outside
the `try`), in the except clause itself (`:175`), and in `recover`. `RowFails` is all of
them; the request ends, and `unsaved` (history) remembers the run until the console starts
again. A run that says running without a request is `Stranded`: execute, recover and cancel
refuse it until a restart marks it interrupted.

`BlindValidation` models `blind_validations.py`: the gates, `inferences` (the
list `inference_runs`), `packages` (the prediction files), `commitments`, the unlock with
`labelUnlock`, and what was evaluated and accepted. Predictions are told by the
number of the run that made them. A write opens the file, which empties it, and then fills it
(`OpenProposal`, `WriteProposal`), so a request that is cut off leaves a file that cannot be
read (0). A freeze can be asked for again, after the unlock too, and overwrites the files before
its row: `FilesFollowCommitment` says what the files can then hold. `leaky` says that the pack itself fails the
blindness gate, which only a new pack can mend.

`CandidateProposal` models `candidate_proposals.py`: `trainings` (the training
records), `bound` and `model` (what the proposal row says of them), `assessed` (the
executions the reproducibility assessment compared), `screened`, `good` (its metrics
pass the thresholds), `gated`, `reviews`, `admission`. A completed record that is not bound,
and a bound one that an error marked failed, are both reachable; `FrozenIsScreened` says
what the rest of the procedure guarantees when neither happened. When one did, screening
loads the artifact of the last completed execution and the comparison names the bound one.
Any of the writes may fail, that of an except clause included (`WriteFails`).
`complete_review` marks the remaining steps of a review as completed; it does not refuse a
review with steps left, so the steps are not modelled.

The console's services are called by coroutines without an `await`: one request at a
time, which the console's end may cut off between any two writes. The four share no
state. `Procedures` therefore extends all four and follows one of them in each behaviour,
chosen in the initial state (`procedure`): the union of their behaviours and not
the product, checked in one run.

## 6. Runs

`expect` is "pass" unless stated.

| Run | Instance | Question and answer |
|---|---|---|
| `durable` | 3 events (two collide), 3 requests (one repeats an event), 1 handler and the pump, 1 thread, queue of 1, 2 attempts, 1 network failure, 1 SQLite error, 1 restart; 0.16 M states | An acknowledged row is stored; no event is accepted twice or at two places; the connector implements `AtLeastOnce`; a row loses its last holder with its marks kept only at a full queue or with a dying thread; any other row is delivered |
| `durable_full_queue` (violation) | 2 events, queue of 1, 2 threads, no failures | A submit that meets a full queue leaves its marks behind: the pump skips these rows for as long as the process lives |
| `staging` | the same events and requests, 2 handlers, 2 threads, queue of 1, 2 network failures, 1 error, 1 restart; 0.3 M states | The same safety without marks; a row is forgotten only at a full queue, with a dying thread or by a restart; every other row is delivered |
| `sensor_safety` | file of 4 lines, the last collides with the first and may come late, pages of 2, 3 failures, 2 restarts; 1 k states | The offset never passes a line the journal does not hold; a file that does not grow is shipped |
| `sensor_growing_file` (violation) | file that grows, 2 failures | A retry after a lost answer overlaps the earlier request; when its answer is lost too, every replay looks incomplete and the sensor posts it for ever |
| `exporter_safety` | 3 valid events of 3 priorities, one given twice, and an invalid one; queue of 2, spool of 3, batches of 2, 2 attempts, 2 bad sends, 2 ends of the process; 0.6 M states | Nothing is lost or confirmed early, the accounts balance, and a last process whose spool fits its queue settles everything |
| `exporter_recovery` (violation) | queue of 1, 1 attempt, 1 failure, 1 restart | A batch that exhausts its retries stays in the spool outside the queue, so the spool outgrows the queue; `recover` then evicts an event without noticing, and the process never sends it |
| `task_runner` | 2 runs, an exclusive and a free task, limits 1 and 2, both platforms, 1 crash; 0.9 M states | Children that were not told to end stay within the limit, outcomes have an exit code or an order to end behind them and stay, every run ends or is abandoned while cancelling |
| `task_runner_cancel` (violation) | Windows, no crash | The watcher reads the row, `cancel` marks, kills and records, and the watcher writes its own outcome over `cancelled` |
| `procedures` | campaign: plan of 2 units, one command at a time, 3 errors, 3 deaths; laboratory runs: 2 runs, 2 revisions, 3 ends of the console; blind validation: 2 inference runs each, 1 fault; candidate proposal: 2 reviews, 1 fault; 87 k states | What is recorded as done has its evidence; nothing sealed, failed or listed in a manifest changes; the campaign meets no dead end; only a row that cannot be written strands a laboratory run; committed predictions are on disk or can be frozen again; evaluation is blind; screening is of what was frozen, and records come apart by failures only; admissions are earned; no crash strands a procedure |
| `campaign_lock` (violation) | two commands, no failure | A command that finds the lock file removes it, a later append enters beside the first, and the journal has a number twice |
| `blind_commitment` (violation) | no failure | The predictions can be frozen again after the unlock, so what is accepted is not what was committed |

The six violations are findings, in `PROJECT.json` with the line of the
repository they disagree with.

`DeliveredWhenComplete` and `DeliveredUnlessForgotten` name every way to lose
sight of a row and say that there is no other. In the rehearsal connector: a
thread that died, and a mark left behind by a full queue (`Stranded`). In the staging
connector: a row that is pending and nowhere else (`Forgotten`), because a full queue
refused it, a thread died with it, or a restart read one page and it was on the
next. The first is the finding `durable_full_queue`; the staging connector has the same
gap, and a restart of it queues one page of fifty.

**Bounds.** `MaxFailures`, `MaxCrashes`, `MaxFaults` count the failures of a
behaviour; `QueueCap` is the queue's `maxsize` in chunks, `MaxEvents` the page
and request limit (fifty in the code), `MaxAttempts` the loop bound of
`_worker` (five in the code, two in the runs) or of `drain`. Two threads, two attempts and one failure reach
a timeout with a late commit and its retry; one restart reaches reused batch
ids; a queue of one chunk reaches `queue.Full` in each place that puts; the
request that repeats an event reaches the duplicate path on both sides. In the
exporter a queue smaller than the spool reaches evictions, rejections and a
recovery that does not fit; two ends of the process reach one during the
recovery from the other. Two runs of the same or of different tasks reach
every refusal of `run`, a cancel of one while the other is told to end with
it, and a run beside a child that was told to end and did not. Two units reach the order of the plan; three errors and three deaths reach
a failed attempt, its retry and a death in each. Two runs with two revisions reach
a bundle half-written at one and finished at the other; three ends reach a row that
cannot be written, the restart after it and one more. Two inference runs of each
participant reach a rerun after the freeze; two reviews reach a second decision. With
two faults and three reviews the candidate proposal alone (0.26 M states) passes as
well. With one failure a sender of `durable` never gives a batch up while the queue is
full (two failures are 1.4 M states, too many for the run); `staging` has two and reaches
it. The safety properties of the passing runs are proved for all values of these constants,
those of the campaign that need it with one command at a time (section 7), so for safety
the bounds matter only to the search for mistakes in the model. `CHECK_DEADLOCK FALSE`: when everything is
delivered or decided and no request arrives these programs wait, which is no error.

**Fairness.** The connectors: weak fairness of the submitting threads and of
each sender thread; threads of one process that can run are eventually run, and
a waiting send ends with an answer or a timeout (`Timeout` is part of
`SenderStep`, so no fairness is asked of the network or of the receiver).
`Put` is joined with `PutTimesOut` because `queue.put(timeout=2)` ends either
way. The sensor: its loop, the connector's handler and the checkpoint write.
The exporter: one thread runs `submit`, `recover` and `drain` to their end, and
the caller starts a process after one has ended, lets it recover and drains a
queue that is not empty, as the scenarios do; a new submit is never forced, and
`SendFails`, `SendRefused` and `AnswerMalformed` are alternatives of the one
fair `DrainStep`, never forced themselves. The runner: the handler, the watchers, a
console that was told to stop, and a new console after one ended; no child is
made to end (`Expire` is the timeout that the watcher has for it). The procedures:
weak fairness of a request or command in progress (`Step`, `LabContinue`,
`BlindContinue`, `ProposalContinue`). Nothing in the code repeats a request of
itself, so what is asked of the operators is stated as strong fairness: they keep asking for
the next session or the recovery of the campaign (`Begin`, `Recover`), for the execution of each run
(`Execute`), and for the next step in the order of
`docs/getting-started/running-blind-laboratory-validation.md` (`Advance`) and of
`docs/research/candidate-proposal-governance.md` (`AdvanceProposal`). It is strong because the
request in progress disables the next one in between. What the properties say
is that the code leaves such an operator a way. Requests of other kinds,
losses, errors and crashes are never forced, and their number is bounded, which
stands for a network that eventually works.

## 7. What is proved

All theorems hold for every value of the constants that satisfies the named
assumptions (`EventAssumption`, `SenderAssumption`, `DeliveryAssumption`,
`ExporterAssumption`, `PlanAssumption`, `RunnerAssumption`, ...): any sets of events, requests,
handlers, threads and runs, any queue, page, spool and attempt bounds, any number
of failures, faults and restarts.

| Module | Theorems |
|---|---|
| `BatchSenderProofs` | lemmas: `append` and `checkpoint` keep the rows and their owners consistent; for every action of the shared part, it keeps the invariant, keeps one sender per event, loses a chunk only where it gives it up or settles it, and implements or stutters in `AtLeastOnce` |
| `DurableDeliveryProofs` | `TypeOK`, `AckedIsDurable`, `JournaledFirst`, `AcceptedOnce`, `NeverRefused`, `OneHolder`, `StrandedWhenFull`, and refinement of `AtLeastOnce` |
| `StagingDeliveryProofs` | the same, with `ForgottenWhenFull` for `StrandedWhenFull` |
| `SensorDaemonProofs` | `TypeOK`, `ShippedIsJournaled`, `CheckpointMonotone`; in a file that does not grow every answer accounts for what was asked (`FixedFileIsAccounted`) |
| `PassiveExporterProofs` | `TypeOK`, `CheckpointedIsDelivered`, `RemovedOnlyWhenSettled`, `LeastImportantDropped`, `QueuedIsDurable`, `Reconciled`, refinement of `AtLeastOnce`; a recovery that fits queues the whole spool (`RecoveryQueuesAll`) |
| `TaskRunnerProofs` | `TypeOK`, `LiveWithinLimit`, `FinishedOrTold` (`RowsAreSupported`), `OutcomeStays`; a row that says running has its watcher, one that says cancelling its handler (`RunningIsWatched`); a cancel that was recorded is only overwritten by the watcher that read the row before (`CancelIsFinal`) |
| `CampaignRunnerProofs` | for any number of commands at a time, `TypeOK` and `CompletedIsSealed`; when the lock keeps commands apart (`LockHolds`), a readable journal and refinement of `PlanWalk` (`ImplementsPlanWalk`); when there is one command (`OneCommand`), `RetryAfterEvidence`, `EvidenceKept`, `NoDeadEnd` |
| `ConsoleProofs` | `FilesFollowCommitment` (`FilesAreCommitted`), `PredictedBlind`, a next step for every validation (`ValidationHasNextStep`); `CompletedIsVerifiable`, `BundleImmutable`, `StrandedByRow` (`RunsStrandedByRow`), `EndedStays`; `FrozenIsScreened`, `AdmissionIsEarned`, and that while nothing failed its condition holds and only a model that does not reproduce is given up (`FaultlessIsSound`); the types of all four procedures (`AllTypeOK`); and all of it of the four side by side, with the campaign's (`RecordsHaveEvidence`, `RecordsAreKept`) |

**The transport's invariant.** `AckedIsDurable` alone is not inductive: a
checkpoint acts on an acknowledgement a thread has in hand, which must be
one the receiver really gave for this thread's events. `SenderInv` therefore
says where the events of each place come from (queue, chunks and batches on
the wire hold journaled events only), that a thread in `acked` holds events
the receiver stores (`HeardIsAnswered`), and that a stored acknowledgement
covers exactly the events its batch id names (`AnswersComplete`). The last
conjunct is what makes a reused batch id harmless: the id digests the events,
so the stored acknowledgement is about the same events. `ReceiverInv` says that
stored rows never collide and that accepted lists are disjoint. `JournalConsistent`
says that journaled events never collide, which is why the receiver can never
refuse a batch. For `OneHolder` the rehearsal proof adds that everything held
is marked; the staging proof instead shows that what `append` creates is new
to every place. `ChunkInv` says that a thread without a chunk has nothing in hand, that
one which waits has sent the chunk it holds, and that one which is done with it has it
acknowledged. From this follows which steps can lose an event that is not acknowledged:
a put that meets a full queue, a thread that dies with it, and in the staging connector
a restart that reads a full page; no other (`StrandedWhenFull`, `ForgottenWhenFull`).

**The sensor's invariant.** For `NothingSkipped`, all of a committed request is in the
journal. `FixedFileIsAccounted` needs more, because a restart asks again from a
saved offset and the answer to a replay counts only the rows that the first request created. In a file that
does not grow, the offsets the sensor can be at, before and after any restart, are
the ends of the batches (`BatchEndsAtCut`); so a request that is asked again is
the same request, and no two requests share a line (`BatchesApart`). `BatchInv` keeps both and
says that a committed request owns all of its rows, so that its replay accounts for all it
asks. `FileHolds`, the theorem's hypothesis, says that the lines of the file
have different keys: the connector refuses a line that collides with an earlier one, and rightly.
In a file that grows the last batch can be asked again with another end: this is the
finding of `sensor_growing_file`, and why the theorem is about a file that does not.

**The exporter's invariant** has three layers. `TypeInv` adds to the types that
what is counted is finite. `SafeInv` says that all the process has in hand was
spooled once and that "success" is answered for stored events only; the
checkpoint's truth, the removals and the refinement follow. `AccountInv` holds
for as long as no event is repeated: an event is held at one place of the process
(`HeldOnce`), everything held is in the spool and not in the checkpoint
(`HeldInv`), and the totals are off by exactly what the call in progress has
counted and not yet stored, or stored and not yet removed (`TotalsInv`). Without
`HeldOnce` an acknowledgement could remove a file another entry still needs.
`LeastImportantDropped` needs only that the entry the queue gives up is the worst.
For `RecoveryQueuesAll`, `RecoveryInv` says that a process which starts was given nothing yet
and that what it has looked at and the checkpoint does not name is exactly its
queue. If everything of this kind fits, the queue is shorter than its capacity while there is
one more to look at (`RoomWhileRecovering`, by counting), so recovery refuses none.

**The runner's invariant.** `run` counts rows and the limit is about processes, so
`LiveInv` ties the two: a live child of the console has a running row or was
told to end, but for the moments in which the one handler is about to write the row or to
tell the child. `TruthInv` says that a verdict in a thread is of a process that is gone or was
told to end;
`RowInv` that orphaned rows are of an earlier console and that a watcher
writes its row once. `WatchInv` says that a running row of a console that is up has its
watcher, without which no fairness could end the run (`RunningIsWatched`). `CancelIsFinal` is about
one row: once it says cancelled and its watcher is not between its read and its write, both
stay so (`CancelHolds`). The finding `runner_cancel` is the case it excludes.

**The campaign's invariants.** `SealedInv` follows a unit through three stores: from
the entry in the mapping over the sealed directory to the record. It needs no lock. `EvidenceInv`
does: that a retry is recorded after the evidence was put aside depends on what the command
read before, so it is proved under `OneCommand`, the assumption that no second command runs.
The finding `campaign_lock` shows that the code does not ensure it. The journal itself needs less:
`LockHolds`, that one command runs or that a lock file which is held open cannot be removed
by another. Then one append at a time is inside the lock, has read the journal as it is, and
has a record the transition table allows (`LockInv`), so the journal stays readable. The refinement of `PlanWalk`
counts the completed units. `InOrder` says that the records of each unit are one of the eight
`Stages` of the table and that a unit has records only when all before it are
completed; so the completed units are the first of the plan, completing one adds one to
their number, and every other step leaves the number as it is. For `NoDeadEnd`, `FreshInv` says that
evidence in the directories is of attempts the journal has as started and that what is
sealed is mapped: whatever a command finds on disk, its next record is one the table allows.

**The console's invariants.** `LabInv` ties the request in progress to the row and the
bundle: the manifest agrees with the files and the semantic digest with the manifest
from the moment each is written, and a request that executes to a row that says running; so a
row that says running without a request is one that could not be written (`StrandedStep`). `BlindInv` says that a run that is over stays over, that no
run begins after the unlock, that a file of predictions that can be read names a run that came to its end,
and that a freeze in progress has completed runs of both participants until its row is saved;
`HasLast` (a finite set of numbers has a largest) supports the choice of the latest run.
`ProposalInv` says that what is assessed is completed and never the execution in progress,
that at most two executions are bound and the model is the last of them, and
that nothing of this moves after the freeze; with bindings and records in agreement,
the last two completed executions are then the bound ones, and the last of them is
the one that is screened. `AgreedInv` says that without an error or an end of the console records
and bindings differ at most in the execution that is about to be bound; it discharges the
condition of `FrozenIsScreened` for such histories (`FaultlessIsSound`). `GatesInv` orders the gates of a validation (authorized before
unlocked, unlocked before evaluated, evaluated before accepted), from which each state that
is not an end has a step to take (`HasNextStep`); its condition that a run is left is the model's bound,
the code numbers runs without one.

**Only model-checked:** the nine liveness properties, `DeliveredWhenComplete`, `DeliveredUnlessForgotten`,
`FixedFileShipped`, `FittingSpoolReconciles`, `EveryRunEnds`, `CampaignSettles`,
`RunsSettle`, `ValidationSettles` and `ProposalSettles`. Fairness and ENABLED are outside what
the prover handles. What most of them rest on, that the thing waited for is not
lost or stuck, is a safety property and proved: `StrandedWhenFull`, `ForgottenWhenFull`,
`FixedFileIsAccounted`, `RecoveryQueuesAll`, `RunningIsWatched`, `NoDeadEnd`, `StrandedByRow` and
`ValidationHasNextStep`; for `ProposalSettles`, `FaultlessIsSound` says that giving up has its cause. That the steps they name are
taken in the end is the part that only TLC shows.

**Only proved:** `JournaledFirst`, `CheckpointMonotone`, `FixedFileIsAccounted`,
`RecoveryLosesNothing`, `RunningIsWatched`, `CancelIsFinal`, `NeverRefused`, `LeastImportantDropped`,
`EndedStays`, `HasNextStep`, and the types of the components whose run does not check them. TLC found
each of them to hold on an instance before it was proved; no run repeats this.

## 8. Hazards without a property

Each with a note in `PROJECT.json`: an event given to the exporter twice, which the
accounts exclude; two tasks of one `exclusive_group`, which the code lets run together; and the
unit of a campaign that no command can take up again, which `NoDeadEnd` and
`CampaignSettles` name as their exception. Covered in part only: a process that was told to
end and does not (no property says that it is gone), the records of a proposal that a
failure brought apart (what such a proposal is worth is up to its review), and the page of
the staging connector's restart (proved, but never full in the run). Outside
the models are a child that outlives its console, which no limit counts, and a second
campaign command that removes the staging directory of the first, since `EvidenceKept` is about
one command at a time.

## 9. How to run

In this directory: `tlc -config MCDurable.cfg MCDurableDelivery`, and so
for each run; `tlapm DurableDeliveryProofs.tla` for the proofs.

## 10. Not modelled, and why

* Experiments, feature extraction, training and statistics (`ml/`): numerical
  code over data frames; nothing concurrent or persistent beyond files
  written once.
* Documentation, licensing and audit validators (`tools/`, `licensing/`,
  `external_review/`): they read files and report.
* Docker assets and the other campaign scripts (`lab/`): sequential drivers of external
  tools. Of the network validation harness the contracts, the processing of
  captures and the reports are data work.
* Comparisons and reviews of laboratory runs, review sessions
  (`lab_console/review.py`), the import of official records: one row each, read
  and written in one request. The later validations and corrective cycles repeat
  the shape of the blind validation.
* Operator view and shadow trial: next in the plan. Decision state machine, alert
  lifecycle, marker intervals, reconstruction: pure functions, to be checked against
  reference definitions.
* Backend service and log parsers (`backend/`, `collectors/*_collector`):
  stateless.
* HTTP, TLS, JSON and schema validation inside the transport: external, a
  call either arrives as the record it was sent as or fails.

--------------------------- MODULE DurableDelivery --------------------------
(***************************************************************************)
(* The rehearsal connector, src/rehearsal/connector_app.py: ingress        *)
(* handlers that journal a request and submit its new events, the pump     *)
(* that resubmits pending rows from the journal, and the sender threads,   *)
(* with crashes and restarts of the connector.                             *)
(*                                                                         *)
(* Handlers and the pump submit the same way: mark the events that are not *)
(* in flight, under the lock, then put them on the bounded queue outside   *)
(* it, waiting at most two seconds.  A replayed or rejected request        *)
(* changes nothing and is not a step.                                      *)
(***************************************************************************)
EXTENDS BatchSender

CONSTANTS Handlers,     \* threads of the HTTP server
          Pump,         \* the durable-pending-pump thread
          Body,         \* the events of each request
          MaxCrashes,   \* bound of the model: restarts of the connector
          MaxFaults     \* bound of the model: SQLite errors

ASSUME DeliveryAssumption ==
  /\ \A v, w \in Workers : InId[v] = InId[w] => v = w
  /\ Pump \notin Handlers
  /\ DOMAIN Body = Requests
  /\ \A r \in Requests : WellFormed(Body[r])
  /\ MaxCrashes \in Nat /\ MaxFaults \in Nat

VARIABLES
  inFlight,   \* self.in_flight
  spc,        \* where each submitting thread is
  held,       \* the events it is submitting
  crashes, faults

Submitters == Handlers \union {Pump}

submit == <<inFlight, spc, held>>
bounds == <<crashes, faults>>
vars == <<journal, receiver, sender, network, submit, bounds>>

Init ==
  /\ JournalInit
  /\ ReceiverInit
  /\ NetworkInit
  /\ IdleSender(<<>>)
  /\ inFlight = {}
  /\ spc = [s \in Submitters |-> "idle"]
  /\ held = [s \in Submitters |-> {}]
  /\ crashes = 0 /\ faults = 0

TypeOK ==
  /\ JournalTypeOK(BatchIds)
  /\ SenderTypeOK
  /\ inFlight \in SUBSET Events
  /\ spc \in [Submitters -> {"idle", "mark", "put", "dead"}]
  /\ held \in [Submitters -> SUBSET Events]
  /\ crashes \in 0..MaxCrashes
  /\ faults \in 0..MaxFaults
-----------------------------------------------------------------------------
SubmitterMoves(s, pc, S) ==
  /\ spc' = [spc EXCEPT ![s] = pc]
  /\ held' = [held EXCEPT ![s] = S]

\* ingress(): journal.append, then submit what it accepted, if anything.
Ingress(h, r) ==
  /\ spc[h] = "idle"
  /\ AppendRequest(r, Body[r])
  /\ IF Fresh(Body[r]) = {}
     THEN UNCHANGED <<spc, held>>
     ELSE SubmitterMoves(h, "mark", Fresh(Body[r]))
  /\ UNCHANGED <<inFlight, sender, network, receiver, bounds>>

\* _pump(): self.journal.pending(50), handed to submit.
PumpReads ==
  /\ spc[Pump] = "idle"
  /\ \E P \in SUBSET Pending :
       /\ P # {}
       /\ Page(MaxEvents, P)
       /\ SubmitterMoves(Pump, "mark", P)
  /\ UNCHANGED <<inFlight, journal, sender, network, receiver, bounds>>

\* Mutant of Mark: the events in flight are not filtered out.
MarkAll(s) ==
  /\ spc[s] = "mark"
  /\ SubmitterMoves(s, "put", held[s])
  /\ inFlight' = inFlight \union held[s]
  /\ UNCHANGED <<journal, sender, network, receiver, bounds>>

\* submit(), under the lock: keep the fresh events and mark them.
Mark(s) ==
  /\ spc[s] = "mark"
  /\ LET fresh == held[s] \ inFlight
     IN  IF fresh = {}
         THEN SubmitterMoves(s, "idle", {}) /\ UNCHANGED inFlight
         ELSE SubmitterMoves(s, "put", fresh) /\ inFlight' = inFlight \union fresh
  /\ UNCHANGED <<journal, sender, network, receiver, bounds>>

\* submit(), outside the lock: self.queue.put(fresh, timeout=2)
Put(s) ==
  /\ spc[s] = "put"
  /\ Len(queue) < QueueCap
  /\ queue' = Append(queue, held[s])
  /\ SubmitterMoves(s, "idle", {})
  /\ UNCHANGED <<inFlight, seq, wpc, chunk, attempt, sent,
                 journal, network, receiver, bounds>>

\* queue.Full: the handler answers 503, the pump passes; the marks stay.
PutTimesOut(s) ==
  /\ spc[s] = "put"
  /\ Len(queue) = QueueCap
  /\ SubmitterMoves(s, "idle", {})
  /\ UNCHANGED <<inFlight, journal, sender, network, receiver, bounds>>

\* Mutant of Release: a chunk that was delivered keeps its marks.
ReleaseKeepsMarks(w) ==
  /\ \/ wpc[w] = "release"
     \/ wpc[w] = "giveup" /\ Len(queue) = QueueCap
  /\ inFlight' = IF wpc[w] = "giveup" THEN inFlight \ chunk[w] ELSE inFlight
  /\ NextIteration(w, "idle")
  /\ UNCHANGED <<queue, seq, spc, held, journal, network, receiver, bounds>>

\* The thread drops its chunk and the marks of it.
Release(w) ==
  /\ \/ wpc[w] = "release"
     \/ wpc[w] = "giveup" /\ Len(queue) = QueueCap
  /\ inFlight' = inFlight \ chunk[w]
  /\ NextIteration(w, "idle")
  /\ UNCHANGED <<queue, seq, spc, held, journal, network, receiver, bounds>>

SenderStep(w) ==
  \/ Attempt(w) /\ UNCHANGED <<submit, bounds>>
  \/ CheckpointAck(w, "release") /\ UNCHANGED <<submit, bounds>>
  \/ Release(w)
-----------------------------------------------------------------------------
\* An SQLite error: a handler fails with 503 after its commit, and a sender
\* or the pump, which do not catch it, end for good.
StorageFault == faults < MaxFaults /\ faults' = faults + 1

HandlerFails(h) ==
  /\ spc[h] = "mark"
  /\ StorageFault
  /\ SubmitterMoves(h, "idle", {})
  /\ UNCHANGED <<inFlight, crashes, journal, sender, network, receiver>>

PumpDies ==
  /\ spc[Pump] = "idle"
  /\ StorageFault
  /\ SubmitterMoves(Pump, "dead", {})
  /\ UNCHANGED <<inFlight, crashes, journal, sender, network, receiver>>

WorkerDies(w) ==
  /\ wpc[w] \in {"ready", "acked", "release"}
  /\ StorageFault
  /\ NextIteration(w, "dead")
  /\ UNCHANGED <<queue, seq, submit, crashes, journal, network, receiver>>

\* Mutant of Crash: the pending rows were not durable.
CrashLosesPending ==
  /\ crashes < MaxCrashes
  /\ crashes' = crashes + 1
  /\ RestartSender(<<>>)
  /\ inFlight' = {}
  /\ spc' = [s \in Submitters |-> "idle"]
  /\ held' = [s \in Submitters |-> {}]
  /\ status' = [e \in Events |-> IF e \in Acked THEN status[e] ELSE "absent"]
  /\ UNCHANGED <<commits, owner, earlier, ref, checkpoints, receiver, network, faults>>

\* The process ends at any point and starts again: only SQLite and the
\* network remain, and the pump starts from the journal.
Crash ==
  /\ crashes < MaxCrashes
  /\ crashes' = crashes + 1
  /\ RestartSender(<<>>)
  /\ inFlight' = {}
  /\ spc' = [s \in Submitters |-> "idle"]
  /\ held' = [s \in Submitters |-> {}]
  /\ UNCHANGED <<journal, receiver, network, faults>>

Next ==
  \/ \E h \in Handlers, r \in Requests : Ingress(h, r)
  \/ PumpReads
  \/ \E s \in Submitters : Mark(s) \/ Put(s) \/ PutTimesOut(s)
  \/ \E w \in Workers : SenderStep(w)
  \/ Receive /\ UNCHANGED <<submit, bounds>>
  \/ \E h \in Handlers : HandlerFails(h)
  \/ PumpDies
  \/ \E w \in Workers : WorkerDies(w)
  \/ Crash

Spec == Init /\ [][Next]_vars

\* Every thread that can run does, and the receiver answers what reaches it.
\* Losses, errors and crashes are never forced.
Fairness ==
  /\ WF_vars(PumpReads)
  /\ \A s \in Submitters : WF_vars(Mark(s)) /\ WF_vars(Put(s) \/ PutTimesOut(s))
  /\ \A w \in Workers : WF_vars(SenderStep(w))

FairSpec == Spec /\ Fairness
-----------------------------------------------------------------------------
(* Properties *)

Putting == UNION {held[s] : s \in {t \in Submitters : spc[t] = "put"}}

\* The marks are what keeps the senders apart: no event is in two places of
\* the connector, also not at a thread that is about to queue it, and every
\* event that is in one place is marked, so the pump leaves it alone.
OneHolder ==
  /\ OneSender
  /\ Putting \intersect (Queued \union Sending) = {}
  /\ \A s, t \in Submitters :
       spc[s] = "put" /\ spc[t] = "put" /\ s # t => held[s] \intersect held[t] = {}
  /\ Queued \union Sending \union Putting \subseteq inFlight

\* A pump or sender thread that died is missing until the process restarts.
AllThreadsRun == spc[Pump] # "dead" /\ \A w \in Workers : wpc[w] # "dead"

\* Marks that a submit left behind when the queue was full: the rows are nowhere.
Stranded == inFlight \ (Queued \union Sending \union Putting)

\* A row loses its place with its mark left behind in two ways only: the queue was full
\* when a submit tried to put it, or the thread that was sending it died.  Release and
\* requeue, a late checkpoint and a restart never do it.
StrandedWhenFull ==
  [][\A e \in Stranded' \ Stranded :
       \/ Len(queue) = QueueCap /\ e \in Putting
       \/ faults' # faults /\ e \in Sending]_vars

\* A thread that is missing and a mark left behind are the only ways to lose sight of
\* a row: if from some time on every thread runs and no row is stranded, because nothing
\* went wrong or a restart made it good, every pending row is eventually acknowledged.
DeliveredWhenComplete == <>[](AllThreadsRun /\ Stranded = {}) => PendingIsDelivered
=============================================================================

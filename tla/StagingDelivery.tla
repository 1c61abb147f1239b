--------------------------- MODULE StagingDelivery --------------------------
(***************************************************************************)
(* The staging connector, src/staging/connector/app.py.  An ingress        *)
(* handler journals a request and puts its new events on the queue, of     *)
(* three chunks, waiting at most two seconds.  Nothing but the constructor *)
(* reads the journal again: one page of pending rows per start.            *)
(***************************************************************************)
EXTENDS BatchSender

CONSTANTS Handlers,     \* threads of the HTTP server
          Body,         \* the events of each request
          MaxCrashes,   \* bound of the model: restarts of the connector
          MaxFaults     \* bound of the model: exceptions that no thread catches

ASSUME StagingAssumption ==
  /\ \A v, w \in Workers : InId[v] = InId[w]
  /\ DOMAIN Body = Requests
  /\ \A r \in Requests : WellFormed(Body[r])
  /\ MaxCrashes \in Nat /\ MaxFaults \in Nat

VARIABLES held,              \* what each handler is putting on the queue
          crashes, faults

bounds == <<crashes, faults>>
vars == <<journal, receiver, sender, network, held, bounds>>

Init ==
  /\ JournalInit
  /\ ReceiverInit
  /\ NetworkInit
  /\ IdleSender(<<>>)
  /\ held = [h \in Handlers |-> {}]
  /\ crashes = 0 /\ faults = 0

TypeOK ==
  /\ JournalTypeOK(BatchIds)
  /\ SenderTypeOK
  /\ held \in [Handlers -> SUBSET Events]
  /\ crashes \in 0..MaxCrashes
  /\ faults \in 0..MaxFaults
-----------------------------------------------------------------------------
\* ingress(): journal.append, then submit what it accepted.
Ingress(h, r) ==
  /\ held[h] = {}
  /\ AppendRequest(r, Body[r])
  /\ held' = [held EXCEPT ![h] = Fresh(Body[r])]
  /\ UNCHANGED <<sender, network, receiver, bounds>>

\* submit(): self.queue.put(chunk, timeout=2)
Submit(h) ==
  /\ held[h] # {}
  /\ Len(queue) < QueueCap
  /\ queue' = Append(queue, held[h])
  /\ held' = [held EXCEPT ![h] = {}]
  /\ UNCHANGED <<seq, wpc, chunk, attempt, sent, network, journal, receiver, bounds>>

\* queue.Full: 503, although the request is committed.
SubmitTimesOut(h) ==
  /\ held[h] # {}
  /\ Len(queue) = QueueCap
  /\ held' = [held EXCEPT ![h] = {}]
  /\ UNCHANGED <<sender, network, journal, receiver, bounds>>

\* Mutant of Finish: a chunk that is given up never goes back to the queue.
FinishGivesUp(w) ==
  /\ wpc[w] \in {"release", "giveup"}
  /\ NextIteration(w, "idle")
  /\ UNCHANGED <<queue, seq, held, network, journal, receiver, bounds>>

\* The end of an iteration: delivered, or given up with the queue full, when
\* "except queue.Full: pass" forgets the chunk.
Finish(w) ==
  /\ \/ wpc[w] = "release"
     \/ wpc[w] = "giveup" /\ Len(queue) = QueueCap
  /\ NextIteration(w, "idle")
  /\ UNCHANGED <<queue, seq, held, network, journal, receiver, bounds>>

SenderStep(w) ==
  \/ Attempt(w) /\ UNCHANGED <<held, bounds>>
  \/ CheckpointAck(w, "release") /\ UNCHANGED <<held, bounds>>
  \/ Finish(w)

\* An SQLite error in a handler is a 503 after the commit; in a sender it ends
\* the thread, and so does a truncated answer (http.client.HTTPException).
Fault == faults < MaxFaults /\ faults' = faults + 1

HandlerFails(h) ==
  /\ held[h] # {}
  /\ Fault
  /\ held' = [held EXCEPT ![h] = {}]
  /\ UNCHANGED <<crashes, sender, network, journal, receiver>>

WorkerDies(w) ==
  /\ wpc[w] \in {"ready", "waiting", "acked", "release"}
  /\ Fault
  /\ NextIteration(w, "dead")
  /\ UNCHANGED <<queue, seq, held, crashes, network, journal, receiver>>

\* Mutant of Crash: the pending rows were not durable.
CrashLosesPending ==
  /\ crashes < MaxCrashes
  /\ crashes' = crashes + 1
  /\ RestartSender(<<>>)
  /\ held' = [h \in Handlers |-> {}]
  /\ status' = [e \in Events |-> IF e \in Acked THEN status[e] ELSE "absent"]
  /\ UNCHANGED <<commits, owner, earlier, ref, checkpoints, receiver, network, faults>>

\* The process ends and starts again: __init__ queues one page of the journal.
Crash ==
  /\ crashes < MaxCrashes
  /\ crashes' = crashes + 1
  /\ \E P \in SUBSET Pending :
       Page(MaxEvents, P) /\ RestartSender(IF P = {} THEN <<>> ELSE <<P>>)
  /\ held' = [h \in Handlers |-> {}]
  /\ UNCHANGED <<journal, receiver, network, faults>>

Next ==
  \/ \E h \in Handlers, r \in Requests : Ingress(h, r)
  \/ \E h \in Handlers : Submit(h) \/ SubmitTimesOut(h) \/ HandlerFails(h)
  \/ \E w \in Workers : SenderStep(w) \/ WorkerDies(w)
  \/ Receive /\ UNCHANGED <<held, bounds>>
  \/ Crash

Spec == Init /\ [][Next]_vars

\* Handlers and sender threads that can run do.
Fairness ==
  /\ \A h \in Handlers : WF_vars(Submit(h) \/ SubmitTimesOut(h))
  /\ \A w \in Workers : WF_vars(SenderStep(w))

FairSpec == Spec /\ Fairness
-----------------------------------------------------------------------------
(* Properties *)

\* Without marks, the journal alone keeps the senders apart: append accepts an
\* event once, and a restart reads it back only after forgetting the rest.
OneHolder ==
  /\ OneSender
  /\ \A g, h \in Handlers :
       /\ held[h] \intersect (Queued \union Sending) = {}
       /\ g # h => held[g] \intersect held[h] = {}

\* Rows that are pending in the journal and nowhere else: a full queue refused them, a
\* thread died with them, or a restart read one page and they were on the next.
Forgotten == Pending \ (Queued \union Sending \union UNION {held[h] : h \in Handlers})

\* A row is forgotten in these ways only: the queue was full, an error ended the handler
\* or the thread that had it, or a restart read a whole page and it was not on it.
ForgottenWhenFull ==
  [][\A e \in Forgotten' \ Forgotten :
       \/ Len(queue) = QueueCap
       \/ faults' # faults
       \/ crashes' # crashes /\ Cardinality(Queued') = MaxEvents]_vars

\* Those are the only ways to lose a row: if from some time on every sender runs and
\* no row is forgotten, every pending row is eventually acknowledged.
DeliveredUnlessForgotten ==
  <>[]((\A w \in Workers : wpc[w] # "dead") /\ Forgotten = {}) => PendingIsDelivered
=============================================================================

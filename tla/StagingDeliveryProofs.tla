------------------------ MODULE StagingDeliveryProofs -----------------------
(***************************************************************************)
(* Theorems about the staging connector, StagingDelivery, for any values   *)
(* of its constants.                                                       *)
(***************************************************************************)
EXTENDS StagingDelivery, BatchSenderProofs

HandlerTypes ==
  /\ held \in [Handlers -> SUBSET Events]
  /\ crashes \in 0..MaxCrashes
  /\ faults \in 0..MaxFaults

\* What a handler is putting on the queue is journaled already.
HeldIsJournaled == \A h \in Handlers : held[h] \subseteq Journaled

IInv == SenderInv /\ HandlerTypes /\ HeldIsJournaled

LEMMA BodyIsEvents == \A r \in Requests : Body[r] \in SUBSET Events
  BY StagingAssumption DEF WellFormed

LEMMA InitIInv == Init => IInv
<1> SUFFICES ASSUME Init PROVE IInv
  OBVIOUS
<1>1. SenderInv
  BY InitialInv DEF Init
<1> QED
  BY <1>1, StagingAssumption DEF Init, HandlerTypes, HeldIsJournaled, IInv

\* Handlers stand still, or drop what they hold, while rows are only added.
LEMMA HandlersKeepIInv ==
  ASSUME IInv, SenderInv', Journaled \subseteq Journaled',
         held' \in [Handlers -> SUBSET Events],
         \A h \in Handlers : held'[h] \subseteq held[h],
         crashes' \in 0..MaxCrashes, faults' \in 0..MaxFaults
  PROVE  IInv'
  BY DEF IInv, HandlerTypes, HeldIsJournaled

LEMMA NextIInv == IInv /\ [Next]_vars => IInv'
<1> SUFFICES ASSUME IInv, [Next]_vars PROVE IInv'
  OBVIOUS
<1> USE DEF IInv
<1>b. /\ held \in [Handlers -> SUBSET Events]
      /\ crashes \in 0..MaxCrashes /\ faults \in 0..MaxFaults
  BY DEF HandlerTypes
<1>d. ASSUME NEW h \in Handlers, held' = [held EXCEPT ![h] = {}]
      PROVE  /\ held' \in [Handlers -> SUBSET Events]
             /\ \A g \in Handlers : held'[g] \subseteq held[g]
  BY <1>b, <1>d
<1>1. ASSUME NEW h \in Handlers, NEW r \in Requests, Ingress(h, r)
      PROVE  IInv'
  <2>1. SenderInv' /\ Journaled' = Journaled \union Body[r]
    BY <1>1, AppendKeepsInv, BodyIsEvents DEF Ingress
  <2>2. Fresh(Body[r]) \in SUBSET Events /\ Fresh(Body[r]) \subseteq Body[r]
    BY BodyIsEvents DEF Fresh
  <2>3. HandlerTypes' /\ HeldIsJournaled'
    BY <1>1, <1>b, <2>1, <2>2 DEF Ingress, HandlerTypes, HeldIsJournaled, bounds
  <2> QED
    BY <2>1, <2>3
<1>2. ASSUME NEW h \in Handlers, Submit(h)
      PROVE  IInv'
  <2>1. SenderInv'
    BY <1>2, EnqueueKeepsInv DEF Submit, HeldIsJournaled
  <2> QED
    BY <1>2, <1>b, <1>d, <2>1, HandlersKeepIInv, JournalUnchanged DEF Submit, bounds
<1>3. ASSUME NEW h \in Handlers, SubmitTimesOut(h)
      PROVE  IInv'
  <2>1. SenderInv'
    BY <1>3, StandStill DEF SubmitTimesOut
  <2> QED
    BY <1>3, <1>b, <1>d, <2>1, HandlersKeepIInv, JournalUnchanged DEF SubmitTimesOut, bounds
<1>4. ASSUME NEW h \in Handlers, HandlerFails(h)
      PROVE  IInv'
  <2>1. SenderInv' /\ faults' \in 0..MaxFaults
    BY <1>4, <1>b, StandStill, StagingAssumption DEF HandlerFails, Fault
  <2> QED
    BY <1>4, <1>b, <1>d, <2>1, HandlersKeepIInv, JournalUnchanged DEF HandlerFails
<1>5. ASSUME NEW w \in Workers, SenderStep(w)
      PROVE  IInv'
  <2>1. CASE Attempt(w) /\ UNCHANGED <<held, bounds>>
    <3>1. UNCHANGED journal
      BY <2>1 DEF Attempt, Take, Send, CommitHeard, AnswerRejected, Timeout, Requeue
    <3> QED
      BY <2>1, <3>1, <1>b, AttemptKeepsInv, HandlersKeepIInv, JournalUnchanged DEF bounds
  <2>2. CASE CheckpointAck(w, "release") /\ UNCHANGED <<held, bounds>>
    <3>1. Journaled \subseteq Journaled'
      BY <2>2 DEF CheckpointAck, Checkpoint, Journaled, SenderInv, Types, JournalTypeOK
    <3> QED
      BY <2>2, <3>1, <1>b, CheckpointKeepsInv, HandlersKeepIInv DEF bounds
  <2>3. CASE Finish(w)
    <3>1. SenderInv'
      BY <2>3, NextIterationKeepsInv DEF Finish
    <3> QED
      BY <2>3, <3>1, <1>b, HandlersKeepIInv, JournalUnchanged DEF Finish, bounds
  <2> QED
    BY <1>5, <2>1, <2>2, <2>3 DEF SenderStep
<1>6. ASSUME NEW w \in Workers, WorkerDies(w)
      PROVE  IInv'
  <2>1. SenderInv' /\ faults' \in 0..MaxFaults
    BY <1>6, <1>b, NextIterationKeepsInv, StagingAssumption DEF WorkerDies, Fault
  <2> QED
    BY <1>6, <1>b, <2>1, HandlersKeepIInv, JournalUnchanged DEF WorkerDies
<1>7. CASE Receive /\ UNCHANGED <<held, bounds>>
  <2>1. UNCHANGED journal
    BY <1>7 DEF Receive, LoseBatch, CommitUnheard
  <2> QED
    BY <1>7, <2>1, <1>b, ReceiveKeepsInv, HandlersKeepIInv, JournalUnchanged DEF bounds
<1>8. CASE Crash
  <2>1. SenderInv'
    BY <1>8, RestartKeepsInv DEF Crash, Pending, Journaled
  <2>2. HandlerTypes' /\ HeldIsJournaled'
    BY <1>8, <1>b, StagingAssumption DEF Crash, HandlerTypes, HeldIsJournaled
  <2> QED
    BY <2>1, <2>2
<1>9. CASE UNCHANGED vars
  <2>1. SenderInv'
    BY <1>9, StandStill DEF vars
  <2> QED
    BY <1>9, <1>b, <2>1, HandlersKeepIInv, JournalUnchanged DEF vars, bounds
<1> QED
  BY <1>1, <1>2, <1>3, <1>4, <1>5, <1>6, <1>7, <1>8, <1>9 DEF Next

\* The inductive invariant holds in every reachable state.
THEOREM InductiveInvariant == Spec => []IInv
  BY InitIInv, NextIInv, PTL DEF Spec

\* Every variable of the staging connector and its peers stays within its type.
THEOREM TypeCorrect == Spec => []TypeOK
<1>1. IInv => TypeOK
  BY DEF IInv, SenderInv, Types, HandlerTypes, TypeOK
<1> QED
  BY <1>1, InductiveInvariant, PTL

\* A row the staging connector calls acknowledged is in the receiver's store,
\* covered by the answer to the batch the row refers to.
THEOREM AcknowledgedIsDurable == Spec => []AckedIsDurable
<1>1. IInv => AckedIsDurable
  BY DEF IInv, SenderInv
<1> QED
  BY <1>1, InductiveInvariant, PTL

\* Nothing is queued, sent or stored that is not in the journal.
THEOREM JournaledBeforeSent == Spec => []JournaledFirst
<1>1. IInv => JournaledFirst
  BY DEF IInv, SenderInv
<1> QED
  BY <1>1, InductiveInvariant, PTL

\* The receiver accepts each event in one batch only, however often it is sent.
THEOREM EventsAcceptedOnce == Spec => []AcceptedOnce
<1>1. IInv => AcceptedOnce
  BY DEF IInv, SenderInv, ReceiverInv
<1> QED
  BY <1>1, InductiveInvariant, PTL
\* No batch of the staging connector collides with what the receiver holds, although its
\* batch ids do not name the thread and come back after a restart.
THEOREM BatchesNeverRefused == Spec => []NeverRefused
<1>1. IInv => NeverRefused
  BY InvNeverRefused DEF IInv
<1> QED
  BY <1>1, InductiveInvariant, PTL
-----------------------------------------------------------------------------
LEMMA StepImplements == IInv /\ [Next]_vars => [Transport!Next]_(Transport!vars)
<1> SUFFICES ASSUME IInv, [Next]_vars
             PROVE  Transport!Next \/ UNCHANGED Abstract
  BY DEF Transport!vars, Abstract
<1> USE DEF IInv
<1>1. ASSUME NEW h \in Handlers, NEW r \in Requests, Ingress(h, r)
      PROVE  Transport!Next
  BY <1>1, AppendImplements, BodyIsEvents DEF Ingress
<1>2. ASSUME NEW w \in Workers, SenderStep(w)
      PROVE  Transport!Next \/ UNCHANGED Abstract
  <2>1. CASE Attempt(w)
    BY <2>1, AttemptImplements
  <2>2. CASE CheckpointAck(w, "release")
    BY <2>2, CheckpointImplements
  <2>3. CASE Finish(w)
    BY <2>3, StutterImplements DEF Finish
  <2> QED
    BY <1>2, <2>1, <2>2, <2>3 DEF SenderStep
<1>3. CASE Receive
  BY <1>3, ReceiveImplements
<1>4. CASE UNCHANGED <<journal, receiver>>
  BY <1>4, StutterImplements
<1> QED
  BY <1>1, <1>2, <1>3, <1>4
  DEF Next, Submit, SubmitTimesOut, HandlerFails, WorkerDies, Crash, vars

\* The staging connector, the network and the receiver together implement the
\* abstract at-least-once transport; what they do not promise is progress.
THEOREM StagingImplements == Spec => ImplementsAtLeastOnce
<1>1. Init => Transport!Init
  BY InitImplements DEF Init
<1> QED
  BY <1>1, StepImplements, InductiveInvariant, PTL DEF Spec, ImplementsAtLeastOnce, Transport!Spec
-----------------------------------------------------------------------------
(* One place per event *)

\* Handlers drop what they hold, or stand still, while the events move on
\* between the queue and the threads.
LEMMA MovesKeepOneHolder ==
  ASSUME OneHolder, OneSender',
         Queued' \union Sending' \subseteq Queued \union Sending,
         \A h \in Handlers : held'[h] \subseteq held[h]
  PROVE  OneHolder'
  BY DEF OneHolder

LEMMA NextOneHolder == IInv /\ OneHolder /\ [Next]_vars => OneHolder'
<1> SUFFICES ASSUME IInv, OneHolder, [Next]_vars PROVE OneHolder'
  OBVIOUS
<1>a. /\ SenderTypeOK /\ OneSender
      /\ held \in [Handlers -> SUBSET Events]
      /\ Queued \union Sending \subseteq Journaled
      /\ \A h \in Handlers : held[h] \subseteq Journaled
  BY DEF IInv, SenderInv, Types, HandlerTypes, OneHolder, JournaledFirst, HeldIsJournaled
<1>b. ASSUME UNCHANGED <<queue, chunk>>
      PROVE  OneSender' /\ Queued' = Queued /\ Sending' = Sending
  BY <1>a, <1>b DEF OneSender, Queued, Sending
<1>1. ASSUME NEW h \in Handlers, NEW r \in Requests, Ingress(h, r)
      PROVE  OneHolder'
  <2>1. Fresh(Body[r]) \intersect Journaled = {}
    BY DEF Fresh
  <2>2. \A g \in Handlers : held'[g] = IF g = h THEN Fresh(Body[r]) ELSE held[g]
    BY <1>1, <1>a DEF Ingress
  <2>3. OneSender' /\ Queued' = Queued /\ Sending' = Sending
    BY <1>1, <1>b DEF Ingress, sender
  <2>4. \A g \in Handlers : held'[g] \intersect (Queued' \union Sending') = {}
    BY <1>a, <2>1, <2>2, <2>3 DEF OneHolder
  <2>5. \A g, k \in Handlers : g # k => held'[g] \intersect held'[k] = {}
    BY <1>a, <2>1, <2>2 DEF OneHolder
  <2> QED
    BY <2>3, <2>4, <2>5 DEF OneHolder
<1>2. ASSUME NEW h \in Handlers, Submit(h)
      PROVE  OneHolder'
  <2>1. /\ queue' = Append(queue, held[h]) /\ chunk' = chunk
        /\ held' = [held EXCEPT ![h] = {}]
    BY <1>2 DEF Submit
  <2>2. /\ held[h] \in SUBSET Events
        /\ held[h] \intersect Queued = {} /\ held[h] \intersect Sending = {}
    BY <1>a DEF OneHolder
  <2>3. \A v \in Workers : chunk'[v] \intersect held[h] = {} /\ chunk'[v] = chunk[v]
    BY <2>1, <2>2 DEF Sending
  <2>4. chunk' \in [Workers -> SUBSET Events]
    BY <2>1, <1>a DEF SenderTypeOK
  <2>5. OneSender' /\ Queued' = Queued \union held[h] /\ Sending' \subseteq Sending
    BY <1>a, <2>1, <2>2, <2>3, <2>4, EnqueueKeepsOneSender
  <2>6. \A g \in Handlers : held'[g] = IF g = h THEN {} ELSE held[g]
    BY <2>1, <1>a
  <2> QED
    BY <2>5, <2>6 DEF OneHolder
<1>3. ASSUME NEW h \in Handlers, SubmitTimesOut(h) \/ HandlerFails(h)
      PROVE  OneHolder'
  BY <1>3, <1>a, <1>b, MovesKeepOneHolder DEF SubmitTimesOut, HandlerFails, sender
<1>4. ASSUME NEW w \in Workers, SenderStep(w)
      PROVE  OneHolder'
  <2>1. CASE Attempt(w) /\ held' = held
    BY <1>a, <2>1, AttemptKeepsOneSender, MovesKeepOneHolder
  <2>2. CASE CheckpointAck(w, "release") /\ held' = held
    BY <1>b, <2>2, MovesKeepOneHolder DEF CheckpointAck
  <2>3. CASE Finish(w)
    BY <1>a, <2>3, NextIterationKeepsOneSender, MovesKeepOneHolder DEF Finish
  <2> QED
    BY <1>4, <2>1, <2>2, <2>3 DEF SenderStep
<1>5. ASSUME NEW w \in Workers, WorkerDies(w)
      PROVE  OneHolder'
  BY <1>a, <1>5, NextIterationKeepsOneSender, MovesKeepOneHolder DEF WorkerDies
<1>6. CASE Receive /\ UNCHANGED <<held, bounds>>
  BY <1>b, <1>6, MovesKeepOneHolder DEF Receive, LoseBatch, CommitUnheard, sender
<1>7. CASE Crash
  <2>1. /\ chunk' = [w \in Workers |-> {}] /\ held' = [h \in Handlers |-> {}]
        /\ \A i, j \in DOMAIN queue' : i = j
    <3>1. PICK P \in SUBSET Pending : RestartSender(IF P = {} THEN <<>> ELSE <<P>>)
      BY <1>7 DEF Crash
    <3>2. queue' = <<>> \/ queue' = <<P>>
      BY <3>1 DEF RestartSender
    <3> QED
      BY <1>7, <3>1, <3>2 DEF Crash, RestartSender
  <2> QED
    BY <2>1 DEF OneHolder, OneSender, Queued, Sending
<1>8. CASE UNCHANGED vars
  BY <1>b, <1>8, MovesKeepOneHolder DEF vars, sender
<1> QED
  BY <1>1, <1>2, <1>3, <1>4, <1>5, <1>6, <1>7, <1>8 DEF Next

\* Without marks: no event is at two places of the staging connector at once.
THEOREM EventsHeldOnce == Spec => []OneHolder
<1>1. Init => OneHolder
  BY DEF Init, IdleSender, OneHolder, OneSender, Queued, Sending
<1> QED
  BY <1>1, NextOneHolder, InductiveInvariant, PTL DEF Spec
-----------------------------------------------------------------------------
(* The rows that are forgotten *)

LEMMA NextChunks == IInv /\ ChunkInv /\ [Next]_vars => ChunkInv'
<1> SUFFICES ASSUME IInv, ChunkInv, [Next]_vars PROVE ChunkInv'
  OBVIOUS
<1>a. SenderTypeOK /\ SenderInv /\ JournalTypeOK(BatchIds)
  BY DEF IInv, SenderInv, Types
<1>1. ASSUME NEW h \in Handlers, NEW r \in Requests, Ingress(h, r) PROVE ChunkInv'
  <2>1. Acked' = Acked
    BY <1>1, <1>a, AppendKeepsRows, BodyIsEvents DEF Ingress
  <2> QED
    BY <1>1, <2>1, StandStillKeepsChunks DEF Ingress, sender
<1>2. ASSUME NEW w \in Workers, SenderStep(w) PROVE ChunkInv'
  <2>1. CASE Attempt(w)
    BY <1>a, <2>1, AttemptKeepsChunks
  <2>2. CASE CheckpointAck(w, "release")
    BY <1>a, <2>2, CheckpointKeepsChunks
  <2>3. CASE Finish(w)
    BY <1>a, <2>3, AckedStays, NextIterationKeepsChunks DEF Finish
  <2> QED
    BY <1>2, <2>1, <2>2, <2>3 DEF SenderStep
<1>3. ASSUME NEW w \in Workers, WorkerDies(w) PROVE ChunkInv'
  BY <1>a, <1>3, AckedStays, NextIterationKeepsChunks DEF WorkerDies
<1>4. CASE Crash
  BY <1>4, RestartKeepsChunks DEF Crash
<1>5. CASE UNCHANGED <<wpc, chunk, sent, journal>>
  BY <1>5, AckedStays, StandStillKeepsChunks
<1>6. ASSUME NEW h \in Handlers, Submit(h) \/ SubmitTimesOut(h) \/ HandlerFails(h)
      PROVE  UNCHANGED <<wpc, chunk, sent, journal>>
  BY <1>6 DEF Submit, SubmitTimesOut, HandlerFails, sender
<1>7. Receive => UNCHANGED <<wpc, chunk, sent, journal>>
  BY DEF Receive, LoseBatch, CommitUnheard, sender
<1>8. UNCHANGED vars => UNCHANGED <<wpc, chunk, sent, journal>>
  BY DEF vars, sender
<1> QED
  BY <1>1, <1>2, <1>3, <1>4, <1>5, <1>6, <1>7, <1>8 DEF Next

Holding == UNION {held[h] : h \in Handlers}

\* A row that is in none of the places was in none of them before, or something had no room
\* for it or ended with it.
LEMMA NextForgotten ==
  ASSUME IInv, ChunkInv, [Next]_vars, NEW e \in Forgotten' \ Forgotten
  PROVE  \/ Len(queue) = QueueCap
         \/ faults' # faults
         \/ crashes' # crashes /\ Cardinality(Queued') = MaxEvents
<1> DEFINE Excused == \/ Len(queue) = QueueCap
                      \/ faults' # faults
                      \/ crashes' # crashes /\ Cardinality(Queued') = MaxEvents
<1>a. /\ SenderTypeOK /\ SenderInv /\ JournalTypeOK(BatchIds)
      /\ held \in [Handlers -> SUBSET Events] /\ crashes \in Nat /\ faults \in Nat
  BY StagingAssumption DEF IInv, SenderInv, Types, HandlerTypes
<1>b. /\ e \in Pending' /\ e \notin Queued' \union Sending' \union Holding'
      /\ e \in Pending => e \in Queued \union Sending \union Holding
  BY DEF Forgotten, Holding
<1>c. UNCHANGED journal => Pending' = Pending
  BY DEF journal, Pending
<1>d. ASSUME Pending' = Pending, Queued \union Sending \subseteq Queued' \union Sending',
             held' = held
      PROVE  FALSE
  BY <1>b, <1>d DEF Holding
<1>e. ASSUME NEW h \in Handlers, held' = [held EXCEPT ![h] = {}]
      PROVE  Holding \subseteq Holding' \union held[h]
  BY <1>a, <1>e DEF Holding
<1>1. ASSUME NEW h \in Handlers, NEW r \in Requests, Ingress(h, r) PROVE FALSE
  <2>1. /\ held[h] = {} /\ UNCHANGED sender
        /\ \A g \in Handlers : held'[g] = IF g = h THEN Fresh(Body[r]) ELSE held[g]
    BY <1>a, <1>1 DEF Ingress
  <2>2. Queued' = Queued /\ Sending' = Sending
    BY <2>1 DEF sender, Queued, Sending
  <2>3. Holding \subseteq Holding' /\ Fresh(Body[r]) \subseteq Holding'
    BY <2>1 DEF Holding
  <2>4. e \in Pending \/ e \in Fresh(Body[r])
    BY <1>1, <1>b DEF Ingress, AppendRequest, Pending
  <2> QED
    BY <1>b, <2>2, <2>3, <2>4
<1>2. ASSUME NEW h \in Handlers, Submit(h) PROVE FALSE
  <2>1. queue' = Append(queue, held[h]) /\ UNCHANGED <<chunk, journal>>
    BY <1>2 DEF Submit
  <2>2. /\ \A i \in DOMAIN queue : i \in DOMAIN queue' /\ queue'[i] = queue[i]
        /\ Len(queue) + 1 \in DOMAIN queue' /\ queue'[Len(queue) + 1] = held[h]
    BY <1>a, <2>1 DEF SenderTypeOK
  <2>3. Queued \subseteq Queued' /\ held[h] \subseteq Queued' /\ Sending' = Sending
    BY <2>1, <2>2 DEF Queued, Sending
  <2> QED
    BY <1>2, <1>b, <1>c, <1>e, <2>1, <2>3 DEF Submit
<1>3. ASSUME NEW h \in Handlers, SubmitTimesOut(h) \/ HandlerFails(h) PROVE Excused
  BY <1>a, <1>3 DEF SubmitTimesOut, HandlerFails, Fault
<1>4. ASSUME NEW w \in Workers, SenderStep(w) PROVE Excused
  <2>1. CASE Attempt(w) /\ UNCHANGED held
    <3>1. UNCHANGED journal
      BY <2>1 DEF Attempt, Take, Send, CommitHeard, AnswerRejected, Timeout, Requeue
    <3> QED
      BY <1>a, <1>c, <1>d, <2>1, <3>1, AttemptKeepsPlaces
  <2>2. CASE CheckpointAck(w, "release") /\ UNCHANGED held
    <3>1. UNCHANGED <<queue, chunk>> /\ Checkpoint(sent[w].id, sent[w].id.events)
      BY <2>2 DEF CheckpointAck
    <3>2. Queued' = Queued /\ Sending' = Sending /\ Holding' = Holding
      BY <2>2, <3>1 DEF Queued, Sending, Holding
    <3>3. Pending' \subseteq Pending
      BY <3>1 DEF Checkpoint, Pending
    <3> QED
      BY <1>b, <3>2, <3>3
  <2>3. CASE Finish(w)
    <3>1. /\ UNCHANGED <<queue, held, journal>>
          /\ \A v \in Workers : chunk'[v] = IF v = w THEN {} ELSE chunk[v]
      BY <1>a, <2>3 DEF Finish, NextIteration, SenderTypeOK
    <3>2. /\ Queued' = Queued /\ Sending \subseteq Sending' \union chunk[w]
          /\ Holding' = Holding /\ Pending' = Pending
      BY <1>c, <3>1 DEF Queued, Sending, Holding
    <3>3. e \in chunk[w]
      BY <1>b, <3>2
    <3>4. CASE wpc[w] = "release"
      <4>1. e \in Acked
        BY <3>3, <3>4 DEF ChunkInv
      <4> QED
        BY <1>b, <3>2, <4>1 DEF Acked, Pending
    <3> QED
      BY <2>3, <3>4 DEF Finish
  <2> QED
    BY <1>4, <2>1, <2>2, <2>3 DEF SenderStep
<1>5. ASSUME NEW w \in Workers, WorkerDies(w) PROVE Excused
  BY <1>a, <1>5 DEF WorkerDies, Fault
<1>6. CASE Receive /\ UNCHANGED held
  <2>1. UNCHANGED <<queue, chunk, journal>>
    BY <1>6 DEF Receive, LoseBatch, CommitUnheard, sender
  <2>2. Queued' = Queued /\ Sending' = Sending
    BY <2>1 DEF Queued, Sending
  <2> QED
    BY <1>6, <1>c, <1>d, <2>1, <2>2
<1>7. CASE Crash
  <2>1. PICK P \in SUBSET Pending :
               Page(MaxEvents, P) /\ queue' = IF P = {} THEN <<>> ELSE <<P>>
    BY <1>7 DEF Crash, RestartSender
  <2>2. Queued' = P
    BY <2>1 DEF Queued
  <2>3. Pending' = Pending /\ crashes' # crashes
    BY <1>7, <1>a, <1>c DEF Crash
  <2>4. P # Pending
    BY <1>b, <2>2, <2>3
  <2> QED
    BY <2>1, <2>2, <2>3, <2>4 DEF Page
<1>8. CASE UNCHANGED vars
  <2>1. Pending' = Pending /\ Queued' = Queued /\ Sending' = Sending /\ held' = held
    BY <1>8, <1>c DEF vars, sender, Queued, Sending
  <2> QED
    BY <1>d, <2>1
<1> QED
  BY <1>1, <1>2, <1>3, <1>4, <1>5, <1>6, <1>7, <1>8 DEF Next

\* A row of the staging connector is forgotten only by a full queue, by an error that ends
\* the thread that had it, or by a restart whose page was full.
THEOREM ForgottenOnlyWhenFull == Spec => ForgottenWhenFull
<1> DEFINE Excused(e) == \/ Len(queue) = QueueCap
                         \/ faults' # faults
                         \/ crashes' # crashes /\ Cardinality(Queued') = MaxEvents
<1>1. Init => ChunkInv
  BY InitialChunks DEF Init
<1>2. IInv /\ ChunkInv /\ [Next]_vars => ChunkInv'
  BY NextChunks
<1>3. IInv /\ ChunkInv /\ [Next]_vars => [\A e \in Forgotten' \ Forgotten : Excused(e)]_vars
  BY NextForgotten
<1>4. Spec => [][\A e \in Forgotten' \ Forgotten : Excused(e)]_vars
  BY <1>1, <1>2, <1>3, InductiveInvariant, PTL DEF Spec
<1> QED
  BY <1>4 DEF ForgottenWhenFull
=============================================================================

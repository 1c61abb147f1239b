------------------------ MODULE DurableDeliveryProofs -----------------------
(***************************************************************************)
(* Theorems about the rehearsal connector, DurableDelivery, for any number *)
(* of events, requests, handlers, sender threads and attempts, any size of *)
(* the queue and any number of failures, faults and restarts.              *)
(***************************************************************************)
EXTENDS DurableDelivery, BatchSenderProofs

SubmitTypes ==
  /\ inFlight \in SUBSET Events
  /\ spc \in [Submitters -> {"idle", "mark", "put", "dead"}]
  /\ held \in [Submitters -> SUBSET Events]
  /\ crashes \in 0..MaxCrashes
  /\ faults \in 0..MaxFaults

\* What a handler or the pump is submitting is journaled already.
HeldIsJournaled == \A s \in Submitters : held[s] \subseteq Journaled

IInv == SenderInv /\ SubmitTypes /\ HeldIsJournaled

LEMMA BodyIsEvents == \A r \in Requests : Body[r] \in SUBSET Events
  BY DeliveryAssumption DEF WellFormed

LEMMA InitIInv == Init => IInv
<1> SUFFICES ASSUME Init PROVE IInv
  OBVIOUS
<1>1. SenderInv
  BY InitialInv DEF Init
<1>2. SubmitTypes /\ HeldIsJournaled
  BY DeliveryAssumption DEF Init, SubmitTypes, HeldIsJournaled
<1> QED
  BY <1>1, <1>2 DEF IInv

\* The submitting threads move while everything else stands still.
LEMMA SubmitterKeepsIInv ==
  ASSUME IInv, NEW s \in Submitters, NEW pc \in {"idle", "mark", "put", "dead"},
         NEW S \in SUBSET Journaled, SubmitterMoves(s, pc, S),
         inFlight' \in SUBSET Events, crashes' \in 0..MaxCrashes, faults' \in 0..MaxFaults,
         UNCHANGED journal, SenderInv'
  PROVE  IInv'
<1>1. S \in SUBSET Events
  BY DEF Journaled
<1>2. SubmitTypes'
  BY <1>1 DEF IInv, SubmitTypes, SubmitterMoves
<1>3. HeldIsJournaled'
  BY JournalUnchanged DEF IInv, SubmitTypes, HeldIsJournaled, SubmitterMoves
<1> QED
  BY <1>2, <1>3 DEF IInv

\* Everything but the submitting threads and the marks moves.
LEMMA OthersKeepIInv ==
  ASSUME IInv, SenderInv', UNCHANGED <<spc, held>>, Journaled \subseteq Journaled',
         inFlight' \in SUBSET Events, crashes' \in 0..MaxCrashes, faults' \in 0..MaxFaults
  PROVE  IInv'
  BY DEF IInv, SubmitTypes, HeldIsJournaled

LEMMA NextIInv == IInv /\ [Next]_vars => IInv'
<1> SUFFICES ASSUME IInv, [Next]_vars PROVE IInv'
  OBVIOUS
<1> USE DEF IInv
<1>b. inFlight \in SUBSET Events /\ crashes \in 0..MaxCrashes /\ faults \in 0..MaxFaults
  BY DEF SubmitTypes
<1>1. ASSUME NEW h \in Handlers, NEW r \in Requests, Ingress(h, r)
      PROVE  IInv'
  <2>1. SenderInv' /\ Journaled' = Journaled \union Body[r]
    BY <1>1, AppendKeepsInv, BodyIsEvents DEF Ingress
  <2>2. SubmitTypes'
    BY <1>1, <1>b, BodyIsEvents
    DEF Ingress, SubmitterMoves, SubmitTypes, Fresh, Journaled, Submitters, bounds
  <2>3. HeldIsJournaled'
    BY <1>1, <2>1 DEF Ingress, SubmitterMoves, SubmitTypes, HeldIsJournaled, Fresh, Submitters
  <2> QED
    BY <2>1, <2>2, <2>3
<1>2. CASE PumpReads
  <2>1. PICK P \in SUBSET Journaled : SubmitterMoves(Pump, "mark", P)
    BY <1>2 DEF PumpReads, Pending, Journaled
  <2>2. SenderInv'
    BY <1>2, StandStill DEF PumpReads
  <2> QED
    BY <1>2, <1>b, <2>1, <2>2, SubmitterKeepsIInv DEF PumpReads, bounds, Submitters
<1>3. ASSUME NEW s \in Submitters, Mark(s)
      PROVE  IInv'
  <2>1. SenderInv'
    BY <1>3, StandStill DEF Mark
  <2>2. held[s] \in SUBSET Journaled /\ held[s] \subseteq Events
    BY DEF HeldIsJournaled, SubmitTypes
  <2>3. PICK pc \in {"idle", "put"}, S \in SUBSET held[s] : SubmitterMoves(s, pc, S)
    BY <1>3 DEF Mark
  <2>4. inFlight' \in SUBSET Events
    BY <1>3, <1>b, <2>2 DEF Mark
  <2> QED
    BY <1>3, <1>b, <2>1, <2>2, <2>3, <2>4, SubmitterKeepsIInv DEF Mark, bounds
<1>4. ASSUME NEW s \in Submitters, Put(s)
      PROVE  IInv'
  <2>1. SenderInv'
    BY <1>4, EnqueueKeepsInv DEF Put, HeldIsJournaled
  <2> QED
    BY <1>4, <1>b, <2>1, SubmitterKeepsIInv DEF Put, bounds
<1>5. ASSUME NEW s \in Submitters, PutTimesOut(s)
      PROVE  IInv'
  <2>1. SenderInv'
    BY <1>5, StandStill DEF PutTimesOut
  <2> QED
    BY <1>5, <1>b, <2>1, SubmitterKeepsIInv DEF PutTimesOut, bounds
<1>6. ASSUME NEW w \in Workers, SenderStep(w)
      PROVE  IInv'
  <2>1. CASE Attempt(w) /\ UNCHANGED <<submit, bounds>>
    <3>1. UNCHANGED journal
      BY <2>1 DEF Attempt, Take, Send, CommitHeard, AnswerRejected, Timeout, Requeue
    <3> QED
      BY <2>1, <3>1, <1>b, AttemptKeepsInv, OthersKeepIInv, JournalUnchanged DEF submit, bounds
  <2>2. CASE CheckpointAck(w, "release") /\ UNCHANGED <<submit, bounds>>
    <3>1. Journaled \subseteq Journaled'
      BY <2>2 DEF CheckpointAck, Checkpoint, Journaled, SenderInv, Types, JournalTypeOK
    <3> QED
      BY <2>2, <3>1, <1>b, CheckpointKeepsInv, OthersKeepIInv DEF submit, bounds
  <2>3. CASE Release(w)
    <3>1. SenderInv'
      BY <2>3, NextIterationKeepsInv DEF Release
    <3> QED
      BY <2>3, <3>1, <1>b, OthersKeepIInv, JournalUnchanged DEF Release, bounds
  <2> QED
    BY <1>6, <2>1, <2>2, <2>3 DEF SenderStep
<1>7. CASE Receive /\ UNCHANGED <<submit, bounds>>
  <2>1. UNCHANGED journal
    BY <1>7 DEF Receive, LoseBatch, CommitUnheard
  <2> QED
    BY <1>7, <2>1, <1>b, ReceiveKeepsInv, OthersKeepIInv, JournalUnchanged DEF submit, bounds
<1>8. ASSUME NEW h \in Handlers, HandlerFails(h)
      PROVE  IInv'
  <2>1. SenderInv' /\ faults' \in 0..MaxFaults
    BY <1>8, <1>b, StandStill, DeliveryAssumption DEF HandlerFails, StorageFault
  <2> QED
    BY <1>8, <1>b, <2>1, SubmitterKeepsIInv DEF HandlerFails, Submitters
<1>9. CASE PumpDies
  <2>1. SenderInv' /\ faults' \in 0..MaxFaults
    BY <1>9, <1>b, StandStill, DeliveryAssumption DEF PumpDies, StorageFault
  <2> QED
    BY <1>9, <1>b, <2>1, SubmitterKeepsIInv DEF PumpDies, Submitters
<1>10. ASSUME NEW w \in Workers, WorkerDies(w)
       PROVE  IInv'
  <2>1. SenderInv'
    BY <1>10, NextIterationKeepsInv DEF WorkerDies
  <2>2. faults' \in 0..MaxFaults
    BY <1>10, <1>b, DeliveryAssumption DEF WorkerDies, StorageFault
  <2> QED
    BY <1>10, <1>b, <2>1, <2>2, OthersKeepIInv, JournalUnchanged DEF WorkerDies, submit
<1>11. CASE Crash
  <2>1. SenderInv'
    BY <1>11, RestartKeepsInv DEF Crash
  <2>2. SubmitTypes' /\ HeldIsJournaled'
    BY <1>11, <1>b, DeliveryAssumption DEF Crash, SubmitTypes, HeldIsJournaled
  <2> QED
    BY <2>1, <2>2
<1>12. CASE UNCHANGED vars
  <2>1. SenderInv'
    BY <1>12, StandStill DEF vars
  <2> QED
    BY <1>12, <1>b, <2>1, OthersKeepIInv, JournalUnchanged DEF vars, submit, bounds
<1> QED
  BY <1>1, <1>2, <1>3, <1>4, <1>5, <1>6, <1>7, <1>8, <1>9, <1>10, <1>11, <1>12 DEF Next

\* The inductive invariant holds in every reachable state.
THEOREM InductiveInvariant == Spec => []IInv
  BY InitIInv, NextIInv, PTL DEF Spec

\* Every variable of the connector, the journal, the network and the receiver
\* stays within its type.
THEOREM TypeCorrect == Spec => []TypeOK
<1>1. IInv => TypeOK
  BY DEF IInv, SenderInv, Types, SubmitTypes, TypeOK
<1> QED
  BY <1>1, InductiveInvariant, PTL

\* A row the connector calls acknowledged was stored and answered for by the
\* receiver before, in the batch the row refers to.
THEOREM AcknowledgedIsDurable == Spec => []AckedIsDurable
<1>1. IInv => AckedIsDurable
  BY DEF IInv, SenderInv
<1> QED
  BY <1>1, InductiveInvariant, PTL

\* Nothing is queued, sent or stored that is not in the journal.
THEOREM JournaledBeforeSent == Spec => []JournaledFirst
<1>1. IInv => JournaledFirst
  BY DEF IInv, SenderInv
<1> QED
  BY <1>1, InductiveInvariant, PTL

\* The receiver accepts each event in one batch only, however often it is sent.
THEOREM EventsAcceptedOnce == Spec => []AcceptedOnce
<1>1. IInv => AcceptedOnce
  BY DEF IInv, SenderInv, ReceiverInv
<1> QED
  BY <1>1, InductiveInvariant, PTL

\* No batch of a connector collides with what the receiver holds.
THEOREM BatchesNeverRefused == Spec => []NeverRefused
<1>1. IInv => NeverRefused
  BY InvNeverRefused DEF IInv
<1> QED
  BY <1>1, InductiveInvariant, PTL

LEMMA StepImplements == IInv /\ [Next]_vars => [Transport!Next]_(Transport!vars)
<1> SUFFICES ASSUME IInv, [Next]_vars
             PROVE  Transport!Next \/ UNCHANGED Abstract
  BY DEF Transport!vars, Abstract
<1> USE DEF IInv
<1>1. ASSUME NEW h \in Handlers, NEW r \in Requests, Ingress(h, r)
      PROVE  Transport!Next
  BY <1>1, AppendImplements, BodyIsEvents DEF Ingress
<1>2. ASSUME NEW w \in Workers, SenderStep(w)
      PROVE  Transport!Next \/ UNCHANGED Abstract
  <2>1. CASE Attempt(w)
    BY <2>1, AttemptImplements
  <2>2. CASE CheckpointAck(w, "release")
    BY <2>2, CheckpointImplements
  <2>3. CASE Release(w)
    BY <2>3, StutterImplements DEF Release
  <2> QED
    BY <1>2, <2>1, <2>2, <2>3 DEF SenderStep
<1>3. CASE Receive
  BY <1>3, ReceiveImplements
<1>4. CASE UNCHANGED <<journal, receiver>>
  BY <1>4, StutterImplements
<1> QED
  BY <1>1, <1>2, <1>3, <1>4
  DEF Next, PumpReads, Mark, Put, PutTimesOut, HandlerFails, PumpDies, WorkerDies,
      Crash, vars

\* The connector, the network and the receiver together, with every failure,
\* fault and restart, implement the abstract at-least-once transport.
THEOREM DurableImplements == Spec => ImplementsAtLeastOnce
<1>1. Init => Transport!Init
  BY InitImplements DEF Init
<1> QED
  BY <1>1, StepImplements, InductiveInvariant, PTL DEF Spec, ImplementsAtLeastOnce, Transport!Spec
-----------------------------------------------------------------------------
(* The marks *)

HInv == SenderTypeOK /\ SubmitTypes /\ OneHolder

\* Threads and queue moved what they held, or dropped some of it, and the marks
\* and the submitting threads stayed as they were.
LEMMA SenderMovesKeepOneHolder ==
  ASSUME OneHolder, OneSender', UNCHANGED submit,
         Queued' \union Sending' \subseteq Queued \union Sending
  PROVE  OneHolder'
<1>1. Putting' = Putting
  BY DEF Putting, submit
<1> QED
  BY <1>1 DEF OneHolder, submit

\* A submitting thread forgets what it holds, or takes up events that it will
\* have to mark before it puts them.
LEMMA IdleKeepsOneHolder ==
  ASSUME HInv, NEW s \in Submitters, NEW pc \in {"idle", "mark", "dead"}, NEW S,
         SubmitterMoves(s, pc, S), inFlight' = inFlight, UNCHANGED sender
  PROVE  OneHolder'
<1>1. \A t \in Submitters : spc'[t] = "put" =>
        t # s /\ spc[t] = "put" /\ held'[t] = held[t]
  BY DEF HInv, SubmitTypes, SubmitterMoves
<1>2. Putting' \subseteq Putting
  BY <1>1 DEF Putting
<1>3. OneSender' /\ Queued' = Queued /\ Sending' = Sending
  BY DEF HInv, OneHolder, OneSender, Queued, Sending, sender
<1> QED
  BY <1>1, <1>2, <1>3 DEF HInv, OneHolder

LEMMA MarkKeepsOneHolder ==
  ASSUME HInv, NEW s \in Submitters, Mark(s)
  PROVE  OneHolder'
<1> DEFINE fresh == held[s] \ inFlight
<1>1. UNCHANGED sender
  BY DEF Mark
<1>2. CASE fresh = {}
  BY <1>1, <1>2, IdleKeepsOneHolder DEF Mark
<1>3. CASE fresh # {}
  <2>1. SubmitterMoves(s, "put", fresh) /\ inFlight' = inFlight \union fresh
    BY <1>3 DEF Mark
  <2>2. \A t \in Submitters : spc'[t] = "put" =>
          \/ t = s /\ held'[t] = fresh
          \/ t # s /\ spc[t] = "put" /\ held'[t] = held[t]
    BY <2>1 DEF HInv, SubmitTypes, SubmitterMoves
  <2>3. \A t \in Submitters : spc[t] = "put" => held[t] \subseteq Putting
    BY DEF Putting
  <2>4. Putting' \subseteq Putting \union fresh
    BY <2>2 DEF Putting
  <2>5. fresh \intersect (Queued \union Sending \union Putting) = {}
    BY DEF HInv, OneHolder
  <2>6. OneSender' /\ Queued' = Queued /\ Sending' = Sending
    BY <1>1 DEF HInv, OneHolder, OneSender, Queued, Sending, sender
  <2>7. \A t, u \in Submitters :
          spc'[t] = "put" /\ spc'[u] = "put" /\ t # u => held'[t] \intersect held'[u] = {}
    BY <2>2, <2>3, <2>5 DEF HInv, OneHolder
  <2>8. Putting' \intersect (Queued' \union Sending') = {}
    BY <2>4, <2>5, <2>6 DEF HInv, OneHolder
  <2>9. Queued' \union Sending' \union Putting' \subseteq inFlight'
    BY <2>1, <2>4, <2>6 DEF HInv, OneHolder
  <2> QED
    BY <2>6, <2>7, <2>8, <2>9 DEF OneHolder
<1> QED
  BY <1>2, <1>3

LEMMA PutKeepsOneHolder ==
  ASSUME HInv, NEW s \in Submitters, Put(s)
  PROVE  OneHolder'
<1>1. /\ spc[s] = "put" /\ SubmitterMoves(s, "idle", {})
      /\ queue' = Append(queue, held[s])
      /\ UNCHANGED <<inFlight, chunk>>
  BY DEF Put
<1>2. held[s] \in SUBSET Events /\ held[s] \subseteq Putting
  BY <1>1 DEF HInv, SubmitTypes, Putting
<1>3. \A v \in Workers : chunk[v] \subseteq Sending
  BY DEF Sending
<1>4. held[s] \intersect (Queued \union Sending) = {}
  BY <1>2 DEF HInv, OneHolder
<1>5. \A v \in Workers : chunk'[v] \intersect held[s] = {} /\ chunk'[v] = chunk[v]
  BY <1>1, <1>3, <1>4
<1>6. chunk' \in [Workers -> SUBSET Events]
  BY <1>1 DEF HInv, SenderTypeOK
<1>7. OneSender' /\ Queued' = Queued \union held[s] /\ Sending' \subseteq Sending
  BY <1>1, <1>2, <1>4, <1>5, <1>6, EnqueueKeepsOneSender DEF HInv, OneHolder
<1>8. \A t \in Submitters : spc'[t] = "put" =>
        t # s /\ spc[t] = "put" /\ held'[t] = held[t]
  BY <1>1 DEF HInv, SubmitTypes, SubmitterMoves
<1>9. Putting' \subseteq Putting /\ Putting' \intersect held[s] = {}
  <2>1. ASSUME NEW e \in Putting'
        PROVE  e \in Putting /\ e \notin held[s]
    <3>1. PICK t \in Submitters : spc'[t] = "put" /\ e \in held'[t]
      BY <2>1 DEF Putting
    <3>2. t # s /\ spc[t] = "put" /\ e \in held[t]
      BY <1>8, <3>1
    <3> QED
      BY <1>1, <3>2 DEF Putting, HInv, OneHolder
  <2> QED
    BY <2>1
<1> QED
  BY <1>1, <1>2, <1>7, <1>8, <1>9 DEF HInv, OneHolder

LEMMA ReleaseKeepsOneHolder ==
  ASSUME HInv, NEW w \in Workers, Release(w)
  PROVE  OneHolder'
<1>1. /\ NextIteration(w, "idle") /\ UNCHANGED <<queue, spc, held>>
      /\ inFlight' = inFlight \ chunk[w]
  BY DEF Release
<1>2. /\ OneSender' /\ Queued' = Queued /\ Sending' \subseteq Sending
      /\ Sending' \intersect chunk[w] = {}
  BY <1>1, NextIterationKeepsOneSender DEF HInv, OneHolder
<1>3. Putting' = Putting
  BY <1>1 DEF Putting
<1>4. chunk[w] \subseteq Sending
  BY DEF Sending
<1>5. chunk[w] \intersect (Queued \union Putting) = {}
  BY <1>4 DEF HInv, OneHolder, OneSender
<1> QED
  BY <1>1, <1>2, <1>3, <1>4, <1>5 DEF HInv, OneHolder

LEMMA NextOneHolder == HInv /\ [Next]_vars => OneHolder'
<1> SUFFICES ASSUME HInv, [Next]_vars PROVE OneHolder'
  OBVIOUS
<1>a. OneHolder /\ SenderTypeOK /\ OneSender
  BY DEF HInv, OneHolder
<1>1. ASSUME NEW h \in Handlers, NEW r \in Requests, Ingress(h, r)
      PROVE  OneHolder'
  <2>1. CASE UNCHANGED <<spc, held>>
    <3>1. OneSender' /\ Queued' \union Sending' \subseteq Queued \union Sending
      BY <1>a, <1>1 DEF Ingress, OneSender, Queued, Sending, sender
    <3> QED
      BY <1>a, <1>1, <2>1, <3>1, SenderMovesKeepOneHolder DEF Ingress, submit
  <2>2. CASE SubmitterMoves(h, "mark", Fresh(Body[r]))
    BY <1>1, <2>2, IdleKeepsOneHolder DEF Ingress, Submitters
  <2> QED
    BY <1>1, <2>1, <2>2 DEF Ingress
<1>2. CASE PumpReads
  BY <1>2, IdleKeepsOneHolder DEF PumpReads, Submitters
<1>3. ASSUME NEW s \in Submitters, PutTimesOut(s)
      PROVE  OneHolder'
  BY <1>3, IdleKeepsOneHolder DEF PutTimesOut
<1>4. ASSUME NEW w \in Workers, SenderStep(w)
      PROVE  OneHolder'
  <2>1. CASE Attempt(w) /\ UNCHANGED submit
    BY <1>a, <2>1, AttemptKeepsOneSender, SenderMovesKeepOneHolder
  <2>2. CASE CheckpointAck(w, "release") /\ UNCHANGED submit
    <3>1. OneSender' /\ Queued' \union Sending' \subseteq Queued \union Sending
      BY <1>a, <2>2 DEF CheckpointAck, OneSender, Queued, Sending
    <3> QED
      BY <1>a, <2>2, <3>1, SenderMovesKeepOneHolder
  <2> QED
    BY <1>4, <2>1, <2>2, ReleaseKeepsOneHolder DEF SenderStep
<1>5. ASSUME UNCHANGED <<queue, chunk, submit>>
      PROVE  OneHolder'
  <2>1. OneSender' /\ Queued' \union Sending' \subseteq Queued \union Sending
    BY <1>a, <1>5 DEF OneSender, Queued, Sending
  <2> QED
    BY <1>a, <1>5, <2>1, SenderMovesKeepOneHolder
<1>6. ASSUME NEW h \in Handlers, HandlerFails(h)
      PROVE  OneHolder'
  BY <1>6, IdleKeepsOneHolder DEF HandlerFails, Submitters
<1>7. CASE PumpDies
  BY <1>7, IdleKeepsOneHolder DEF PumpDies, Submitters
<1>8. ASSUME NEW w \in Workers, WorkerDies(w)
      PROVE  OneHolder'
  BY <1>a, <1>8, NextIterationKeepsOneSender, SenderMovesKeepOneHolder DEF WorkerDies
<1>9. CASE Crash
  BY <1>9 DEF Crash, RestartSender, OneHolder, OneSender, Queued, Sending, Putting
<1>10. Receive /\ UNCHANGED <<submit, bounds>> => UNCHANGED <<queue, chunk, submit>>
  BY DEF Receive, LoseBatch, CommitUnheard, sender
<1>11. UNCHANGED vars => UNCHANGED <<queue, chunk, submit>>
  BY DEF vars, sender
<1> QED
  BY <1>1, <1>2, <1>3, <1>4, <1>5, <1>6, <1>7, <1>8, <1>9, <1>10, <1>11,
     MarkKeepsOneHolder, PutKeepsOneHolder DEF Next

\* No event is in two places of the connector at once, so no two threads ever
\* send it at the same time, and whatever is in one place is marked.
THEOREM EventsHeldOnce == Spec => []OneHolder
<1>1. Init => OneHolder
  BY DEF Init, IdleSender, OneHolder, OneSender, Queued, Sending, Putting
<1>2. IInv /\ OneHolder /\ [Next]_vars => OneHolder'
  BY NextOneHolder DEF IInv, SenderInv, Types, HInv
<1> QED
  BY <1>1, <1>2, InductiveInvariant, PTL DEF Spec
-----------------------------------------------------------------------------
(* The marks that are left behind *)

LEMMA NextChunks == IInv /\ ChunkInv /\ [Next]_vars => ChunkInv'
<1> SUFFICES ASSUME IInv, ChunkInv, [Next]_vars PROVE ChunkInv'
  OBVIOUS
<1>a. SenderTypeOK /\ SenderInv /\ JournalTypeOK(BatchIds)
  BY DEF IInv, SenderInv, Types
<1>1. ASSUME NEW h \in Handlers, NEW r \in Requests, Ingress(h, r) PROVE ChunkInv'
  <2>1. Acked' = Acked
    BY <1>1, <1>a, AppendKeepsRows, BodyIsEvents DEF Ingress
  <2> QED
    BY <1>1, <2>1, StandStillKeepsChunks DEF Ingress, sender
<1>2. ASSUME NEW w \in Workers, SenderStep(w) PROVE ChunkInv'
  <2>1. CASE Attempt(w)
    BY <1>a, <2>1, AttemptKeepsChunks
  <2>2. CASE CheckpointAck(w, "release")
    BY <1>a, <2>2, CheckpointKeepsChunks
  <2>3. CASE Release(w)
    BY <1>a, <2>3, AckedStays, NextIterationKeepsChunks DEF Release
  <2> QED
    BY <1>2, <2>1, <2>2, <2>3 DEF SenderStep
<1>3. ASSUME NEW w \in Workers, WorkerDies(w) PROVE ChunkInv'
  BY <1>a, <1>3, AckedStays, NextIterationKeepsChunks DEF WorkerDies
<1>4. CASE Crash
  BY <1>4, RestartKeepsChunks DEF Crash
<1>5. CASE UNCHANGED <<wpc, chunk, sent, journal>>
  BY <1>5, AckedStays, StandStillKeepsChunks
<1>6. ASSUME NEW s \in Submitters, Mark(s) \/ Put(s) \/ PutTimesOut(s)
      PROVE  UNCHANGED <<wpc, chunk, sent, journal>>
  BY <1>6 DEF Mark, Put, PutTimesOut, sender
<1>7. ASSUME NEW h \in Handlers, HandlerFails(h) PROVE UNCHANGED <<wpc, chunk, sent, journal>>
  BY <1>7 DEF HandlerFails, sender
<1>8. PumpReads \/ PumpDies => UNCHANGED <<wpc, chunk, sent, journal>>
  BY DEF PumpReads, PumpDies, sender
<1>9. Receive => UNCHANGED <<wpc, chunk, sent, journal>>
  BY DEF Receive, LoseBatch, CommitUnheard, sender
<1>10. UNCHANGED vars => UNCHANGED <<wpc, chunk, sent, journal>>
  BY DEF vars, sender
<1> QED
  BY <1>1, <1>2, <1>3, <1>4, <1>5, <1>6, <1>7, <1>8, <1>9, <1>10 DEF Next

\* A submitting thread that does not leave the queue's door changes nothing in Putting.
LEMMA MovesKeepPutting ==
  ASSUME SubmitTypes, NEW s \in Submitters, NEW pc, NEW S, SubmitterMoves(s, pc, S), spc[s] # "put"
  PROVE  Putting \subseteq Putting' /\ (pc = "put" => S \subseteq Putting')
<1>1. \A t \in Submitters : /\ spc'[t] = IF t = s THEN pc ELSE spc[t]
                            /\ held'[t] = IF t = s THEN S ELSE held[t]
  BY DEF SubmitterMoves, SubmitTypes
<1>2. ASSUME NEW t \in Submitters, spc[t] = "put" PROVE spc'[t] = "put" /\ held'[t] = held[t]
  BY <1>1, <1>2
<1> QED
  BY <1>1, <1>2 DEF Putting

\* A mark without a place had one before, and lost it to a full queue or a dead thread.
LEMMA NextStranded ==
  ASSUME IInv, ChunkInv, [Next]_vars, NEW e \in Stranded' \ Stranded
  PROVE  \/ Len(queue) = QueueCap /\ e \in Putting
         \/ faults' # faults /\ e \in Sending
<1> DEFINE Excused == \/ Len(queue) = QueueCap /\ e \in Putting
                      \/ faults' # faults /\ e \in Sending
<1>a. SenderTypeOK /\ SubmitTypes /\ faults \in Nat
  BY DeliveryAssumption DEF IInv, SenderInv, Types, SubmitTypes
<1>b. /\ e \in inFlight' /\ e \notin Queued' \union Sending' \union Putting'
      /\ e \in inFlight => e \in Queued \union Sending \union Putting
  BY DEF Stranded
<1>c. ASSUME UNCHANGED <<queue, chunk>> PROVE Queued' = Queued /\ Sending' = Sending
  BY <1>c DEF Queued, Sending
<1>d. ASSUME NEW s \in Submitters, NEW pc, NEW S, SubmitterMoves(s, pc, S), spc[s] # "put",
             UNCHANGED <<inFlight, queue, chunk>>
      PROVE  FALSE
  BY <1>a, <1>b, <1>c, <1>d, MovesKeepPutting
<1>e. UNCHANGED <<spc, held>> => Putting' = Putting
  BY DEF Putting
<1>1. ASSUME NEW h \in Handlers, NEW r \in Requests, Ingress(h, r) PROVE FALSE
  <2>1. CASE UNCHANGED <<spc, held>>
    BY <1>1, <1>b, <1>c, <1>e, <2>1 DEF Ingress, sender
  <2>2. CASE SubmitterMoves(h, "mark", Fresh(Body[r]))
    BY <1>1, <1>d, <2>2 DEF Ingress, Submitters, sender
  <2> QED
    BY <1>1, <2>1, <2>2 DEF Ingress
<1>2. CASE PumpReads
  BY <1>2, <1>d DEF PumpReads, Submitters, sender
<1>3. ASSUME NEW s \in Submitters, Mark(s) PROVE FALSE
  <2> DEFINE fresh == held[s] \ inFlight
  <2>1. spc[s] = "mark" /\ UNCHANGED <<queue, chunk>>
    BY <1>3 DEF Mark, sender
  <2>2. CASE SubmitterMoves(s, "idle", {}) /\ UNCHANGED inFlight
    BY <1>d, <2>1, <2>2
  <2>3. CASE SubmitterMoves(s, "put", fresh) /\ inFlight' = inFlight \union fresh
    <3>1. Putting \subseteq Putting' /\ fresh \subseteq Putting'
      BY <1>a, <2>1, <2>3, MovesKeepPutting
    <3> QED
      BY <1>b, <1>c, <2>1, <2>3, <3>1
  <2> QED
    BY <1>3, <2>2, <2>3 DEF Mark
<1>4. ASSUME NEW s \in Submitters, spc[s] = "put", SubmitterMoves(s, "idle", {})
      PROVE  Putting \subseteq Putting' \union held[s] /\ held[s] \subseteq Putting
  <2>1. \A t \in Submitters : t # s => spc'[t] = spc[t] /\ held'[t] = held[t]
    BY <1>a, <1>4 DEF SubmitterMoves, SubmitTypes
  <2> QED
    BY <1>4, <2>1 DEF Putting
<1>5. ASSUME NEW s \in Submitters, Put(s) PROVE FALSE
  <2>1. queue' = Append(queue, held[s]) /\ UNCHANGED <<inFlight, chunk>>
    BY <1>5 DEF Put
  <2>2. /\ \A i \in DOMAIN queue : i \in DOMAIN queue' /\ queue'[i] = queue[i]
        /\ Len(queue) + 1 \in DOMAIN queue' /\ queue'[Len(queue) + 1] = held[s]
    BY <1>a, <2>1 DEF SenderTypeOK
  <2>3. Queued \subseteq Queued' /\ held[s] \subseteq Queued' /\ Sending' = Sending
    BY <2>1, <2>2 DEF Queued, Sending
  <2>4. Putting \subseteq Putting' \union held[s]
    BY <1>4, <1>5 DEF Put
  <2> QED
    BY <1>b, <2>1, <2>3, <2>4
<1>6. ASSUME NEW s \in Submitters, PutTimesOut(s) PROVE Excused
  <2>1. Putting \subseteq Putting' \union held[s] /\ held[s] \subseteq Putting
    BY <1>4, <1>6 DEF PutTimesOut
  <2> QED
    BY <1>6, <1>b, <1>c, <2>1 DEF PutTimesOut, sender
<1>7. ASSUME NEW w \in Workers, SenderStep(w) PROVE FALSE
  <2>1. CASE Attempt(w) /\ UNCHANGED submit
    BY <1>a, <1>b, <1>e, <2>1, AttemptKeepsPlaces DEF submit
  <2>2. CASE CheckpointAck(w, "release") /\ UNCHANGED submit
    BY <1>b, <1>c, <1>e, <2>2 DEF CheckpointAck, submit
  <2>3. CASE Release(w)
    <3>1. /\ UNCHANGED <<queue, spc, held>> /\ inFlight' = inFlight \ chunk[w]
          /\ \A v \in Workers : chunk'[v] = IF v = w THEN {} ELSE chunk[v]
      BY <1>a, <2>3 DEF Release, NextIteration, SenderTypeOK
    <3>2. Queued' = Queued /\ Sending \subseteq Sending' \union chunk[w] /\ Putting' = Putting
      BY <1>e, <3>1 DEF Queued, Sending
    <3> QED
      BY <1>b, <3>1, <3>2
  <2> QED
    BY <1>7, <2>1, <2>2, <2>3 DEF SenderStep
<1>8. CASE Receive /\ UNCHANGED submit
  <2>1. UNCHANGED <<queue, chunk>>
    BY <1>8 DEF Receive, LoseBatch, CommitUnheard, sender
  <2> QED
    BY <1>8, <1>b, <1>c, <1>e, <2>1 DEF submit
<1>9. ASSUME NEW h \in Handlers, HandlerFails(h) PROVE FALSE
  BY <1>9, <1>d DEF HandlerFails, Submitters, sender
<1>10. CASE PumpDies
  BY <1>10, <1>d DEF PumpDies, Submitters, sender
<1>11. ASSUME NEW w \in Workers, WorkerDies(w) PROVE Excused
  <2>1. /\ UNCHANGED <<queue, submit>> /\ faults' = faults + 1
        /\ \A v \in Workers : chunk'[v] = IF v = w THEN {} ELSE chunk[v]
    BY <1>a, <1>11 DEF WorkerDies, NextIteration, StorageFault, SenderTypeOK
  <2>2. /\ Queued' = Queued /\ Sending \subseteq Sending' \union chunk[w] /\ chunk[w] \subseteq Sending
        /\ Putting' = Putting
    BY <1>e, <2>1 DEF Queued, Sending, submit
  <2> QED
    BY <1>a, <1>b, <2>1, <2>2 DEF submit
<1>12. CASE Crash
  BY <1>12, <1>b DEF Crash
<1>13. CASE UNCHANGED vars
  BY <1>13, <1>b, <1>c, <1>e DEF vars, sender, submit
<1> QED
  BY <1>1, <1>2, <1>3, <1>5, <1>6, <1>7, <1>8, <1>9, <1>10, <1>11, <1>12, <1>13 DEF Next

\* A mark is left behind only by a submit that met a full queue and by a thread that died.
THEOREM StrandedOnlyWhenFull == Spec => StrandedWhenFull
<1> DEFINE Excused(e) == \/ Len(queue) = QueueCap /\ e \in Putting
                         \/ faults' # faults /\ e \in Sending
<1>1. Init => ChunkInv
  BY InitialChunks DEF Init
<1>2. IInv /\ ChunkInv /\ [Next]_vars => ChunkInv'
  BY NextChunks
<1>3. IInv /\ ChunkInv /\ [Next]_vars => [\A e \in Stranded' \ Stranded : Excused(e)]_vars
  BY NextStranded
<1>4. Spec => [][\A e \in Stranded' \ Stranded : Excused(e)]_vars
  BY <1>1, <1>2, <1>3, InductiveInvariant, PTL DEF Spec
<1> QED
  BY <1>4 DEF StrandedWhenFull
=============================================================================

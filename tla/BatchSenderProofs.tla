-------------------------- MODULE BatchSenderProofs -------------------------
(***************************************************************************)
(* What every action of BatchSender preserves, for any number of events,   *)
(* requests, threads, attempts and any size of the queue.  The connectors  *)
(* cite these lemmas for the actions they share; each proves about its own *)
(* actions in its own module.                                              *)
(***************************************************************************)
EXTENDS BatchSender, TLAPS

\* The journal holds no two bodies with the same key.
JournalConsistent == \A e, f \in Journaled : ~ Collide(e, f)

\* A thread that waits for an answer, or has one, has sent a batch.
SentBatch ==
  \A w \in Workers : wpc[w] \in {"waiting", "acked"} => sent[w] \in Batches

\* An answer accounts for every event of its batch, and they are all stored.
AnswersComplete ==
  \A a \in acks : /\ a.accepted \union a.duplicate = a.id.events
                  /\ a.id.events \subseteq stored

\* A thread about to checkpoint holds a batch that was answered.
HeardIsAnswered ==
  \A w \in Workers : wpc[w] = "acked" => \E a \in acks : a.id = sent[w].id

Types == JournalTypeOK(BatchIds) /\ SenderTypeOK /\ SentBatch

ReceiverInv == AnswersComplete /\ AcceptedOnce

SenderInv ==
  /\ Types
  /\ ReceiverInv
  /\ HeardIsAnswered
  /\ AckedIsDurable
  /\ JournaledFirst
  /\ JournalConsistent
-----------------------------------------------------------------------------
(* What append() and checkpoint() preserve of the journal *)

\* append() keeps every row and adds the events of the request, all pending.
LEMMA AppendKeepsRows ==
  ASSUME NEW Ids, JournalTypeOK(Ids), NEW r \in Requests, NEW S \in SUBSET Events,
         AppendRequest(r, S)
  PROVE  /\ JournalTypeOK(Ids)'
         /\ Journaled' = Journaled \union S
         /\ Acked' = Acked
         /\ ref' = ref /\ checkpoints' = checkpoints
<1>1. JournalTypeOK(Ids)'
  BY DEF JournalTypeOK, AppendRequest, Fresh, Journaled
<1>2. Journaled' = Journaled \union S
  BY DEF JournalTypeOK, AppendRequest, Fresh, Journaled
<1>3. Acked' = Acked
  BY DEF JournalTypeOK, AppendRequest, Fresh, Journaled, Acked
<1> QED
  BY <1>1, <1>2, <1>3 DEF AppendRequest

\* append() never lets two bodies with one key into the journal.
LEMMA AppendKeepsConsistent ==
  ASSUME NEW Ids, JournalTypeOK(Ids), NEW r \in Requests, NEW S \in SUBSET Events,
         AppendRequest(r, S), JournalConsistent
  PROVE  JournalConsistent'
<1>1. Journaled' = Journaled \union S
  BY AppendKeepsRows
<1>2. \A e \in S : \A f \in S \union Journaled : ~ Collide(e, f)
  BY DEF AppendRequest, Consistent
<1> QED
  BY <1>1, <1>2 DEF JournalConsistent, Collide

\* checkpoint() of journaled events adds no row and removes none.
LEMMA CheckpointKeepsRows ==
  ASSUME NEW Ids, JournalTypeOK(Ids), NEW id \in Ids, NEW S \in SUBSET Journaled,
         Checkpoint(id, S)
  PROVE  /\ JournalTypeOK(Ids)'
         /\ Journaled' = Journaled
         /\ Acked' = Acked \union S
<1>1. S \subseteq Events
  BY DEF Journaled
<1>2. JournalTypeOK(Ids)'
  BY <1>1 DEF JournalTypeOK, Checkpoint
<1>3. Journaled' = Journaled
  BY <1>1 DEF JournalTypeOK, Checkpoint, Journaled
<1>4. Acked' = Acked \union S
  BY <1>1 DEF JournalTypeOK, Checkpoint, Acked
<1> QED
  BY <1>2, <1>3, <1>4
-----------------------------------------------------------------------------
(* The receiver *)

\* commit() adds whole batches and keeps every answer.
LEMMA CommitGrows ==
  ASSUME NEW b \in Batches, Commit(b)
  PROVE  /\ stored \subseteq stored' /\ acks \subseteq acks'
         /\ stored' \subseteq stored \union b.id.events
         /\ ~ Refused(b) => \E a \in acks' : a.id = b.id
<1>1. CASE UNCHANGED receiver /\ (Answered(b) \/ Refused(b))
  BY <1>1 DEF receiver, Answered
<1>2. CASE /\ stored' = stored \union b.id.events
           /\ acks' = acks \union {NewAck(b)}
  <2>1. NewAck(b).id = b.id
    BY DEF NewAck
  <2> QED
    BY <1>2, <2>1
<1> QED
  BY <1>1, <1>2 DEF Commit

LEMMA CommitTypes ==
  ASSUME NEW b \in Batches, Commit(b),
         stored \in SUBSET Events, acks \in SUBSET Acks(BatchIds, 1..MaxAttempts)
  PROVE  /\ stored' \in SUBSET Events
         /\ acks' \in SUBSET Acks(BatchIds, 1..MaxAttempts)
<1>1. NewAck(b) \in Acks(BatchIds, 1..MaxAttempts)
  BY DEF NewAck, Acks, Batches, BatchIds
<1> QED
  BY <1>1 DEF Commit, receiver, Batches, BatchIds

\* commit() accepts an event once and answers for every event of the batch.
LEMMA CommitKeepsReceiver ==
  ASSUME NEW b \in Batches, Commit(b), ReceiverInv,
         acks \in SUBSET Acks(BatchIds, 1..MaxAttempts)
  PROVE  ReceiverInv'
<1>1. CASE UNCHANGED receiver
  BY <1>1 DEF receiver, ReceiverInv, AnswersComplete, AcceptedOnce
<1>2. CASE /\ stored' = stored \union b.id.events
           /\ acks' = acks \union {NewAck(b)}
  <2>1. /\ NewAck(b).id = b.id
        /\ NewAck(b).accepted = b.id.events \ stored
        /\ NewAck(b).duplicate = b.id.events \intersect stored
    BY DEF NewAck
  <2>2. AnswersComplete'
    BY <1>2, <2>1 DEF ReceiverInv, AnswersComplete
  <2>3. \A a \in acks : a.accepted \subseteq stored
    BY DEF ReceiverInv, AnswersComplete
  <2>4. UNION {a.accepted : a \in acks'} = stored'
    <3>1. UNION {a.accepted : a \in acks} = stored
      BY DEF ReceiverInv, AcceptedOnce
    <3>2. ASSUME NEW e \in UNION {a.accepted : a \in acks'}
          PROVE  e \in stored'
      BY <3>1, <1>2, <2>1
    <3>3. ASSUME NEW e \in stored'
          PROVE  \E a \in acks' : e \in a.accepted
      BY <3>1, <1>2, <2>1
    <3> QED
      BY <3>2, <3>3
  <2>5. \A x, y \in acks' : x # y => x.accepted \intersect y.accepted = {}
    BY <1>2, <2>1, <2>3 DEF ReceiverInv, AcceptedOnce
  <2> QED
    BY <2>2, <2>4, <2>5 DEF ReceiverInv, AcceptedOnce
<1> QED
  BY <1>1, <1>2 DEF Commit
-----------------------------------------------------------------------------
(* The actions of the threads and of the network *)

\* Steps that leave the journal alone and let the receiver only grow.
LEMMA ReceiverGrowthKeepsAcked ==
  ASSUME AckedIsDurable, UNCHANGED journal,
         stored \subseteq stored', acks \subseteq acks'
  PROVE  AckedIsDurable'
  BY DEF AckedIsDurable, Acked, journal

LEMMA JournalUnchanged ==
  ASSUME UNCHANGED journal
  PROVE  /\ JournalTypeOK(BatchIds) => JournalTypeOK(BatchIds)'
         /\ Journaled' = Journaled /\ Acked' = Acked
         /\ JournalConsistent => JournalConsistent'
  BY DEF journal, JournalTypeOK, Journaled, Acked, JournalConsistent

\* A step that moves chunks between the queue and the threads, or forgets some,
\* keeps the invariant if it keeps the types.
LEMMA ThreadStepKeepsInv ==
  ASSUME SenderInv, UNCHANGED <<journal, receiver>>, Types',
         Queued' \union Sending' \subseteq Queued \union Sending,
         wire' \subseteq wire,
         \A w \in Workers :
           wpc'[w] = "acked" => wpc[w] = "acked" /\ sent'[w] = sent[w]
  PROVE  SenderInv'
<1> USE DEF SenderInv
<1>1. UNCHANGED journal /\ UNCHANGED <<stored, acks>>
  BY DEF receiver
<1>2. ReceiverInv'
  BY <1>1 DEF ReceiverInv, AnswersComplete, AcceptedOnce
<1>3. HeardIsAnswered'
  BY <1>1 DEF HeardIsAnswered
<1>4. AckedIsDurable'
  BY <1>1, ReceiverGrowthKeepsAcked
<1>5. JournaledFirst'
  BY <1>1, JournalUnchanged DEF JournaledFirst
<1>6. JournalConsistent'
  BY <1>1, JournalUnchanged
<1> QED
  BY <1>2, <1>3, <1>4, <1>5, <1>6

LEMMA StandStill ==
  ASSUME SenderInv, UNCHANGED <<sender, network, receiver, journal>>
  PROVE  SenderInv'
<1>1. Types'
  BY JournalUnchanged
  DEF SenderInv, Types, SenderTypeOK, SentBatch, sender, network, receiver
<1>2. Queued' = Queued /\ Sending' = Sending /\ UNCHANGED <<wire, wpc, sent>>
  BY DEF Queued, Sending, sender, network
<1> QED
  BY <1>1, <1>2, ThreadStepKeepsInv

LEMMA TakeKeepsInv ==
  ASSUME SenderInv, NEW w \in Workers, Take(w)
  PROVE  SenderInv'
<1> USE DEF SenderInv
<1>1. UNCHANGED <<journal, receiver>> /\ UNCHANGED network /\ UNCHANGED <<seq, sent>>
  BY DEF Take
<1>2. Head(queue) \in SUBSET Events /\ Tail(queue) \in Seq(SUBSET Events)
      /\ Head(queue) = queue[1] /\ 1 \in DOMAIN queue
      /\ \A i \in DOMAIN Tail(queue) : i + 1 \in DOMAIN queue
                                        /\ Tail(queue)[i] = queue[i + 1]
  BY DEF Take, Types, SenderTypeOK
<1>3. Types'
  <2>1. JournalTypeOK(BatchIds)'
    BY <1>1, JournalUnchanged DEF Types
  <2>2. SenderTypeOK'
    BY <1>1, <1>2, SenderAssumption
    DEF Types, SenderTypeOK, Take, WorkerStates, receiver, network
  <2>3. SentBatch'
    BY <1>1 DEF Types, SenderTypeOK, SentBatch, Take
  <2> QED
    BY <2>1, <2>2, <2>3 DEF Types
<1>4. Queued' \union Sending' \subseteq Queued \union Sending
  <2>1. Queued' \subseteq Queued
    BY <1>2 DEF Queued, Take
  <2>2. Head(queue) \subseteq Queued
    BY <1>2 DEF Queued
  <2>3. Sending' \subseteq Sending \union Head(queue)
    BY DEF Sending, Take, Types, SenderTypeOK
  <2> QED
    BY <2>1, <2>2, <2>3
<1>5. \A v \in Workers : wpc'[v] = "acked" => wpc[v] = "acked" /\ sent'[v] = sent[v]
  BY <1>1 DEF Take, Types, SenderTypeOK
<1> QED
  BY <1>1, <1>3, <1>4, <1>5, ThreadStepKeepsInv DEF network

LEMMA SendKeepsInv ==
  ASSUME SenderInv, NEW w \in Workers, Send(w)
  PROVE  SenderInv'
<1> USE DEF SenderInv
<1>1. UNCHANGED journal /\ UNCHANGED receiver /\ UNCHANGED <<queue, chunk>>
  BY DEF Send
<1>2. NextBatch(w) \in Batches /\ NextBatch(w).id.events = chunk[w]
  BY DEF NextBatch, Batches, BatchIds, Types, SenderTypeOK
<1>3. Types'
  <2>1. JournalTypeOK(BatchIds)'
    BY <1>1, JournalUnchanged DEF Types
  <2>2. SenderTypeOK'
    BY <1>1, <1>2 DEF Types, SenderTypeOK, Send, WorkerStates, receiver
  <2>3. SentBatch'
    BY <1>2 DEF Types, SenderTypeOK, SentBatch, Send
  <2> QED
    BY <2>1, <2>2, <2>3 DEF Types
<1>4. ReceiverInv'
  BY <1>1 DEF ReceiverInv, AnswersComplete, AcceptedOnce, receiver
<1>5. HeardIsAnswered'
  BY <1>1 DEF HeardIsAnswered, Send, receiver, Types, SenderTypeOK
<1>6. AckedIsDurable'
  BY <1>1, ReceiverGrowthKeepsAcked DEF receiver
<1>7. JournaledFirst'
  <2>1. Queued' = Queued /\ Sending' = Sending /\ chunk[w] \subseteq Sending
    BY <1>1 DEF Queued, Sending
  <2> QED
    BY <1>1, <1>2, <2>1, JournalUnchanged DEF JournaledFirst, receiver, Send
<1>8. JournalConsistent'
  BY <1>1, JournalUnchanged
<1> QED
  BY <1>3, <1>4, <1>5, <1>6, <1>7, <1>8

LEMMA CommitKeepsInv ==
  ASSUME SenderInv, NEW b \in wire, Commit(b), UNCHANGED journal
  PROVE  /\ b \in Batches
         /\ ReceiverInv' /\ AckedIsDurable' /\ JournalConsistent'
         /\ stored' \in SUBSET Events
         /\ acks' \in SUBSET Acks(BatchIds, 1..MaxAttempts)
         /\ acks \subseteq acks'
         /\ stored' \subseteq Journaled'
<1> USE DEF SenderInv
<1>1. b \in Batches /\ b.id.events \subseteq Journaled
  BY DEF Types, SenderTypeOK, JournaledFirst
<1>2. stored \in SUBSET Events /\ acks \in SUBSET Acks(BatchIds, 1..MaxAttempts)
  BY DEF Types, SenderTypeOK
<1>3. ReceiverInv'
  BY <1>1, <1>2, CommitKeepsReceiver
<1>4. AckedIsDurable'
  BY <1>1, CommitGrows, ReceiverGrowthKeepsAcked
<1>5. stored' \subseteq Journaled'
  BY <1>1, CommitGrows, JournalUnchanged DEF JournaledFirst
<1>6. JournalConsistent'
  BY JournalUnchanged
<1> QED
  BY <1>1, <1>2, <1>3, <1>4, <1>5, <1>6, CommitGrows, CommitTypes

LEMMA LoseBatchKeepsInv ==
  ASSUME SenderInv, NEW b \in wire, LoseBatch(b)
  PROVE  SenderInv'
<1> USE DEF SenderInv
<1>1. UNCHANGED <<journal, receiver>> /\ UNCHANGED sender
  BY DEF LoseBatch
<1>2. Types'
  <2>1. JournalTypeOK(BatchIds)'
    BY <1>1, JournalUnchanged DEF Types
  <2>2. SenderTypeOK'
    BY <1>1, SenderAssumption
    DEF Types, SenderTypeOK, LoseBatch, NetworkFails, sender, receiver
  <2>3. SentBatch'
    BY <1>1 DEF Types, SentBatch, sender
  <2> QED
    BY <2>1, <2>2, <2>3 DEF Types
<1>3. Queued' = Queued /\ Sending' = Sending
  BY <1>1 DEF Queued, Sending, sender
<1>4. wire' \subseteq wire /\ UNCHANGED <<wpc, sent>>
  BY <1>1 DEF LoseBatch, sender
<1> QED
  BY <1>1, <1>2, <1>3, <1>4, ThreadStepKeepsInv

LEMMA CommitUnheardKeepsInv ==
  ASSUME SenderInv, NEW b \in wire, CommitUnheard(b)
  PROVE  SenderInv'
<1> USE DEF SenderInv
<1>1. UNCHANGED journal /\ UNCHANGED sender /\ Commit(b) /\ wire' \subseteq wire
  BY DEF CommitUnheard
<1>2. /\ ReceiverInv' /\ AckedIsDurable' /\ JournalConsistent'
      /\ stored' \in SUBSET Events
      /\ acks' \in SUBSET Acks(BatchIds, 1..MaxAttempts)
      /\ acks \subseteq acks'
      /\ stored' \subseteq Journaled'
  BY <1>1, CommitKeepsInv
<1>3. Types'
  <2>1. JournalTypeOK(BatchIds)'
    BY <1>1, JournalUnchanged DEF Types
  <2>2. failures' \in 0..MaxFailures
    BY SenderAssumption DEF CommitUnheard, NetworkFails, Types, SenderTypeOK
  <2>3. SenderTypeOK'
    BY <1>1, <1>2, <2>2 DEF Types, SenderTypeOK, sender
  <2>4. SentBatch'
    BY <1>1 DEF Types, SentBatch, sender
  <2> QED
    BY <2>1, <2>3, <2>4 DEF Types
<1>4. HeardIsAnswered'
  BY <1>1, <1>2 DEF HeardIsAnswered, sender
<1>5. JournaledFirst'
  BY <1>1, <1>2, JournalUnchanged DEF JournaledFirst, Queued, Sending, sender
<1> QED
  BY <1>2, <1>3, <1>4, <1>5

LEMMA CommitHeardKeepsInv ==
  ASSUME SenderInv, NEW w \in Workers, CommitHeard(w)
  PROVE  SenderInv'
<1> USE DEF SenderInv
<1>1. /\ UNCHANGED journal /\ UNCHANGED <<queue, seq, chunk, attempt, sent, failures>>
      /\ sent[w] \in wire /\ Commit(sent[w]) /\ ~ Refused(sent[w])
      /\ wire' \subseteq wire
      /\ wpc' = [wpc EXCEPT ![w] = "acked"]
  BY DEF CommitHeard
<1>2. /\ sent[w] \in Batches
      /\ ReceiverInv' /\ AckedIsDurable' /\ JournalConsistent'
      /\ stored' \in SUBSET Events
      /\ acks' \in SUBSET Acks(BatchIds, 1..MaxAttempts)
      /\ acks \subseteq acks'
      /\ stored' \subseteq Journaled'
  BY <1>1, CommitKeepsInv
<1>3. Types'
  <2>1. JournalTypeOK(BatchIds)'
    BY <1>1, JournalUnchanged DEF Types
  <2>2. SenderTypeOK'
    BY <1>1, <1>2 DEF Types, SenderTypeOK, WorkerStates
  <2>3. SentBatch'
    BY <1>1, <1>2 DEF Types, SenderTypeOK, SentBatch
  <2> QED
    BY <2>1, <2>2, <2>3 DEF Types
<1>4. HeardIsAnswered'
  <2>1. \E a \in acks' : a.id = sent[w].id
    BY <1>1, <1>2, CommitGrows
  <2>2. ASSUME NEW v \in Workers, v # w, wpc'[v] = "acked"
        PROVE  \E a \in acks' : a.id = sent'[v].id
    BY <1>1, <1>2, <2>2 DEF HeardIsAnswered, Types, SenderTypeOK
  <2> QED
    BY <1>1, <2>1, <2>2 DEF HeardIsAnswered
<1>5. JournaledFirst'
  BY <1>1, <1>2, JournalUnchanged DEF JournaledFirst, Queued, Sending
<1> QED
  BY <1>2, <1>3, <1>4, <1>5

\* The except branch, whatever made the attempt fail.
LEMMA AttemptFailsKeepsInv ==
  ASSUME SenderInv, NEW w \in Workers, AttemptFails(w),
         UNCHANGED <<journal, receiver>>, wire' \subseteq wire,
         failures' \in 0..MaxFailures
  PROVE  SenderInv'
<1> USE DEF SenderInv
<1>1. Types'
  <2>1. JournalTypeOK(BatchIds)'
    BY JournalUnchanged DEF Types
  <2>2. SenderTypeOK'
    <3>1. attempt' \in [Workers -> 1..MaxAttempts]
      BY SenderAssumption DEF AttemptFails, Types, SenderTypeOK
    <3> QED
      BY <3>1 DEF AttemptFails, Types, SenderTypeOK, WorkerStates, receiver
  <2>3. SentBatch'
    BY DEF AttemptFails, Types, SenderTypeOK, SentBatch
  <2> QED
    BY <2>1, <2>2, <2>3 DEF Types
<1>2. Queued' = Queued /\ Sending' = Sending
  BY DEF Queued, Sending, AttemptFails
<1>3. \A v \in Workers : wpc'[v] = "acked" => wpc[v] = "acked" /\ sent'[v] = sent[v]
  BY DEF AttemptFails, Types, SenderTypeOK
<1> QED
  BY <1>1, <1>2, <1>3, ThreadStepKeepsInv

\* A thread forgets its chunk, for the next iteration or for good.
LEMMA NextIterationKeepsInv ==
  ASSUME SenderInv, NEW w \in Workers, NEW pc \in {"idle", "dead"},
         NextIteration(w, pc), UNCHANGED <<queue, seq, network, journal, receiver>>
  PROVE  SenderInv'
<1> USE DEF SenderInv
<1>1. Types'
  <2>1. JournalTypeOK(BatchIds)'
    BY JournalUnchanged DEF Types
  <2>2. SenderTypeOK'
    BY SenderAssumption
    DEF NextIteration, Types, SenderTypeOK, WorkerStates, receiver, network
  <2>3. SentBatch'
    BY DEF NextIteration, Types, SenderTypeOK, SentBatch
  <2> QED
    BY <2>1, <2>2, <2>3 DEF Types
<1>2. Queued' = Queued /\ Sending' \subseteq Sending
  BY DEF Queued, Sending, NextIteration, Types, SenderTypeOK
<1>3. \A v \in Workers : wpc'[v] = "acked" => wpc[v] = "acked" /\ sent'[v] = sent[v]
  BY DEF NextIteration, Types, SenderTypeOK
<1> QED
  BY <1>1, <1>2, <1>3, ThreadStepKeepsInv DEF network

LEMMA RequeueKeepsInv ==
  ASSUME SenderInv, NEW w \in Workers, Requeue(w)
  PROVE  SenderInv'
<1> USE DEF SenderInv
<1>1. /\ UNCHANGED <<seq, network, journal, receiver>> /\ NextIteration(w, "idle")
      /\ queue' = Append(queue, chunk[w])
  BY DEF Requeue
<1>2. /\ queue' \in Seq(SUBSET Events)
      /\ \A i \in DOMAIN queue' : \/ i \in DOMAIN queue /\ queue'[i] = queue[i]
                                  \/ queue'[i] = chunk[w]
  BY <1>1 DEF Types, SenderTypeOK
<1>3. Types'
  <2>1. JournalTypeOK(BatchIds)'
    BY <1>1, JournalUnchanged DEF Types
  <2>2. SenderTypeOK'
    BY <1>1, <1>2, SenderAssumption
    DEF NextIteration, Types, SenderTypeOK, WorkerStates, receiver, network
  <2>3. SentBatch'
    BY <1>1 DEF NextIteration, Types, SenderTypeOK, SentBatch
  <2> QED
    BY <2>1, <2>2, <2>3 DEF Types
<1>4. Queued' \union Sending' \subseteq Queued \union Sending
  <2>1. chunk[w] \subseteq Sending
    BY DEF Sending
  <2>2. Queued' \subseteq Queued \union chunk[w]
    BY <1>2 DEF Queued
  <2>3. Sending' \subseteq Sending
    BY <1>1 DEF Sending, NextIteration, Types, SenderTypeOK
  <2> QED
    BY <2>1, <2>2, <2>3
<1>5. \A v \in Workers : wpc'[v] = "acked" => wpc[v] = "acked" /\ sent'[v] = sent[v]
  BY <1>1 DEF NextIteration, Types, SenderTypeOK
<1> QED
  BY <1>1, <1>3, <1>4, <1>5, ThreadStepKeepsInv DEF network

LEMMA AttemptKeepsInv ==
  ASSUME SenderInv, NEW w \in Workers, Attempt(w)
  PROVE  SenderInv'
<1>1. CASE Take(w)
  BY <1>1, TakeKeepsInv
<1>2. CASE Send(w)
  BY <1>2, SendKeepsInv
<1>3. CASE CommitHeard(w)
  BY <1>3, CommitHeardKeepsInv
<1>4. CASE AnswerRejected(w)
  BY <1>4, AttemptFailsKeepsInv DEF AnswerRejected, SenderInv, Types, SenderTypeOK
<1>5. CASE Timeout(w)
  <2>1. failures' \in 0..MaxFailures
    BY <1>5, SenderAssumption DEF Timeout, NetworkFails, SenderInv, Types, SenderTypeOK
  <2> QED
    BY <1>5, <2>1, AttemptFailsKeepsInv DEF Timeout
<1>6. CASE Requeue(w)
  BY <1>6, RequeueKeepsInv
<1> QED
  BY <1>1, <1>2, <1>3, <1>4, <1>5, <1>6 DEF Attempt

LEMMA ReceiveKeepsInv ==
  ASSUME SenderInv, Receive
  PROVE  SenderInv'
  BY LoseBatchKeepsInv, CommitUnheardKeepsInv DEF Receive

\* The checkpoint of a batch that was answered: its events are stored, so they
\* are journaled, and the answer that covers them is the one checkpointed.
LEMMA CheckpointKeepsInv ==
  ASSUME SenderInv, NEW w \in Workers, CheckpointAck(w, "release")
  PROVE  SenderInv'
<1> USE DEF SenderInv
<1> DEFINE id == sent[w].id
<1>1. /\ UNCHANGED <<queue, seq, chunk, attempt, sent, network, receiver>>
      /\ Checkpoint(id, id.events) /\ wpc[w] = "acked"
      /\ wpc' = [wpc EXCEPT ![w] = "release"]
  BY DEF CheckpointAck
<1>2. PICK a \in acks : a.id = id
  BY <1>1 DEF HeardIsAnswered
<1>3. id \in BatchIds /\ id.events \subseteq stored /\ id.events \in SUBSET Journaled
  BY <1>1, <1>2
  DEF Types, SentBatch, Batches, ReceiverInv, AnswersComplete, JournaledFirst
<1>4. /\ JournalTypeOK(BatchIds)'
      /\ Journaled' = Journaled
      /\ Acked' = Acked \union id.events
  BY <1>1, <1>3, CheckpointKeepsRows DEF Types
<1>5. Types'
  <2>1. SenderTypeOK'
    BY <1>1 DEF Types, SenderTypeOK, WorkerStates, network, receiver
  <2>2. SentBatch'
    BY <1>1 DEF Types, SenderTypeOK, SentBatch
  <2> QED
    BY <1>4, <2>1, <2>2 DEF Types
<1>6. ReceiverInv' /\ HeardIsAnswered'
  BY <1>1 DEF ReceiverInv, AnswersComplete, AcceptedOnce, HeardIsAnswered, receiver,
              Types, SenderTypeOK
<1>7. AckedIsDurable'
  <2>1. checkpoints' = checkpoints \union {id} /\ acks' = acks /\ stored' = stored
    BY <1>1 DEF Checkpoint, receiver
  <2>2. checkpoints' \subseteq {x.id : x \in acks'}
    BY <2>1, <1>2 DEF AckedIsDurable
  <2>3. ASSUME NEW e \in Acked'
        PROVE  /\ e \in stored'
               /\ ref'[e] \in checkpoints'
               /\ \E x \in acks' : x.id = ref'[e] /\ e \in x.accepted \union x.duplicate
    <3>1. e \in Events
      BY <2>3 DEF Acked
    <3>2. CASE e \in id.events
      <4>1. ref'[e] = id
        BY <1>1, <3>1, <3>2 DEF Checkpoint
      <4>2. e \in a.accepted \union a.duplicate
        BY <3>2, <1>2 DEF ReceiverInv, AnswersComplete
      <4> QED
        BY <4>1, <4>2, <3>2, <1>2, <1>3, <2>1
    <3>3. CASE e \notin id.events
      <4>1. ref'[e] = ref[e] /\ e \in Acked
        BY <1>1, <1>4, <3>1, <3>3 DEF Checkpoint
      <4> QED
        BY <4>1, <2>1 DEF AckedIsDurable
    <3> QED
      BY <3>2, <3>3
  <2> QED
    BY <2>2, <2>3 DEF AckedIsDurable
<1>8. JournaledFirst'
  BY <1>1, <1>4 DEF JournaledFirst, Queued, Sending, network, receiver
<1>9. JournalConsistent'
  BY <1>4 DEF JournalConsistent
<1> QED
  BY <1>5, <1>6, <1>7, <1>8, <1>9

\* The journal takes over a request; threads, network and receiver stand still.
LEMMA AppendKeepsInv ==
  ASSUME SenderInv, NEW r \in Requests, NEW S \in SUBSET Events,
         AppendRequest(r, S), UNCHANGED <<sender, network, receiver>>
  PROVE  SenderInv' /\ Journaled' = Journaled \union S
<1> USE DEF SenderInv
<1>1. /\ JournalTypeOK(BatchIds)'
      /\ Journaled' = Journaled \union S
      /\ Acked' = Acked
      /\ ref' = ref /\ checkpoints' = checkpoints
  BY AppendKeepsRows DEF Types
<1>2. Types'
  BY <1>1 DEF Types, SenderTypeOK, SentBatch, sender, network, receiver
<1>3. ReceiverInv' /\ HeardIsAnswered'
  BY DEF ReceiverInv, AnswersComplete, AcceptedOnce, HeardIsAnswered, sender, receiver
<1>4. AckedIsDurable'
  BY <1>1 DEF AckedIsDurable, receiver
<1>5. JournaledFirst'
  BY <1>1 DEF JournaledFirst, Queued, Sending, sender, network, receiver
<1>6. JournalConsistent'
  BY AppendKeepsConsistent DEF Types
<1> QED
  BY <1>1, <1>2, <1>3, <1>4, <1>5, <1>6

\* A submitter puts journaled events at the end of the queue.
LEMMA EnqueueKeepsInv ==
  ASSUME SenderInv, NEW S \in SUBSET Journaled, queue' = Append(queue, S),
         UNCHANGED <<seq, wpc, chunk, attempt, sent, network, journal, receiver>>
  PROVE  SenderInv'
<1> USE DEF SenderInv
<1>1. /\ queue' \in Seq(SUBSET Events)
      /\ \A i \in DOMAIN queue' : \/ i \in DOMAIN queue /\ queue'[i] = queue[i]
                                  \/ queue'[i] = S
  <2>1. S \in SUBSET Events
    BY DEF Journaled
  <2> QED
    BY <2>1 DEF Types, SenderTypeOK
<1>2. Types'
  <2>1. JournalTypeOK(BatchIds)'
    BY JournalUnchanged DEF Types
  <2> QED
    BY <1>1, <2>1 DEF Types, SenderTypeOK, SentBatch, receiver, network
<1>3. ReceiverInv' /\ HeardIsAnswered'
  BY DEF ReceiverInv, AnswersComplete, AcceptedOnce, HeardIsAnswered, receiver
<1>4. AckedIsDurable'
  BY ReceiverGrowthKeepsAcked DEF receiver
<1>5. JournaledFirst'
  <2>1. Queued' \subseteq Queued \union S
    BY <1>1 DEF Queued
  <2> QED
    BY <2>1, JournalUnchanged DEF JournaledFirst, Sending, network, receiver
<1>6. JournalConsistent'
  BY JournalUnchanged
<1> QED
  BY <1>2, <1>3, <1>4, <1>5, <1>6

\* A restart with an empty queue or one page of the journal on it.
LEMMA RestartKeepsInv ==
  ASSUME SenderInv, NEW S \in SUBSET Journaled,
         RestartSender(<<>>) \/ RestartSender(<<S>>),
         UNCHANGED <<journal, receiver, network>>
  PROVE  SenderInv'
<1> USE DEF SenderInv
<1>1. /\ queue' \in Seq(SUBSET Events)
      /\ \A i \in DOMAIN queue' : queue'[i] = S
  <2>1. S \in SUBSET Events
    BY DEF Journaled
  <2>2. CASE queue' = <<>>
    BY <2>2
  <2>3. CASE queue' = <<S>>
    <3>1. DOMAIN queue' = 1..1 /\ queue'[1] = S
      BY <2>3
    <3> QED
      BY <2>1, <2>3, <3>1
  <2> QED
    BY <2>2, <2>3 DEF RestartSender
<1>2. /\ seq' = 0 /\ wpc' = [w \in Workers |-> "idle"]
      /\ chunk' = [w \in Workers |-> {}] /\ attempt' = [w \in Workers |-> 1]
      /\ sent' = [w \in Workers |-> NoBatch]
  BY DEF RestartSender
<1>3. Types'
  <2>1. JournalTypeOK(BatchIds)'
    BY JournalUnchanged DEF Types
  <2>2. SenderTypeOK'
    BY <1>1, <1>2, SenderAssumption
    DEF Types, SenderTypeOK, WorkerStates, receiver, network
  <2> QED
    BY <1>2, <2>1, <2>2 DEF Types, SentBatch
<1>4. ReceiverInv' /\ HeardIsAnswered'
  BY <1>2 DEF ReceiverInv, AnswersComplete, AcceptedOnce, HeardIsAnswered, receiver
<1>5. AckedIsDurable'
  BY ReceiverGrowthKeepsAcked DEF receiver
<1>6. JournaledFirst'
  <2>1. Queued' \subseteq S /\ Sending' = {}
    BY <1>1, <1>2 DEF Queued, Sending
  <2> QED
    BY <2>1, JournalUnchanged DEF JournaledFirst, network, receiver
<1>7. JournalConsistent'
  BY JournalUnchanged
<1> QED
  BY <1>3, <1>4, <1>5, <1>6, <1>7

LEMMA InitialInv ==
  ASSUME JournalInit, ReceiverInit, NetworkInit, IdleSender(<<>>)
  PROVE  SenderInv
<1> USE DEF JournalInit, ReceiverInit, NetworkInit, IdleSender
<1>1. JournalTypeOK(BatchIds)
  BY DEF JournalTypeOK
<1>2. SenderTypeOK
  BY SenderAssumption DEF SenderTypeOK, WorkerStates
<1>3. SentBatch /\ HeardIsAnswered
  BY DEF SentBatch, HeardIsAnswered
<1>4. AnswersComplete /\ AcceptedOnce
  BY DEF AnswersComplete, AcceptedOnce
<1>5. Journaled = {} /\ Acked = {}
  BY DEF Journaled, Acked
<1>6. AckedIsDurable /\ JournaledFirst /\ JournalConsistent
  BY <1>5 DEF AckedIsDurable, JournaledFirst, JournalConsistent, Queued, Sending
<1> QED
  BY <1>1, <1>2, <1>3, <1>4, <1>6 DEF SenderInv, Types, ReceiverInv

\* No batch in a state of the invariant runs into another body of its key.
LEMMA InvNeverRefused ==
  ASSUME SenderInv
  PROVE  NeverRefused
  BY DEF SenderInv, JournaledFirst, JournalConsistent, NeverRefused, Refused, Consistent
-----------------------------------------------------------------------------
(* The abstract transport: every action is one of its steps or a stutter *)

Abstract == <<Journaled, stored, Acked>>

LEMMA InitImplements ==
  ASSUME JournalInit, ReceiverInit
  PROVE  Transport!Init
  BY DEF JournalInit, ReceiverInit, Transport!Init, Journaled, Acked

\* append() is TakeOver.
LEMMA AppendImplements ==
  ASSUME SenderInv, NEW r \in Requests, NEW S \in SUBSET Events,
         AppendRequest(r, S), UNCHANGED receiver
  PROVE  Transport!Next
<1>1. Journaled' = Journaled \union S /\ Acked' = Acked
  BY AppendKeepsRows DEF SenderInv, Types
<1> QED
  BY <1>1 DEF Transport!Next, Transport!TakeOver, receiver

\* commit() is Deliver, or nothing new.
LEMMA CommitImplements ==
  ASSUME SenderInv, NEW b \in wire, Commit(b), UNCHANGED journal
  PROVE  Transport!Next \/ UNCHANGED Abstract
<1>1. Journaled' = Journaled /\ Acked' = Acked
  BY JournalUnchanged
<1>2. b.id.events \in SUBSET Journaled
  BY DEF SenderInv, JournaledFirst
<1>3. stored' = stored \/ stored' = stored \union b.id.events
  BY DEF Commit, receiver
<1> QED
  BY <1>1, <1>2, <1>3 DEF Transport!Next, Transport!Deliver, Abstract

\* checkpoint() is Confirm: what is confirmed is delivered already.
LEMMA CheckpointImplements ==
  ASSUME SenderInv, NEW w \in Workers, CheckpointAck(w, "release")
  PROVE  Transport!Next
<1> DEFINE id == sent[w].id
<1>1. \E a \in acks : a.id = id
  BY DEF CheckpointAck, SenderInv, HeardIsAnswered
<1>2. /\ id \in BatchIds /\ id.events \in SUBSET stored
      /\ id.events \in SUBSET Journaled
  BY <1>1 DEF CheckpointAck, SenderInv, Types, SentBatch, Batches, ReceiverInv,
              AnswersComplete, JournaledFirst
<1>3. Journaled' = Journaled /\ Acked' = Acked \union id.events
  BY <1>2, CheckpointKeepsRows DEF CheckpointAck, SenderInv, Types
<1>4. stored' = stored
  BY DEF CheckpointAck, receiver
<1> QED
  BY <1>2, <1>3, <1>4 DEF Transport!Next, Transport!Confirm

LEMMA StutterImplements ==
  ASSUME UNCHANGED <<journal, receiver>>
  PROVE  UNCHANGED Abstract
  BY JournalUnchanged DEF receiver, Abstract

LEMMA AttemptImplements ==
  ASSUME SenderInv, NEW w \in Workers, Attempt(w)
  PROVE  Transport!Next \/ UNCHANGED Abstract
<1>1. CASE CommitHeard(w)
  BY <1>1, CommitImplements DEF CommitHeard
<1>2. CASE ~ CommitHeard(w)
  <2>1. UNCHANGED <<journal, receiver>>
    BY <1>2 DEF Attempt, Take, Send, AnswerRejected, Timeout, Requeue
  <2> QED
    BY <2>1, StutterImplements
<1> QED
  BY <1>1, <1>2

LEMMA ReceiveImplements ==
  ASSUME SenderInv, Receive
  PROVE  Transport!Next \/ UNCHANGED Abstract
<1>1. ASSUME NEW b \in wire, LoseBatch(b)
      PROVE  UNCHANGED Abstract
  BY <1>1, StutterImplements DEF LoseBatch
<1>2. ASSUME NEW b \in wire, CommitUnheard(b)
      PROVE  Transport!Next \/ UNCHANGED Abstract
  BY <1>2, CommitImplements DEF CommitUnheard
<1> QED
  BY <1>1, <1>2 DEF Receive
-----------------------------------------------------------------------------
(* One place per event: the queue and the threads *)

LEMMA TakeKeepsOneSender ==
  ASSUME SenderTypeOK, OneSender, NEW w \in Workers, Take(w)
  PROVE  OneSender' /\ Queued' \union Sending' \subseteq Queued \union Sending
<1>1. /\ queue # <<>> /\ queue' = Tail(queue)
      /\ chunk' = [chunk EXCEPT ![w] = Head(queue)]
  BY DEF Take
<1>2. /\ Head(queue) = queue[1] /\ 1 \in DOMAIN queue
      /\ \A i \in DOMAIN queue' : /\ i + 1 \in DOMAIN queue /\ i + 1 # 1
                                  /\ queue'[i] = queue[i + 1]
      /\ DOMAIN queue' \subseteq Nat
  BY <1>1 DEF SenderTypeOK
<1>3. Head(queue) \subseteq Queued /\ Queued' \subseteq Queued
  BY <1>1, <1>2 DEF Queued
<1>4. Head(queue) \intersect Queued' = {}
  BY <1>2 DEF OneSender, Queued
<1>5. \A i, j \in DOMAIN queue' : i # j => queue'[i] \intersect queue'[j] = {}
  <2> SUFFICES ASSUME NEW i \in DOMAIN queue', NEW j \in DOMAIN queue', i # j
               PROVE  queue'[i] \intersect queue'[j] = {}
    OBVIOUS
  <2>1. i + 1 # j + 1
    BY <1>2
  <2> QED
    BY <1>2, <2>1 DEF OneSender
<1>6. \A v \in Workers : chunk'[v] = IF v = w THEN Head(queue) ELSE chunk[v]
  BY <1>1 DEF SenderTypeOK
<1>7. \A v \in Workers : chunk[v] \subseteq Sending
  BY DEF Sending
<1>8. Sending' \subseteq Sending \union Head(queue)
  BY <1>6 DEF Sending
<1>9. \A u, v \in Workers : u # v => chunk'[u] \intersect chunk'[v] = {}
  BY <1>3, <1>6, <1>7 DEF OneSender
<1>10. Queued' \intersect Sending' = {}
  BY <1>3, <1>4, <1>8 DEF OneSender
<1> QED
  BY <1>3, <1>5, <1>8, <1>9, <1>10 DEF OneSender

LEMMA EnqueueKeepsOneSender ==
  ASSUME SenderTypeOK, OneSender, NEW S \in SUBSET Events,
         S \intersect Queued = {}, queue' = Append(queue, S),
         chunk' \in [Workers -> SUBSET Events],
         \A v \in Workers : /\ chunk'[v] \intersect S = {}
                            /\ chunk'[v] = {} \/ chunk'[v] = chunk[v]
  PROVE  OneSender' /\ Queued' = Queued \union S /\ Sending' \subseteq Sending
<1>1. DOMAIN queue' = 1..Len(queue) + 1 /\ queue'[Len(queue) + 1] = S
      /\ DOMAIN queue = 1..Len(queue) /\ Len(queue) \in Nat
      /\ \A i \in 1..Len(queue) : queue'[i] = queue[i]
  BY DEF SenderTypeOK
<1>2. \A i \in DOMAIN queue' : \/ i \in DOMAIN queue /\ queue'[i] = queue[i]
                               \/ i = Len(queue) + 1 /\ queue'[i] = S
  BY <1>1
<1>3. \A i \in DOMAIN queue : i \in DOMAIN queue' /\ queue'[i] = queue[i]
  BY <1>1
<1>4. Queued' = Queued \union S
  <2>1. Queued' \subseteq Queued \union S
    BY <1>2 DEF Queued
  <2>2. Queued \subseteq Queued'
    BY <1>3 DEF Queued
  <2>3. S \subseteq Queued'
    BY <1>1 DEF Queued
  <2> QED
    BY <2>1, <2>2, <2>3
<1>5. \A i \in DOMAIN queue : queue[i] \intersect S = {}
  BY DEF Queued
<1>6. \A i, j \in DOMAIN queue' : i # j => queue'[i] \intersect queue'[j] = {}
  BY <1>2, <1>5 DEF OneSender
<1>7. Sending' \subseteq Sending /\ Sending' \intersect S = {}
  <2>1. ASSUME NEW e \in Sending'
        PROVE  e \in Sending /\ e \notin S
    <3>1. PICK v \in Workers : e \in chunk'[v]
      BY <2>1 DEF Sending
    <3>2. chunk'[v] \intersect S = {} /\ chunk'[v] # {}
      BY <3>1
    <3>3. chunk'[v] = chunk[v] /\ e \notin S
      BY <3>1, <3>2
    <3> QED
      BY <3>1, <3>3 DEF Sending
  <2> QED
    BY <2>1
<1>8. \A u, v \in Workers : u # v => chunk'[u] \intersect chunk'[v] = {}
  BY DEF OneSender
<1> QED
  BY <1>4, <1>6, <1>7, <1>8 DEF OneSender

LEMMA NextIterationKeepsOneSender ==
  ASSUME SenderTypeOK, OneSender, NEW w \in Workers, NEW pc,
         NextIteration(w, pc), UNCHANGED queue
  PROVE  /\ OneSender' /\ Queued' = Queued
         /\ Sending' \subseteq Sending
         /\ Sending' \intersect chunk[w] = {}
<1>1. \A v \in Workers : chunk'[v] = IF v = w THEN {} ELSE chunk[v]
  BY DEF SenderTypeOK, NextIteration
<1>2. Queued' = Queued /\ Sending' \subseteq Sending
  BY <1>1 DEF Queued, Sending
<1>3. Sending' \intersect chunk[w] = {}
  BY <1>1 DEF Sending, OneSender
<1> QED
  BY <1>1, <1>2, <1>3 DEF OneSender

LEMMA RequeueKeepsOneSender ==
  ASSUME SenderTypeOK, OneSender, NEW w \in Workers, Requeue(w)
  PROVE  OneSender' /\ Queued' \union Sending' \subseteq Queued \union Sending
<1>1. queue' = Append(queue, chunk[w]) /\ chunk' = [chunk EXCEPT ![w] = {}]
  BY DEF Requeue, NextIteration
<1>2. chunk[w] \in SUBSET Events /\ chunk[w] \subseteq Sending
  BY DEF SenderTypeOK, Sending
<1>3. \A v \in Workers : chunk'[v] = IF v = w THEN {} ELSE chunk[v]
  BY <1>1 DEF SenderTypeOK
<1>4. \A v \in Workers : /\ chunk'[v] \intersect chunk[w] = {}
                         /\ chunk'[v] = {} \/ chunk'[v] = chunk[v]
  BY <1>3 DEF OneSender
<1>5. chunk' \in [Workers -> SUBSET Events]
  BY <1>1 DEF SenderTypeOK
<1>6. chunk[w] \intersect Queued = {}
  BY <1>2 DEF OneSender
<1> QED
  BY <1>1, <1>2, <1>4, <1>5, <1>6, EnqueueKeepsOneSender

LEMMA AttemptKeepsOneSender ==
  ASSUME SenderTypeOK, OneSender, NEW w \in Workers, Attempt(w)
  PROVE  OneSender' /\ Queued' \union Sending' \subseteq Queued \union Sending
<1>1. CASE UNCHANGED <<queue, chunk>>
  BY <1>1 DEF OneSender, Queued, Sending
<1>2. CASE Take(w)
  BY <1>2, TakeKeepsOneSender
<1>3. CASE Requeue(w)
  BY <1>3, RequeueKeepsOneSender
<1> QED
  BY <1>1, <1>2, <1>3
  DEF Attempt, Send, CommitHeard, AnswerRejected, Timeout, AttemptFails
-----------------------------------------------------------------------------
(* Nothing is dropped on the way: what a thread holds and what became of it *)

\* A thread without a chunk has nothing, one that waits has sent its chunk, and one that
\* is done with it has acknowledged it.
ChunkInv ==
  \A w \in Workers :
    /\ wpc[w] \in {"idle", "dead"} => chunk[w] = {}
    /\ wpc[w] \in {"waiting", "acked"} => sent[w].id.events = chunk[w]
    /\ wpc[w] = "release" => chunk[w] \subseteq Acked

LEMMA InitialChunks == ASSUME IdleSender(<<>>) PROVE ChunkInv
  BY DEF IdleSender, ChunkInv

LEMMA RestartKeepsChunks == ASSUME NEW q, RestartSender(q) PROVE ChunkInv'
  BY DEF RestartSender, ChunkInv

LEMMA StandStillKeepsChunks ==
  ASSUME ChunkInv, UNCHANGED <<wpc, chunk, sent>>, Acked \subseteq Acked'
  PROVE  ChunkInv'
  BY DEF ChunkInv

LEMMA NextIterationKeepsChunks ==
  ASSUME SenderTypeOK, ChunkInv, NEW w \in Workers, NEW pc \in {"idle", "dead"},
         NextIteration(w, pc), Acked \subseteq Acked'
  PROVE  ChunkInv'
<1>1. \A v \in Workers : /\ wpc'[v] = IF v = w THEN pc ELSE wpc[v]
                         /\ chunk'[v] = IF v = w THEN {} ELSE chunk[v]
                         /\ sent'[v] = IF v = w THEN NoBatch ELSE sent[v]
  BY DEF NextIteration, SenderTypeOK
<1> QED
  BY <1>1 DEF ChunkInv

\* The acknowledged rows stay acknowledged when the journal stands still.
LEMMA AckedStays == ASSUME UNCHANGED journal PROVE Acked' = Acked
  BY DEF journal, Acked

LEMMA AttemptKeepsChunks ==
  ASSUME SenderTypeOK, ChunkInv, NEW w \in Workers, Attempt(w)
  PROVE  ChunkInv'
<1>1. Acked' = Acked
  <2>1. UNCHANGED journal
    BY DEF Attempt, Take, Send, CommitHeard, AnswerRejected, Timeout, Requeue
  <2> QED
    BY <2>1, AckedStays
<1>2. CASE Take(w)
  <2>1. \A v \in Workers : /\ wpc'[v] = IF v = w THEN "ready" ELSE wpc[v]
                           /\ v # w => chunk'[v] = chunk[v] /\ sent'[v] = sent[v]
    BY <1>2 DEF Take, SenderTypeOK
  <2> QED
    BY <1>1, <2>1 DEF ChunkInv
<1>3. CASE Send(w)
  <2>1. \A v \in Workers : /\ wpc'[v] = IF v = w THEN "waiting" ELSE wpc[v]
                           /\ sent'[v] = IF v = w THEN NextBatch(w) ELSE sent[v]
                           /\ chunk'[v] = chunk[v]
    BY <1>3 DEF Send, SenderTypeOK
  <2>2. NextBatch(w).id.events = chunk[w]
    BY DEF NextBatch
  <2> QED
    BY <1>1, <2>1, <2>2 DEF ChunkInv
<1>4. CASE CommitHeard(w)
  <2>1. /\ wpc[w] = "waiting" /\ UNCHANGED <<chunk, sent>>
        /\ \A v \in Workers : wpc'[v] = IF v = w THEN "acked" ELSE wpc[v]
    BY <1>4 DEF CommitHeard, SenderTypeOK
  <2> QED
    BY <1>1, <2>1 DEF ChunkInv
<1>5. CASE AnswerRejected(w) \/ Timeout(w)
  <2>1. AttemptFails(w)
    BY <1>5 DEF AnswerRejected, Timeout
  <2>2. /\ UNCHANGED <<chunk, sent>> /\ wpc'[w] \in {"ready", "giveup"}
        /\ \A v \in Workers : v # w => wpc'[v] = wpc[v]
    BY <2>1 DEF AttemptFails, SenderTypeOK
  <2> QED
    BY <1>1, <2>2 DEF ChunkInv
<1>6. CASE Requeue(w)
  BY <1>1, <1>6, NextIterationKeepsChunks DEF Requeue
<1> QED
  BY <1>2, <1>3, <1>4, <1>5, <1>6 DEF Attempt

LEMMA CheckpointKeepsChunks ==
  ASSUME SenderInv, ChunkInv, NEW w \in Workers, CheckpointAck(w, "release")
  PROVE  ChunkInv' /\ Acked \subseteq Acked'
<1>1. /\ wpc[w] = "acked" /\ UNCHANGED <<chunk, sent>>
      /\ Checkpoint(sent[w].id, sent[w].id.events)
      /\ \A v \in Workers : wpc'[v] = IF v = w THEN "release" ELSE wpc[v]
  BY DEF CheckpointAck, SenderInv, Types, SenderTypeOK
<1>2. chunk[w] = sent[w].id.events /\ chunk[w] \in SUBSET Events
  BY <1>1 DEF ChunkInv, SenderInv, Types, SenderTypeOK
<1>3. Acked \subseteq Acked' /\ chunk[w] \subseteq Acked'
  BY <1>1, <1>2 DEF Checkpoint, Acked
<1> QED
  BY <1>1, <1>3 DEF ChunkInv

\* A chunk that is taken, sent, answered or put back is still in the queue or with a thread.
LEMMA AttemptKeepsPlaces ==
  ASSUME SenderTypeOK, ChunkInv, NEW w \in Workers, Attempt(w)
  PROVE  Queued \union Sending \subseteq Queued' \union Sending'
<1>1. CASE UNCHANGED <<queue, chunk>>
  BY <1>1 DEF Queued, Sending
<1>2. CASE Take(w)
  <2>1. /\ queue # <<>> /\ queue' = Tail(queue) /\ chunk[w] = {}
        /\ chunk' = [chunk EXCEPT ![w] = Head(queue)]
    BY <1>2 DEF Take, ChunkInv
  <2>2. \A v \in Workers : chunk'[v] = IF v = w THEN Head(queue) ELSE chunk[v]
    BY <2>1 DEF SenderTypeOK
  <2>3. ASSUME NEW i \in DOMAIN queue, queue[i] # Head(queue)
        PROVE  i - 1 \in DOMAIN queue' /\ queue'[i - 1] = queue[i]
    BY <2>1, <2>3 DEF SenderTypeOK
  <2>4. Queued \subseteq Queued' \union Head(queue)
    BY <2>3 DEF Queued
  <2>5. Head(queue) \subseteq Sending' /\ Sending \subseteq Sending'
    BY <2>1, <2>2 DEF Sending
  <2> QED
    BY <2>4, <2>5
<1>3. CASE Requeue(w)
  <2>1. /\ queue' = Append(queue, chunk[w])
        /\ \A v \in Workers : chunk'[v] = IF v = w THEN {} ELSE chunk[v]
    BY <1>3 DEF Requeue, NextIteration, SenderTypeOK
  <2>2. /\ \A i \in DOMAIN queue : i \in DOMAIN queue' /\ queue'[i] = queue[i]
        /\ Len(queue) + 1 \in DOMAIN queue' /\ queue'[Len(queue) + 1] = chunk[w]
    BY <2>1 DEF SenderTypeOK
  <2>3. Queued \subseteq Queued' /\ chunk[w] \subseteq Queued'
    BY <2>2 DEF Queued
  <2>4. Sending \subseteq Sending' \union chunk[w]
    BY <2>1 DEF Sending
  <2> QED
    BY <2>3, <2>4
<1> QED
  BY <1>1, <1>2, <1>3
  DEF Attempt, Send, CommitHeard, AnswerRejected, Timeout, AttemptFails
=============================================================================

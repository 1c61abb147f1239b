----------------------- MODULE PassiveExporterProofs ------------------------
(***************************************************************************)
(* Theorems about the passive exporter, PassiveExporter, for any values of *)
(* its constants: any events, priorities and sizes, any number of retries, *)
(* failures, submissions and ends of the process.                          *)
(***************************************************************************)
EXTENDS PassiveExporter, FiniteSetTheorems, FunctionTheorems, TLAPS

\* The three layers of the inductive invariant.

\* What is counted is finite, and a call that has an event works on that event.
TypeInv ==
  /\ TypeOK
  /\ IsFiniteSet(saved) /\ IsFiniteSet(spool)
  /\ pc \in {"validated", "spooled", "compact"} => current \in Events

Live == queue \union pending \union retry

\* Everything the process has in hand was spooled before, and "success" is said
\* of stored events only.
SafeInv ==
  /\ saved \subseteq sink /\ sink \subseteq taken
  /\ spool \subseteq taken /\ todo \subseteq taken
  /\ EventsOf(Live) \subseteq taken
  /\ \A e \in Events : answer[e] = "success" => e \in sink
  /\ pc = "compact" => current \in saved
  /\ pc = "spooled" => current \in taken

LEMMA InitTypeInv == Init => TypeInv
<1> SUFFICES ASSUME Init PROVE TypeInv
  OBVIOUS
<1>1. IsFiniteSet(saved) /\ IsFiniteSet(spool)
  BY FS_EmptySet DEF Init
<1>2. repeated \in BOOLEAN /\ answer \in [Events -> Outcomes]
  BY Zenon DEF Init, Outcomes
<1>3. attempt \in 1..MaxAttempts /\ failures \in 0..MaxFailures /\ crashes \in 0..MaxCrashes
  BY ExporterAssumption DEF Init
<1>4. submits \in [Events -> Nat] /\ \A e \in Events : submits[e] <= MaxSubmits[e]
  BY ExporterAssumption DEF Init
<1>5. TypeOK
  BY <1>2, <1>3, <1>4 DEF Init, TypeOK
<1> QED
  BY <1>1, <1>5 DEF TypeInv, Init

\* What the process loses keeps its type.
LEMMA MemoryLostType ==
  ASSUME TypeInv, MemoryLost, UNCHANGED <<disk, sink>>,
         submits' = submits, failures' = failures, crashes' \in 0..MaxCrashes
  PROVE  TypeInv'
<1>1. IsFiniteSet(saved') /\ IsFiniteSet(spool') /\ pc' = "down"
  BY DEF TypeInv, MemoryLost, disk
<1>2. repeated' \in BOOLEAN /\ answer' \in [Events -> Outcomes]
  BY Zenon DEF MemoryLost, Outcomes
<1>3. attempt' \in 1..MaxAttempts
  BY ExporterAssumption DEF MemoryLost
<1>4. TypeOK'
  BY <1>2, <1>3 DEF MemoryLost, TypeInv, TypeOK, disk
<1> QED
  BY <1>1, <1>4 DEF TypeInv

LEMMA BatchEndsType ==
  ASSUME BatchEnds
  PROVE  /\ pending' = {} /\ retry' = {} /\ attempt' \in 1..MaxAttempts
         /\ answer' \in [Events -> Outcomes] /\ pc' = "drain"
         /\ \A e \in Events : answer'[e] = "none"
  BY ExporterAssumption DEF BatchEnds, Outcomes

LEMMA TryAgainType ==
  ASSUME TypeInv, NEW S \in SUBSET Entries, TryAgain(S)
  PROVE  /\ pending' \subseteq S /\ retry' = {} /\ attempt' \in 1..MaxAttempts
         /\ answer' \in [Events -> Outcomes] /\ pc' \in {"send", "drain"}
         /\ \A e \in Events : answer'[e] = "none"
<1>1. CASE attempt < MaxAttempts
  BY <1>1, ExporterAssumption DEF TryAgain, TypeInv, TypeOK, Outcomes
<1>2. CASE ~ (attempt < MaxAttempts)
  BY <1>2, BatchEndsType DEF TryAgain
<1> QED
  BY <1>1, <1>2

LEMMA NextTypeInv == TypeInv /\ [Next]_vars => TypeInv'
<1> SUFFICES ASSUME TypeInv, [Next]_vars PROVE TypeInv'
  OBVIOUS
<1> USE ExporterAssumption DEF TypeInv, TypeOK, disk, batch, counts, bounds
<1>1. ASSUME Start PROVE TypeInv'
  BY <1>1, FS_CardinalityType DEF Start
<1>2. ASSUME NEW e \in todo, RecoverAcked(e) PROVE TypeInv'
  BY <1>2, FS_RemoveElement DEF RecoverAcked, NextFile
<1>3. ASSUME NEW e \in todo, RecoverQueued(e) PROVE TypeInv'
  <2>1. Entry(e) \in Entries
    BY <1>3 DEF Entry, Entries
  <2> QED
    BY <1>3, <2>1 DEF RecoverQueued, PutAccepts, PutEvicts
<1>4. ASSUME NEW e \in todo, RecoverFails(e) PROVE TypeInv'
  BY <1>4, MemoryLostType DEF RecoverFails
<1>5. ASSUME RecoverDone PROVE TypeInv'
  BY <1>5 DEF RecoverDone
<1>6. ASSUME NEW e \in Events, SubmitInvalid(e) PROVE TypeInv'
  BY <1>6 DEF SubmitInvalid, Drop
<1>7. ASSUME NEW e \in Events, Submit(e) PROVE TypeInv'
  BY <1>7 DEF Submit
<1>8. ASSUME SpoolAppend PROVE TypeInv'
  BY <1>8, FS_AddElement DEF SpoolAppend
<1>9. ASSUME SpoolIsFull PROVE TypeInv'
  BY <1>9 DEF SpoolIsFull, Drop
<1>10. ASSUME Enqueue PROVE TypeInv'
  <2>1. Entry(current) \in Entries
    BY <1>10 DEF Entry, Entries, Enqueue
  <2> QED
    BY <1>10, <2>1 DEF Enqueue, PutAccepts
<1>11. ASSUME EnqueueEvicts PROVE TypeInv'
  <2>1. PICK x \in queue : PutEvicts(current, x) /\ Drop(x.event) /\ spool' = spool \ {x.event}
    BY <1>11 DEF EnqueueEvicts
  <2>2. Entry(current) \in Entries /\ x.event \in Events
    BY <1>11 DEF Entry, Entries, EnqueueEvicts
  <2>3. queue' \subseteq Entries /\ number' \in Nat /\ dropped' \subseteq Events /\ dropCount' \in Nat
    BY <2>1, <2>2 DEF Drop, PutEvicts
  <2>4. spool' \subseteq Events /\ IsFiniteSet(spool')
    BY <2>1, FS_RemoveElement
  <2> QED
    BY <1>11, <2>3, <2>4 DEF EnqueueEvicts
<1>12. ASSUME EnqueueRejected PROVE TypeInv'
  <2>1. Entry(current) \in Entries
    BY <1>12 DEF Entry, Entries, EnqueueRejected
  <2> QED
    BY <1>12, <2>1, FS_RemoveElement DEF EnqueueRejected, Drop, PutRejects
<1>13. ASSUME Drain PROVE TypeInv'
  BY <1>13 DEF Drain
<1>14. ASSUME DrainDone PROVE TypeInv'
  BY <1>14 DEF DrainDone
<1>15. ASSUME TakeBatch PROVE TypeInv'
  BY <1>15 DEF TakeBatch
<1>16. ASSUME SendFails PROVE TypeInv'
  BY <1>16, TryAgainType DEF SendFails, SinkStores, SendGoesWrong, EventsOf, Entries
<1>17. ASSUME SendRefused PROVE TypeInv'
  BY <1>17 DEF SendRefused, SendGoesWrong, Outcomes
<1>18. ASSUME AnswerMalformed PROVE TypeInv'
  BY <1>18, BatchEndsType DEF AnswerMalformed, SinkStores, SendGoesWrong, EventsOf, Entries
<1>19. ASSUME SendAnswered PROVE TypeInv'
  BY <1>19 DEF SendAnswered, SinkStores, SendGoesWrong, EventsOf, Entries, Outcomes
<1>20. ASSUME NEW x \in pending, AckSuccess(x) PROVE TypeInv'
  <2>1. x.event \in Events
    BY <1>20 DEF Entries
  <2> QED
    BY <1>20, <2>1, FS_AddElement DEF AckSuccess
<1>21. ASSUME NEW x \in pending, AckRetryable(x) PROVE TypeInv'
  BY <1>21 DEF AckRetryable
<1>22. ASSUME NEW x \in pending, AckPermanent(x) PROVE TypeInv'
  <2>1. x.event \in Events
    BY <1>22 DEF Entries
  <2> QED
    BY <1>22, <2>1, FS_RemoveElement DEF AckPermanent, Drop
<1>23. ASSUME Compact PROVE TypeInv'
  BY <1>23, FS_RemoveElement DEF Compact
<1>24. ASSUME AcksDone PROVE TypeInv'
  BY <1>24, TryAgainType, BatchEndsType DEF AcksDone
<1>25. ASSUME Crash PROVE TypeInv'
  <2>1. crashes' \in 0..MaxCrashes
    BY <1>25 DEF Crash
  <2> QED
    BY <1>25, <2>1, MemoryLostType DEF Crash
<1>26. CASE UNCHANGED vars
  BY <1>26 DEF vars
<1> QED
  BY <1>1, <1>2, <1>3, <1>4, <1>5, <1>6, <1>7, <1>8, <1>9, <1>10, <1>11, <1>12, <1>13, <1>14, <1>15, <1>16, <1>17, <1>18, <1>19, <1>20, <1>21, <1>22, <1>23, <1>24, <1>25, <1>26
     DEF Next, RecoverStep, SubmitStep, DrainStep

LEMMA NextSafeInv == TypeInv /\ SafeInv /\ [Next]_vars => SafeInv'
<1> SUFFICES ASSUME TypeInv, SafeInv, [Next]_vars PROVE SafeInv'
  OBVIOUS
<1> USE DEF TypeInv, TypeOK, SafeInv, Live, disk, batch, counts, bounds
<1>1. ASSUME Start PROVE SafeInv'
  BY <1>1 DEF Start
<1>2. ASSUME NEW e \in todo, RecoverAcked(e) PROVE SafeInv'
  BY <1>2 DEF RecoverAcked
<1>3. ASSUME NEW e \in todo, RecoverQueued(e) PROVE SafeInv'
  BY <1>3 DEF RecoverQueued, PutAccepts, PutEvicts, Entry, EventsOf
<1>4. ASSUME NEW e \in todo, RecoverFails(e) PROVE SafeInv'
  BY <1>4 DEF RecoverFails, MemoryLost, EventsOf
<1>5. ASSUME RecoverDone PROVE SafeInv'
  BY <1>5 DEF RecoverDone
<1>6. ASSUME NEW e \in Events, SubmitInvalid(e) PROVE SafeInv'
  BY <1>6 DEF SubmitInvalid, Drop
<1>7. ASSUME NEW e \in Events, Submit(e) PROVE SafeInv'
  BY <1>7 DEF Submit
<1>8. ASSUME SpoolAppend PROVE SafeInv'
  BY <1>8 DEF SpoolAppend
<1>9. ASSUME SpoolIsFull PROVE SafeInv'
  BY <1>9 DEF SpoolIsFull, Drop
<1>10. ASSUME Enqueue PROVE SafeInv'
  BY <1>10 DEF Enqueue, PutAccepts, Entry, EventsOf
<1>11. ASSUME EnqueueEvicts PROVE SafeInv'
  BY <1>11 DEF EnqueueEvicts, PutEvicts, Entry, EventsOf
<1>12. ASSUME EnqueueRejected PROVE SafeInv'
  BY <1>12 DEF EnqueueRejected, PutRejects
<1>13. ASSUME Drain PROVE SafeInv'
  BY <1>13 DEF Drain
<1>14. ASSUME DrainDone PROVE SafeInv'
  BY <1>14 DEF DrainDone
<1>15. ASSUME TakeBatch PROVE SafeInv'
  BY <1>15 DEF TakeBatch, EventsOf
<1>16. ASSUME SendFails PROVE SafeInv'
  BY <1>16, TryAgainType DEF SendFails, SinkStores, EventsOf
<1>17. ASSUME SendRefused PROVE SafeInv'
  BY <1>17 DEF SendRefused
<1>18. ASSUME AnswerMalformed PROVE SafeInv'
  BY <1>18, BatchEndsType DEF AnswerMalformed, SinkStores, EventsOf
<1>19. ASSUME SendAnswered PROVE SafeInv'
  <2>1. PICK A \in [EventsOf(pending) -> {"success", "retryable", "permanent"}] :
          /\ sink' = sink \union {e \in DOMAIN A : A[e] = "success"}
          /\ answer' = [e \in Events |-> IF e \in DOMAIN A THEN A[e] ELSE "none"]
    BY <1>19 DEF SendAnswered, SinkStores
  <2>2. sink' \subseteq taken /\ sink \subseteq sink'
    BY <2>1 DEF EventsOf
  <2>3. \A e \in Events : answer'[e] = "success" => e \in sink'
    BY <2>1
  <2> QED
    BY <1>19, <2>2, <2>3 DEF SendAnswered
<1>20. ASSUME NEW x \in pending, AckSuccess(x) PROVE SafeInv'
  BY <1>20 DEF AckSuccess, EventsOf, Entries
<1>21. ASSUME NEW x \in pending, AckRetryable(x) PROVE SafeInv'
  BY <1>21 DEF AckRetryable, EventsOf
<1>22. ASSUME NEW x \in pending, AckPermanent(x) PROVE SafeInv'
  BY <1>22 DEF AckPermanent, EventsOf
<1>23. ASSUME Compact PROVE SafeInv'
  BY <1>23 DEF Compact
<1>24. ASSUME AcksDone PROVE SafeInv'
  BY <1>24, TryAgainType, BatchEndsType DEF AcksDone, EventsOf
<1>25. ASSUME Crash PROVE SafeInv'
  BY <1>25 DEF Crash, MemoryLost, EventsOf
<1>26. CASE UNCHANGED vars
  BY <1>26 DEF vars
<1> QED
  BY <1>1, <1>2, <1>3, <1>4, <1>5, <1>6, <1>7, <1>8, <1>9, <1>10, <1>11, <1>12, <1>13, <1>14, <1>15, <1>16, <1>17, <1>18, <1>19, <1>20, <1>21, <1>22, <1>23, <1>24, <1>25, <1>26
     DEF Next, RecoverStep, SubmitStep, DrainStep

Inv == TypeInv /\ SafeInv

LEMMA InductiveInvariant == Spec => []Inv
<1>1. Init => Inv
  <2> SUFFICES ASSUME Init PROVE SafeInv
    BY InitTypeInv DEF Inv
  <2> QED
    BY DEF Init, SafeInv, Live, EventsOf
<1>2. Inv /\ [Next]_vars => Inv'
  BY NextTypeInv, NextSafeInv DEF Inv
<1> QED
  BY <1>1, <1>2, PTL DEF Spec

\* Every variable keeps its type, the counters their bounds, and the loop its
\* limit of attempts.
THEOREM TypeCorrect == Spec => []TypeOK
<1>1. Inv => TypeOK
  BY DEF Inv, TypeInv
<1> QED
  BY <1>1, InductiveInvariant, PTL

\* "Delivered" is never said too early: whatever answers, retries and restarts
\* there were, the checkpoint names only events the sink has stored.
THEOREM CheckpointIsTrue == Spec => []CheckpointedIsDelivered
<1>1. Inv => CheckpointedIsDelivered
  BY DEF Inv, SafeInv, CheckpointedIsDelivered
<1> QED
  BY <1>1, InductiveInvariant, PTL

\* A file leaves the spool only when the checkpoint has its event or a drop
\* record names it: no event that was taken over vanishes without a trace.
THEOREM RemovalIsAccounted == Spec => RemovedOnlyWhenSettled
<1>1. Inv /\ [Next]_vars => [spool \ spool' \subseteq saved' \union dropped']_vars
  <2> SUFFICES ASSUME Inv, Next PROVE spool \ spool' \subseteq saved' \union dropped'
    OBVIOUS
  <2> USE DEF Inv, TypeInv, TypeOK, SafeInv, disk, batch, counts, bounds
  <2>1. ASSUME Start PROVE spool \ spool' \subseteq saved' \union dropped'
    BY <2>1 DEF Start
  <2>2. ASSUME NEW e \in todo, RecoverAcked(e) PROVE spool \ spool' \subseteq saved' \union dropped'
    BY <2>2 DEF RecoverAcked
  <2>3. ASSUME NEW e \in todo, RecoverQueued(e) PROVE spool \ spool' \subseteq saved' \union dropped'
    BY <2>3 DEF RecoverQueued
  <2>4. ASSUME NEW e \in todo, RecoverFails(e) PROVE spool \ spool' \subseteq saved' \union dropped'
    BY <2>4 DEF RecoverFails
  <2>5. ASSUME RecoverDone PROVE spool \ spool' \subseteq saved' \union dropped'
    BY <2>5 DEF RecoverDone
  <2>6. ASSUME NEW e \in Events, SubmitInvalid(e) PROVE spool \ spool' \subseteq saved' \union dropped'
    BY <2>6 DEF SubmitInvalid
  <2>7. ASSUME NEW e \in Events, Submit(e) PROVE spool \ spool' \subseteq saved' \union dropped'
    BY <2>7 DEF Submit
  <2>8. ASSUME SpoolAppend PROVE spool \ spool' \subseteq saved' \union dropped'
    BY <2>8 DEF SpoolAppend
  <2>9. ASSUME SpoolIsFull PROVE spool \ spool' \subseteq saved' \union dropped'
    BY <2>9 DEF SpoolIsFull
  <2>10. ASSUME Enqueue PROVE spool \ spool' \subseteq saved' \union dropped'
    BY <2>10 DEF Enqueue
  <2>11. ASSUME EnqueueEvicts PROVE spool \ spool' \subseteq saved' \union dropped'
    BY <2>11 DEF EnqueueEvicts, Drop
  <2>12. ASSUME EnqueueRejected PROVE spool \ spool' \subseteq saved' \union dropped'
    BY <2>12 DEF EnqueueRejected, Drop
  <2>13. ASSUME Drain PROVE spool \ spool' \subseteq saved' \union dropped'
    BY <2>13 DEF Drain
  <2>14. ASSUME DrainDone PROVE spool \ spool' \subseteq saved' \union dropped'
    BY <2>14 DEF DrainDone
  <2>15. ASSUME TakeBatch PROVE spool \ spool' \subseteq saved' \union dropped'
    BY <2>15 DEF TakeBatch
  <2>16. ASSUME SendFails PROVE spool \ spool' \subseteq saved' \union dropped'
    BY <2>16 DEF SendFails
  <2>17. ASSUME SendRefused PROVE spool \ spool' \subseteq saved' \union dropped'
    BY <2>17 DEF SendRefused
  <2>18. ASSUME AnswerMalformed PROVE spool \ spool' \subseteq saved' \union dropped'
    BY <2>18 DEF AnswerMalformed
  <2>19. ASSUME SendAnswered PROVE spool \ spool' \subseteq saved' \union dropped'
    BY <2>19 DEF SendAnswered
  <2>20. ASSUME NEW x \in pending, AckSuccess(x) PROVE spool \ spool' \subseteq saved' \union dropped'
    BY <2>20 DEF AckSuccess
  <2>21. ASSUME NEW x \in pending, AckRetryable(x) PROVE spool \ spool' \subseteq saved' \union dropped'
    BY <2>21 DEF AckRetryable
  <2>22. ASSUME NEW x \in pending, AckPermanent(x) PROVE spool \ spool' \subseteq saved' \union dropped'
    BY <2>22 DEF AckPermanent, Drop
  <2>23. ASSUME Compact PROVE spool \ spool' \subseteq saved' \union dropped'
    BY <2>23 DEF Compact
  <2>24. ASSUME AcksDone PROVE spool \ spool' \subseteq saved' \union dropped'
    BY <2>24 DEF AcksDone
  <2>25. ASSUME Crash PROVE spool \ spool' \subseteq saved' \union dropped'
    BY <2>25 DEF Crash
  <2>26. CASE UNCHANGED vars
    BY <2>26 DEF vars
  <2> QED
    BY <2>1, <2>2, <2>3, <2>4, <2>5, <2>6, <2>7, <2>8, <2>9, <2>10, <2>11, <2>12, <2>13, <2>14, <2>15, <2>16, <2>17, <2>18, <2>19, <2>20, <2>21, <2>22, <2>23, <2>24, <2>25, <2>26
       DEF Next, RecoverStep, SubmitStep, DrainStep
<1> QED
  BY <1>1, InductiveInvariant, PTL DEF Spec, RemovedOnlyWhenSettled

\* Each step of the exporter is a step of the abstract transport or changes
\* nothing of it: SpoolAppend takes over, the sends deliver, AckSuccess confirms.
LEMMA StepRefines == Inv /\ [Next]_vars => [Abstract!Next]_(Abstract!vars)
<1> SUFFICES ASSUME Inv, [Next]_vars PROVE [Abstract!Next]_(Abstract!vars)
  OBVIOUS
<1> USE DEF Inv, TypeInv, TypeOK, SafeInv, Live, disk, batch, counts, bounds, Abstract!Next, Abstract!vars
<1>1. ASSUME Start PROVE [Abstract!Next]_(Abstract!vars)
  BY <1>1 DEF Start
<1>2. ASSUME NEW e \in todo, RecoverAcked(e) PROVE [Abstract!Next]_(Abstract!vars)
  BY <1>2 DEF RecoverAcked
<1>3. ASSUME NEW e \in todo, RecoverQueued(e) PROVE [Abstract!Next]_(Abstract!vars)
  BY <1>3 DEF RecoverQueued
<1>4. ASSUME NEW e \in todo, RecoverFails(e) PROVE [Abstract!Next]_(Abstract!vars)
  BY <1>4 DEF RecoverFails
<1>5. ASSUME RecoverDone PROVE [Abstract!Next]_(Abstract!vars)
  BY <1>5 DEF RecoverDone
<1>6. ASSUME NEW e \in Events, SubmitInvalid(e) PROVE [Abstract!Next]_(Abstract!vars)
  BY <1>6 DEF SubmitInvalid
<1>7. ASSUME NEW e \in Events, Submit(e) PROVE [Abstract!Next]_(Abstract!vars)
  BY <1>7 DEF Submit
<1>8. ASSUME SpoolAppend PROVE [Abstract!Next]_(Abstract!vars)
  BY <1>8 DEF SpoolAppend, Abstract!TakeOver
<1>9. ASSUME SpoolIsFull PROVE [Abstract!Next]_(Abstract!vars)
  BY <1>9 DEF SpoolIsFull
<1>10. ASSUME Enqueue PROVE [Abstract!Next]_(Abstract!vars)
  BY <1>10 DEF Enqueue
<1>11. ASSUME EnqueueEvicts PROVE [Abstract!Next]_(Abstract!vars)
  BY <1>11 DEF EnqueueEvicts
<1>12. ASSUME EnqueueRejected PROVE [Abstract!Next]_(Abstract!vars)
  BY <1>12 DEF EnqueueRejected
<1>13. ASSUME Drain PROVE [Abstract!Next]_(Abstract!vars)
  BY <1>13 DEF Drain
<1>14. ASSUME DrainDone PROVE [Abstract!Next]_(Abstract!vars)
  BY <1>14 DEF DrainDone
<1>15. ASSUME TakeBatch PROVE [Abstract!Next]_(Abstract!vars)
  BY <1>15 DEF TakeBatch
<1>16. ASSUME SendFails PROVE [Abstract!Next]_(Abstract!vars)
  <2>1. PICK S \in SUBSET EventsOf(pending) : sink' = sink \union S
    BY <1>16 DEF SendFails, SinkStores
  <2>2. S \subseteq taken
    BY DEF EventsOf
  <2> QED
    BY <1>16, <2>1, <2>2 DEF SendFails, Abstract!Deliver
<1>17. ASSUME SendRefused PROVE [Abstract!Next]_(Abstract!vars)
  BY <1>17 DEF SendRefused
<1>18. ASSUME AnswerMalformed PROVE [Abstract!Next]_(Abstract!vars)
  <2>1. PICK S \in SUBSET EventsOf(pending) : sink' = sink \union S
    BY <1>18 DEF AnswerMalformed, SinkStores
  <2>2. S \subseteq taken
    BY DEF EventsOf
  <2> QED
    BY <1>18, <2>1, <2>2 DEF AnswerMalformed, Abstract!Deliver
<1>19. ASSUME SendAnswered PROVE [Abstract!Next]_(Abstract!vars)
  <2>1. PICK A \in [EventsOf(pending) -> {"success", "retryable", "permanent"}] :
          sink' = sink \union {e \in DOMAIN A : A[e] = "success"}
    BY <1>19 DEF SendAnswered, SinkStores
  <2>2. {e \in DOMAIN A : A[e] = "success"} \subseteq taken
    BY DEF EventsOf
  <2> QED
    BY <1>19, <2>1, <2>2 DEF SendAnswered, Abstract!Deliver
<1>20. ASSUME NEW x \in pending, AckSuccess(x) PROVE [Abstract!Next]_(Abstract!vars)
  <2>1. {x.event} \subseteq sink /\ saved' = saved \union {x.event}
    BY <1>20 DEF AckSuccess, Entries
  <2> QED
    BY <1>20, <2>1 DEF AckSuccess, Abstract!Confirm
<1>21. ASSUME NEW x \in pending, AckRetryable(x) PROVE [Abstract!Next]_(Abstract!vars)
  BY <1>21 DEF AckRetryable
<1>22. ASSUME NEW x \in pending, AckPermanent(x) PROVE [Abstract!Next]_(Abstract!vars)
  BY <1>22 DEF AckPermanent
<1>23. ASSUME Compact PROVE [Abstract!Next]_(Abstract!vars)
  BY <1>23 DEF Compact
<1>24. ASSUME AcksDone PROVE [Abstract!Next]_(Abstract!vars)
  BY <1>24 DEF AcksDone
<1>25. ASSUME Crash PROVE [Abstract!Next]_(Abstract!vars)
  BY <1>25 DEF Crash
<1>26. CASE UNCHANGED vars
  BY <1>26 DEF vars
<1> QED
  BY <1>1, <1>2, <1>3, <1>4, <1>5, <1>6, <1>7, <1>8, <1>9, <1>10, <1>11, <1>12, <1>13, <1>14, <1>15, <1>16, <1>17, <1>18, <1>19, <1>20, <1>21, <1>22, <1>23, <1>24, <1>25, <1>26
     DEF Next, RecoverStep, SubmitStep, DrainStep

\* Over any faults and restarts the exporter is an at-least-once transport: what
\* it took over stays taken over, the sink gets only such events, and an event is
\* confirmed only when the sink has it.
THEOREM ExporterImplementsAtLeastOnce == Spec => ImplementsAtLeastOnce
<1>1. Init => Abstract!Init
  BY DEF Init, Abstract!Init
<1> QED
  BY <1>1, StepRefines, InductiveInvariant, PTL DEF Spec, ImplementsAtLeastOnce, Abstract!Spec

\* While a submitted event is on disk and not queued yet, only the queue, or
\* the end of the process, can take the next step.
LEMMA PressureIsLocal ==
  ASSUME Next, pc = "spooled"
  PROVE  Enqueue \/ EnqueueEvicts \/ EnqueueRejected \/ Crash
  BY DEF Next, RecoverStep, SubmitStep, DrainStep, Start, RecoverAcked, RecoverQueued,
         RecoverFails, RecoverDone, SubmitInvalid, Submit, SpoolAppend, SpoolIsFull, Drain,
         DrainDone, TakeBatch, SendFails, SendRefused, AnswerMalformed, SendAnswered,
         AckSuccess, AckRetryable, AckPermanent, Compact, AcksDone

\* put() under pressure gives up the least important event: nothing that stays
\* in the queue matters less than what was evicted or rejected for it.
LEMMA PressureDropsLeast ==
  ASSUME Inv, Next, pc = "spooled"
  PROVE  \A e \in dropped' \ dropped, x \in queue' : Priority[x.event] <= Priority[e]
<1> USE DEF Inv, TypeInv, TypeOK
<1>1. ASSUME Enqueue PROVE \A e \in dropped' \ dropped, x \in queue' : Priority[x.event] <= Priority[e]
  BY <1>1 DEF Enqueue, counts
<1>2. ASSUME EnqueueEvicts PROVE \A e \in dropped' \ dropped, x \in queue' : Priority[x.event] <= Priority[e]
  <2>1. PICK x \in queue : PutEvicts(current, x) /\ Drop(x.event)
    BY <1>2 DEF EnqueueEvicts
  <2>2. \A y \in queue : Priority[y.event] <= Priority[x.event]
    BY <2>1, ExporterAssumption DEF PutEvicts, Worst, Before, Entries
  <2>3. Priority[Entry(current).event] <= Priority[x.event]
    BY <2>1, ExporterAssumption DEF PutEvicts, Entry, Entries
  <2> QED
    BY <2>1, <2>2, <2>3 DEF PutEvicts, Drop
<1>3. ASSUME EnqueueRejected PROVE \A e \in dropped' \ dropped, x \in queue' : Priority[x.event] <= Priority[e]
  <2>1. PICK x \in queue : Worst(x, queue) /\ Priority[current] >= Priority[x.event]
    BY <1>3 DEF EnqueueRejected, PutRejects
  <2>2. \A y \in queue : Priority[y.event] <= Priority[x.event]
    BY <2>1, ExporterAssumption DEF Worst, Before, Entries
  <2>3. \A y \in queue : Priority[y.event] <= Priority[current]
    BY <2>1, <2>2, ExporterAssumption DEF Entries
  <2> QED
    BY <1>3, <2>3 DEF EnqueueRejected, PutRejects, Drop
<1>4. ASSUME Crash PROVE \A e \in dropped' \ dropped, x \in queue' : Priority[x.event] <= Priority[e]
  BY <1>4 DEF Crash, MemoryLost
<1> QED
  BY <1>1, <1>2, <1>3, <1>4, PressureIsLocal

\* The same of every behaviour, for any capacity and any priorities.
THEOREM PressureIsByPriority == Spec => LeastImportantDropped
<1>1. Inv /\ [Next]_vars =>
        [pc = "spooled" => \A e \in dropped' \ dropped, x \in queue' : Priority[x.event] <= Priority[e]]_vars
  BY PressureDropsLeast
<1> QED
  BY <1>1, InductiveInvariant, PTL DEF Spec, LeastImportantDropped
-----------------------------------------------------------------------------
(* The accounts of a source that gives an event again only when the exporter *)
(* does not have it: what the process holds is on disk, once, and not        *)
(* delivered, so the three totals of reconciliation() count different events. *)

\* An event is held in one place of the process only.
HeldOnce ==
  /\ queue \intersect pending = {} /\ queue \intersect retry = {} /\ pending \intersect retry = {}
  /\ \A x, y \in Live : x.event = y.event => x = y

HeldInv ==
  /\ HeldOnce
  /\ EventsOf(Live) \subseteq spool \ saved
  /\ pc = "down" => Live = {}
  /\ pc = "recover" => /\ todo \subseteq spool /\ spool \intersect saved \subseteq todo
                       /\ todo \intersect EventsOf(Live) = {}
  /\ pc \in {"idle", "validated", "spooled", "drain", "send", "acks"} => spool \intersect saved = {}
  /\ pc = "validated" => current \notin spool \union saved
  /\ pc = "spooled" => current \in spool /\ current \notin EventsOf(Live)
  /\ pc = "compact" => spool \intersect saved = {current}

\* What the totals are while a call is under way.
TotalsInv ==
  /\ pc = "down" => dropCount = 0
  /\ pc = "recover" => dropCount = 0 /\ total = Cardinality(saved) + Cardinality(spool \ todo)
  /\ pc \in {"idle", "spooled", "drain", "send", "acks"} =>
       total = Cardinality(saved) + Cardinality(spool) + dropCount
  /\ pc = "validated" => total = Cardinality(saved) + Cardinality(spool) + dropCount + 1
  /\ pc = "compact" => total + 1 = Cardinality(saved) + Cardinality(spool) + dropCount

AccountInv == ~ repeated => HeldInv /\ TotalsInv

LEMMA LostIsAccounted ==
  ASSUME MemoryLost, UNCHANGED disk
  PROVE  HeldInv' /\ TotalsInv'
<1>1. HeldInv'
  BY DEF MemoryLost, HeldInv, HeldOnce, Live, EventsOf
<1>2. TotalsInv'
  BY DEF MemoryLost, TotalsInv
<1> QED
  BY <1>1, <1>2

\* A set of entries that leaves the process takes its events with it.
LEMMA HeldLess ==
  ASSUME HeldOnce, NEW x \in Live
  PROVE  x.event \notin EventsOf(Live \ {x})
  BY DEF HeldOnce, EventsOf

\* An event the process does not hold gets an entry.
LEMMA HeldMore ==
  ASSUME NEW e, e \notin EventsOf(Live)
  PROVE  Entry(e) \notin Live /\ Entry(e).event = e
  BY DEF Entry, EventsOf

LEMMA NextHeldInv ==
  ASSUME TypeInv, HeldInv, [Next]_vars, ~ repeated'
  PROVE  HeldInv'
<1> USE DEF TypeInv, TypeOK, HeldInv, HeldOnce, Live, disk, batch, counts, bounds
<1>1. ASSUME Start PROVE HeldInv'
  BY <1>1 DEF Start, EventsOf
<1>2. ASSUME NEW e \in todo, RecoverAcked(e) PROVE HeldInv'
  BY <1>2 DEF RecoverAcked
<1>3. ASSUME NEW e \in todo, RecoverQueued(e) PROVE HeldInv'
  <2>1. e \in spool \ saved /\ e \notin EventsOf(Live)
    BY <1>3 DEF RecoverQueued
  <2>2. Entry(e) \notin Live /\ Entry(e).event = e
    BY <2>1, HeldMore
  <2>3. /\ Entry(e) \in queue' /\ queue' \subseteq queue \union {Entry(e)}
        /\ UNCHANGED <<pending, retry>>
    BY <1>3 DEF RecoverQueued, PutAccepts, PutEvicts
  <2>4. HeldOnce' /\ EventsOf(Live)' \subseteq EventsOf(Live) \union {e}
    BY <2>1, <2>2, <2>3 DEF EventsOf
  <2> QED
    BY <1>3, <2>1, <2>4 DEF RecoverQueued
<1>4. ASSUME NEW e \in todo, RecoverFails(e) PROVE HeldInv'
  BY <1>4, LostIsAccounted DEF RecoverFails
<1>5. ASSUME RecoverDone PROVE HeldInv'
  BY <1>5 DEF RecoverDone
<1>6. ASSUME NEW e \in Events, SubmitInvalid(e) PROVE HeldInv'
  BY <1>6 DEF SubmitInvalid
<1>7. ASSUME NEW e \in Events, Submit(e) PROVE HeldInv'
  <2>1. e \notin spool \union saved
    BY <1>7, Zenon DEF Submit
  <2> QED
    BY <1>7, <2>1 DEF Submit
<1>8. ASSUME SpoolAppend PROVE HeldInv'
  BY <1>8 DEF SpoolAppend
<1>9. ASSUME SpoolIsFull PROVE HeldInv'
  BY <1>9 DEF SpoolIsFull
<1>10. ASSUME Enqueue PROVE HeldInv'
  <2>1. current \in spool \ saved /\ current \notin EventsOf(Live)
    BY <1>10 DEF Enqueue
  <2>2. Entry(current) \notin Live /\ Entry(current).event = current
    BY <2>1, HeldMore
  <2>3. queue' = queue \union {Entry(current)} /\ UNCHANGED <<pending, retry>>
    BY <1>10 DEF Enqueue, PutAccepts
  <2>4. HeldOnce' /\ EventsOf(Live)' \subseteq EventsOf(Live) \union {current}
    BY <2>1, <2>2, <2>3 DEF EventsOf
  <2> QED
    BY <1>10, <2>1, <2>4 DEF Enqueue
<1>11. ASSUME EnqueueEvicts PROVE HeldInv'
  <2>1. current \in spool \ saved /\ current \notin EventsOf(Live)
    BY <1>11 DEF EnqueueEvicts
  <2>2. Entry(current) \notin Live /\ Entry(current).event = current
    BY <2>1, HeldMore
  <2>3. PICK x \in queue : PutEvicts(current, x) /\ Drop(x.event) /\ spool' = spool \ {x.event}
    BY <1>11 DEF EnqueueEvicts
  <2>4. queue' = (queue \ {x}) \union {Entry(current)} /\ UNCHANGED <<pending, retry>>
    BY <1>11, <2>3 DEF EnqueueEvicts, PutEvicts
  <2>5. HeldOnce'
    BY <2>1, <2>2, <2>4 DEF EventsOf
  <2>6. x.event \notin EventsOf(Live \ {x}) /\ x.event # current
    BY <2>1, HeldLess DEF EventsOf
  <2>7. EventsOf(Live)' \subseteq EventsOf(Live \ {x}) \union {current}
    BY <2>2, <2>4 DEF EventsOf, HeldOnce
  <2>8. EventsOf(Live)' \subseteq spool' \ saved'
    BY <1>11, <2>1, <2>3, <2>6, <2>7 DEF EnqueueEvicts, EventsOf
  <2> QED
    BY <1>11, <2>3, <2>5, <2>8 DEF EnqueueEvicts
<1>12. ASSUME EnqueueRejected PROVE HeldInv'
  BY <1>12 DEF EnqueueRejected, PutRejects
<1>13. ASSUME Drain PROVE HeldInv'
  BY <1>13 DEF Drain
<1>14. ASSUME DrainDone PROVE HeldInv'
  BY <1>14 DEF DrainDone, EventsOf
<1>15. ASSUME TakeBatch PROVE HeldInv'
  <2>1. HeldOnce' /\ EventsOf(Live)' \subseteq EventsOf(Live)
    BY <1>15 DEF TakeBatch, EventsOf
  <2> QED
    BY <1>15, <2>1 DEF TakeBatch
<1>16. ASSUME SendFails PROVE HeldInv'
  <2>1. UNCHANGED queue /\ retry' = {} /\ pending' \subseteq pending \union retry
    BY <1>16, TryAgainType, BatchEndsType DEF SendFails
  <2>2. pending' \intersect queue' = {} /\ pc' \in {"send", "drain"}
    BY <1>16, TryAgainType, BatchEndsType DEF SendFails
  <2>3. HeldOnce' /\ EventsOf(Live)' \subseteq EventsOf(Live)
    BY <2>1, <2>2 DEF EventsOf
  <2> QED
    BY <1>16, <2>2, <2>3 DEF SendFails
<1>17. ASSUME SendRefused PROVE HeldInv'
  BY <1>17 DEF SendRefused
<1>18. ASSUME AnswerMalformed PROVE HeldInv'
  <2>1. HeldOnce' /\ EventsOf(Live)' \subseteq EventsOf(Live) /\ pc' = "drain"
    BY <1>18, BatchEndsType DEF AnswerMalformed, EventsOf
  <2> QED
    BY <1>18, <2>1 DEF AnswerMalformed
<1>19. ASSUME SendAnswered PROVE HeldInv'
  BY <1>19 DEF SendAnswered
<1>20. ASSUME NEW x \in pending, AckSuccess(x) PROVE HeldInv'
  <2>1. /\ x.event \in spool \ saved
        /\ x.event \notin EventsOf(Live \ {x})
    BY HeldLess DEF EventsOf
  <2>2. Live' \subseteq Live \ {x} /\ HeldOnce'
    BY <1>20 DEF AckSuccess
  <2>3. EventsOf(Live)' \subseteq EventsOf(Live) \ {x.event}
    BY <2>1, <2>2 DEF EventsOf
  <2>4. EventsOf(Live)' \subseteq spool' \ saved' /\ pc' = "compact"
    BY <1>20, <2>3 DEF AckSuccess
  <2>5. spool' \intersect saved' = {current'}
    BY <1>20, <2>1 DEF AckSuccess
  <2> QED
    BY <2>2, <2>4, <2>5
<1>21. ASSUME NEW x \in pending, AckRetryable(x) PROVE HeldInv'
  <2>1. HeldOnce' /\ Live' = Live
    BY <1>21 DEF AckRetryable
  <2> QED
    BY <1>21, <2>1 DEF AckRetryable, EventsOf
<1>22. ASSUME NEW x \in pending, AckPermanent(x) PROVE HeldInv'
  <2>1. /\ x.event \in spool \ saved
        /\ x.event \notin EventsOf(Live \ {x})
    BY HeldLess DEF EventsOf
  <2>2. Live' \subseteq Live \ {x} /\ HeldOnce'
    BY <1>22 DEF AckPermanent
  <2>3. EventsOf(Live)' \subseteq EventsOf(Live) \ {x.event}
    BY <2>1, <2>2 DEF EventsOf
  <2> QED
    BY <1>22, <2>1, <2>2, <2>3 DEF AckPermanent
<1>23. ASSUME Compact PROVE HeldInv'
  BY <1>23 DEF Compact
<1>24. ASSUME AcksDone PROVE HeldInv'
  <2>1. UNCHANGED queue /\ retry' = {} /\ pending' \subseteq pending \union retry
    BY <1>24, TryAgainType, BatchEndsType DEF AcksDone
  <2>2. pending' \intersect queue' = {} /\ pc' \in {"send", "drain"}
    BY <1>24, TryAgainType, BatchEndsType DEF AcksDone
  <2>3. HeldOnce' /\ EventsOf(Live)' \subseteq EventsOf(Live)
    BY <2>1, <2>2 DEF EventsOf
  <2> QED
    BY <1>24, <2>2, <2>3 DEF AcksDone
<1>25. ASSUME Crash PROVE HeldInv'
  BY <1>25, LostIsAccounted DEF Crash
<1>26. CASE UNCHANGED vars
  BY <1>26 DEF vars
<1> QED
  BY <1>1, <1>2, <1>3, <1>4, <1>5, <1>6, <1>7, <1>8, <1>9, <1>10, <1>11, <1>12, <1>13, <1>14, <1>15, <1>16, <1>17, <1>18, <1>19, <1>20, <1>21, <1>22, <1>23, <1>24, <1>25, <1>26
     DEF Next, RecoverStep, SubmitStep, DrainStep

LEMMA NextTotalsInv ==
  ASSUME TypeInv, HeldInv, TotalsInv, [Next]_vars
  PROVE  TotalsInv'
<1> USE DEF TypeInv, TypeOK, HeldInv, TotalsInv, disk, batch, counts, bounds
<1>1. ASSUME Start PROVE TotalsInv'
  <2>1. Cardinality(spool \ spool) = 0
    BY FS_EmptySet
  <2> QED
    BY <1>1, <2>1, FS_CardinalityType DEF Start
<1>2. ASSUME NEW e \in todo, RecoverAcked(e) PROVE TotalsInv'
  <2>1. spool' \ todo' = spool \ todo
    BY <1>2 DEF RecoverAcked
  <2> QED
    BY <1>2, <2>1 DEF RecoverAcked
<1>3. ASSUME NEW e \in todo, RecoverQueued(e) PROVE TotalsInv'
  <2>1. spool \ todo' = (spool \ todo) \union {e} /\ e \notin spool \ todo
    BY <1>3 DEF RecoverQueued
  <2>2. IsFiniteSet(spool \ todo)
    BY FS_Difference
  <2>3. Cardinality((spool \ todo) \union {e}) = Cardinality(spool \ todo) + 1
    BY <2>1, <2>2, FS_AddElement
  <2>4. spool' = spool /\ saved' = saved /\ dropCount' = dropCount /\ pc' = "recover" /\ pc = "recover"
    BY <1>3 DEF RecoverQueued
  <2>5. total' = total + 1 /\ Cardinality(spool' \ todo') = Cardinality(spool \ todo) + 1
    BY <1>3, <2>1, <2>3, <2>4 DEF RecoverQueued
  <2>6. Cardinality(spool \ todo) \in Nat /\ Cardinality(saved) \in Nat
    BY <2>2, FS_CardinalityType
  <2> QED
    BY <2>4, <2>5, <2>6
<1>4. ASSUME NEW e \in todo, RecoverFails(e) PROVE TotalsInv'
  BY <1>4, LostIsAccounted DEF RecoverFails
<1>5. ASSUME RecoverDone PROVE TotalsInv'
  <2>1. spool \ todo = spool
    BY <1>5 DEF RecoverDone
  <2> QED
    BY <1>5, <2>1, FS_CardinalityType DEF RecoverDone
<1>6. ASSUME NEW e \in Events, SubmitInvalid(e) PROVE TotalsInv'
  BY <1>6, FS_CardinalityType DEF SubmitInvalid, Drop
<1>7. ASSUME NEW e \in Events, Submit(e) PROVE TotalsInv'
  BY <1>7, FS_CardinalityType DEF Submit
<1>8. ASSUME SpoolAppend PROVE TotalsInv'
  <2>1. Cardinality(spool') = Cardinality(spool) + 1
    BY <1>8, FS_AddElement DEF SpoolAppend
  <2> QED
    BY <1>8, <2>1, FS_CardinalityType DEF SpoolAppend
<1>9. ASSUME SpoolIsFull PROVE TotalsInv'
  BY <1>9, FS_CardinalityType DEF SpoolIsFull, Drop
<1>10. ASSUME Enqueue PROVE TotalsInv'
  BY <1>10 DEF Enqueue
<1>11. ASSUME EnqueueEvicts PROVE TotalsInv'
  <2>1. PICK x \in queue : Drop(x.event) /\ spool' = spool \ {x.event}
    BY <1>11 DEF EnqueueEvicts
  <2>2. x.event \in spool
    BY DEF Live, EventsOf
  <2>3. Cardinality(spool') = Cardinality(spool) - 1
    BY <2>1, <2>2, FS_RemoveElement
  <2> QED
    BY <1>11, <2>1, <2>3, FS_CardinalityType DEF EnqueueEvicts, Drop
<1>12. ASSUME EnqueueRejected PROVE TotalsInv'
  <2>1. Cardinality(spool') = Cardinality(spool) - 1
    BY <1>12, FS_RemoveElement DEF EnqueueRejected
  <2> QED
    BY <1>12, <2>1, FS_CardinalityType DEF EnqueueRejected, Drop
<1>13. ASSUME Drain PROVE TotalsInv'
  BY <1>13 DEF Drain
<1>14. ASSUME DrainDone PROVE TotalsInv'
  BY <1>14 DEF DrainDone
<1>15. ASSUME TakeBatch PROVE TotalsInv'
  BY <1>15 DEF TakeBatch
<1>16. ASSUME SendFails PROVE TotalsInv'
  <2>1. pc' \in {"send", "drain"}
    BY <1>16, TryAgainType, BatchEndsType DEF SendFails
  <2> QED
    BY <1>16, <2>1 DEF SendFails
<1>17. ASSUME SendRefused PROVE TotalsInv'
  BY <1>17 DEF SendRefused
<1>18. ASSUME AnswerMalformed PROVE TotalsInv'
  BY <1>18, BatchEndsType DEF AnswerMalformed
<1>19. ASSUME SendAnswered PROVE TotalsInv'
  BY <1>19 DEF SendAnswered
<1>20. ASSUME NEW x \in pending, AckSuccess(x) PROVE TotalsInv'
  <2>1. x.event \notin saved
    BY DEF Live, EventsOf
  <2>2. Cardinality(saved') = Cardinality(saved) + 1
    BY <1>20, <2>1, FS_AddElement DEF AckSuccess
  <2> QED
    BY <1>20, <2>2, FS_CardinalityType DEF AckSuccess
<1>21. ASSUME NEW x \in pending, AckRetryable(x) PROVE TotalsInv'
  BY <1>21 DEF AckRetryable
<1>22. ASSUME NEW x \in pending, AckPermanent(x) PROVE TotalsInv'
  <2>1. x.event \in spool
    BY DEF Live, EventsOf
  <2>2. Cardinality(spool') = Cardinality(spool) - 1
    BY <1>22, <2>1, FS_RemoveElement DEF AckPermanent
  <2> QED
    BY <1>22, <2>2, FS_CardinalityType DEF AckPermanent, Drop
<1>23. ASSUME Compact PROVE TotalsInv'
  <2>1. Cardinality(spool') = Cardinality(spool) - 1
    BY <1>23, FS_RemoveElement DEF Compact
  <2> QED
    BY <1>23, <2>1, FS_CardinalityType DEF Compact
<1>24. ASSUME AcksDone PROVE TotalsInv'
  <2>1. pc' \in {"send", "drain"}
    BY <1>24, TryAgainType, BatchEndsType DEF AcksDone
  <2> QED
    BY <1>24, <2>1 DEF AcksDone
<1>25. ASSUME Crash PROVE TotalsInv'
  BY <1>25, LostIsAccounted DEF Crash
<1>26. CASE UNCHANGED vars
  BY <1>26 DEF vars
<1> QED
  BY <1>1, <1>2, <1>3, <1>4, <1>5, <1>6, <1>7, <1>8, <1>9, <1>10, <1>11, <1>12, <1>13, <1>14, <1>15, <1>16, <1>17, <1>18, <1>19, <1>20, <1>21, <1>22, <1>23, <1>24, <1>25, <1>26
     DEF Next, RecoverStep, SubmitStep, DrainStep

\* Only the end of the process forgets that an event was given again.
LEMMA RepeatedStays ==
  ASSUME [Next]_vars, repeated, ~ repeated'
  PROVE  MemoryLost /\ UNCHANGED disk
<1>1. ASSUME Start PROVE MemoryLost /\ UNCHANGED disk
  BY <1>1, Zenon DEF Start, counts
<1>2. ASSUME NEW e \in todo, RecoverAcked(e) PROVE MemoryLost /\ UNCHANGED disk
  BY <1>2, Zenon DEF RecoverAcked, counts
<1>3. ASSUME NEW e \in todo, RecoverQueued(e) PROVE MemoryLost /\ UNCHANGED disk
  BY <1>3, Zenon DEF RecoverQueued, counts
<1>4. ASSUME NEW e \in todo, RecoverFails(e) PROVE MemoryLost /\ UNCHANGED disk
  BY <1>4 DEF RecoverFails, disk
<1>5. ASSUME RecoverDone PROVE MemoryLost /\ UNCHANGED disk
  BY <1>5, Zenon DEF RecoverDone, counts
<1>6. ASSUME NEW e \in Events, SubmitInvalid(e) PROVE MemoryLost /\ UNCHANGED disk
  BY <1>6, Zenon DEF SubmitInvalid, counts
<1>7. ASSUME NEW e \in Events, Submit(e) PROVE MemoryLost /\ UNCHANGED disk
  BY <1>7, Zenon DEF Submit, counts
<1>8. ASSUME SpoolAppend PROVE MemoryLost /\ UNCHANGED disk
  BY <1>8, Zenon DEF SpoolAppend, counts
<1>9. ASSUME SpoolIsFull PROVE MemoryLost /\ UNCHANGED disk
  BY <1>9, Zenon DEF SpoolIsFull, counts
<1>10. ASSUME Enqueue PROVE MemoryLost /\ UNCHANGED disk
  BY <1>10, Zenon DEF Enqueue, counts
<1>11. ASSUME EnqueueEvicts PROVE MemoryLost /\ UNCHANGED disk
  BY <1>11, Zenon DEF EnqueueEvicts, counts
<1>12. ASSUME EnqueueRejected PROVE MemoryLost /\ UNCHANGED disk
  BY <1>12, Zenon DEF EnqueueRejected, counts
<1>13. ASSUME Drain PROVE MemoryLost /\ UNCHANGED disk
  BY <1>13, Zenon DEF Drain, counts
<1>14. ASSUME DrainDone PROVE MemoryLost /\ UNCHANGED disk
  BY <1>14, Zenon DEF DrainDone, counts
<1>15. ASSUME TakeBatch PROVE MemoryLost /\ UNCHANGED disk
  BY <1>15, Zenon DEF TakeBatch, counts
<1>16. ASSUME SendFails PROVE MemoryLost /\ UNCHANGED disk
  BY <1>16, Zenon DEF SendFails, counts
<1>17. ASSUME SendRefused PROVE MemoryLost /\ UNCHANGED disk
  BY <1>17, Zenon DEF SendRefused, counts
<1>18. ASSUME AnswerMalformed PROVE MemoryLost /\ UNCHANGED disk
  BY <1>18, Zenon DEF AnswerMalformed, counts
<1>19. ASSUME SendAnswered PROVE MemoryLost /\ UNCHANGED disk
  BY <1>19, Zenon DEF SendAnswered, counts
<1>20. ASSUME NEW x \in pending, AckSuccess(x) PROVE MemoryLost /\ UNCHANGED disk
  BY <1>20, Zenon DEF AckSuccess, counts
<1>21. ASSUME NEW x \in pending, AckRetryable(x) PROVE MemoryLost /\ UNCHANGED disk
  BY <1>21, Zenon DEF AckRetryable, counts
<1>22. ASSUME NEW x \in pending, AckPermanent(x) PROVE MemoryLost /\ UNCHANGED disk
  BY <1>22, Zenon DEF AckPermanent, counts
<1>23. ASSUME Compact PROVE MemoryLost /\ UNCHANGED disk
  BY <1>23, Zenon DEF Compact, counts
<1>24. ASSUME AcksDone PROVE MemoryLost /\ UNCHANGED disk
  BY <1>24, Zenon DEF AcksDone, counts
<1>25. ASSUME Crash PROVE MemoryLost /\ UNCHANGED disk
  BY <1>25 DEF Crash, disk
<1>26. CASE UNCHANGED vars
  BY <1>26, Zenon DEF vars, counts
<1> QED
  BY <1>1, <1>2, <1>3, <1>4, <1>5, <1>6, <1>7, <1>8, <1>9, <1>10, <1>11, <1>12, <1>13, <1>14, <1>15, <1>16, <1>17, <1>18, <1>19, <1>20, <1>21, <1>22, <1>23, <1>24, <1>25, <1>26
     DEF Next, RecoverStep, SubmitStep, DrainStep

LEMMA AccountInvariant == Spec => []AccountInv
<1>1. Init => AccountInv
  <2> SUFFICES ASSUME Init PROVE HeldInv /\ TotalsInv
    BY DEF AccountInv
  <2> QED
    BY DEF Init, HeldInv, HeldOnce, TotalsInv, Live, EventsOf
<1>2. Inv /\ AccountInv /\ [Next]_vars => AccountInv'
  <2> SUFFICES ASSUME Inv, AccountInv, [Next]_vars, ~ repeated'
               PROVE  HeldInv' /\ TotalsInv'
    BY DEF AccountInv
  <2>1. CASE repeated
    BY <2>1, RepeatedStays, LostIsAccounted
  <2>2. CASE ~ repeated
    BY <2>2, NextHeldInv, NextTotalsInv DEF Inv, AccountInv
  <2> QED
    BY <2>1, <2>2
<1> QED
  BY <1>1, <1>2, InductiveInvariant, PTL DEF Spec

\* The queue, the batch and the retries never hold the only copy of an event:
\* a crash loses nothing, as long as no event is given again while it is held.
THEOREM HeldIsOnDisk == Spec => []QueuedIsDurable
<1>1. AccountInv => QueuedIsDurable
  BY DEF AccountInv, HeldInv, QueuedIsDurable, Live
<1> QED
  BY <1>1, AccountInvariant, PTL

\* unaccounted_drop_count is zero between calls, over any number of retries,
\* evictions, rejections, crashes and restarts.
THEOREM ReconciliationBalances == Spec => []Reconciled
<1>1. AccountInv => Reconciled
  BY DEF AccountInv, TotalsInv, Reconciled
<1> QED
  BY <1>1, AccountInvariant, PTL
-----------------------------------------------------------------------------
(* A restart, when what was left in the spool fits into the queue.           *)

\* What was left to send fits into the queue.
Fits == Cardinality(spool \ saved) <= Capacity

\* A new process was given nothing yet, and has what it has looked at in its queue.
RecoveryInv ==
  /\ pc \in {"down", "recover"} => ~ repeated
  /\ pc = "recover" => pending = {} /\ retry = {}
  /\ pc = "down" => queue = {} /\ pending = {} /\ retry = {}
  /\ pc = "recover" /\ Fits => (spool \ saved) \ todo = EventsOf(queue)

\* While a file is to be looked at that the checkpoint does not name, there is room.
LEMMA RoomWhileRecovering ==
  ASSUME TypeInv, HeldInv, RecoveryInv, pc = "recover", Fits,
         NEW e \in todo, e \notin saved
  PROVE  HasRoom
<1> DEFINE left == spool \ saved
           held == EventsOf(queue)
           f == [x \in queue |-> x.event]
<1>1. IsFiniteSet(left) /\ Cardinality(left) \in Nat
  BY FS_Difference, FS_CardinalityType DEF TypeInv
<1>2. held \subseteq left \ {e} /\ e \in left
  BY DEF HeldInv, Live, EventsOf
<1>3. Cardinality(left \ {e}) = Cardinality(left) - 1 /\ IsFiniteSet(left \ {e})
  <2> HIDE DEF left
  <2> QED
    BY <1>1, <1>2, FS_RemoveElement
<1>4. IsFiniteSet(held) /\ Cardinality(held) <= Cardinality(left) - 1
  <2> HIDE DEF left, held
  <2> QED
    BY <1>2, <1>3, FS_Subset
<1>5. f \in Bijection(queue, held)
  <2>1. \A x, y \in queue : f[x] = f[y] => x = y
    BY DEF HeldInv, HeldOnce, Live
  <2>2. f \in [queue -> held] /\ \A d \in held : \E x \in queue : f[x] = d
    BY DEF EventsOf
  <2> QED
    BY <2>1, <2>2 DEF Bijection, Injection, Surjection, IsInjective
<1>6. Cardinality(queue) = Cardinality(held)
  <2>1. ExistsBijection(queue, held)
    BY <1>5 DEF ExistsBijection
  <2>2. ExistsBijection(held, queue)
    BY <2>1, Fun_ExistsBijSymmetric
  <2> HIDE DEF held
  <2> QED
    BY <1>4, <2>2, FS_Bijection
<1>7. Cardinality(held) \in Nat
  BY <1>4, FS_CardinalityType
<1> QED
  BY <1>1, <1>4, <1>6, <1>7, ExporterAssumption DEF HasRoom, Fits

\* The steps of a recovery: every file of the checkpoint goes, every other one is queued
\* beside those that are queued, and then there is none to look at.
LEMMA RecoveryIsLocal ==
  ASSUME Next, pc = "recover"
  PROVE  RecoverStep \/ RecoverDone \/ Crash
  BY DEF Next, SubmitStep, DrainStep, Start,
         SubmitInvalid, Submit, SpoolAppend, SpoolIsFull, Enqueue, EnqueueEvicts,
         EnqueueRejected, Drain, DrainDone, TakeBatch, SendFails, SendRefused,
         AnswerMalformed, SendAnswered, AckSuccess, AckRetryable, AckPermanent, Compact, AcksDone

LEMMA RecoveryAdds ==
  ASSUME TypeInv, HeldInv, RecoveryInv, pc = "recover", Fits, NEW e \in todo,
         RecoverAcked(e) \/ RecoverQueued(e) \/ RecoverFails(e)
  PROVE  /\ pc' = "recover" /\ UNCHANGED <<repeated, pending, retry, saved>>
         /\ todo' = todo \ {e} /\ spool' \ saved' = spool \ saved
         /\ EventsOf(queue') = IF e \in saved THEN EventsOf(queue) ELSE EventsOf(queue) \union {e}
<1>1. CASE RecoverAcked(e)
  <2>1. UNCHANGED <<queue, pc, saved, pending, retry>> /\ e \in saved
        /\ todo' = todo \ {e} /\ spool' = spool \ {e}
    BY <1>1 DEF RecoverAcked, batch
  <2>2. UNCHANGED repeated
    BY <1>1, Zenon DEF RecoverAcked, counts
  <2> QED
    BY <2>1, <2>2
<1>2. CASE RecoverQueued(e)
  <2>1. HasRoom /\ e \notin saved
    BY <1>2, RoomWhileRecovering DEF RecoverQueued
  <2>2. queue' = queue \union {Entry(e)} /\ Entry(e).event = e
    BY <1>2, <2>1 DEF RecoverQueued, PutAccepts, PutEvicts, Entry
  <2>3. EventsOf(queue') = EventsOf(queue) \union {e}
    BY <2>2 DEF EventsOf
  <2>4. UNCHANGED repeated
    BY <1>2, Zenon DEF RecoverQueued
  <2> QED
    BY <1>2, <2>1, <2>3, <2>4 DEF RecoverQueued, disk, batch
<1>3. CASE RecoverFails(e)
  BY <1>3, RoomWhileRecovering DEF RecoverFails
<1> QED
  BY <1>1, <1>2, <1>3

LEMMA NextRecoveryInv ==
  ASSUME TypeInv, AccountInv, RecoveryInv, [Next]_vars
  PROVE  RecoveryInv'
<1>1. CASE Start
  <2>1. repeated' = repeated
    BY <1>1, Zenon DEF Start
  <2> QED
    BY <1>1, <2>1 DEF Start, RecoveryInv, EventsOf, disk, batch
<1>2. CASE pc = "recover" /\ RecoverStep
  <2>1. HeldInv
    BY <1>2 DEF AccountInv, RecoveryInv
  <2>2. PICK e \in todo : RecoverAcked(e) \/ RecoverQueued(e) \/ RecoverFails(e)
    BY <1>2 DEF RecoverStep
  <2>3. CASE Fits
    <3>1. /\ pc' = "recover" /\ UNCHANGED <<pending, retry, saved>>
          /\ todo' = todo \ {e} /\ spool' \ saved' = spool \ saved
          /\ EventsOf(queue)' = IF e \in saved THEN EventsOf(queue) ELSE EventsOf(queue) \union {e}
      BY <1>2, <2>1, <2>2, <2>3, RecoveryAdds DEF EventsOf
    <3>2. ~ repeated'
      BY <1>2, <2>1, <2>2, <2>3, RecoveryAdds, Zenon DEF RecoveryInv
    <3>3. (spool' \ saved') \ todo' = EventsOf(queue)'
      BY <1>2, <2>1, <2>2, <2>3, <3>1 DEF RecoveryInv, HeldInv
    <3> QED
      BY <1>2, <3>1, <3>2, <3>3 DEF RecoveryInv
  <2>4. CASE ~ Fits
    <3>1. CASE RecoverFails(e)
      <4>1. ~ repeated' /\ pc' = "down" /\ queue' = {} /\ pending' = {} /\ retry' = {}
        BY <3>1 DEF RecoverFails, MemoryLost
      <4> QED
        BY <4>1 DEF RecoveryInv
    <3>2. CASE RecoverAcked(e) \/ RecoverQueued(e)
      <4>1. UNCHANGED <<pending, retry, pc>> /\ spool' \ saved' = spool \ saved
        BY <3>2 DEF RecoverAcked, RecoverQueued, disk, batch
      <4>2. UNCHANGED repeated
        BY <3>2, Zenon DEF RecoverAcked, RecoverQueued, counts
      <4>3. ~ Fits'
        BY <2>4, <4>1 DEF Fits
      <4> QED
        BY <1>2, <4>1, <4>2, <4>3 DEF RecoveryInv
    <3> QED
      BY <2>2, <3>1, <3>2
  <2> QED
    BY <2>3, <2>4
<1>3. CASE MemoryLost
  <2>1. ~ repeated' /\ pc' = "down" /\ queue' = {} /\ pending' = {} /\ retry' = {}
    BY <1>3 DEF MemoryLost
  <2> QED
    BY <2>1 DEF RecoveryInv
<1>4. CASE pc' \notin {"down", "recover"}
  BY <1>4 DEF RecoveryInv
<1>5. CASE UNCHANGED vars
  <2>1. UNCHANGED repeated
    BY <1>5, Zenon DEF vars, counts
  <2> QED
    BY <1>5, <2>1 DEF vars, RecoveryInv, Fits, EventsOf, disk, batch
<1>6. ASSUME Next, ~ Start, ~ MemoryLost, ~ (pc = "recover" /\ RecoverStep)
      PROVE  pc' \notin {"down", "recover"}
  <2>1. ~ RecoverStep
    BY <1>6 DEF RecoverStep, RecoverAcked, RecoverQueued, RecoverFails
  <2> QED
    BY <1>6, <2>1, TryAgainType, BatchEndsType
    DEF Next, SubmitStep, DrainStep, RecoverDone, SubmitInvalid, Submit,
        SpoolAppend, SpoolIsFull, Enqueue, EnqueueEvicts, EnqueueRejected, Drain, DrainDone,
        TakeBatch, SendFails, SendRefused, AnswerMalformed, SendAnswered, AckSuccess,
        AckRetryable, AckPermanent, Compact, AcksDone, Crash, TryAgain, BatchEnds
<1> QED
  BY <1>1, <1>2, <1>3, <1>4, <1>5, <1>6

\* A step of a recovery that fits is a further event in the queue or none, the end of the
\* recovery with the whole spool in the queue, or the end of the process.
RecoveryLosesNothing ==
  [][pc = "recover" /\ Fits =>
       \/ pc' = "recover" /\ EventsOf(queue) \subseteq EventsOf(queue')
       \/ pc' = "idle" /\ EventsOf(queue') = spool'
       \/ crashes' # crashes]_vars

\* The safety half of FittingSpoolReconciles: put() evicts and refuses nothing while the
\* process recovers a spool that fits its queue, whatever the order of its files and
\* their priorities (when it does not fit, an event can stay behind in the spool).
THEOREM RecoveryQueuesAll == Spec => RecoveryLosesNothing
<1> DEFINE Step == pc = "recover" /\ Fits =>
                     \/ pc' = "recover" /\ EventsOf(queue) \subseteq EventsOf(queue')
                     \/ pc' = "idle" /\ EventsOf(queue') = spool'
                     \/ crashes' # crashes
<1>1. Init => RecoveryInv
  BY DEF Init, RecoveryInv
<1>2. Inv /\ AccountInv /\ RecoveryInv /\ [Next]_vars => RecoveryInv'
  BY NextRecoveryInv DEF Inv
<1>3. Inv /\ AccountInv /\ RecoveryInv /\ [Next]_vars => [Step]_vars
  <2> SUFFICES ASSUME Inv, AccountInv, RecoveryInv, Next, pc = "recover", Fits
               PROVE  \/ pc' = "recover" /\ EventsOf(queue) \subseteq EventsOf(queue')
                      \/ pc' = "idle" /\ EventsOf(queue') = spool'
                      \/ crashes' # crashes
    OBVIOUS
  <2>1. HeldInv
    BY DEF AccountInv, RecoveryInv
  <2>2. CASE RecoverStep
    <3>1. PICK e \in todo : RecoverAcked(e) \/ RecoverQueued(e) \/ RecoverFails(e)
      BY <2>2 DEF RecoverStep
    <3> QED
      BY <2>1, <3>1, RecoveryAdds DEF Inv
  <2>3. CASE RecoverDone
    <3>1. todo = {} /\ pc' = "idle" /\ queue' = queue /\ spool' = spool
      BY <2>3 DEF RecoverDone, disk
    <3>2. spool \intersect saved = {}
      BY <2>1, <3>1 DEF HeldInv
    <3> QED
      BY <3>1, <3>2 DEF RecoveryInv
  <2>4. CASE Crash
    BY <2>4 DEF Crash, Inv, TypeInv, TypeOK
  <2> QED
    BY <2>2, <2>3, <2>4, RecoveryIsLocal
<1> QED
  BY <1>1, <1>2, <1>3, InductiveInvariant, AccountInvariant, PTL DEF Spec, RecoveryLosesNothing
=============================================================================

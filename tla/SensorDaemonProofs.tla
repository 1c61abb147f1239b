------------------------- MODULE SensorDaemonProofs -------------------------
(***************************************************************************)
(* Theorems about the rehearsal sensor, SensorDaemon: any file, any batch  *)
(* size, any number of failures and restarts.                              *)
(***************************************************************************)
EXTENDS SensorDaemon, FiniteSetTheorems, TLAPS

\* A request on its way asks for lines that are written, from the offset on.
Asking ==
  /\ \A r \in calls : r[2] <= written
  /\ pc = "waiting" => /\ asked \in Requests
                       /\ asked[1] = offset
                       /\ offset <= asked[2] /\ asked[2] <= written

\* Every event of a committed request is a row, also one that was there before.
CommittedIsJournaled == \A r \in commits : Content(r) \subseteq Journaled

IInv == TypeOK /\ Asking /\ CommittedIsJournaled /\ ShippedIsJournaled

\* append() keeps every row and adds the events of the request, all pending.
LEMMA AppendKeepsRows ==
  ASSUME NEW Ids, JournalTypeOK(Ids), NEW r \in Requests, NEW S \in SUBSET Events,
         AppendRequest(r, S)
  PROVE  /\ JournalTypeOK(Ids)'
         /\ Journaled' = Journaled \union S
         /\ Acked' = Acked
         /\ ref' = ref /\ checkpoints' = checkpoints
<1>1. JournalTypeOK(Ids)'
  BY DEF JournalTypeOK, AppendRequest, Fresh, Journaled
<1>2. Journaled' = Journaled \union S
  BY DEF JournalTypeOK, AppendRequest, Fresh, Journaled
<1>3. Acked' = Acked
  BY DEF JournalTypeOK, AppendRequest, Fresh, Journaled, Acked
<1> QED
  BY <1>1, <1>2, <1>3 DEF AppendRequest

\* The lines of a request are events.
LEMMA ContentIsEvents == \A r \in Requests : Content(r) \in SUBSET Events
<1> SUFFICES ASSUME NEW r \in Requests, NEW i \in (r[1] + 1)..r[2]
             PROVE  Line[i] \in Events
  BY DEF Content
<1>1. r[1] \in 0..Len(Line) /\ r[2] \in 0..Len(Line)
  BY SensorAssumption
<1>2. Line \in Seq(Events) /\ Len(Line) \in Nat /\ DOMAIN Line = 1..Len(Line)
  BY SensorAssumption
<1>3. i \in 1..Len(Line)
  BY <1>1, <1>2
<1> QED
  BY <1>2, <1>3

LEMMA InitIInv == Init => IInv
<1> SUFFICES ASSUME Init PROVE IInv
  OBVIOUS
<1>1. TypeOK
  BY SensorAssumption DEF Init, JournalInit, TypeOK, JournalTypeOK
<1>2. Asking /\ CommittedIsJournaled /\ ShippedIsJournaled
  BY SensorAssumption
  DEF Init, JournalInit, Asking, CommittedIsJournaled, ShippedIsJournaled
<1> QED
  BY <1>1, <1>2 DEF IInv

\* The journal after the handler of a request: no row is lost, and a request
\* that is not refused is there with all its events.
LEMMA HandleKeepsJournal ==
  ASSUME TypeOK, CommittedIsJournaled, NEW r, Handle(r)
  PROVE  /\ JournalTypeOK({})' /\ CommittedIsJournaled'
         /\ Journaled \subseteq Journaled'
         /\ calls' \subseteq calls
         /\ ~ Rejected(r, Content(r)) => Content(r) \subseteq Journaled'
<1>1. r \in Requests /\ Content(r) \in SUBSET Events /\ calls' \subseteq calls
  BY ContentIsEvents DEF TypeOK, Handle
<1>2. CASE UNCHANGED journal /\ (r \in commits \/ Rejected(r, Content(r)))
  BY <1>1, <1>2
  DEF TypeOK, JournalTypeOK, CommittedIsJournaled, Journaled, journal
<1>3. CASE AppendRequest(r, Content(r))
  <2>1. JournalTypeOK({})' /\ Journaled' = Journaled \union Content(r)
    BY <1>1, <1>3, AppendKeepsRows DEF TypeOK
  <2>2. commits' = commits \union {r}
    BY <1>3 DEF AppendRequest
  <2> QED
    BY <1>1, <2>1, <2>2 DEF CommittedIsJournaled
<1> QED
  BY <1>2, <1>3 DEF Handle

LEMMA NextIInv == IInv /\ [Next]_vars => IInv'
<1> SUFFICES ASSUME IInv, [Next]_vars PROVE IInv'
  OBVIOUS
<1> USE DEF IInv
<1>a. /\ written \in InitialLines..Len(Line) /\ InitialLines \in Nat /\ Len(Line) \in Nat
      /\ offset \in 0..Len(Line) /\ saved \in 0..Len(Line)
      /\ calls \in SUBSET Requests
      /\ Requests = (0..Len(Line)) \X (0..Len(Line))
      /\ MaxFailures \in Nat /\ MaxCrashes \in Nat
  BY SensorAssumption DEF TypeOK
<1>1. CASE WriteLine
  <2>1. UNCHANGED journal /\ UNCHANGED <<offset, saved, pc, asked, calls, failures, crashes>>
        /\ written' = written + 1 /\ written < Len(Line)
    BY <1>1 DEF WriteLine
  <2>2. TypeOK'
    BY <1>a, <2>1 DEF TypeOK, JournalTypeOK, journal
  <2>3. Asking'
    BY <1>a, <2>1 DEF Asking
  <2> QED
    BY <1>a, <2>1, <2>2, <2>3
    DEF CommittedIsJournaled, ShippedIsJournaled, Journaled, journal
<1>2. CASE Post
  <2> DEFINE end == IF offset + BatchSize < written THEN offset + BatchSize ELSE written
  <2>1. /\ UNCHANGED journal /\ UNCHANGED <<written, offset, saved, failures, crashes>>
        /\ offset < written /\ pc' = "waiting"
        /\ asked' = <<offset, end>> /\ calls' = calls \union {<<offset, end>>}
    BY <1>2 DEF Post
  <2>2. end \in offset..written /\ <<offset, end>> \in Requests
    BY <1>a, <2>1, SensorAssumption, EventAssumption
  <2>3. TypeOK'
    BY <1>a, <2>1, <2>2 DEF TypeOK, JournalTypeOK, journal
  <2>4. Asking'
    BY <1>a, <2>1, <2>2 DEF Asking
  <2> QED
    BY <2>1, <2>3, <2>4 DEF CommittedIsJournaled, ShippedIsJournaled, Journaled, journal
<1>3. CASE Acknowledged
  <2>1. /\ UNCHANGED <<written, saved, failures, crashes>> /\ Handle(asked)
        /\ asked' = NoRequest /\ pc = "waiting"
        /\ \/ /\ pc' = "save" /\ offset' = asked[2] /\ ~ Rejected(asked, Content(asked))
           \/ /\ pc' = "read" /\ offset' = offset
    BY <1>3 DEF Acknowledged
  <2>2. /\ JournalTypeOK({})' /\ CommittedIsJournaled'
        /\ Journaled \subseteq Journaled' /\ calls' \subseteq calls
        /\ ~ Rejected(asked, Content(asked)) => Content(asked) \subseteq Journaled'
    BY <2>1, HandleKeepsJournal
  <2>3. /\ asked \in Requests /\ asked[1] = offset /\ asked[2] \in offset..written
    BY <1>a, <2>1 DEF Asking
  <2>4. TypeOK'
    BY <1>a, <2>1, <2>2, <2>3 DEF TypeOK
  <2>5. Asking'
    BY <2>1, <2>2 DEF Asking
  <2>6. ShippedIsJournaled'
    <3>1. CASE offset' = offset
      BY <2>1, <2>2, <3>1 DEF ShippedIsJournaled
    <3>2. CASE /\ offset' = asked[2] /\ ~ Rejected(asked, Content(asked))
      <4>1. \A i \in 1..offset' : i \in 1..offset \/ i \in (asked[1] + 1)..asked[2]
        BY <1>a, <2>3, <3>2
      <4>2. \A i \in (asked[1] + 1)..asked[2] : Line[i] \in Journaled'
        BY <2>2, <3>2 DEF Content
      <4>3. \A i \in 1..offset : Line[i] \in Journaled'
        BY <2>2 DEF ShippedIsJournaled
      <4>4. saved' <= offset' /\ offset' <= written'
        BY <1>a, <2>1, <2>3, <3>2 DEF ShippedIsJournaled
      <4> QED
        BY <4>1, <4>2, <4>3, <4>4 DEF ShippedIsJournaled
    <3> QED
      BY <2>1, <3>1, <3>2
  <2> QED
    BY <2>2, <2>4, <2>5, <2>6
<1>4. ASSUME NEW r \in calls, Unheard(r)
      PROVE  IInv'
  <2>1. Handle(r) /\ UNCHANGED <<written, offset, saved, pc, asked, crashes>>
        /\ failures' \in 0..MaxFailures
    BY <1>a, <1>4 DEF Unheard, sensor, TypeOK
  <2>2. /\ JournalTypeOK({})' /\ CommittedIsJournaled'
        /\ Journaled \subseteq Journaled' /\ calls' \subseteq calls
    BY <2>1, HandleKeepsJournal
  <2>3. TypeOK' /\ Asking'
    BY <1>a, <2>1, <2>2 DEF TypeOK, Asking
  <2> QED
    BY <2>1, <2>2, <2>3 DEF ShippedIsJournaled
<1>5. ASSUME NEW r \in calls, Lose(r)
      PROVE  IInv'
  <2>1. UNCHANGED journal /\ UNCHANGED <<written, offset, saved, pc, asked, crashes>>
        /\ calls' \subseteq calls /\ failures' \in 0..MaxFailures
    BY <1>a, <1>5 DEF Lose, sensor, TypeOK
  <2>2. TypeOK' /\ Asking'
    BY <1>a, <2>1 DEF TypeOK, JournalTypeOK, journal, Asking
  <2> QED
    BY <2>1, <2>2 DEF CommittedIsJournaled, ShippedIsJournaled, Journaled, journal
<1>6. CASE PostFails \/ SaveFails
  <2>1. UNCHANGED journal /\ UNCHANGED <<written, offset, saved, calls, crashes>>
        /\ pc' = "read" /\ asked' \in {asked, NoRequest} /\ failures' \in 0..MaxFailures
    BY <1>a, <1>6 DEF PostFails, SaveFails, TypeOK
  <2>2. TypeOK' /\ Asking'
    BY <1>a, <2>1 DEF TypeOK, JournalTypeOK, journal, Asking
  <2> QED
    BY <2>1, <2>2 DEF CommittedIsJournaled, ShippedIsJournaled, Journaled, journal
<1>7. CASE SaveOffset
  <2>1. UNCHANGED journal /\ UNCHANGED <<written, offset, asked, calls, failures, crashes>>
        /\ pc' = "read" /\ saved' = offset
    BY <1>7 DEF SaveOffset
  <2>2. TypeOK' /\ Asking'
    BY <1>a, <2>1 DEF TypeOK, JournalTypeOK, journal, Asking
  <2> QED
    BY <1>a, <2>1, <2>2 DEF CommittedIsJournaled, ShippedIsJournaled, Journaled, journal
<1>8. CASE Crash
  <2>1. UNCHANGED journal /\ UNCHANGED <<written, saved, calls, failures>>
        /\ pc' = "read" /\ asked' = NoRequest /\ offset' = saved
        /\ crashes' \in 0..MaxCrashes
    BY <1>a, <1>8 DEF Crash, TypeOK
  <2>2. TypeOK' /\ Asking'
    BY <1>a, <2>1 DEF TypeOK, JournalTypeOK, journal, Asking
  <2>3. saved <= written /\ \A i \in 1..saved : i \in 1..offset
    BY <1>a DEF ShippedIsJournaled
  <2> QED
    BY <1>a, <2>1, <2>2, <2>3
    DEF CommittedIsJournaled, ShippedIsJournaled, Journaled, journal
<1>9. CASE UNCHANGED vars
  BY <1>9 DEF vars, journal, sensor, TypeOK, JournalTypeOK, Asking,
              CommittedIsJournaled, ShippedIsJournaled, Journaled
<1> QED
  BY <1>1, <1>2, <1>3, <1>4, <1>5, <1>6, <1>7, <1>8, <1>9 DEF Next

\* The inductive invariant holds in every reachable state.
THEOREM InductiveInvariant == Spec => []IInv
  BY InitIInv, NextIInv, PTL DEF Spec

\* Every variable of the sensor and its calls stays within its type.
THEOREM TypeCorrect == Spec => []TypeOK
  BY InductiveInvariant, PTL DEF IInv

\* The sensor has only moved past events the connector holds.
THEOREM NothingSkipped == Spec => []ShippedIsJournaled
  BY InductiveInvariant, PTL DEF IInv

\* No step, a restart included, moves the checkpoint on disk back.
THEOREM CheckpointNeverBack == Spec => CheckpointMonotone
<1>1. IInv /\ [Next]_vars => [saved' >= saved]_vars
  <2> SUFFICES ASSUME IInv, Next PROVE saved' >= saved
    BY DEF vars
  <2>1. saved \in Nat /\ offset \in Nat /\ saved <= offset
    BY SensorAssumption DEF IInv, TypeOK, ShippedIsJournaled
  <2>2. saved' = saved \/ saved' = offset
    BY DEF Next, WriteLine, Post, Acknowledged, Unheard, Lose, PostFails, SaveOffset,
           SaveFails, Crash, sensor
  <2> QED
    BY <2>1, <2>2
<1> QED
  BY <1>1, InductiveInvariant, PTL DEF Spec, CheckpointMonotone
-----------------------------------------------------------------------------
(* A file that does not grow: every answer accounts for what was asked.      *)
(* The offsets the sensor can be at, before and after any restart, are the   *)
(* ends of the batches of the file, so a request that is asked again is the  *)
(* same request, and no two requests have a line in common.                  *)

\* The lines the sensor finds are different rows of the journal.
FileHolds ==
  \A i, j \in 1..InitialLines : Key[Line[i]] = Key[Line[j]] => i = j

Fixed == written = InitialLines

\* The end of a batch, or of the file.
Cut(n) == n = InitialLines \/ \E k \in Nat : n = k * BatchSize

\* A request for a batch of the file.
IsBatch(r) ==
  /\ Cut(r[1]) /\ r[1] < InitialLines
  /\ r[2] = IF r[1] + BatchSize < InitialLines THEN r[1] + BatchSize ELSE InitialLines

\* What was ever asked is a batch, and a committed one owns all of its rows.
BatchInv ==
  /\ Cut(offset) /\ Cut(saved)
  /\ \A r \in calls \union commits : IsBatch(r)
  /\ pc = "waiting" => IsBatch(asked)
  /\ \A e \in Journaled : owner[e] \in commits /\ e \in Content(owner[e])
  /\ \A e \in Events : e \notin Journaled => owner[e] = NoRequest
  /\ \A r \in commits : Known(r) = Content(r)

\* The next multiple of a number is at least that number away.
LEMMA NextMultiple ==
  ASSUME NEW b \in Nat, NEW k \in Nat, NEW m \in Nat, k * b < m * b
  PROVE  k * b + b <= m * b /\ (k + 1) * b = k * b + b
<1>1. k < m
  <2> SUFFICES ASSUME m <= k PROVE FALSE
    OBVIOUS
  <2>1. PICK d \in Nat : k = m + d
    <3>1. k - m \in Nat /\ k = m + (k - m)
      OBVIOUS
    <3> QED
      BY <3>1
  <2>2. (m + d) * b = m * b + d * b /\ d * b \in Nat /\ m * b \in Nat
    OBVIOUS
  <2> QED
    BY <2>1, <2>2
<1>2. PICK d \in Nat : m = k + 1 + d
  <2>1. m - k - 1 \in Nat /\ m = k + 1 + (m - k - 1)
    BY <1>1
  <2> QED
    BY <2>1
<1>3. (k + 1 + d) * b = k * b + b + d * b /\ d * b \in Nat /\ k * b \in Nat
  OBVIOUS
<1>4. (k + 1) * b = k * b + b
  OBVIOUS
<1> QED
  BY <1>2, <1>3, <1>4

\* A batch ends at a cut, and no cut is inside a batch.
LEMMA BatchEndsAtCut ==
  ASSUME NEW r \in Requests, IsBatch(r)
  PROVE  /\ r[1] < r[2] /\ r[2] <= InitialLines /\ Cut(r[2])
         /\ \A n \in Nat : Cut(n) /\ r[1] < n => r[2] <= n
<1>1. /\ r[1] \in Nat /\ r[2] \in Nat /\ InitialLines \in Nat /\ BatchSize \in Nat /\ BatchSize > 0
  BY SensorAssumption, EventAssumption
<1>2. PICK k \in Nat : r[1] = k * BatchSize
  BY <1>1 DEF IsBatch, Cut
<1>3. (k + 1) * BatchSize = r[1] + BatchSize
  BY <1>1, <1>2
<1>4. Cut(r[2])
  <2>1. CASE r[1] + BatchSize < InitialLines
    <3>1. r[2] = (k + 1) * BatchSize /\ k + 1 \in Nat
      BY <1>3, <2>1 DEF IsBatch
    <3> QED
      BY <3>1 DEF Cut
  <2>2. CASE ~ (r[1] + BatchSize < InitialLines)
    BY <2>2 DEF IsBatch, Cut
  <2> QED
    BY <2>1, <2>2
<1>5. ASSUME NEW n \in Nat, Cut(n), r[1] < n PROVE r[2] <= n
  <2>1. CASE n = InitialLines
    BY <1>1, <2>1 DEF IsBatch
  <2>2. CASE \E m \in Nat : n = m * BatchSize
    <3>1. PICK m \in Nat : n = m * BatchSize
      BY <2>2
    <3>2. r[1] + BatchSize <= n
      BY <1>1, <1>2, <1>5, <3>1, NextMultiple
    <3> QED
      BY <1>1, <1>5, <3>2 DEF IsBatch
  <2> QED
    BY <1>5, <2>1, <2>2 DEF Cut
<1> QED
  BY <1>1, <1>4, <1>5 DEF IsBatch

\* Two batches that have a line in common are the same.
LEMMA BatchesApart ==
  ASSUME NEW r \in Requests, NEW q \in Requests, IsBatch(r), IsBatch(q),
         NEW i \in Nat, r[1] < i, i <= r[2], q[1] < i, i <= q[2]
  PROVE  r = q
<1>1. r[1] \in Nat /\ r[2] \in Nat /\ q[1] \in Nat /\ q[2] \in Nat
      /\ r = <<r[1], r[2]>> /\ q = <<q[1], q[2]>>
  BY SensorAssumption
<1>2. ~ (r[1] < q[1]) /\ ~ (q[1] < r[1])
  BY <1>1, BatchEndsAtCut DEF IsBatch
<1>3. r[1] = q[1]
  BY <1>1, <1>2
<1>4. r[2] = q[2]
  BY <1>3 DEF IsBatch
<1> QED
  BY <1>1, <1>3, <1>4

\* The lines of a batch are lines of the file, each an event of its own.
LEMMA BatchLines ==
  ASSUME FileHolds, NEW r \in Requests, IsBatch(r)
  PROVE  /\ r[1] \in Nat /\ r[2] \in Nat
         /\ \A i \in (r[1] + 1)..r[2] : i \in 1..InitialLines /\ Line[i] \in Events
         /\ \A i, j \in 1..InitialLines :
              Line[i] = Line[j] \/ Key[Line[i]] = Key[Line[j]] => i = j
<1>1. r[1] \in Nat /\ r[2] \in Nat /\ r[2] <= InitialLines /\ InitialLines \in Nat
  BY BatchEndsAtCut, SensorAssumption
<1>2. \A i \in (r[1] + 1)..r[2] : i \in 1..InitialLines
  BY <1>1
<1>3. \A i \in (r[1] + 1)..r[2] : Line[i] \in Events
  BY ContentIsEvents DEF Content
<1> QED
  BY <1>1, <1>2, <1>3 DEF FileHolds

\* Nothing of a batch is in the journal before the batch is committed, and the
\* journal holds nothing that is in its way.
LEMMA BatchIsFresh ==
  ASSUME FileHolds, TypeOK, BatchInv, NEW r \in Requests, IsBatch(r)
  PROVE  /\ r \notin commits => Content(r) \intersect Journaled = {}
         /\ ~ Rejected(r, Content(r))
<1>1. \A e \in Journaled : \E q \in commits : \E j \in (q[1] + 1)..q[2] :
         q \in Requests /\ IsBatch(q) /\ e = Line[j]
  BY DEF BatchInv, Content, TypeOK, JournalTypeOK
<1>2. ASSUME NEW i \in (r[1] + 1)..r[2], NEW e \in Journaled, Line[i] = e
      PROVE  r \in commits
  <2>1. PICK q \in commits : \E j \in (q[1] + 1)..q[2] :
          q \in Requests /\ IsBatch(q) /\ e = Line[j]
    BY <1>1
  <2>2. PICK j \in (q[1] + 1)..q[2] : q \in Requests /\ IsBatch(q) /\ e = Line[j]
    BY <2>1
  <2>3. i = j
    BY <1>2, <2>2, BatchLines
  <2>4. r[1] \in Nat /\ r[2] \in Nat /\ q[1] \in Nat /\ q[2] \in Nat /\ i \in Nat
    BY <2>2, BatchLines
  <2>5. r = q
    BY <2>2, <2>3, <2>4, BatchesApart
  <2> QED
    BY <2>5
<1>3. r \notin commits => Content(r) \intersect Journaled = {}
  BY <1>2 DEF Content
<1>4. ASSUME NEW i \in (r[1] + 1)..r[2], NEW f \in Content(r) \union Journaled
      PROVE  ~ Collide(Line[i], f)
  <2>1. \E j \in 1..InitialLines : f = Line[j]
    <3>1. CASE f \in Content(r)
      BY <3>1, BatchLines DEF Content
    <3>2. CASE f \in Journaled
      BY <3>2, <1>1, BatchLines
    <3> QED
      BY <1>4, <3>1, <3>2
  <2>2. i \in 1..InitialLines
    BY BatchLines
  <2> QED
    BY <2>1, <2>2, BatchLines DEF Collide
<1>5. Consistent(Content(r), Journaled)
  BY <1>4 DEF Consistent, Content
<1> QED
  BY <1>3, <1>5 DEF Rejected

\* A handler leaves the journal as the invariant wants it.
LEMMA HandleKeepsBatches ==
  ASSUME FileHolds, TypeOK, BatchInv, NEW r \in calls, Handle(r)
  PROVE  /\ calls' \union commits' \subseteq calls \union commits
         /\ \A e \in Journaled' : owner'[e] \in commits' /\ e \in Content(owner'[e])
         /\ \A e \in Events : e \notin Journaled' => owner'[e] = NoRequest
         /\ \A q \in commits' : Known(q)' = Content(q)
<1>1. r \in Requests /\ IsBatch(r) /\ Content(r) \in SUBSET Events /\ NoRequest \notin Requests
  BY ContentIsEvents, JournalAssumption DEF TypeOK, BatchInv
<1>2. CASE UNCHANGED journal
  BY <1>2 DEF Handle, BatchInv, journal, Journaled, Known
<1>3. CASE r \notin commits /\ AppendRequest(r, Content(r))
  <2>1. Content(r) \intersect Journaled = {} /\ Fresh(Content(r)) = Content(r)
    BY <1>1, <1>3, BatchIsFresh DEF Fresh
  <2>2. /\ commits' = commits \union {r}
        /\ \A e \in Events : owner'[e] = IF e \in Content(r) THEN r ELSE owner[e]
    BY <1>3, <2>1 DEF AppendRequest
  <2>3. Journaled' = Journaled \union Content(r)
    BY <1>1, <1>3, AppendKeepsRows DEF TypeOK
  <2>4. \A e \in Events : owner[e] = r => FALSE
    BY <1>1, <1>3 DEF BatchInv
  <2>5. Known(r)' = Content(r)
    BY <1>1, <2>2, <2>4 DEF Known
  <2>6. \A q \in commits : Known(q)' = Content(q)
    <3> SUFFICES ASSUME NEW q \in commits PROVE Known(q)' = Known(q)
      BY DEF BatchInv
    <3>1. q # r /\ \A e \in Content(r) : owner[e] # q
      BY <1>1, <1>3, <2>1 DEF BatchInv, TypeOK, JournalTypeOK
    <3> QED
      BY <2>2, <3>1 DEF Known
  <2>7. Journaled \subseteq Events
    BY DEF Journaled
  <2> QED
    BY <1>1, <2>1, <2>2, <2>3, <2>5, <2>6, <2>7 DEF Handle, BatchInv
<1> QED
  BY <1>2, <1>3 DEF Handle

LEMMA NextBatchInv ==
  ASSUME FileHolds, IInv, Fixed => BatchInv, [Next]_vars, Fixed'
  PROVE  Fixed /\ BatchInv'
<1>a. /\ InitialLines \in Nat /\ written \in Nat /\ InitialLines <= written
      /\ offset \in Nat /\ saved \in Nat /\ calls \subseteq Requests
      /\ Requests = (0..Len(Line)) \X (0..Len(Line))
  BY SensorAssumption DEF IInv, TypeOK
<1>b. ~ WriteLine
  BY <1>a DEF WriteLine, Fixed
<1>c. Fixed /\ BatchInv
  <2>1. written' = written
    BY <1>b DEF Next, vars, Post, Acknowledged, Unheard, Lose, PostFails, SaveOffset,
           SaveFails, Crash, sensor
  <2> QED
    BY <2>1 DEF Fixed
<1> USE <1>c DEF BatchInv, Fixed
<1>1. CASE Post
  <2> DEFINE end == IF offset + BatchSize < written THEN offset + BatchSize ELSE written
  <2>1. /\ asked' = <<offset, end>> /\ calls' = calls \union {<<offset, end>>}
        /\ offset < written /\ UNCHANGED journal /\ UNCHANGED <<offset, saved>>
    BY <1>1 DEF Post
  <2>2. IsBatch(<<offset, end>>)
    BY <1>a, <2>1 DEF IsBatch
  <2> QED
    BY <2>1, <2>2 DEF journal, Journaled, Known
<1>2. CASE Acknowledged
  <2>1. /\ Handle(asked) /\ asked \in calls /\ pc' # "waiting" /\ saved' = saved
        /\ offset' \in {offset, asked[2]}
    BY <1>2 DEF Acknowledged, Handle
  <2>2. Cut(asked[2])
    BY <1>a, <2>1, BatchEndsAtCut
  <2> QED
    BY <2>1, <2>2, HandleKeepsBatches DEF IInv
<1>3. ASSUME NEW r \in calls, Unheard(r) PROVE BatchInv'
  <2>1. Handle(r) /\ UNCHANGED sensor
    BY <1>3 DEF Unheard
  <2> QED
    BY <1>3, <2>1, HandleKeepsBatches DEF IInv, sensor
<1>4. ASSUME NEW r \in calls, Lose(r) PROVE BatchInv'
  BY <1>4 DEF Lose, sensor, journal, Journaled, Known
<1>5. CASE PostFails \/ SaveOffset \/ SaveFails \/ Crash
  BY <1>5 DEF PostFails, SaveOffset, SaveFails, Crash, journal, Journaled, Known
<1>6. CASE UNCHANGED vars
  BY <1>6 DEF vars, sensor, journal, Journaled, Known
<1> QED
  BY <1>b, <1>1, <1>2, <1>3, <1>4, <1>5, <1>6 DEF Next

LEMMA InitBatchInv == Init => BatchInv
<1> SUFFICES ASSUME Init PROVE BatchInv
  OBVIOUS
<1>1. Cut(0)
  <2>1. 0 = 0 * BatchSize
    BY SensorAssumption, EventAssumption
  <2> QED
    BY <2>1 DEF Cut
<1> QED
  BY <1>1 DEF Init, JournalInit, BatchInv, Journaled

\* The lines of a batch are counted by their events.
LEMMA BatchCounted ==
  ASSUME FileHolds, NEW r \in Requests, IsBatch(r)
  PROVE  Cardinality(Content(r)) = r[2] - r[1]
<1> DEFINE L == (r[1] + 1)..r[2]
           f == [i \in L |-> Line[i]]
<1>1. r[1] \in Nat /\ r[2] \in Nat /\ r[1] < r[2]
  BY BatchLines, BatchEndsAtCut
<1>2. f \in Bijection(L, Content(r))
  <2>1. \A i, j \in L : f[i] = f[j] => i = j
    BY BatchLines
  <2>2. \A e \in Content(r) : \E i \in L : f[i] = e
    BY DEF Content
  <2>3. f \in [L -> Content(r)]
    BY DEF Content
  <2> QED
    BY <2>1, <2>2, <2>3 DEF Bijection, Injection, Surjection, IsInjective
<1>3. IsFiniteSet(L) /\ Cardinality(L) = r[2] - r[1]
  <2>1. ASSUME NEW m \in Int, NEW n \in Int, m <= n
        PROVE  IsFiniteSet(m..n) /\ Cardinality(m..n) = n - m + 1
    BY <2>1, FS_Interval
  <2> DEFINE m == r[1] + 1
             n == r[2]
  <2>2. m \in Int /\ n \in Int /\ m <= n /\ n - m + 1 = r[2] - r[1] /\ L = m..n
    BY <1>1
  <2> HIDE DEF L, m, n
  <2> QED
    BY <2>1, <2>2
<1>4. Cardinality(Content(r)) = Cardinality(L)
  <2>1. ExistsBijection(L, Content(r))
    BY <1>2 DEF ExistsBijection
  <2> HIDE DEF L
  <2> QED
    BY <1>3, <2>1, FS_Bijection
<1> QED
  BY <1>3, <1>4

\* The answer to a request of the sensor accounts for all of its events and is
\* accepted, in a file that has not grown since the sensor found it.
AnswerIsComplete ==
  Fixed /\ pc = "waiting" =>
    /\ ~ Rejected(asked, Content(asked))
    /\ Cardinality(Accounted(asked)) = asked[2] - asked[1]

\* The safety half of FixedFileShipped, for any file, any batch size and any lost
\* calls, slow calls and restarts: a retry never meets a request that overlaps it, so
\* each answer that arrives moves the offset (in a file that grows it need not: a
\* replay of an event of an earlier request is not in the count).
THEOREM FixedFileIsAccounted == FileHolds => (Spec => []AnswerIsComplete)
<1> SUFFICES ASSUME FileHolds PROVE Spec => []AnswerIsComplete
  OBVIOUS
<1>1. Init => (Fixed => BatchInv)
  BY InitBatchInv
<1>2. IInv /\ (Fixed => BatchInv) /\ [Next]_vars => (Fixed => BatchInv)'
  BY NextBatchInv
<1>3. IInv /\ (Fixed => BatchInv) => AnswerIsComplete
  <2> SUFFICES ASSUME IInv, BatchInv, Fixed, pc = "waiting"
               PROVE  /\ ~ Rejected(asked, Content(asked))
                      /\ Cardinality(Accounted(asked)) = asked[2] - asked[1]
    BY DEF AnswerIsComplete
  <2>1. asked \in Requests /\ IsBatch(asked)
    BY DEF IInv, Asking, BatchInv
  <2>2. Accounted(asked) = Content(asked)
    BY DEF Accounted, BatchInv
  <2> QED
    BY <2>1, <2>2, BatchIsFresh, BatchCounted DEF IInv
<1> QED
  BY <1>1, <1>2, <1>3, InductiveInvariant, PTL DEF Spec
=============================================================================

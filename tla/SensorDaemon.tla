---------------------------- MODULE SensorDaemon ----------------------------
(***************************************************************************)
(* The rehearsal sensor, src/rehearsal/sensor_daemon.py, and the ingress   *)
(* side of the connector it posts to.                                      *)
(*                                                                         *)
(* The sensor reads complete lines of a file that grows, from its offset,  *)
(* at most BatchSize at a time, posts them as one request, and moves its   *)
(* offset, in memory and then on disk, when the acknowledgement accounts   *)
(* for every event.  Otherwise it reads again from the same offset.  The   *)
(* request id is a digest of the offset and the events, so it is the pair  *)
(* <<offset, end>> here: the id changes when the file has grown.           *)
(***************************************************************************)
EXTENDS ConnectorJournal, Sequences

CONSTANTS Line,          \* the lines of the file, in the order they are written
          InitialLines,  \* lines that are there when the sensor first starts
          BatchSize,     \* --batch-size
          MaxFailures,   \* bound of the model: lost calls, lost answers, 503
          MaxCrashes     \* bound of the model: restarts of the sensor

ASSUME SensorAssumption ==
  /\ Line \in Seq(Events)
  /\ InitialLines \in 0..Len(Line)
  /\ BatchSize \in 1..MaxEvents
  /\ Requests = (0..Len(Line)) \X (0..Len(Line))
  /\ MaxFailures \in Nat /\ MaxCrashes \in Nat

VARIABLES
  written,    \* complete lines in the file
  offset,     \* offset of the running sensor, in lines
  saved,      \* byte_offset of the checkpoint file
  pc,         \* where the sensor is in its loop
  asked,      \* the request it has posted
  calls,      \* requests on the network or in a handler that waits for a lock
  failures, crashes

sensor == <<written, offset, saved, pc, asked>>
vars == <<journal, sensor, calls, failures, crashes>>

Init ==
  /\ JournalInit
  /\ written = InitialLines
  /\ offset = 0 /\ saved = 0
  /\ pc = "read"
  /\ asked = NoRequest
  /\ calls = {}
  /\ failures = 0 /\ crashes = 0

TypeOK ==
  /\ JournalTypeOK({})
  /\ written \in InitialLines..Len(Line)
  /\ offset \in 0..Len(Line)
  /\ saved \in 0..Len(Line)
  /\ pc \in {"read", "waiting", "save"}
  /\ asked \in Requests \union {NoRequest}
  /\ calls \in SUBSET Requests
  /\ failures \in 0..MaxFailures
  /\ crashes \in 0..MaxCrashes
-----------------------------------------------------------------------------
\* The events of a request.
Content(r) == {Line[i] : i \in (r[1] + 1)..r[2]}

\* The processor of the capture windows appends canonical events.
WriteLine ==
  /\ written < Len(Line)
  /\ written' = written + 1
  /\ UNCHANGED <<journal, offset, saved, pc, asked, calls, failures, crashes>>

\* _lines_from() and the post.
Post ==
  /\ pc = "read"
  /\ offset < written
  /\ LET end == IF offset + BatchSize < written THEN offset + BatchSize ELSE written
     IN  /\ asked' = <<offset, end>>
         /\ calls' = calls \union {<<offset, end>>}
  /\ pc' = "waiting"
  /\ UNCHANGED <<journal, written, offset, saved, failures, crashes>>

\* Mutant of Accounted: a replay lists nothing.
AccountedOnce(r) == IF r \in commits THEN {} ELSE Content(r)

\* What the handler's acknowledgement accounts for: every event of a request
\* it commits now, only the rows the request created when it is a replay.
Accounted(r) == IF r \in commits THEN Known(r) ELSE Content(r)

\* The connector appends a request, or finds it committed, or refuses it.
Handle(r) ==
  /\ r \in calls
  /\ calls' = calls \ {r}
  /\ IF r \in commits \/ Rejected(r, Content(r))
     THEN UNCHANGED journal
     ELSE AppendRequest(r, Content(r))

\* Mutant of Acknowledged: any answer moves the offset.
AcknowledgedUnchecked ==
  /\ pc = "waiting"
  /\ Handle(asked)
  /\ offset' = asked[2]
  /\ pc' = "save"
  /\ asked' = NoRequest
  /\ UNCHANGED <<written, saved, failures, crashes>>

\* The sensor gets the acknowledgement, and accepts it if it is complete.
Acknowledged ==
  /\ pc = "waiting"
  /\ Handle(asked)
  /\ LET complete == /\ ~ Rejected(asked, Content(asked))
                     /\ Cardinality(Accounted(asked)) = asked[2] - asked[1]
     IN  IF complete
         THEN offset' = asked[2] /\ pc' = "save"
         ELSE pc' = "read" /\ UNCHANGED offset
  /\ asked' = NoRequest
  /\ UNCHANGED <<written, saved, failures, crashes>>

\* The request is handled but the sensor is not told: the connection or the
\* connector fails after the commit, the queue is full and the answer is 503,
\* or the sensor has stopped waiting.
Unheard(r) ==
  /\ Handle(r)
  /\ IF pc = "waiting" /\ asked = r
     THEN failures < MaxFailures /\ failures' = failures + 1
     ELSE UNCHANGED failures
  /\ UNCHANGED <<sensor, crashes>>

Lose(r) ==
  /\ r \in calls
  /\ failures < MaxFailures
  /\ failures' = failures + 1
  /\ calls' = calls \ {r}
  /\ UNCHANGED <<journal, sensor, crashes>>

\* The post fails or times out; a call that is only slow stays in calls.
PostFails ==
  /\ pc = "waiting"
  /\ IF asked \in calls
     THEN failures < MaxFailures /\ failures' = failures + 1
     ELSE UNCHANGED failures
  /\ pc' = "read"
  /\ asked' = NoRequest
  /\ UNCHANGED <<journal, written, offset, saved, calls, crashes>>

\* write_json() of the checkpoint, an atomic replace.
SaveOffset ==
  /\ pc = "save"
  /\ saved' = offset
  /\ pc' = "read"
  /\ UNCHANGED <<journal, written, offset, asked, calls, failures, crashes>>

\* The checkpoint cannot be written: OSError is caught, the offset has moved.
SaveFails ==
  /\ pc = "save"
  /\ failures < MaxFailures
  /\ failures' = failures + 1
  /\ pc' = "read"
  /\ UNCHANGED <<journal, written, offset, saved, asked, calls, crashes>>

\* The sensor restarts from its checkpoint file.
Crash ==
  /\ crashes < MaxCrashes
  /\ crashes' = crashes + 1
  /\ offset' = saved
  /\ pc' = "read"
  /\ asked' = NoRequest
  /\ UNCHANGED <<journal, written, saved, calls, failures>>

Next ==
  \/ WriteLine
  \/ Post
  \/ Acknowledged
  \/ \E r \in calls : Unheard(r) \/ Lose(r)
  \/ PostFails
  \/ SaveOffset
  \/ SaveFails
  \/ Crash

Spec == Init /\ [][Next]_vars

\* The sensor loop runs, and the connector answers unless something fails.
Fairness ==
  /\ WF_vars(Post)
  /\ WF_vars(Acknowledged \/ PostFails)
  /\ WF_vars(SaveOffset \/ SaveFails)

FairSpec == Spec /\ Fairness
-----------------------------------------------------------------------------
(* Properties *)

\* The sensor never moves past an event the connector does not hold, in memory
\* or on disk, although it only compares the number of events acknowledged.
ShippedIsJournaled ==
  /\ saved <= offset /\ offset <= written
  /\ \A i \in 1..offset : Line[i] \in Journaled

\* The checkpoint on disk never moves back, whatever restarts in between.
CheckpointMonotone == [][saved' >= saved]_vars

\* Every complete line is eventually behind the sensor's offset for good.
EveryLineShipped ==
  \A i \in 1..Len(Line) : (written >= i) ~> [](offset >= i)

\* The same of a file that does not grow any more: retries then ask again for
\* exactly the lines whose answer was lost.
FixedFileShipped == [](written = InitialLines) => EveryLineShipped
=============================================================================

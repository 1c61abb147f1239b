-------------------------- MODULE TaskRunnerProofs --------------------------
(***************************************************************************)
(* Theorems about the task runner, TaskRunner, for any runs and tasks, any *)
(* limit, both platforms and any number of ends of the console.            *)
(***************************************************************************)
EXTENDS TaskRunner, FiniteSetTheorems, TLAPS

\* The run ids in use.  There may be infinitely many that are not.
Started == {r \in Runs : child[r] # "none"}

\* A run that a thread, the handler or a row speaks of was started, and what
\* speaks of it in the console is a run of this console.
TypeInv ==
  /\ TypeOK
  /\ IsFiniteSet(Started)
  /\ parent \subseteq Started /\ asked \subseteq Started
  /\ \A r \in Runs : /\ status[r] # "none" => r \in Started
                     /\ wpc[r] # "none" => r \in parent
  /\ hpc # "idle" => hrun \in parent
  /\ hpc = "started" => wpc[hrun] = "none"
  /\ up \/ parent = {}

\* A live child of the console that nobody told to end has a running row, but for the
\* moments in which the one handler is about to write the row or to tell the child.
LiveInv ==
  /\ hpc = "started" => status[hrun] = "none"
  /\ \A r \in parent : child[r] = "alive" /\ r \notin asked =>
       status[r] = "running" \/ (hrun = r /\ hpc \in {"started", "kill"})

\* A verdict, and a row about to say "cancelled", are of a process that is gone or was
\* told to end.
TruthInv ==
  /\ \A r \in Runs : /\ verdict[r] # "none" => child[r] \in {"ok", "bad"} \/ r \in asked
                     /\ verdict[r] = "succeeded" => child[r] = "ok"
                     /\ verdict[r] = "failed" => child[r] = "bad"
  /\ \A r \in reaped : child[r] \in {"ok", "bad"}
  /\ hpc = "record" => child[hrun] \in {"ok", "bad"} \/ hrun \in asked
  /\ FinishedOrTold

\* Orphaned rows are of an earlier console, and a watcher writes its row once.
RowInv ==
  /\ \A r \in parent : status[r] # "orphaned"
  /\ \A r \in Runs : wpc[r] # "none" => status[r] \notin Verdicts

Inv == TypeInv /\ LiveInv /\ TruthInv /\ RowInv

LEMMA InitInv == Init => Inv /\ LiveWithinLimit
<1> SUFFICES ASSUME Init PROVE Inv /\ LiveWithinLimit
  OBVIOUS
<1>1. up \in BOOLEAN /\ stopping \in BOOLEAN
  BY Zenon DEF Init
<1>2. TypeOK
  BY <1>1, RunnerAssumption DEF Init, TypeOK
<1>3. Started = {} /\ IsFiniteSet(Started)
  <2>1. Started = {}
    BY DEF Init, Started
  <2> QED
    BY <2>1, FS_EmptySet
<1>4. TypeInv
  BY <1>2, <1>3 DEF Init, TypeInv
<1>5. LiveInv /\ TruthInv /\ RowInv
  BY DEF Init, LiveInv, TruthInv, RowInv, FinishedOrTold, Finished, Verdicts
<1>6. LiveWithinLimit
  <2>1. {r \in parent : child[r] = "alive"} \ asked = {}
    BY DEF Init
  <2> QED
    BY <2>1, FS_EmptySet, RunnerAssumption DEF Init, LiveWithinLimit
<1> QED
  BY <1>4, <1>5, <1>6 DEF Inv

\* _terminate() tells the process it is called for to end, and nobody takes that back.
LEMMA TerminateTells ==
  ASSUME TypeInv, NEW r \in parent, Terminate(r)
  PROVE  asked' \subseteq Started /\ asked \subseteq asked' /\ r \in asked'
BY DEF TypeInv, TypeOK, Terminate, Started

LEMMA NextTypeInv == TypeInv /\ [Next]_vars => TypeInv'
<1> SUFFICES ASSUME TypeInv, [Next]_vars PROVE TypeInv'
  OBVIOUS
<1> USE DEF TypeInv, TypeOK, fixed, os, watcher, handler, console
<1>1. ASSUME Start PROVE TypeInv'
  <2>1. up' \in BOOLEAN /\ stopping' \in BOOLEAN /\ (up' \/ parent' = {})
    BY <1>1, Zenon DEF Start, console
  <2>2. Started' = Started
    BY <1>1 DEF Start, Started
  <2>3. TypeOK'
    BY <1>1, <2>1, RunnerAssumption DEF Start, Verdicts, Finished
  <2> QED
    BY <1>1, <2>1, <2>2, <2>3 DEF Start
<1>2. ASSUME Exit PROVE TypeInv'
  <2>1. up' \in BOOLEAN /\ stopping' \in BOOLEAN /\ (up' \/ parent' = {})
    BY <1>2, Zenon DEF Exit, ConsoleEnds, HandlerDone, console
  <2>2. Started' = Started
    BY <1>2 DEF Exit, ConsoleEnds, HandlerDone, Started
  <2>3. TypeOK'
    BY <1>2, <2>1, RunnerAssumption DEF Exit, ConsoleEnds, HandlerDone, Verdicts, Finished
  <2> QED
    BY <1>2, <2>1, <2>2, <2>3 DEF Exit, ConsoleEnds, HandlerDone
<1>3. ASSUME Crash PROVE TypeInv'
  <2>1. up' \in BOOLEAN /\ stopping' \in BOOLEAN /\ (up' \/ parent' = {})
    BY <1>3, Zenon DEF Crash, ConsoleEnds, HandlerDone, console
  <2>2. Started' = Started
    BY <1>3 DEF Crash, ConsoleEnds, HandlerDone, Started
  <2>3. TypeOK'
    BY <1>3, <2>1, RunnerAssumption DEF Crash, ConsoleEnds, HandlerDone, Verdicts, Finished
  <2> QED
    BY <1>3, <2>1, <2>2, <2>3 DEF Crash, ConsoleEnds, HandlerDone
<1>4. ASSUME Insert PROVE TypeInv'
  <2>1. up' \in BOOLEAN /\ stopping' \in BOOLEAN /\ (up' \/ parent' = {})
    BY <1>4, Zenon DEF Insert, HandlerDone, console
  <2>2. Started' = Started
    BY <1>4 DEF Insert, Started
  <2>3. \A q \in Runs : (verdict'[q] = "none") = (wpc'[q] \in {"none", "wait", "late"})
    <3>1. verdict[hrun] = "none"
      BY <1>4 DEF Insert
    <3> QED
      BY <1>4, <3>1 DEF Insert
  <2>4. TypeOK'
    BY <1>4, <2>1, <2>3 DEF Insert, HandlerDone
  <2> QED
    BY <1>4, <2>1, <2>2, <2>4 DEF Insert, HandlerDone
<1>5. ASSUME MarkCancelling PROVE TypeInv'
  <2>1. up' \in BOOLEAN /\ stopping' \in BOOLEAN /\ (up' \/ parent' = {})
    BY <1>5, Zenon DEF MarkCancelling, console
  <2>2. Started' = Started
    BY <1>5 DEF MarkCancelling, Started
  <2>3. TypeOK'
    BY <1>5, <2>1, RunnerAssumption DEF MarkCancelling, Verdicts, Finished
  <2> QED
    BY <1>5, <2>1, <2>2, <2>3 DEF MarkCancelling
<1>6. ASSUME Kill PROVE TypeInv'
  <2>1. up' \in BOOLEAN /\ stopping' \in BOOLEAN /\ (up' \/ parent' = {})
    BY <1>6, Zenon DEF Kill, Terminate, console
  <2>2. hrun \in parent /\ Terminate(hrun)
    BY <1>6 DEF Kill
  <2>3. asked' \subseteq Runs /\ asked' \subseteq Started /\ Started' = Started
    BY <1>6, <2>2, TerminateTells DEF Kill, Started
  <2>4. \A q \in Runs : (verdict'[q] = "none") = (wpc'[q] \in {"none", "wait", "late"})
    BY <1>6 DEF Kill
  <2>5. verdict' \in [Runs -> {"none"} \union Verdicts] /\ wpc' \in [Runs -> {"none", "wait", "late", "ended", "popped", "write"}]
    BY <1>6 DEF Kill, Verdicts
  <2>6. TypeOK'
    BY <1>6, <2>1, <2>3, <2>4, <2>5 DEF Kill
  <2> QED
    BY <1>6, <2>1, <2>3, <2>6 DEF Kill
<1>7. ASSUME KillFails PROVE TypeInv'
  <2>1. up' \in BOOLEAN /\ stopping' \in BOOLEAN /\ (up' \/ parent' = {})
    BY <1>7, Zenon DEF KillFails, HandlerDone, console
  <2>2. Started' = Started
    BY <1>7 DEF KillFails, HandlerDone, Started
  <2>3. TypeOK'
    BY <1>7, <2>1, RunnerAssumption DEF KillFails, HandlerDone, Verdicts, Finished
  <2> QED
    BY <1>7, <2>1, <2>2, <2>3 DEF KillFails, HandlerDone
<1>8. ASSUME RecordCancelled PROVE TypeInv'
  <2>1. up' \in BOOLEAN /\ stopping' \in BOOLEAN /\ (up' \/ parent' = {})
    BY <1>8, Zenon DEF RecordCancelled, HandlerDone, console
  <2>2. Started' = Started
    BY <1>8 DEF RecordCancelled, HandlerDone, Started
  <2>3. TypeOK'
    BY <1>8, <2>1, RunnerAssumption DEF RecordCancelled, HandlerDone, Verdicts, Finished
  <2> QED
    BY <1>8, <2>1, <2>2, <2>3 DEF RecordCancelled, HandlerDone
<1>9. ASSUME NEW r \in Runs, NEW t \in Tasks, Run(r, t) PROVE TypeInv'
  <2>1. up' \in BOOLEAN /\ stopping' \in BOOLEAN /\ (up' \/ parent' = {})
    BY <1>9, Zenon DEF Run, console
  <2>2. Started' = Started \union {r}
    BY <1>9 DEF Run, Started
  <2>3. IsFiniteSet(Started')
    BY <2>2, FS_AddElement
  <2>4. TypeOK'
    BY <1>9, <2>1, RunnerAssumption DEF Run
  <2>5. r \notin parent /\ wpc[r] = "none"
    BY <1>9 DEF Run, Started
  <2>6. hpc' = "started" /\ hrun' = r /\ parent' = parent \union {r} /\ UNCHANGED <<status, wpc, asked>>
    BY <1>9 DEF Run
  <2> QED
    BY <2>1, <2>2, <2>3, <2>4, <2>5, <2>6
<1>10. ASSUME NEW r \in Runs, Cancel(r) PROVE TypeInv'
  <2>1. up' \in BOOLEAN /\ stopping' \in BOOLEAN /\ (up' \/ parent' = {})
    BY <1>10, Zenon DEF Cancel, console
  <2>2. Started' = Started
    BY <1>10 DEF Cancel, Started
  <2>3. TypeOK'
    BY <1>10, <2>1, RunnerAssumption DEF Cancel, Verdicts, Finished
  <2> QED
    BY <1>10, <2>1, <2>2, <2>3 DEF Cancel
<1>11. ASSUME NEW r \in Runs, ChildExits(r) PROVE TypeInv'
  <2>1. up' \in BOOLEAN /\ stopping' \in BOOLEAN /\ (up' \/ parent' = {})
    BY <1>11, Zenon DEF ChildExits, console
  <2>2. child' \in [Runs -> {"none", "alive", "ok", "bad"}] /\ Started' = Started
    BY <1>11 DEF ChildExits, Started
  <2>3. TypeOK'
    BY <1>11, <2>1, <2>2 DEF ChildExits
  <2> QED
    BY <1>11, <2>1, <2>2, <2>3 DEF ChildExits
<1>12. ASSUME NEW r \in Runs, Reap(r) PROVE TypeInv'
  <2>1. up' \in BOOLEAN /\ stopping' \in BOOLEAN /\ (up' \/ parent' = {})
    BY <1>12, Zenon DEF Reap, console
  <2>2. Started' = Started
    BY <1>12 DEF Reap, Started
  <2>3. TypeOK'
    BY <1>12, <2>1, RunnerAssumption DEF Reap, Verdicts, Finished
  <2> QED
    BY <1>12, <2>1, <2>2, <2>3 DEF Reap
<1>13. ASSUME NEW r \in Runs, Expire(r) PROVE TypeInv'
  <2>1. up' \in BOOLEAN /\ stopping' \in BOOLEAN /\ (up' \/ parent' = {})
    BY <1>13, Zenon DEF Expire, console
  <2>2. Started' = Started
    BY <1>13 DEF Expire, Started
  <2>3. TypeOK'
    BY <1>13, <2>1, RunnerAssumption DEF Expire, Verdicts, Finished
  <2> QED
    BY <1>13, <2>1, <2>2, <2>3 DEF Expire
<1>14. ASSUME NEW r \in Runs, KillLate(r) PROVE TypeInv'
  <2>1. up' \in BOOLEAN /\ stopping' \in BOOLEAN /\ (up' \/ parent' = {})
    BY <1>14, Zenon DEF KillLate, Terminate, console
  <2>2. r \in parent /\ Terminate(r)
    BY <1>14 DEF KillLate
  <2>3. asked' \subseteq Runs /\ asked' \subseteq Started /\ Started' = Started
    BY <1>14, <2>2, TerminateTells DEF KillLate, Started
  <2>4. \A q \in Runs : (verdict'[q] = "none") = (wpc'[q] \in {"none", "wait", "late"})
    BY <1>14 DEF KillLate
  <2>5. verdict' \in [Runs -> {"none"} \union Verdicts] /\ wpc' \in [Runs -> {"none", "wait", "late", "ended", "popped", "write"}]
    BY <1>14 DEF KillLate, Verdicts
  <2>6. TypeOK'
    BY <1>14, <2>1, <2>3, <2>4, <2>5 DEF KillLate
  <2> QED
    BY <1>14, <2>1, <2>3, <2>6 DEF KillLate
<1>15. ASSUME NEW r \in Runs, Pop(r) PROVE TypeInv'
  <2>1. up' \in BOOLEAN /\ stopping' \in BOOLEAN /\ (up' \/ parent' = {})
    BY <1>15, Zenon DEF Pop, console
  <2>2. Started' = Started
    BY <1>15 DEF Pop, Started
  <2>3. TypeOK'
    BY <1>15, <2>1, RunnerAssumption DEF Pop, Verdicts, Finished
  <2> QED
    BY <1>15, <2>1, <2>2, <2>3 DEF Pop
<1>16. ASSUME NEW r \in Runs, ReadRow(r) PROVE TypeInv'
  <2>1. up' \in BOOLEAN /\ stopping' \in BOOLEAN /\ (up' \/ parent' = {})
    BY <1>16, Zenon DEF ReadRow, ThreadEnds, console
  <2>2. Started' = Started
    BY <1>16 DEF ReadRow, ThreadEnds, Started
  <2>3. TypeOK'
    BY <1>16, <2>1, RunnerAssumption DEF ReadRow, ThreadEnds, Verdicts, Finished
  <2> QED
    BY <1>16, <2>1, <2>2, <2>3 DEF ReadRow, ThreadEnds
<1>17. ASSUME NEW r \in Runs, WriteRow(r) PROVE TypeInv'
  <2>1. up' \in BOOLEAN /\ stopping' \in BOOLEAN /\ (up' \/ parent' = {})
    BY <1>17, Zenon DEF WriteRow, ThreadEnds, console
  <2>2. Started' = Started
    BY <1>17 DEF WriteRow, ThreadEnds, Started
  <2>3. TypeOK'
    BY <1>17, <2>1, RunnerAssumption DEF WriteRow, ThreadEnds, Verdicts, Finished
  <2> QED
    BY <1>17, <2>1, <2>2, <2>3 DEF WriteRow, ThreadEnds
<1>18. CASE UNCHANGED vars
  <2>1. up' \in BOOLEAN /\ stopping' \in BOOLEAN /\ (up' \/ parent' = {})
    BY <1>18, Zenon DEF vars, console
  <2>2. Started' = Started
    BY <1>18 DEF vars, Started
  <2>3. TypeOK'
    BY <1>18, <2>1, RunnerAssumption DEF vars, Verdicts, Finished
  <2> QED
    BY <1>18, <2>1, <2>2, <2>3 DEF vars
<1> QED
  BY <1>1, <1>2, <1>3, <1>4, <1>5, <1>6, <1>7, <1>8, <1>9, <1>10, <1>11, <1>12, <1>13, <1>14, <1>15, <1>16, <1>17, <1>18 DEF Next, HandlerStep, WatcherStep

LEMMA NextLiveInv == TypeInv /\ LiveInv /\ TruthInv /\ [Next]_vars => LiveInv'
<1> SUFFICES ASSUME TypeInv, LiveInv, TruthInv, [Next]_vars PROVE LiveInv'
  OBVIOUS
<1> USE DEF TypeInv, TypeOK, LiveInv, TruthInv, Started, fixed, os, watcher, handler, console
<1>1. ASSUME Start PROVE LiveInv'
  BY <1>1 DEF Start
<1>2. ASSUME Exit PROVE LiveInv'
  BY <1>2 DEF Exit, ConsoleEnds, HandlerDone
<1>3. ASSUME Crash PROVE LiveInv'
  BY <1>3 DEF Crash, ConsoleEnds, HandlerDone
<1>4. ASSUME Insert PROVE LiveInv'
  BY <1>4 DEF Insert, HandlerDone
<1>5. ASSUME MarkCancelling PROVE LiveInv'
  BY <1>5 DEF MarkCancelling
<1>6. ASSUME Kill PROVE LiveInv'
  <2>1. hrun \in parent /\ Terminate(hrun)
    BY <1>6 DEF Kill
  <2> QED
    BY <1>6, <2>1, TerminateTells DEF Kill
<1>7. ASSUME KillFails PROVE LiveInv'
  BY <1>7 DEF KillFails, HandlerDone
<1>8. ASSUME RecordCancelled PROVE LiveInv'
  BY <1>8 DEF RecordCancelled, HandlerDone
<1>9. ASSUME NEW r \in Runs, NEW t \in Tasks, Run(r, t) PROVE LiveInv'
  BY <1>9 DEF Run
<1>10. ASSUME NEW r \in Runs, Cancel(r) PROVE LiveInv'
  BY <1>10 DEF Cancel
<1>11. ASSUME NEW r \in Runs, ChildExits(r) PROVE LiveInv'
  BY <1>11 DEF ChildExits
<1>12. ASSUME NEW r \in Runs, Reap(r) PROVE LiveInv'
  BY <1>12 DEF Reap
<1>13. ASSUME NEW r \in Runs, Expire(r) PROVE LiveInv'
  BY <1>13 DEF Expire
<1>14. ASSUME NEW r \in Runs, KillLate(r) PROVE LiveInv'
  <2>1. r \in parent /\ Terminate(r)
    BY <1>14 DEF KillLate
  <2> QED
    BY <1>14, <2>1, TerminateTells DEF KillLate
<1>15. ASSUME NEW r \in Runs, Pop(r) PROVE LiveInv'
  BY <1>15 DEF Pop
<1>16. ASSUME NEW r \in Runs, ReadRow(r) PROVE LiveInv'
  BY <1>16 DEF ReadRow, ThreadEnds
<1>17. ASSUME NEW r \in Runs, WriteRow(r) PROVE LiveInv'
  BY <1>17 DEF WriteRow, ThreadEnds
<1>18. CASE UNCHANGED vars
  BY <1>18 DEF vars
<1> QED
  BY <1>1, <1>2, <1>3, <1>4, <1>5, <1>6, <1>7, <1>8, <1>9, <1>10, <1>11, <1>12, <1>13, <1>14, <1>15, <1>16, <1>17, <1>18 DEF Next, HandlerStep, WatcherStep

LEMMA NextTruthInv == TypeInv /\ TruthInv /\ [Next]_vars => TruthInv'
<1> SUFFICES ASSUME TypeInv, TruthInv, [Next]_vars PROVE TruthInv'
  OBVIOUS
<1> USE DEF TypeInv, TypeOK, TruthInv, Started, fixed, os, watcher, handler, console
<1>1. ASSUME Start PROVE TruthInv'
  BY <1>1 DEF Start, FinishedOrTold, Finished, Verdicts
<1>2. ASSUME Exit PROVE TruthInv'
  BY <1>2 DEF Exit, ConsoleEnds, HandlerDone, FinishedOrTold, Finished, Verdicts
<1>3. ASSUME Crash PROVE TruthInv'
  BY <1>3 DEF Crash, ConsoleEnds, HandlerDone, FinishedOrTold, Finished, Verdicts
<1>4. ASSUME Insert PROVE TruthInv'
  BY <1>4 DEF Insert, HandlerDone, FinishedOrTold, Finished, Verdicts
<1>5. ASSUME MarkCancelling PROVE TruthInv'
  BY <1>5 DEF MarkCancelling, FinishedOrTold, Finished, Verdicts
<1>6. ASSUME Kill PROVE TruthInv'
  BY <1>6 DEF Kill, Terminate, FinishedOrTold, Finished, Verdicts
<1>7. ASSUME KillFails PROVE TruthInv'
  BY <1>7 DEF KillFails, HandlerDone, FinishedOrTold, Finished, Verdicts
<1>8. ASSUME RecordCancelled PROVE TruthInv'
  BY <1>8 DEF RecordCancelled, HandlerDone, FinishedOrTold, Finished, Verdicts
<1>9. ASSUME NEW r \in Runs, NEW t \in Tasks, Run(r, t) PROVE TruthInv'
  BY <1>9 DEF Run, FinishedOrTold, Finished, Verdicts
<1>10. ASSUME NEW r \in Runs, Cancel(r) PROVE TruthInv'
  BY <1>10 DEF Cancel, FinishedOrTold, Finished, Verdicts
<1>11. ASSUME NEW r \in Runs, ChildExits(r) PROVE TruthInv'
  BY <1>11 DEF ChildExits, FinishedOrTold, Finished, Verdicts
<1>12. ASSUME NEW r \in Runs, Reap(r) PROVE TruthInv'
  BY <1>12 DEF Reap, FinishedOrTold, Finished, Verdicts
<1>13. ASSUME NEW r \in Runs, Expire(r) PROVE TruthInv'
  BY <1>13 DEF Expire, FinishedOrTold, Finished, Verdicts
<1>14. ASSUME NEW r \in Runs, KillLate(r) PROVE TruthInv'
  BY <1>14 DEF KillLate, Terminate, FinishedOrTold, Finished, Verdicts
<1>15. ASSUME NEW r \in Runs, Pop(r) PROVE TruthInv'
  BY <1>15 DEF Pop, FinishedOrTold, Finished, Verdicts
<1>16. ASSUME NEW r \in Runs, ReadRow(r) PROVE TruthInv'
  BY <1>16 DEF ReadRow, ThreadEnds, FinishedOrTold, Finished, Verdicts
<1>17. ASSUME NEW r \in Runs, WriteRow(r) PROVE TruthInv'
  BY <1>17 DEF WriteRow, ThreadEnds, FinishedOrTold, Finished, Verdicts
<1>18. CASE UNCHANGED vars
  BY <1>18 DEF vars, FinishedOrTold, Finished, Verdicts
<1> QED
  BY <1>1, <1>2, <1>3, <1>4, <1>5, <1>6, <1>7, <1>8, <1>9, <1>10, <1>11, <1>12, <1>13, <1>14, <1>15, <1>16, <1>17, <1>18 DEF Next, HandlerStep, WatcherStep

LEMMA NextRowInv == TypeInv /\ LiveInv /\ RowInv /\ [Next]_vars => RowInv'
<1> SUFFICES ASSUME TypeInv, LiveInv, RowInv, [Next]_vars PROVE RowInv'
  OBVIOUS
<1> USE DEF TypeInv, TypeOK, LiveInv, RowInv, Started, fixed, os, watcher, handler, console
<1>1. ASSUME Start PROVE RowInv'
  BY <1>1 DEF Start, Verdicts
<1>2. ASSUME Exit PROVE RowInv'
  BY <1>2 DEF Exit, ConsoleEnds, HandlerDone, Verdicts
<1>3. ASSUME Crash PROVE RowInv'
  BY <1>3 DEF Crash, ConsoleEnds, HandlerDone, Verdicts
<1>4. ASSUME Insert PROVE RowInv'
  BY <1>4 DEF Insert, HandlerDone, Verdicts
<1>5. ASSUME MarkCancelling PROVE RowInv'
  BY <1>5 DEF MarkCancelling, Verdicts
<1>6. ASSUME Kill PROVE RowInv'
  BY <1>6 DEF Kill, Terminate, Verdicts
<1>7. ASSUME KillFails PROVE RowInv'
  BY <1>7 DEF KillFails, HandlerDone, Verdicts
<1>8. ASSUME RecordCancelled PROVE RowInv'
  BY <1>8 DEF RecordCancelled, HandlerDone, Verdicts
<1>9. ASSUME NEW r \in Runs, NEW t \in Tasks, Run(r, t) PROVE RowInv'
  BY <1>9 DEF Run, Verdicts
<1>10. ASSUME NEW r \in Runs, Cancel(r) PROVE RowInv'
  BY <1>10 DEF Cancel, Verdicts
<1>11. ASSUME NEW r \in Runs, ChildExits(r) PROVE RowInv'
  BY <1>11 DEF ChildExits, Verdicts
<1>12. ASSUME NEW r \in Runs, Reap(r) PROVE RowInv'
  BY <1>12 DEF Reap, Verdicts
<1>13. ASSUME NEW r \in Runs, Expire(r) PROVE RowInv'
  BY <1>13 DEF Expire, Verdicts
<1>14. ASSUME NEW r \in Runs, KillLate(r) PROVE RowInv'
  BY <1>14 DEF KillLate, Terminate, Verdicts
<1>15. ASSUME NEW r \in Runs, Pop(r) PROVE RowInv'
  BY <1>15 DEF Pop, Verdicts
<1>16. ASSUME NEW r \in Runs, ReadRow(r) PROVE RowInv'
  BY <1>16 DEF ReadRow, ThreadEnds, Verdicts
<1>17. ASSUME NEW r \in Runs, WriteRow(r) PROVE RowInv'
  BY <1>17 DEF WriteRow, ThreadEnds, Verdicts
<1>18. CASE UNCHANGED vars
  BY <1>18 DEF vars, Verdicts
<1> QED
  BY <1>1, <1>2, <1>3, <1>4, <1>5, <1>6, <1>7, <1>8, <1>9, <1>10, <1>11, <1>12, <1>13, <1>14, <1>15, <1>16, <1>17, <1>18 DEF Next, HandlerStep, WatcherStep

LEMMA InductiveInvariant == Spec => []Inv
<1>1. Init => Inv
  BY InitInv
<1>2. Inv /\ [Next]_vars => Inv'
  BY NextTypeInv, NextLiveInv, NextTruthInv, NextRowInv DEF Inv
<1> QED
  BY <1>1, <1>2, PTL DEF Spec

\* Every variable keeps its type; a thread has a verdict exactly when it is past
\* wait(), and the handler has a run exactly when a request is in progress.
THEOREM TypeCorrect == Spec => []TypeOK
<1>1. Inv => TypeOK
  BY DEF Inv, TypeInv
<1> QED
  BY <1>1, InductiveInvariant, PTL

\* What rows claim: succeeded and failed are what an exit code said, and a run that is
\* reported as timed out or cancelled has no process, or one that was told to end.
THEOREM RowsAreSupported == Spec => []FinishedOrTold
<1>1. Inv => FinishedOrTold
  BY DEF Inv, TruthInv
<1> QED
  BY <1>1, InductiveInvariant, PTL

\* What happened to a run, as the next state sees it.
OutcomeStep ==
  \A r \in Runs :
    /\ status[r] = "orphaned" => status'[r] = "orphaned"
    /\ status[r] \in Verdicts => status'[r] \in {status[r], "cancelled"}
    /\ status[r] = "cancelled" => status'[r] \in Finished

LEMMA NextOutcome == Inv /\ [Next]_vars => OutcomeStep
<1> SUFFICES ASSUME Inv, [Next]_vars PROVE OutcomeStep
  OBVIOUS
<1> USE DEF Inv, TypeInv, TypeOK, LiveInv, RowInv, OutcomeStep, Verdicts, Finished, fixed, os, watcher, handler, console
<1>1. ASSUME Start PROVE OutcomeStep
  BY <1>1 DEF Start
<1>2. ASSUME Exit PROVE OutcomeStep
  BY <1>2 DEF Exit, ConsoleEnds, HandlerDone
<1>3. ASSUME Crash PROVE OutcomeStep
  BY <1>3 DEF Crash, ConsoleEnds, HandlerDone
<1>4. ASSUME Insert PROVE OutcomeStep
  BY <1>4 DEF Insert, HandlerDone
<1>5. ASSUME MarkCancelling PROVE OutcomeStep
  BY <1>5 DEF MarkCancelling
<1>6. ASSUME Kill PROVE OutcomeStep
  BY <1>6 DEF Kill, Terminate
<1>7. ASSUME KillFails PROVE OutcomeStep
  BY <1>7 DEF KillFails, HandlerDone
<1>8. ASSUME RecordCancelled PROVE OutcomeStep
  BY <1>8 DEF RecordCancelled, HandlerDone
<1>9. ASSUME NEW r \in Runs, NEW t \in Tasks, Run(r, t) PROVE OutcomeStep
  BY <1>9 DEF Run
<1>10. ASSUME NEW r \in Runs, Cancel(r) PROVE OutcomeStep
  BY <1>10 DEF Cancel
<1>11. ASSUME NEW r \in Runs, ChildExits(r) PROVE OutcomeStep
  BY <1>11 DEF ChildExits
<1>12. ASSUME NEW r \in Runs, Reap(r) PROVE OutcomeStep
  BY <1>12 DEF Reap
<1>13. ASSUME NEW r \in Runs, Expire(r) PROVE OutcomeStep
  BY <1>13 DEF Expire
<1>14. ASSUME NEW r \in Runs, KillLate(r) PROVE OutcomeStep
  BY <1>14 DEF KillLate, Terminate
<1>15. ASSUME NEW r \in Runs, Pop(r) PROVE OutcomeStep
  BY <1>15 DEF Pop
<1>16. ASSUME NEW r \in Runs, ReadRow(r) PROVE OutcomeStep
  BY <1>16 DEF ReadRow, ThreadEnds
<1>17. ASSUME NEW r \in Runs, WriteRow(r) PROVE OutcomeStep
  BY <1>17 DEF WriteRow, ThreadEnds
<1>18. CASE UNCHANGED vars
  BY <1>18 DEF vars
<1> QED
  BY <1>1, <1>2, <1>3, <1>4, <1>5, <1>6, <1>7, <1>8, <1>9, <1>10, <1>11, <1>12, <1>13, <1>14, <1>15, <1>16, <1>17, <1>18 DEF Next, HandlerStep, WatcherStep

\* The outcome of a run changes once at most: orphaned rows stay, and nothing
\* that ended runs or is being cancelled again.
THEOREM OutcomesStay == Spec => OutcomeStays
<1>1. Inv /\ [Next]_vars => [OutcomeStep]_vars
  BY NextOutcome
<1>2. [OutcomeStep]_vars <=> [\A r \in Runs :
       /\ status[r] = "orphaned" => status'[r] = "orphaned"
       /\ status[r] \in Verdicts => status'[r] \in {status[r], "cancelled"}
       /\ status[r] = "cancelled" => status'[r] \in Finished]_vars
  BY DEF OutcomeStep
<1> QED
  BY <1>1, <1>2, InductiveInvariant, PTL DEF Spec, OutcomeStays
-----------------------------------------------------------------------------
(* The limit is checked against rows and holds of the processes left       *)
(* running.                                                                *)

\* The children of the running console that are alive and were not told to end.
Alive == {r \in parent : child[r] = "alive"} \ asked

LEMMA AliveIsFinite ==
  ASSUME TypeInv
  PROVE  IsFiniteSet(Alive) /\ Cardinality(Alive) \in Nat
<1>1. Alive \subseteq Started
  BY DEF TypeInv, Alive
<1> QED
  BY <1>1, FS_Subset, FS_CardinalityType DEF TypeInv

\* Fewer live children keep what holds of more.
LEMMA FewerAlive ==
  ASSUME TypeInv, LiveWithinLimit, Alive' \subseteq Alive,
         maxParallel' = maxParallel, task' = task
  PROVE  LiveWithinLimit'
<1>1. Cardinality(Alive') <= Cardinality(Alive) /\ Cardinality(Alive') \in Nat
  BY AliveIsFinite, FS_Subset, FS_CardinalityType
<1>2. maxParallel \in Nat
  BY RunnerAssumption DEF TypeInv, TypeOK
<1>3. Cardinality(Alive') <= maxParallel'
  BY <1>1, <1>2, AliveIsFinite DEF LiveWithinLimit, Alive
<1>4. \A q, r \in Alive' : q # r /\ task'[q] = task'[r] => Group[task'[r]] = NoGroup
  BY DEF LiveWithinLimit, Alive
<1> QED
  BY <1>3, <1>4 DEF LiveWithinLimit, Alive

\* run() counts rows, and between two requests every child left running has one.
LEMMA RunKeepsLimit ==
  ASSUME TypeInv, LiveInv, LiveWithinLimit, NEW r \in Runs, NEW t \in Tasks, Run(r, t)
  PROVE  LiveWithinLimit'
<1> USE DEF TypeInv, TypeOK
<1>1. Alive \subseteq Running /\ Running \subseteq Started
  BY DEF Run, LiveInv, Alive, Running
<1>2. Cardinality(Alive) <= Cardinality(Running) /\ Cardinality(Running) \in Nat
  BY <1>1, FS_Subset, FS_CardinalityType
<1>3. Alive' = Alive \union {r} /\ r \notin Alive /\ r \notin Started
  BY DEF Run, Alive, Started
<1>4. Cardinality(Alive') = Cardinality(Alive) + 1
  BY <1>3, AliveIsFinite, FS_AddElement
<1>5. maxParallel \in Nat /\ maxParallel' = maxParallel /\ Cardinality(Running) < maxParallel
  BY RunnerAssumption DEF Run, fixed
<1>6. Cardinality(Alive') <= maxParallel'
  BY <1>2, <1>4, <1>5, AliveIsFinite
<1>7. \A p \in Alive : task'[p] = task[p] /\ task'[r] = t
  BY <1>3 DEF Run, Alive, Started
<1>8. \A p \in Alive : task[p] = t => Group[t] = NoGroup
  BY <1>1 DEF Run, InConflict
<1>9. \A p, q \in Alive' : p # q /\ task'[p] = task'[q] => Group[task'[q]] = NoGroup
  <2>1. \A p, q \in Alive : p # q /\ task[p] = task[q] => Group[task[q]] = NoGroup
    BY DEF LiveWithinLimit, Alive
  <2> QED
    BY <1>3, <1>7, <1>8, <2>1
<1> QED
  BY <1>6, <1>9 DEF LiveWithinLimit, Alive

LEMMA NextWithinLimit == TypeInv /\ LiveInv /\ LiveWithinLimit /\ [Next]_vars => LiveWithinLimit'
<1> SUFFICES ASSUME TypeInv, LiveInv, LiveWithinLimit, [Next]_vars PROVE LiveWithinLimit'
  OBVIOUS
<1> USE DEF fixed, os, watcher, handler, console
<1>1. ASSUME Start PROVE LiveWithinLimit'
  <2>1. Alive' \subseteq Alive /\ maxParallel' = maxParallel /\ task' = task
    BY <1>1 DEF Start, Alive
  <2> QED
    BY <2>1, FewerAlive
<1>2. ASSUME Exit PROVE LiveWithinLimit'
  <2>1. Alive' \subseteq Alive /\ maxParallel' = maxParallel /\ task' = task
    BY <1>2 DEF Exit, ConsoleEnds, HandlerDone, Alive
  <2> QED
    BY <2>1, FewerAlive
<1>3. ASSUME Crash PROVE LiveWithinLimit'
  <2>1. Alive' \subseteq Alive /\ maxParallel' = maxParallel /\ task' = task
    BY <1>3 DEF Crash, ConsoleEnds, HandlerDone, Alive
  <2> QED
    BY <2>1, FewerAlive
<1>4. ASSUME Insert PROVE LiveWithinLimit'
  <2>1. Alive' \subseteq Alive /\ maxParallel' = maxParallel /\ task' = task
    BY <1>4 DEF Insert, HandlerDone, Alive
  <2> QED
    BY <2>1, FewerAlive
<1>5. ASSUME MarkCancelling PROVE LiveWithinLimit'
  <2>1. Alive' \subseteq Alive /\ maxParallel' = maxParallel /\ task' = task
    BY <1>5 DEF MarkCancelling, Alive
  <2> QED
    BY <2>1, FewerAlive
<1>6. ASSUME Kill PROVE LiveWithinLimit'
  <2>1. hrun \in parent /\ Terminate(hrun)
    BY <1>6 DEF Kill, TypeInv
  <2>2. Alive' \subseteq Alive /\ maxParallel' = maxParallel /\ task' = task
    BY <1>6, <2>1, TerminateTells DEF Kill, Alive, TypeInv, TypeOK
  <2> QED
    BY <2>2, FewerAlive
<1>7. ASSUME KillFails PROVE LiveWithinLimit'
  <2>1. Alive' \subseteq Alive /\ maxParallel' = maxParallel /\ task' = task
    BY <1>7 DEF KillFails, HandlerDone, Alive
  <2> QED
    BY <2>1, FewerAlive
<1>8. ASSUME RecordCancelled PROVE LiveWithinLimit'
  <2>1. Alive' \subseteq Alive /\ maxParallel' = maxParallel /\ task' = task
    BY <1>8 DEF RecordCancelled, HandlerDone, Alive
  <2> QED
    BY <2>1, FewerAlive
<1>9. ASSUME NEW r \in Runs, NEW t \in Tasks, Run(r, t) PROVE LiveWithinLimit'
  BY <1>9, RunKeepsLimit
<1>10. ASSUME NEW r \in Runs, Cancel(r) PROVE LiveWithinLimit'
  <2>1. Alive' \subseteq Alive /\ maxParallel' = maxParallel /\ task' = task
    BY <1>10 DEF Cancel, Alive
  <2> QED
    BY <2>1, FewerAlive
<1>11. ASSUME NEW r \in Runs, ChildExits(r) PROVE LiveWithinLimit'
  <2>1. Alive' \subseteq Alive /\ maxParallel' = maxParallel /\ task' = task
    BY <1>11 DEF ChildExits, Alive
  <2> QED
    BY <2>1, FewerAlive
<1>12. ASSUME NEW r \in Runs, Reap(r) PROVE LiveWithinLimit'
  <2>1. Alive' \subseteq Alive /\ maxParallel' = maxParallel /\ task' = task
    BY <1>12 DEF Reap, Alive
  <2> QED
    BY <2>1, FewerAlive
<1>13. ASSUME NEW r \in Runs, Expire(r) PROVE LiveWithinLimit'
  <2>1. Alive' \subseteq Alive /\ maxParallel' = maxParallel /\ task' = task
    BY <1>13 DEF Expire, Alive
  <2> QED
    BY <2>1, FewerAlive
<1>14. ASSUME NEW r \in Runs, KillLate(r) PROVE LiveWithinLimit'
  <2>1. r \in parent /\ Terminate(r)
    BY <1>14 DEF KillLate, TypeInv
  <2>2. Alive' \subseteq Alive /\ maxParallel' = maxParallel /\ task' = task
    BY <1>14, <2>1, TerminateTells DEF KillLate, Alive, TypeInv, TypeOK
  <2> QED
    BY <2>2, FewerAlive
<1>15. ASSUME NEW r \in Runs, Pop(r) PROVE LiveWithinLimit'
  <2>1. Alive' \subseteq Alive /\ maxParallel' = maxParallel /\ task' = task
    BY <1>15 DEF Pop, Alive
  <2> QED
    BY <2>1, FewerAlive
<1>16. ASSUME NEW r \in Runs, ReadRow(r) PROVE LiveWithinLimit'
  <2>1. Alive' \subseteq Alive /\ maxParallel' = maxParallel /\ task' = task
    BY <1>16 DEF ReadRow, ThreadEnds, Alive
  <2> QED
    BY <2>1, FewerAlive
<1>17. ASSUME NEW r \in Runs, WriteRow(r) PROVE LiveWithinLimit'
  <2>1. Alive' \subseteq Alive /\ maxParallel' = maxParallel /\ task' = task
    BY <1>17 DEF WriteRow, ThreadEnds, Alive
  <2> QED
    BY <2>1, FewerAlive
<1>18. CASE UNCHANGED vars
  <2>1. Alive' \subseteq Alive /\ maxParallel' = maxParallel /\ task' = task
    BY <1>18 DEF vars, Alive
  <2> QED
    BY <2>1, FewerAlive
<1> QED
  BY <1>1, <1>2, <1>3, <1>4, <1>5, <1>6, <1>7, <1>8, <1>9, <1>10, <1>11, <1>12, <1>13, <1>14, <1>15, <1>16, <1>17, <1>18 DEF Next, HandlerStep, WatcherStep

\* The children that a console left running never exceed max_parallel, and two of one
\* task with an exclusive_group are never among them, although run() only counts rows.
THEOREM LimitHolds == Spec => []LiveWithinLimit
<1>1. Init => LiveWithinLimit
  BY InitInv
<1>2. Inv /\ LiveWithinLimit /\ [Next]_vars => LiveWithinLimit'
  BY NextWithinLimit DEF Inv
<1> QED
  BY <1>1, <1>2, InductiveInvariant, PTL DEF Spec
-----------------------------------------------------------------------------
(* What the end of every run rests on.  That the steps named here are taken *)
(* is fairness, which TLC checks (EveryRunEnds).                            *)

\* A running row of a console that runs has its watcher thread.
WatchInv == up => \A r \in Runs : status[r] = "running" => wpc[r] # "none"

LEMMA NextWatchInv == TypeInv /\ LiveInv /\ RowInv /\ WatchInv /\ [Next]_vars => WatchInv'
<1> SUFFICES ASSUME TypeInv, LiveInv, RowInv, WatchInv, [Next]_vars PROVE WatchInv'
  OBVIOUS
<1> USE DEF TypeInv, TypeOK, LiveInv, RowInv, WatchInv, Verdicts, Finished, Started, fixed, os, watcher, handler, console
<1>1. ASSUME Start PROVE WatchInv'
  BY <1>1 DEF Start
<1>2. ASSUME Exit PROVE WatchInv'
  BY <1>2 DEF Exit, ConsoleEnds, HandlerDone
<1>3. ASSUME Crash PROVE WatchInv'
  BY <1>3 DEF Crash, ConsoleEnds, HandlerDone
<1>4. ASSUME Insert PROVE WatchInv'
  BY <1>4 DEF Insert, HandlerDone
<1>5. ASSUME MarkCancelling PROVE WatchInv'
  BY <1>5 DEF MarkCancelling
<1>6. ASSUME Kill PROVE WatchInv'
  BY <1>6 DEF Kill
<1>7. ASSUME KillFails PROVE WatchInv'
  BY <1>7 DEF KillFails, HandlerDone
<1>8. ASSUME RecordCancelled PROVE WatchInv'
  BY <1>8 DEF RecordCancelled, HandlerDone
<1>9. ASSUME NEW r \in Runs, NEW t \in Tasks, Run(r, t) PROVE WatchInv'
  BY <1>9 DEF Run
<1>10. ASSUME NEW r \in Runs, Cancel(r) PROVE WatchInv'
  BY <1>10 DEF Cancel
<1>11. ASSUME NEW r \in Runs, ChildExits(r) PROVE WatchInv'
  BY <1>11 DEF ChildExits
<1>12. ASSUME NEW r \in Runs, Reap(r) PROVE WatchInv'
  BY <1>12 DEF Reap
<1>13. ASSUME NEW r \in Runs, Expire(r) PROVE WatchInv'
  BY <1>13 DEF Expire
<1>14. ASSUME NEW r \in Runs, KillLate(r) PROVE WatchInv'
  BY <1>14 DEF KillLate
<1>15. ASSUME NEW r \in Runs, Pop(r) PROVE WatchInv'
  BY <1>15 DEF Pop
<1>16. ASSUME NEW r \in Runs, ReadRow(r) PROVE WatchInv'
  BY <1>16 DEF ReadRow, ThreadEnds
<1>17. ASSUME NEW r \in Runs, WriteRow(r) PROVE WatchInv'
  BY <1>17 DEF WriteRow, ThreadEnds
<1>18. CASE UNCHANGED vars
  BY <1>18 DEF vars
<1> QED
  BY <1>1, <1>2, <1>3, <1>4, <1>5, <1>6, <1>7, <1>8, <1>9, <1>10, <1>11, <1>12, <1>13, <1>14, <1>15, <1>16, <1>17, <1>18 DEF Next, HandlerStep, WatcherStep

\* A run is never forgotten: while the console runs, a running row has its thread, and
\* that thread has a next step whatever the process did; a row that is being cancelled
\* has the request that cancels it, or is abandoned.
THEOREM RunningIsWatched ==
  Spec => [](\A r \in Runs :
               /\ up /\ status[r] = "running" => wpc[r] # "none"
               /\ wpc[r] = "wait" => child[r] \in {"alive", "ok", "bad"}
               /\ status[r] = "cancelling" => Abandoned(r) \/ hpc \in {"cancel", "kill", "record"})
<1> DEFINE Watched ==
      \A r \in Runs :
        /\ up /\ status[r] = "running" => wpc[r] # "none"
        /\ wpc[r] = "wait" => child[r] \in {"alive", "ok", "bad"}
        /\ status[r] = "cancelling" => Abandoned(r) \/ hpc \in {"cancel", "kill", "record"}
<1>1. Init => WatchInv
  BY DEF Init, WatchInv
<1>2. Inv /\ WatchInv /\ [Next]_vars => WatchInv'
  BY NextWatchInv DEF Inv
<1>3. Inv /\ WatchInv => Watched
  <2> SUFFICES ASSUME Inv, WatchInv, NEW r \in Runs
               PROVE  /\ up /\ status[r] = "running" => wpc[r] # "none"
                      /\ wpc[r] = "wait" => child[r] \in {"alive", "ok", "bad"}
                      /\ status[r] = "cancelling" => Abandoned(r) \/ hpc \in {"cancel", "kill", "record"}
    OBVIOUS
  <2> USE DEF Inv, TypeInv, TypeOK
  <2>1. up /\ status[r] = "running" => wpc[r] # "none"
    BY Zenon DEF WatchInv
  <2>2. wpc[r] = "wait" => child[r] \in {"alive", "ok", "bad"}
    BY DEF Started
  <2>3. status[r] = "cancelling" /\ hrun = r => hpc \in {"cancel", "kill", "record"}
    BY RunnerAssumption DEF LiveInv
  <2> QED
    BY <2>1, <2>2, <2>3 DEF Abandoned
<1>4. Spec => []Watched
  BY <1>1, <1>2, <1>3, InductiveInvariant, PTL DEF Spec
<1> QED
  BY <1>4

\* A cancel that no watcher had overtaken: the row says so, and no thread is about to
\* write what it read before.
CancelHolds(r) == status[r] = "cancelled" /\ wpc[r] # "write"

CancelStep == \A r \in Runs : CancelHolds(r) => CancelHolds(r)'

LEMMA NextCancel == Inv /\ [Next]_vars => CancelStep
<1> SUFFICES ASSUME Inv, [Next]_vars PROVE CancelStep
  OBVIOUS
<1> USE DEF Inv, TypeInv, TypeOK, LiveInv, RowInv, CancelStep, CancelHolds, Verdicts, Finished, Started, fixed, os, watcher, handler, console
<1>1. ASSUME Start PROVE CancelStep
  BY <1>1 DEF Start
<1>2. ASSUME Exit PROVE CancelStep
  BY <1>2 DEF Exit, ConsoleEnds, HandlerDone
<1>3. ASSUME Crash PROVE CancelStep
  BY <1>3 DEF Crash, ConsoleEnds, HandlerDone
<1>4. ASSUME Insert PROVE CancelStep
  BY <1>4 DEF Insert, HandlerDone
<1>5. ASSUME MarkCancelling PROVE CancelStep
  BY <1>5 DEF MarkCancelling
<1>6. ASSUME Kill PROVE CancelStep
  BY <1>6 DEF Kill
<1>7. ASSUME KillFails PROVE CancelStep
  BY <1>7 DEF KillFails, HandlerDone
<1>8. ASSUME RecordCancelled PROVE CancelStep
  BY <1>8 DEF RecordCancelled, HandlerDone
<1>9. ASSUME NEW r \in Runs, NEW t \in Tasks, Run(r, t) PROVE CancelStep
  BY <1>9 DEF Run
<1>10. ASSUME NEW r \in Runs, Cancel(r) PROVE CancelStep
  BY <1>10 DEF Cancel
<1>11. ASSUME NEW r \in Runs, ChildExits(r) PROVE CancelStep
  BY <1>11 DEF ChildExits
<1>12. ASSUME NEW r \in Runs, Reap(r) PROVE CancelStep
  BY <1>12 DEF Reap
<1>13. ASSUME NEW r \in Runs, Expire(r) PROVE CancelStep
  BY <1>13 DEF Expire
<1>14. ASSUME NEW r \in Runs, KillLate(r) PROVE CancelStep
  BY <1>14 DEF KillLate
<1>15. ASSUME NEW r \in Runs, Pop(r) PROVE CancelStep
  BY <1>15 DEF Pop
<1>16. ASSUME NEW r \in Runs, ReadRow(r) PROVE CancelStep
  BY <1>16 DEF ReadRow, ThreadEnds
<1>17. ASSUME NEW r \in Runs, WriteRow(r) PROVE CancelStep
  BY <1>17 DEF WriteRow, ThreadEnds
<1>18. CASE UNCHANGED vars
  BY <1>18 DEF vars
<1> QED
  BY <1>1, <1>2, <1>3, <1>4, <1>5, <1>6, <1>7, <1>8, <1>9, <1>10, <1>11, <1>12, <1>13, <1>14, <1>15, <1>16, <1>17, <1>18 DEF Next, HandlerStep, WatcherStep

\* The race of task_runner_cancel is the only one: a cancelled run whose watcher has not
\* read the row before the cancel marked it stays cancelled for good, over any later
\* cancels, exits and restarts.
THEOREM CancelIsFinal == Spec => [][CancelStep]_vars
<1>1. Inv /\ [Next]_vars => [CancelStep]_vars
  BY NextCancel
<1> QED
  BY <1>1, InductiveInvariant, PTL DEF Spec
=============================================================================

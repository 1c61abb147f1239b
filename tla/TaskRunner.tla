----------------------------- MODULE TaskRunner -----------------------------
(***************************************************************************)
(* The task runner of the console, src/lab_console/jobs/runner.py.         *)
(*                                                                         *)
(* A request starts a child process and a thread that waits for it; the    *)
(* rows of task_runs are what the operator sees.  The request handlers are *)
(* coroutines without an await, so one of them runs at a time, while the   *)
(* watcher threads and the children run beside it.  The console may end    *)
(* anywhere; its children and its rows stay, and the next console looks    *)
(* at the rows only.  A process that is told to end, by SIGTERM or by      *)
(* taskkill, ends when it does, or never: nothing in the code waits for it *)
(* or looks at what taskkill returned.  An SQLite error is not modelled.   *)
(***************************************************************************)
EXTENDS Naturals, FiniteSets

CONSTANTS Runs,         \* run ids
          NoRun,
          Tasks,        \* the tasks of the catalog
          NoTask,
          Group,        \* the exclusive_group of each task
          NoGroup,
          Limits,       \* values of the setting max_parallel_tasks
          OsNames,      \* values of os.name
          MaxCrashes    \* bound of the model: ends of the console

ASSUME RunnerAssumption ==
  /\ NoRun \notin Runs
  /\ NoTask \notin Tasks /\ DOMAIN Group = Tasks
  /\ Limits \subseteq Nat /\ MaxCrashes \in Nat
  /\ OsNames \subseteq {"nt", "posix"}

VARIABLES
  osName,     \* os.name
  maxParallel,  \* self.max_parallel
  task,       \* the task of each run
  status,     \* status of the row of each run, "none" without a row
  child,      \* the process of each run, with how it ended
  reaped,     \* those of the running console that wait() has collected
  asked,      \* runs whose process _terminate() told to end
  up,         \* the console runs
  parent,     \* runs that the running console has started
  processes,  \* self.processes
  wpc,        \* where the watcher thread of each run is
  verdict,    \* its local variable status
  hpc, hrun,  \* where the request handler is, and its run
  stopping,   \* the console has received SIGTERM
  crashes

fixed   == <<osName, maxParallel>>
os      == <<child, reaped, asked>>
watcher == <<wpc, verdict>>
handler == <<hpc, hrun>>
console == <<up, parent, processes, stopping>>
vars == <<fixed, task, status, os, console, watcher, handler, crashes>>

Verdicts == {"succeeded", "failed", "timed_out"}
Finished == Verdicts \union {"cancelled"}

Init ==
  /\ osName \in OsNames /\ maxParallel \in Limits
  /\ task = [r \in Runs |-> NoTask]
  /\ status = [r \in Runs |-> "none"]
  /\ child = [r \in Runs |-> "none"] /\ reaped = {} /\ asked = {}
  /\ up = FALSE /\ parent = {} /\ processes = {} /\ stopping = FALSE
  /\ wpc = [r \in Runs |-> "none"] /\ verdict = [r \in Runs |-> "none"]
  /\ hpc = "idle" /\ hrun = NoRun
  /\ crashes = 0

TypeOK ==
  /\ osName \in OsNames /\ maxParallel \in Limits
  /\ task \in [Runs -> Tasks \union {NoTask}]
  /\ status \in [Runs -> {"none", "running", "cancelling", "orphaned"} \union Finished]
  /\ child \in [Runs -> {"none", "alive", "ok", "bad"}]
  /\ reaped \subseteq parent /\ asked \subseteq Runs
  /\ up \in BOOLEAN /\ stopping \in BOOLEAN
  /\ parent \subseteq Runs /\ processes \subseteq parent
  /\ wpc \in [Runs -> {"none", "wait", "late", "ended", "popped", "write"}]
  /\ verdict \in [Runs -> {"none"} \union Verdicts]
  /\ \A r \in Runs : (verdict[r] = "none") = (wpc[r] \in {"none", "wait", "late"})
  /\ hpc \in {"idle", "started", "cancel", "kill", "record"}
  /\ hrun \in Runs \union {NoRun} /\ (hrun = NoRun <=> hpc = "idle")
  /\ crashes \in 0..MaxCrashes
-----------------------------------------------------------------------------
\* recover() of a new console.
Start ==
  /\ ~ up
  /\ up' = TRUE
  /\ status' = [r \in Runs |-> IF status[r] = "running" THEN "orphaned" ELSE status[r]]
  /\ UNCHANGED <<fixed, task, os, parent, processes, stopping, watcher, handler, crashes>>

Running == {r \in Runs : status[r] = "running"}
\* Runs of the same task are counted, not those of the same group.
InConflict(t) == Group[t] # NoGroup /\ \E q \in Running : task[q] = t

\* Mutant of Run: one run too many.
RunOneMore(r, t) ==
  /\ up /\ hpc = "idle"
  /\ status[r] = "none" /\ child[r] = "none"
  /\ Cardinality(Running) <= maxParallel
  /\ ~ InConflict(t)
  /\ task' = [task EXCEPT ![r] = t]
  /\ child' = [child EXCEPT ![r] = "alive"]
  /\ parent' = parent \union {r} /\ processes' = processes \union {r}
  /\ hpc' = "started" /\ hrun' = r
  /\ UNCHANGED <<fixed, status, reaped, asked, up, stopping, watcher, crashes>>

\* run(), up to Popen.
Run(r, t) ==
  /\ up /\ hpc = "idle"
  /\ status[r] = "none" /\ child[r] = "none"
  /\ Cardinality(Running) < maxParallel
  /\ ~ InConflict(t)
  /\ task' = [task EXCEPT ![r] = t]
  /\ child' = [child EXCEPT ![r] = "alive"]
  /\ parent' = parent \union {r} /\ processes' = processes \union {r}
  /\ hpc' = "started" /\ hrun' = r
  /\ UNCHANGED <<fixed, status, reaped, asked, up, stopping, watcher, crashes>>

HandlerDone == hpc' = "idle" /\ hrun' = NoRun

\* The row, and then the watcher thread.
Insert ==
  /\ hpc = "started"
  /\ status' = [status EXCEPT ![hrun] = "running"]
  /\ wpc' = [wpc EXCEPT ![hrun] = "wait"]
  /\ HandlerDone
  /\ UNCHANGED <<fixed, task, os, console, verdict, crashes>>

\* The child ends, told to or by itself, also when its console is gone.
ChildExits(r) ==
  /\ child[r] = "alive"
  /\ \E code \in {"ok", "bad"} : child' = [child EXCEPT ![r] = code]
  /\ UNCHANGED <<fixed, task, status, reaped, asked, console, watcher, handler, crashes>>

\* Mutant of Terminate: the process is left alone.
TerminateNothing(r) == UNCHANGED <<asked, stopping>>

\* _terminate(): taskkill of the tree, or SIGTERM to the process group, which
\* the children share with the console because Popen makes no new one.
Terminate(r) ==
  \/ osName = "nt" /\ asked' = asked \union {r} /\ UNCHANGED stopping
  \/ osName = "posix" /\ asked' = asked \union parent /\ stopping' = TRUE
-----------------------------------------------------------------------------
(* _watch() *)

\* proc.wait() returns the exit code.
Reap(r) ==
  /\ wpc[r] = "wait" /\ child[r] \in {"ok", "bad"}
  /\ reaped' = reaped \union {r}
  /\ verdict' = [verdict EXCEPT ![r] = IF child[r] = "ok" THEN "succeeded" ELSE "failed"]
  /\ wpc' = [wpc EXCEPT ![r] = "ended"]
  /\ UNCHANGED <<fixed, task, status, child, asked, console, handler, crashes>>

\* Mutant of Expire: the thread does not come back from a task that hangs.
ExpireNever(r) == FALSE /\ UNCHANGED vars

\* TimeoutExpired
Expire(r) ==
  /\ wpc[r] = "wait" /\ child[r] = "alive"
  /\ wpc' = [wpc EXCEPT ![r] = "late"]
  /\ UNCHANGED <<fixed, task, status, os, console, verdict, handler, crashes>>

\* The task is terminated and the thread goes on.
KillLate(r) ==
  /\ wpc[r] = "late"
  /\ Terminate(r)
  /\ verdict' = [verdict EXCEPT ![r] = "timed_out"]
  /\ wpc' = [wpc EXCEPT ![r] = "ended"]
  /\ UNCHANGED <<fixed, task, status, child, reaped, up, parent, processes, handler, crashes>>

\* self.processes.pop()
Pop(r) ==
  /\ wpc[r] = "ended"
  /\ processes' = processes \ {r}
  /\ wpc' = [wpc EXCEPT ![r] = "popped"]
  /\ UNCHANGED <<fixed, task, status, os, up, parent, stopping, verdict, handler, crashes>>

ThreadEnds(r) ==
  /\ wpc' = [wpc EXCEPT ![r] = "none"]
  /\ verdict' = [verdict EXCEPT ![r] = "none"]

\* The row is read in one transaction ...
ReadRow(r) ==
  /\ wpc[r] = "popped"
  /\ IF status[r] \in {"cancelling", "cancelled"}
     THEN ThreadEnds(r)
     ELSE wpc' = [wpc EXCEPT ![r] = "write"] /\ UNCHANGED verdict
  /\ UNCHANGED <<fixed, task, status, os, console, handler, crashes>>

\* Mutant of WriteRow: the run is marked as running again.
WriteRowRunning(r) ==
  /\ wpc[r] = "write"
  /\ status' = [status EXCEPT ![r] = "running"]
  /\ ThreadEnds(r)
  /\ UNCHANGED <<fixed, task, os, console, handler, crashes>>

\* ... and written in another: _finish()
WriteRow(r) ==
  /\ wpc[r] = "write"
  /\ status' = [status EXCEPT ![r] = verdict[r]]
  /\ ThreadEnds(r)
  /\ UNCHANGED <<fixed, task, os, console, handler, crashes>>
-----------------------------------------------------------------------------
(* cancel() *)

\* self.processes.get() finds the process.
Cancel(r) ==
  /\ up /\ hpc = "idle" /\ r \in processes
  /\ hpc' = "cancel" /\ hrun' = r
  /\ UNCHANGED <<fixed, task, status, os, console, watcher, crashes>>

MarkCancelling ==
  /\ hpc = "cancel"
  /\ status' = [status EXCEPT ![hrun] = IF @ = "running" THEN "cancelling" ELSE @]
  /\ hpc' = "kill"
  /\ UNCHANGED <<fixed, task, os, console, watcher, hrun, crashes>>

Kill ==
  /\ hpc = "kill"
  /\ osName = "posix" => hrun \notin reaped
  /\ Terminate(hrun)
  /\ hpc' = "record"
  /\ UNCHANGED <<fixed, task, status, child, reaped, up, parent, processes, watcher, hrun, crashes>>

\* os.getpgid() of a process that was collected: ProcessLookupError, 500.
KillFails ==
  /\ hpc = "kill"
  /\ osName = "posix" /\ hrun \in reaped
  /\ HandlerDone
  /\ UNCHANGED <<fixed, task, status, os, console, watcher, crashes>>

RecordCancelled ==
  /\ hpc = "record"
  /\ status' = [status EXCEPT ![hrun] = "cancelled"]
  /\ HandlerDone
  /\ UNCHANGED <<fixed, task, os, console, watcher, crashes>>
-----------------------------------------------------------------------------
ConsoleEnds ==
  /\ up' = FALSE
  /\ parent' = {} /\ processes' = {} /\ reaped' = {} /\ stopping' = FALSE
  /\ wpc' = [r \in Runs |-> "none"] /\ verdict' = [r \in Runs |-> "none"]
  /\ HandlerDone
  /\ UNCHANGED <<fixed, task, status, child, asked>>

\* The server lets the request in progress finish and exits; watchers are daemons.
Exit ==
  /\ stopping /\ hpc = "idle"
  /\ ConsoleEnds
  /\ UNCHANGED crashes

Crash ==
  /\ up
  /\ crashes < MaxCrashes
  /\ crashes' = crashes + 1
  /\ ConsoleEnds

HandlerStep == Insert \/ MarkCancelling \/ Kill \/ KillFails \/ RecordCancelled

WatcherStep(r) == Reap(r) \/ Expire(r) \/ KillLate(r) \/ Pop(r) \/ ReadRow(r) \/ WriteRow(r)

Next ==
  \/ Start \/ Exit \/ Crash
  \/ HandlerStep
  \/ \E r \in Runs : (\E t \in Tasks : Run(r, t)) \/ Cancel(r) \/ ChildExits(r) \/ WatcherStep(r)

Spec == Init /\ [][Next]_vars

\* A request in progress, the watcher threads and a console that stops go on,
\* and a console that ended is started again.  No child is made to end.
Fairness ==
  /\ WF_vars(Start) /\ WF_vars(Exit) /\ WF_vars(HandlerStep)
  /\ \A r \in Runs : WF_vars(WatcherStep(r))

FairSpec == Spec /\ Fairness
-----------------------------------------------------------------------------
(* Properties *)

\* What the limit is for, although only rows are counted: the children a console left
\* running never exceed max_parallel, and no two are of one task with an exclusive_group.
\* Beyond it there are only children that were told to end and that nobody waited for.
LiveWithinLimit ==
  LET live == {r \in parent : child[r] = "alive"} \ asked
  IN  /\ Cardinality(live) <= maxParallel
      /\ \A q, r \in live : q # r /\ task[q] = task[r] => Group[task[r]] = NoGroup

\* What a row that says how its run ended may claim: succeeded and failed are what the
\* exit code of a process that ended said, and no row says timed_out or cancelled of a
\* process that is alive and that nobody told to end, whatever cancels, timeouts and
\* restarts happened meanwhile.
FinishedOrTold ==
  \A r \in Runs :
    /\ status[r] \in Finished => child[r] \in {"ok", "bad"} \/ r \in asked
    /\ status[r] = "succeeded" => child[r] = "ok"
    /\ status[r] = "failed" => child[r] = "bad"

\* The outcome of a run changes once at most, between a cancel and its watcher:
\* orphaned rows stay, and no run that ended is running or cancelling again.
OutcomeStays ==
  [][\A r \in Runs :
       /\ status[r] = "orphaned" => status'[r] = "orphaned"
       /\ status[r] \in Verdicts => status'[r] \in {status[r], "cancelled"}
       /\ status[r] = "cancelled" => status'[r] \in Finished]_vars

\* A cancel that nobody is going to finish: its console ended, or the process
\* was collected before it could be signalled.
Abandoned(r) == status[r] = "cancelling" /\ hrun # r

\* Every run comes to an end, a task that hangs included; the one way not to
\* is to be abandoned while cancelling.
EveryRunEnds ==
  \A r \in Runs : (status[r] \in {"running", "cancelling"})
                    ~> (status[r] \in Finished \union {"orphaned"} \/ Abandoned(r))

\* test_runner_cancellation_is_terminal in src/ml/tests/test_v043_lab_console.py:
\* a run that is cancelled stays cancelled.
CancelledIsTerminal ==
  [][\A r \in Runs : status[r] = "cancelled" => status'[r] = "cancelled"]_vars
=============================================================================

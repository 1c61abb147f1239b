--------------------------- MODULE CampaignRunner ---------------------------
(***************************************************************************)
(* The commands of a Phase 1 campaign: run_one, preflight_one and          *)
(* recover_sealed_completion of                                            *)
(* src/lab/network_validation/phase1_docker_runner.py over the journal.    *)
(*                                                                         *)
(* A command is a process of its own; an operator starts it, and it may    *)
(* die anywhere.  What stays is on disk or in Docker: the journal and its  *)
(* lock file, the mapping, the directory of each attempt, the containers.  *)
(* A refusal that changes nothing is not an action.  A write cut short is  *)
(* a whole line or none.                                                   *)
(***************************************************************************)
EXTENDS CampaignLedger

CONSTANTS Operators,   \* commands that may run at the same time
          UnlinkOpen,  \* an open file can be removed: POSIX, not Windows
          MaxFaults,   \* bound of the model: errors of Docker, of the disk, of the output
          MaxCrashes   \* bound of the model: deaths of a command

ASSUME RunnerAssumption == MaxFaults \in Nat /\ MaxCrashes \in Nat /\ UnlinkOpen \in BOOLEAN

VARIABLES
  ledger,      \* campaign-ledger.jsonl
  lock,        \* its lock file exists
  mapping,     \* the units with an entry in sealed-mapping.jsonl
  dir,         \* what the directory of each attempt is
  containers,  \* attempts with containers or a network in their namespace
  pc, mode,    \* where each command is, and which command it is
  at,          \* its unit and attempt number
  started,     \* its local variable started
  reason,      \* which except clause of run_one it is in
  inside,      \* commands inside _exclusive_lock
  seen,        \* the length of the journal each of them has read
  faults, crashes

disk    == <<ledger, lock, mapping, dir, containers>>
journal == <<ledger, lock, inside, seen>>
bounds  == <<faults, crashes>>
vars == <<disk, pc, mode, at, started, reason, inside, seen, bounds>>

Ids == Units \X {1, 2}
\* Under the name .attempt-NN.staging: prepared, in use by the behaviour, complete.
Staged == {"staging", "used", "ready"}
Appending == {"start", "complete", "fail", "retry"}
Places == {"idle", "prepare", "launch", "map", "behave", "process", "seal", "retain",
           "recycle", "clean", "unstage"} \union Appending

TypeOK ==
  /\ ledger \in Seq(Record) /\ lock \in BOOLEAN
  /\ mapping \subseteq Units /\ containers \subseteq Ids
  /\ dir \in [Ids -> {"none", "sealed", "failed"} \union Staged]
  /\ pc \in [Operators -> Places]
  /\ mode \in [Operators -> {"run", "preflight", "recover"}]
  /\ at \in [Operators -> Ids]
  /\ started \in [Operators -> BOOLEAN]
  /\ reason \in [Operators -> {"none", "technical", "other"}]
  /\ inside \subseteq Operators /\ seen \in [Operators -> Nat]
  /\ faults \in 0..MaxFaults /\ crashes \in 0..MaxCrashes

Init ==
  /\ ledger = <<>> /\ lock = FALSE /\ mapping = {} /\ containers = {}
  /\ dir = [a \in Ids |-> "none"]
  /\ pc = [p \in Operators |-> "idle"] /\ mode = [p \in Operators |-> "run"]
  /\ at \in [Operators -> {<<Plan[1], 1>>}]
  /\ started = [p \in Operators |-> FALSE] /\ reason = [p \in Operators |-> "none"]
  /\ inside = {} /\ seen = [p \in Operators |-> 0]
  /\ faults = 0 /\ crashes = 0

Goto(p, l) == pc' = [pc EXCEPT ![p] = l]
SetDir(p, d) == dir' = [dir EXCEPT ![at[p]] = d]
Fault == faults < MaxFaults /\ faults' = faults + 1
-----------------------------------------------------------------------------
\* resolve_next_unit, attempts_for and session_identity.
Begin(p, m) ==
  /\ pc[p] = "idle" /\ Readable(ledger) /\ Active(ledger) = {}
  /\ \E u \in Units :
       /\ IsNext(ledger, u) /\ Attempts(ledger, u) < 2
       /\ at' = [at EXCEPT ![p] = <<u, Attempts(ledger, u) + 1>>]
  /\ mode' = [mode EXCEPT ![p] = m]
  /\ started' = [started EXCEPT ![p] = FALSE] /\ reason' = [reason EXCEPT ![p] = "none"]
  /\ Goto(p, "prepare")
  /\ UNCHANGED <<disk, inside, seen, bounds>>

\* _namespace_available and _prepare_staging.
Prepare(p) ==
  /\ pc[p] = "prepare"
  /\ IF at[p] \notin containers /\ dir[at[p]] = "none"
     THEN SetDir(p, "staging") /\ Goto(p, "launch")
     ELSE Goto(p, "clean") /\ UNCHANGED dir
  /\ UNCHANGED <<journal, mapping, containers, mode, at, started, reason, bounds>>

\* The rest of _start_preflight_runtime; preflight_one ends here.
Launch(p) ==
  /\ pc[p] = "launch"
  /\ containers' = containers \union {at[p]}
  /\ \/ Goto(p, IF mode[p] = "run" THEN "start" ELSE "clean") /\ UNCHANGED faults
     \/ Fault /\ Goto(p, "clean")
  /\ UNCHANGED <<journal, mapping, dir, mode, at, started, reason, crashes>>

\* Mutant of Map: an error of the mapping is not noticed.
MapUnnoticed(p) ==
  /\ pc[p] = "map"
  /\ \/ mapping' = mapping \union {at[p][1]} /\ UNCHANGED faults
     \/ Fault /\ UNCHANGED mapping
  /\ Goto(p, "behave")
  /\ UNCHANGED <<journal, dir, containers, mode, at, started, reason, crashes>>

\* mapping.ensure: an entry that is there is kept; an error may follow the write.
Map(p) ==
  /\ pc[p] = "map"
  /\ \/ /\ mapping' = mapping \union {at[p][1]} /\ Goto(p, "behave")
        /\ UNCHANGED <<reason, faults>>
     \/ /\ mapping' \in {mapping, mapping \union {at[p][1]}}
        /\ Fault /\ Goto(p, "fail") /\ reason' = [reason EXCEPT ![p] = "other"]
  /\ UNCHANGED <<journal, dir, containers, mode, at, started, crashes>>

\* _execute_behavior launches the client; its containers and its directory may be gone.
Behave(p) ==
  /\ pc[p] = "behave"
  /\ IF at[p] \in containers /\ dir[at[p]] = "staging"
     THEN SetDir(p, "used") /\ Goto(p, "process") /\ UNCHANGED reason
     ELSE Goto(p, "fail") /\ reason' = [reason EXCEPT ![p] = "technical"] /\ UNCHANGED dir
  /\ UNCHANGED <<journal, mapping, containers, mode, at, started, bounds>>

\* The rest of _execute_behavior, with _process_outputs.
Process(p) ==
  /\ pc[p] = "process"
  /\ \/ /\ at[p] \in containers /\ dir[at[p]] = "used"
        /\ SetDir(p, "ready") /\ Goto(p, "seal") /\ UNCHANGED <<reason, faults>>
     \/ /\ IF at[p] \in containers /\ dir[at[p]] = "used" THEN Fault ELSE UNCHANGED faults
        /\ \E r \in {"technical", "other"} : reason' = [reason EXCEPT ![p] = r]
        /\ Goto(p, "fail") /\ UNCHANGED dir
  /\ UNCHANGED <<journal, mapping, containers, mode, at, started, crashes>>

\* paths.staging.replace(paths.sealed), which is refused when that is there.
Seal(p) ==
  /\ pc[p] = "seal"
  /\ \/ /\ dir[at[p]] = "ready"
        /\ SetDir(p, "sealed") /\ Goto(p, "complete") /\ UNCHANGED <<reason, faults>>
     \/ /\ IF dir[at[p]] = "ready" THEN Fault ELSE UNCHANGED faults
        /\ reason' = [reason EXCEPT ![p] = IF dir[at[p]] = "sealed" THEN "technical" ELSE "other"]
        /\ Goto(p, "fail") /\ UNCHANGED dir
  /\ UNCHANGED <<journal, mapping, containers, mode, at, started, crashes>>

\* Mutant of Retain: the second attempt does not depend on it.
RetainOptional(p) ==
  /\ pc[p] = "retain"
  /\ \/ /\ dir' = [dir EXCEPT ![at[p]] = IF @ \in Staged THEN "failed" ELSE @]
        /\ UNCHANGED faults
     \/ Fault /\ UNCHANGED dir
  /\ Goto(p, IF reason[p] = "technical" /\ at[p][2] = 1 THEN "retry" ELSE "clean")
  /\ UNCHANGED <<journal, mapping, containers, mode, at, started, reason, crashes>>

\* _retain_failed_attempt, and the decision to ask for the second attempt.
Retain(p) ==
  /\ pc[p] = "retain"
  /\ \/ /\ dir' = [dir EXCEPT ![at[p]] = IF @ \in Staged THEN "failed" ELSE @]
        /\ Goto(p, IF reason[p] = "technical" /\ at[p][2] = 1 THEN "retry" ELSE "clean")
        /\ UNCHANGED faults
     \/ Fault /\ Goto(p, "clean") /\ UNCHANGED dir
  /\ UNCHANGED <<journal, mapping, containers, mode, at, started, reason, crashes>>

\* The finally clause between the two attempts, and the head of the loop.
Recycle(p) ==
  /\ pc[p] = "recycle"
  /\ containers' = containers \ {at[p]}
  /\ started' = [started EXCEPT ![p] = FALSE] /\ reason' = [reason EXCEPT ![p] = "none"]
  /\ IF Readable(ledger) /\ Attempts(ledger, at[p][1]) < 2
     THEN at' = [at EXCEPT ![p] = <<@[1], 2>>] /\ Goto(p, "prepare")
     ELSE Goto(p, "idle") /\ UNCHANGED at
  /\ UNCHANGED <<journal, mapping, dir, mode, bounds>>

\* Mutant of Clean: the staging directory goes whether the attempt was started or not.
CleanAll(p) ==
  /\ pc[p] = "clean"
  /\ containers' = containers \ {at[p]}
  /\ Goto(p, "unstage")
  /\ UNCHANGED <<journal, mapping, dir, mode, at, started, reason, bounds>>

\* The finally clause: _cleanup_runtime or _cleanup_namespace, then _remove_preflight_staging.
Clean(p) ==
  /\ pc[p] = "clean"
  /\ containers' = containers \ {at[p]}
  /\ Goto(p, IF started[p] THEN "idle" ELSE "unstage")
  /\ UNCHANGED <<journal, mapping, dir, mode, at, started, reason, bounds>>

Unstage(p) ==
  /\ pc[p] = "unstage"
  /\ dir' = [dir EXCEPT ![at[p]] = IF @ \in Staged THEN "none" ELSE @]
  /\ Goto(p, "idle")
  /\ UNCHANGED <<journal, mapping, containers, mode, at, started, reason, bounds>>

\* Mutant of Recover: the sealed directory is not looked for.
RecoverUnchecked(p) ==
  /\ pc[p] = "idle" /\ Readable(ledger)
  /\ \E a \in Ids : Active(ledger) = {a} /\ at' = [at EXCEPT ![p] = a]
  /\ mode' = [mode EXCEPT ![p] = "recover"]
  /\ started' = [started EXCEPT ![p] = TRUE] /\ reason' = [reason EXCEPT ![p] = "none"]
  /\ Goto(p, "complete")
  /\ UNCHANGED <<disk, inside, seen, bounds>>

\* recover_sealed_completion, up to its append.
Recover(p) ==
  /\ pc[p] = "idle" /\ Readable(ledger)
  /\ \E a \in Ids : /\ Active(ledger) = {a} /\ dir[a] = "sealed" /\ a[1] \in mapping
                    /\ at' = [at EXCEPT ![p] = a]
  /\ mode' = [mode EXCEPT ![p] = "recover"]
  /\ started' = [started EXCEPT ![p] = TRUE] /\ reason' = [reason EXCEPT ![p] = "none"]
  /\ Goto(p, "complete")
  /\ UNCHANGED <<disk, inside, seen, bounds>>
-----------------------------------------------------------------------------
\* The record of an append, and where its caller goes after it and after an error of it.
Line(p) == CASE pc[p] = "start"    -> Started(at[p][2])
             [] pc[p] = "complete" -> Finished(at[p][2])
             [] pc[p] = "fail"     -> Failed(at[p][2])
             [] pc[p] = "retry"    -> RetryRequest

Done(p) == CASE pc[p] = "start"    -> "map"
             [] pc[p] = "complete" -> IF mode[p] = "recover" THEN "idle" ELSE "clean"
             [] pc[p] = "fail"     -> "retain"
             [] pc[p] = "retry"    -> "recycle"

Refused(p) == IF mode[p] = "recover" THEN "idle" ELSE "clean"

\* Mutant of Enter: a command that is refused leaves the lock file where it found it.
EnterKeepsLock(p) ==
  /\ pc[p] \in Appending /\ p \notin inside
  /\ IF ~lock /\ Readable(ledger) /\ Acceptable(ledger, at[p][1], Line(p))
     THEN /\ lock' = TRUE /\ inside' = inside \union {p}
          /\ seen' = [seen EXCEPT ![p] = Len(ledger)]
          /\ UNCHANGED pc
     ELSE Goto(p, Refused(p)) /\ UNCHANGED <<lock, inside, seen>>
  /\ UNCHANGED <<ledger, mapping, dir, containers, mode, at, started, reason, bounds>>

\* LedgerStore.append: _exclusive_lock, read and _validate_transitions.  A command that
\* finds the lock file is refused, and the finally clause of _exclusive_lock removes the
\* file, also the one another command holds open where the system allows it.
Enter(p) ==
  /\ pc[p] \in Appending /\ p \notin inside
  /\ IF ~lock /\ Readable(ledger) /\ Acceptable(ledger, at[p][1], Line(p))
     THEN /\ lock' = TRUE /\ inside' = inside \union {p}
          /\ seen' = [seen EXCEPT ![p] = Len(ledger)]
          /\ UNCHANGED pc
     ELSE /\ lock' = (inside # {} /\ ~UnlinkOpen /\ lock)
          /\ Goto(p, Refused(p)) /\ UNCHANGED <<inside, seen>>
  /\ UNCHANGED <<ledger, mapping, dir, containers, mode, at, started, reason, bounds>>

Appended(p) == Append(ledger, [seq |-> seen[p] + 1, unit |-> at[p][1], line |-> Line(p)])

\* The write, the check of the whole journal and the end of the lock.  The write may
\* reach the disk although fsync or the check raises.
Write(p) ==
  /\ p \in inside
  /\ ledger' = Appended(p) /\ lock' = FALSE /\ inside' = inside \ {p}
  /\ \/ /\ Readable(ledger')
        /\ started' = [started EXCEPT ![p] = TRUE]
        /\ Goto(p, Done(p)) /\ UNCHANGED faults
     \/ /\ IF Readable(ledger') THEN Fault ELSE UNCHANGED faults
        /\ Goto(p, Refused(p)) /\ UNCHANGED started
  /\ UNCHANGED <<mapping, dir, containers, mode, at, reason, seen, crashes>>

\* The command dies; in an append the record may be there, and the lock file stays.
Crash(p) ==
  /\ pc[p] # "idle" /\ crashes < MaxCrashes /\ crashes' = crashes + 1
  /\ Goto(p, "idle") /\ inside' = inside \ {p}
  /\ \/ UNCHANGED ledger
     \/ p \in inside /\ ledger' = Appended(p)
  /\ UNCHANGED <<lock, mapping, dir, containers, mode, at, started, reason, seen, faults>>

Step(p) == \/ Prepare(p) \/ Launch(p) \/ Map(p) \/ Behave(p) \/ Process(p) \/ Seal(p)
           \/ Retain(p) \/ Recycle(p) \/ Clean(p) \/ Unstage(p) \/ Enter(p) \/ Write(p)

Next == \E p \in Operators : \/ Begin(p, "run") \/ Begin(p, "preflight") \/ Recover(p)
                             \/ Step(p) \/ Crash(p)

Spec == Init /\ [][Next]_vars

\* A command that runs goes on, and the operator keeps asking for the next unit and for
\* the recovery of a sealed one.
FairSpec == /\ Spec
            /\ \A p \in Operators : /\ WF_vars(Step(p))
                                    /\ SF_vars(Begin(p, "run"))
                                    /\ SF_vars(Recover(p))
-----------------------------------------------------------------------------
(* Properties *)

\* A completed unit has its evidence: the attempt the journal names was sealed and its
\* token is in the mapping, although three stores are written one after the other and a
\* later command may write the last record (recover_sealed_completion).
CompletedIsSealed ==
  \A a \in Ids : Finished(a[2]) \in LinesOf(ledger, a[1])
                  => dir[a] = "sealed" /\ a[1] \in mapping

\* A unit is tried again only when the evidence of its first attempt was put aside as
\* failed: no first attempt is sealed, in progress or deleted once a retry is recorded.
RetryAfterEvidence ==
  \A u \in Units : RetryRequest \in LinesOf(ledger, u) => dir[<<u, 1>>] = "failed"

\* While one command runs at a time, what the behaviour of a session left behind is
\* never deleted or used again: it is sealed or failed, or it stays where it is.
EvidenceKept ==
  [][\A a \in Ids :
       /\ dir[a] \in {"used", "ready"} => dir'[a] \in {dir[a], "ready", "sealed", "failed"}
       /\ dir[a] \in {"sealed", "failed"} => dir'[a] = dir[a]]_vars

\* The first unit of the plan that is not completed, by its number.
Reached == Cardinality(Completed(ledger))

\* The journal walks through the plan while the lock keeps appends apart: one command runs,
\* or a file that is open cannot be removed.
Walk == INSTANCE PlanWalk
  WITH Length <- Len(Plan), done <- Reached, open <- Active(ledger) # {},
       tries <- IF Reached = Len(Plan) THEN 0 ELSE Attempts(ledger, Plan[Reached + 1])

ImplementsPlanWalk == Walk!Spec

\* A unit no command can take further: its second attempt failed, its first one failed
\* and no retry was recorded, or an attempt is open that was not sealed.
Unresolved(u) == \/ Failed(2) \in LinesOf(ledger, u) \/ LinesOf(ledger, u) = FirstFailed
                 \/ \E n \in {1, 2} : <<u, n>> \in Active(ledger) /\ dir[<<u, n>>] # "sealed"

\* While one command runs at a time no error and no death leads to a dead end: the campaign
\* is over, or a unit is unresolved, or run_one finds its next attempt and no evidence in
\* its place, or recover_sealed_completion finds what it asks for.  Behind a directory in
\* the place of the next attempt, prepared and never used, run_one is refused once and
\* removes it.
NoDeadEnd ==
  /\ Readable(ledger)
  /\ \/ Completed(ledger) = Units
     \/ \E u \in Units : Unresolved(u)
     \/ /\ Active(ledger) = {}
        /\ \E u \in Units :
             /\ IsNext(ledger, u) /\ Attempts(ledger, u) < 2
             /\ dir[<<u, Attempts(ledger, u) + 1>>] \in {"none", "staging"}
     \/ \E a \in Ids : Active(ledger) = {a} /\ dir[a] = "sealed" /\ a[1] \in mapping

\* Otherwise an operator who keeps asking finishes the campaign: what a command that died
\* left behind (its lock, containers and directory) costs a refused command, not more.
Settles == <>[](Completed(ledger) = Units \/ \E u \in Units : Unresolved(u))

\* "concurrent append rejected": the lock lets one append at a time in, so that the
\* journal has every number once and can be read.
LedgerStaysReadable == Readable(ledger)
=============================================================================

------------------------------- MODULE LabRun -------------------------------
(***************************************************************************)
(* The laboratory runs of the console: LaboratoryRunService of             *)
(* src/lab_console/lab_runs.py.                                            *)
(*                                                                         *)
(* A run is a row and a directory, its bundle.  A request is handled by a  *)
(* coroutine without an await, so one request runs at a time, and the      *)
(* console may end between any two of its writes.  The result of an        *)
(* execution is told by the revision of the code it was made at: all else  *)
(* that goes into it is fixed by the plan.  The files that the manifest    *)
(* lists count as one write: while there is no manifest they are           *)
(* overwritten by the next execution.  A row or an audit row may fail to   *)
(* be written.                                                             *)
(***************************************************************************)
EXTENDS Naturals

CONSTANTS LabRuns,    \* run tokens
          Revisions,  \* what _git_head() may answer
          MaxEnds     \* bound of the model: ends of the console and errors

VARIABLES
  state,     \* status of the row of each run, "none" without a row
  result,    \* {} or the revision of the result of its record
  files,     \* the same of the files of its bundle that the manifest lists,
  manifest,  \* of its manifest.json and manifest.sha256,
  semantic,  \* and of its semantic.sha256
  lpc, lrun, \* where the request in progress is, and its run
  built,     \* its local variable result
  ends,
  unsaved    \* the runs whose request ended without its row, since the console started

bundle  == <<files, manifest, semantic>>
request == <<lpc, lrun, built>>
labFaults == <<ends, unsaved>>
labVars == <<state, result, bundle, request, labFaults>>

Ended == {"completed", "failed", "cancelled"}
States == {"none", "planned", "validated", "running", "interrupted", "recovering"} \union Ended
Results == {{}} \union {{h} : h \in Revisions}

LabInit ==
  /\ state = [r \in LabRuns |-> "none"]
  /\ result = [r \in LabRuns |-> {}]
  /\ files = [r \in LabRuns |-> {}] /\ manifest = files /\ semantic = files
  /\ lpc = "idle" /\ lrun \in LabRuns /\ built = {}
  /\ ends = 0 /\ unsaved = {}

LabTypeOK ==
  /\ state \in [LabRuns -> States] /\ result \in [LabRuns -> Results]
  /\ files \in [LabRuns -> Results] /\ manifest \in [LabRuns -> Results]
  /\ semantic \in [LabRuns -> Results]
  /\ lpc \in {"idle", "resume", "checkpoint", "build", "files", "manifest", "semantic", "save", "audit"}
  /\ lrun \in LabRuns /\ built \in Results
  /\ ends \in Nat /\ unsaved \subseteq LabRuns

Save(r, s) == state' = [state EXCEPT ![r] = s]
LabGoto(l) == lpc' = l
-----------------------------------------------------------------------------
\* create(), validate(), cancel() and recover(mark_failed): one row, one write.
Transition(r, from, to) ==
  /\ lpc = "idle" /\ state[r] \in from
  /\ Save(r, to)
  /\ UNCHANGED <<result, bundle, request, labFaults>>

Manage(r) ==
  \/ Transition(r, {"none"}, "planned")
  \/ Transition(r, {"planned"}, "validated")
  \/ Transition(r, {"planned", "validated", "interrupted"}, "cancelled")
  \/ Transition(r, {"interrupted"}, "failed")

\* Mutant of Execute: a run whose recovery was cut short is not accepted.
ExecuteNotRecovering(r, boundary) ==
  /\ lpc = "idle" /\ state[r] \in {"validated", "interrupted"}
  /\ Save(r, "running") /\ lrun' = r
  /\ LabGoto(IF boundary THEN "checkpoint" ELSE "build")
  /\ UNCHANGED <<result, bundle, built, labFaults>>

\* execute(), up to the row that says running.
Execute(r, boundary) ==
  /\ lpc = "idle" /\ state[r] \in {"validated", "interrupted", "recovering"}
  /\ Save(r, "running") /\ lrun' = r
  /\ LabGoto(IF boundary /\ state[r] # "recovering" THEN "checkpoint" ELSE "build")
  /\ UNCHANGED <<result, bundle, built, labFaults>>

\* The interruption an operator asked for.
Checkpoint ==
  /\ lpc = "checkpoint"
  /\ Save(lrun, "interrupted") /\ LabGoto("idle")
  /\ UNCHANGED <<result, bundle, lrun, built, labFaults>>

\* recover(continue): the row, and then execute() in the same request.
LabRecover(r) ==
  /\ lpc = "idle" /\ state[r] = "interrupted"
  /\ Save(r, "recovering") /\ lrun' = r /\ LabGoto("resume")
  /\ UNCHANGED <<result, bundle, built, labFaults>>

LabResume ==
  /\ lpc = "resume"
  /\ Save(lrun, "running") /\ LabGoto("build")
  /\ UNCHANGED <<result, bundle, lrun, built, labFaults>>

\* _build_result().
Build ==
  /\ lpc = "build"
  /\ \E head \in Revisions : built' = {head}
  /\ LabGoto("files")
  /\ UNCHANGED <<state, result, bundle, lrun, labFaults>>

\* Mutant of WriteFiles: a bundle that is there is written again.
WriteFilesAgain ==
  /\ lpc = "files"
  /\ files' = [files EXCEPT ![lrun] = built] /\ LabGoto("manifest")
  /\ UNCHANGED <<state, result, manifest, semantic, lrun, built, labFaults>>

\* _write_bundle(), which refuses when there is a manifest.
WriteFiles ==
  /\ lpc = "files" /\ manifest[lrun] = {}
  /\ files' = [files EXCEPT ![lrun] = built] /\ LabGoto("manifest")
  /\ UNCHANGED <<state, result, manifest, semantic, lrun, built, labFaults>>

WriteManifest ==
  /\ lpc = "manifest"
  /\ manifest' = [manifest EXCEPT ![lrun] = files[lrun]] /\ LabGoto("semantic")
  /\ UNCHANGED <<state, result, files, semantic, lrun, built, labFaults>>

\* Mutant of WriteSemantic: the row is saved before the last file of the bundle.
WriteSemanticLate ==
  /\ lpc = "semantic"
  /\ state' = [state EXCEPT ![lrun] = "completed"]
  /\ result' = [result EXCEPT ![lrun] = built]
  /\ LabGoto("save")
  /\ UNCHANGED <<bundle, lrun, built, labFaults>>

WriteSemantic ==
  /\ lpc = "semantic"
  /\ semantic' = [semantic EXCEPT ![lrun] = built] /\ LabGoto("save")
  /\ UNCHANGED <<state, result, files, manifest, lrun, built, labFaults>>

Complete ==
  /\ lpc = "save"
  /\ Save(lrun, "completed") /\ result' = [result EXCEPT ![lrun] = built]
  /\ LabGoto("audit")
  /\ UNCHANGED <<bundle, lrun, built, labFaults>>

Audit == lpc = "audit" /\ LabGoto("idle") /\ UNCHANGED <<state, result, bundle, lrun, built, labFaults>>

\* The except clause: an exception of the build, the bundle, the row or its audit, and the
\* row can be saved.
ExecuteFailed ==
  /\ lpc \in {"build", "files", "manifest", "semantic", "save", "audit"}
  /\ \/ lpc = "files" /\ manifest[lrun] # {} /\ UNCHANGED ends
     \/ ends < MaxEnds /\ ends' = ends + 1
  /\ UNCHANGED unsaved
  /\ Save(lrun, "failed") /\ LabGoto("idle")
  /\ result' = [result EXCEPT ![lrun] = IF lpc = "build" THEN @ ELSE built]
  /\ UNCHANGED <<bundle, lrun, built>>

\* A row cannot be written where no one catches it: of an interruption, of the except
\* clause, of recover() or its audit.  The request ends and the row stays as it is.
RowFails ==
  /\ lpc # "idle"
  /\ ends < MaxEnds /\ ends' = ends + 1 /\ unsaved' = unsaved \union {lrun}
  /\ LabGoto("idle")
  /\ UNCHANGED <<state, result, bundle, lrun, built>>

\* Mutant of LabRestart: the run of the request that was cut off is all that is looked at.
LabRestartLast ==
  /\ ends < MaxEnds /\ ends' = ends + 1 /\ unsaved' = {}
  /\ state' = [state EXCEPT ![lrun] = IF @ = "running" THEN "interrupted" ELSE @]
  /\ LabGoto("idle")
  /\ UNCHANGED <<result, bundle, lrun, built>>

\* The console ends, and _recover_orphans() of the next one.
LabRestart ==
  /\ ends < MaxEnds /\ ends' = ends + 1 /\ unsaved' = {}
  /\ state' = [r \in LabRuns |-> IF state[r] = "running" THEN "interrupted" ELSE state[r]]
  /\ LabGoto("idle")
  /\ UNCHANGED <<result, bundle, lrun, built>>

LabContinue == \/ Checkpoint \/ LabResume \/ Build \/ WriteFiles \/ WriteManifest
            \/ WriteSemantic \/ Complete \/ Audit \/ ExecuteFailed

LabNext == \/ LabContinue \/ RowFails \/ LabRestart
        \/ \E r \in LabRuns : \/ Manage(r) \/ LabRecover(r)
                              \/ \E boundary \in BOOLEAN : Execute(r, boundary)

LabSpec == LabInit /\ [][LabNext]_labVars

\* A request in progress goes on, and the operator keeps asking for every execution.
LabFairSpec == /\ LabSpec /\ WF_labVars(LabContinue)
            /\ \A r \in LabRuns : SF_labVars(Execute(r, FALSE))
-----------------------------------------------------------------------------
(* Properties *)

\* verify() of a completed run finds what its row promises: all the files are there and
\* the manifest, the semantic digest and the row come from one execution, whatever
\* executions died half-way through the same directory before, at another revision.
CompletedIsVerifiable ==
  \A r \in LabRuns : state[r] = "completed" =>
    /\ result[r] # {}
    /\ files[r] = result[r] /\ manifest[r] = result[r] /\ semantic[r] = result[r]

\* "immutable_bundle_exists": once there is a manifest no execution touches the files it
\* lists or the manifest, and the digest only comes to be there.
BundleImmutable ==
  [][\A r \in LabRuns : manifest[r] # {} =>
       /\ manifest'[r] = manifest[r] /\ files'[r] = files[r]
       /\ semantic[r] # {} => semantic'[r] = semantic[r]]_labVars

\* The request that executes run r is in progress.
Executes(r) == lrun = r /\ lpc \notin {"idle", "resume", "audit"}

\* A row that says running and has no request behind it: execute(), recover() and cancel()
\* all refuse the run.
Stranded(r) == state[r] = "running" /\ ~ Executes(r)

\* Runs are stranded by a row that could not be written and by nothing else: no execution,
\* no error that is caught and no end of the console does it, and the next console finds
\* every run an earlier one left behind.
StrandedByRow == \A r \in LabRuns : Stranded(r) => r \in unsaved

\* No end of the console blocks a run that was started: an operator who executes what can
\* be executed brings it to an end, also from the rows recovery does not look at, unless a
\* row that could not be written strands it; a restart of the console then makes it one of
\* those that come to an end.
Unfinished == {"validated", "running", "interrupted", "recovering"}
RunsSettle ==
  \A r \in LabRuns : (state[r] \in Unfinished) ~> (state[r] \in Ended \/ Stranded(r))
=============================================================================

--------------------------- MODULE BlindValidation ---------------------------
(***************************************************************************)
(* The blind validation of the console: BlindValidationService of          *)
(* src/lab_console/blind_validations.py, from create() to the decision.    *)
(*                                                                         *)
(* There is one validation (create() refuses a second one of the lineage). *)
(* A request is handled by a coroutine without an await: it reads the row  *)
(* once, so nobody changes the row under it, but the console may end       *)
(* between any two of its writes, to the row and to the files, and while   *)
(* it writes a file, which is cut off then.  Predictions are told by the   *)
(* run that made them.  The status of the row, which no guard reads, the   *)
(* roles and the metrics are left out.                                     *)
(***************************************************************************)
EXTENDS Naturals, Sequences, FiniteSets

CONSTANTS MaxRuns,   \* bound of the model: inference runs of each participant
          MaxBlindFaults  \* bound of the model: interruptions, errors and ends of the console

Participants == {"active_candidate", "proposal"}
Statuses == {"running", "interrupted", "recovered", "completed", "frozen"}

VARIABLES
  leaky,        \* the input package shows something of the labels
  overlap,      \* overlap_assessment passed
  blindness,    \* status of blindness_gate
  planFrozen,   \* prediction_plan.frozen
  inferences,   \* inference_runs
  commitments,  \* prediction_commitments: the run of each participant, 0 for none
  authorized,   \* label_unlock_authorization
  unlocked, unlockedAt,  \* label_status; the time is the number of runs so far
  labelUnlock,  \* label_unlock.prediction_commitments
  evaluation,   \* evaluation: the runs whose predictions it is about
  acceptance,   \* acceptance_result: likewise
  review,       \* the review of the validation
  decided,      \* final_decision
  packages,     \* the run whose predictions {participant}-predictions.json holds,
                \* 0 when there is no such file or it was cut off
  bpc, who,     \* where the request in progress is, and its participant
  bfaults

gates   == <<leaky, overlap, blindness, planFrozen>>
labels  == <<authorized, unlocked, unlockedAt, labelUnlock>>
verdict == <<evaluation, acceptance, review, decided>>
bRequest == <<bpc, who>>
blindVars == <<gates, inferences, commitments, labels, verdict, packages, bRequest, bfaults>>

NoRuns == [p \in Participants |-> 0]
RunsOf(p) == {i \in DOMAIN inferences : inferences[i].by = p}
CompletedRuns(p) == {i \in RunsOf(p) : inferences[i].status = "completed"}
Selection == [Participants -> Nat]

BlindInit ==
  /\ leaky \in BOOLEAN /\ overlap = FALSE /\ blindness = "none" /\ planFrozen = FALSE
  /\ inferences = <<>> /\ commitments = NoRuns /\ packages = NoRuns
  /\ authorized = FALSE /\ unlocked = FALSE /\ unlockedAt = 0 /\ labelUnlock = NoRuns
  /\ evaluation = NoRuns /\ acceptance = NoRuns /\ review = "none" /\ decided = FALSE
  /\ bpc = "idle" /\ who = "proposal" /\ bfaults = 0

BlindTypeOK ==
  /\ leaky \in BOOLEAN /\ overlap \in BOOLEAN /\ planFrozen \in BOOLEAN
  /\ blindness \in {"none", "passed", "failed"}
  /\ inferences \in Seq([by : Participants, status : Statuses])
  /\ commitments \in Selection /\ packages \in Selection /\ labelUnlock \in Selection
  /\ evaluation \in Selection /\ acceptance \in Selection
  /\ authorized \in BOOLEAN /\ unlocked \in BOOLEAN /\ unlockedAt \in Nat
  /\ review \in {"none", "in_progress", "completed"} /\ decided \in BOOLEAN
  /\ bpc \in {"idle", "infer", "resume", "again", "active", "next", "proposal",
             "commit", "decide"}
  /\ who \in Participants /\ bfaults \in Nat

Idle == bpc = "idle"
Proceed(l) == bpc' = l /\ UNCHANGED who
BlindFault == bfaults < MaxBlindFaults /\ bfaults' = bfaults + 1
-----------------------------------------------------------------------------
CheckOverlap ==
  /\ Idle /\ overlap' = TRUE
  /\ UNCHANGED <<leaky, blindness, planFrozen, inferences, commitments, labels, verdict,
                 packages, bRequest, bfaults>>

CheckBlindness ==
  /\ Idle /\ overlap
  /\ blindness' = IF leaky THEN "failed" ELSE "passed"
  /\ UNCHANGED <<leaky, overlap, planFrozen, inferences, commitments, labels, verdict,
                 packages, bRequest, bfaults>>

FreezePlan ==
  /\ Idle /\ blindness = "passed" /\ planFrozen' = TRUE
  /\ UNCHANGED <<leaky, overlap, blindness, inferences, commitments, labels, verdict,
                 packages, bRequest, bfaults>>

\* Mutant of MayRun: the labels are not asked about.
MayRunAnyTime(p) == planFrozen /\ Cardinality(RunsOf(p)) < MaxRuns

\* Mutant of MayRun: a run that is marked as running is waited for.
MayRunAlone(p) ==
  /\ ~ unlocked /\ planFrozen /\ Cardinality(RunsOf(p)) < MaxRuns
  /\ \A i \in RunsOf(p) : inferences[i].status # "running"

\* The guards of _run().
MayRun(p) == ~ unlocked /\ planFrozen /\ Cardinality(RunsOf(p)) < MaxRuns

\* _run(), up to the row that says running.
StartRun(p, l) ==
  /\ inferences' = Append(inferences, [by |-> p, status |-> "running"])
  /\ bpc' = l
  /\ UNCHANGED <<gates, commitments, labels, verdict, packages, bfaults>>

\* run_active() and run_proposal().
Run(p) == Idle /\ MayRun(p) /\ who' = p /\ StartRun(p, "infer")

Last(s) == inferences' = [inferences EXCEPT ![Len(inferences)].status = s]

\* The rest of _run(): the package, the interruption that was asked for (never of a
\* recovery), or an error, which leaves the run as it is.
Infer ==
  /\ bpc \in {"infer", "again"} /\ Proceed("idle")
  /\ \/ Last("completed") /\ UNCHANGED bfaults
     \/ bpc = "infer" /\ Last("interrupted") /\ BlindFault
     \/ UNCHANGED inferences /\ BlindFault
  /\ UNCHANGED <<gates, commitments, labels, verdict, packages>>

\* recover_run(): the old run is marked, and then a new one is made.
RecoverRun(i) ==
  /\ Idle /\ inferences[i].status = "interrupted"
  /\ inferences' = [inferences EXCEPT ![i].status = "recovered"]
  /\ who' = inferences[i].by /\ bpc' = "resume"
  /\ UNCHANGED <<gates, commitments, labels, verdict, packages, bfaults>>

Resume == bpc = "resume" /\ MayRun(who) /\ UNCHANGED who /\ StartRun(who, "again")

\* _run() refuses: the labels are unlocked, or the model's bound is reached.
ResumeRefused ==
  /\ bpc = "resume" /\ ~ MayRun(who) /\ Proceed("idle")
  /\ UNCHANGED <<gates, inferences, commitments, labels, verdict, packages, bfaults>>
-----------------------------------------------------------------------------
\* The last completed run of a participant.
Latest(p) == CHOOSE i \in CompletedRuns(p) : \A j \in CompletedRuns(p) : j <= i

\* _write() opens a file, and thereby empties the one that was there, and then fills it.
OpenPackage(p) == packages' = [packages EXCEPT ![p] = 0]
WritePackage(p) == packages' = [packages EXCEPT ![p] = Latest(p)]

\* freeze_predictions(), which no commitment and no unlock keeps from being asked for
\* again: two files, one after the other, and then the row.
FreezeActive ==
  /\ Idle /\ \A p \in Participants : CompletedRuns(p) # {}
  /\ OpenPackage("active_candidate") /\ Proceed("active")
  /\ UNCHANGED <<gates, inferences, commitments, labels, verdict, bfaults>>

WriteActive ==
  /\ bpc = "active"
  /\ WritePackage("active_candidate") /\ Proceed("next")
  /\ UNCHANGED <<gates, inferences, commitments, labels, verdict, bfaults>>

\* The runs whose predictions the row commits to are not completed but frozen from then on.
SaveCommitments ==
  /\ commitments' = [p \in Participants |-> Latest(p)]
  /\ inferences' = [i \in DOMAIN inferences |->
       IF \E p \in Participants : i = Latest(p)
       THEN [inferences[i] EXCEPT !.status = "frozen"] ELSE inferences[i]]

\* Mutant of OpenProposal: the row is saved before the second file.
OpenProposalLate ==
  /\ bpc = "next"
  /\ SaveCommitments /\ Proceed("proposal")
  /\ UNCHANGED <<gates, packages, labels, verdict, bfaults>>

OpenProposal ==
  /\ bpc = "next"
  /\ OpenPackage("proposal") /\ Proceed("proposal")
  /\ UNCHANGED <<gates, inferences, commitments, labels, verdict, bfaults>>

WriteProposal ==
  /\ bpc = "proposal"
  /\ WritePackage("proposal") /\ Proceed("commit")
  /\ UNCHANGED <<gates, inferences, commitments, labels, verdict, bfaults>>

Commit ==
  /\ bpc = "commit" /\ Proceed("idle")
  /\ SaveCommitments
  /\ UNCHANGED <<gates, labels, verdict, packages, bfaults>>
-----------------------------------------------------------------------------
AuthorizeUnlock ==
  /\ Idle /\ commitments # NoRuns /\ authorized' = TRUE
  /\ UNCHANGED <<gates, inferences, commitments, unlocked, unlockedAt, labelUnlock, verdict,
                 packages, bRequest, bfaults>>

\* unlock_labels(), which may be asked for again.
UnlockLabels ==
  /\ Idle /\ authorized
  /\ unlocked' = TRUE /\ unlockedAt' = Len(inferences) /\ labelUnlock' = commitments
  /\ UNCHANGED <<gates, inferences, commitments, authorized, verdict, packages, bRequest, bfaults>>

FilesReadable == \A p \in Participants : packages[p] # 0

\* evaluate() reads the files of predictions, and fails when one is not there or cut off.
Evaluate ==
  /\ Idle /\ unlocked /\ FilesReadable
  /\ evaluation' = packages
  /\ UNCHANGED <<gates, inferences, commitments, labels, acceptance, review, decided, packages,
                 bRequest, bfaults>>

Compare ==
  /\ Idle /\ evaluation # NoRuns /\ acceptance' = evaluation
  /\ UNCHANGED <<gates, inferences, commitments, labels, evaluation, review, decided, packages,
                 bRequest, bfaults>>

\* A review whose console ended before its id was saved is never asked for again.
CreateReview ==
  /\ Idle /\ acceptance # NoRuns /\ review = "none" /\ review' = "in_progress"
  /\ UNCHANGED <<gates, inferences, commitments, labels, evaluation, acceptance, decided,
                 packages, bRequest, bfaults>>

\* complete_review(): the review and then the row, again if it is asked for again.
CompleteReview ==
  /\ Idle /\ review # "none" /\ review' = "completed" /\ Proceed("decide")
  /\ UNCHANGED <<gates, inferences, commitments, labels, evaluation, acceptance, decided,
                 packages, bfaults>>

Decide ==
  /\ bpc = "decide" /\ decided' = TRUE /\ Proceed("idle")
  /\ UNCHANGED <<gates, inferences, commitments, labels, evaluation, acceptance, review,
                 packages, bfaults>>

\* The console ends and a new one starts, which does nothing about validations; or a write
\* raises, which ends the request in the same way.
BlindRestart ==
  /\ ~ Idle /\ BlindFault /\ Proceed("idle")
  /\ UNCHANGED <<gates, inferences, commitments, labels, verdict, packages>>

BlindContinue == \/ Infer \/ Resume \/ ResumeRefused \/ Decide
                 \/ WriteActive \/ OpenProposal \/ WriteProposal \/ Commit

Judge == Evaluate \/ Compare \/ CreateReview \/ CompleteReview

BlindNext == \/ CheckOverlap \/ CheckBlindness \/ FreezePlan
        \/ \E p \in Participants : Run(p)
        \/ \E i \in DOMAIN inferences : RecoverRun(i)
        \/ FreezeActive \/ AuthorizeUnlock \/ UnlockLabels
        \/ Judge \/ BlindContinue \/ BlindRestart

BlindSpec == BlindInit /\ [][BlindNext]_blindVars

\* The next step of the procedure, as docs/getting-started/running-blind-laboratory-validation.md
\* lists them, and the freeze again when a second one was cut off; the operators may take
\* others at any time.
Advance ==
  \/ ~ overlap /\ CheckOverlap
  \/ blindness = "none" /\ CheckBlindness
  \/ ~ planFrozen /\ FreezePlan
  \/ commitments = NoRuns /\ \E p \in Participants : CompletedRuns(p) = {} /\ Run(p)
  \/ commitments = NoRuns /\ FreezeActive
  \/ evaluation = NoRuns /\ ~ FilesReadable /\ FreezeActive
  \/ ~ authorized /\ AuthorizeUnlock
  \/ ~ unlocked /\ UnlockLabels
  \/ evaluation = NoRuns /\ Evaluate
  \/ acceptance = NoRuns /\ Compare
  \/ review = "none" /\ CreateReview
  \/ ~ decided /\ CompleteReview

\* A request in progress goes on, and the operators keep asking for the next step.
BlindFairSpec == BlindSpec /\ WF_blindVars(BlindContinue) /\ SF_blindVars(Advance)
-----------------------------------------------------------------------------
(* Properties *)

\* The files of predictions are those that the row commits to.  There is one way for them
\* not to be: a second freeze overwrites them, before it saves its row.  Wherever that is
\* cut off, a file is empty, is the committed one, or has predictions that are still there
\* to be frozen, of both participants, so that the freeze can be asked for again, also
\* after the unlock, when no run could make predictions any more.
FilesFollowCommitment ==
  commitments # NoRuns =>
    \/ packages = commitments
    \/ \A p \in Participants :
         /\ CompletedRuns(p) # {}
         /\ packages[p] \in {0, commitments[p]} \union CompletedRuns(p)

\* Criterion no_post_unlock_inference, which _acceptance() reports without looking: what
\* is evaluated was inferred for its own participant, to the end, before the labels were
\* unlocked, whatever is recovered or frozen later.
PredictedBlind ==
  \A p \in Participants : evaluation[p] # 0 =>
    /\ evaluation[p] <= unlockedAt /\ evaluation[p] \in RunsOf(p)
    /\ inferences[evaluation[p]].status \in {"completed", "frozen"}

\* An end of the console between any two writes does not block the procedure: an operator
\* who follows it comes to a decision, unless the control pack itself shows the labels.
ValidationEnds == <>(decided \/ leaky)

\* Criterion predictions_frozen_before_unlock, which _acceptance() reports as passed: the
\* predictions that were accepted are those that were committed when the labels were
\* unlocked.
AcceptedAsCommitted == acceptance # NoRuns => acceptance = labelUnlock
=============================================================================

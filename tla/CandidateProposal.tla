-------------------------- MODULE CandidateProposal --------------------------
(***************************************************************************)
(* A candidate proposal of the console, from its training to the decision: *)
(* CandidateProposalService of src/lab_console/candidate_proposals.py.     *)
(*                                                                         *)
(* There is one proposal (create() refuses a second one of the lineage)    *)
(* and no official one to import over it.  A request is handled by a       *)
(* coroutine without an await; the console may end between any two of its  *)
(* writes, to a training record, the proposal or a review, and any of them *)
(* may raise.  An execution is told by its number, which its artifact has  *)
(* too.  Files of metadata repeat the rows.  The status of the             *)
(* proposal is left out: the one guard that reads it, of train(), says the *)
(* same of it as of the freeze.                                            *)
(***************************************************************************)
EXTENDS Naturals, Sequences, FiniteSets

CONSTANTS Predictions,       \* what a model may predict of the training rows
          MaxReviews,        \* bound of the model: reviews that are opened
          MaxProposalFaults  \* bound of the model: interruptions, errors, ends of the console

\* Every other decision is treated like "rejected".
Decisions == {"admitted_to_separate_validation", "rejected"}
TrainingStatuses == {"running", "completed", "failed", "interrupted", "disposed"}

VARIABLES
  trainings,  \* records of executions; a prediction means nothing before the end
  bound,      \* training_run_bindings
  model,      \* the execution whose artifact the proposal names, 0 for none
  assessed,   \* reproducibility_assessment: the executions it compared
  frozen,     \* proposal_frozen, and with it screening_unlocked
  screened,   \* screening: the execution whose artifact was screened
  good,       \* its metrics pass the thresholds of the gate
  compared,   \* comparison_status is completed
  gated,      \* there is a gate_result
  reviews,    \* "in_review" or the decision of each review
  admission,  \* admission_status
  ppc, judged,  \* where the request in progress is, and its review
  pfaults

training == <<trainings, bound, model, assessed>>
screening == <<frozen, screened, good, compared, gated>>
judgement == <<reviews, admission, judged>>
proposalVars == <<training, screening, judgement, ppc, pfaults>>

ProposalInit ==
  /\ trainings = <<>> /\ bound = {} /\ model = 0 /\ assessed = {}
  /\ frozen = FALSE /\ screened = 0 /\ good = FALSE /\ compared = FALSE /\ gated = FALSE
  /\ reviews = <<>> /\ admission = "not_assessed" /\ judged = 0
  /\ ppc = "idle" /\ pfaults = 0

ProposalTypeOK ==
  /\ trainings \in Seq([status : TrainingStatuses, prediction : Predictions])
  /\ bound \subseteq DOMAIN trainings /\ assessed \subseteq DOMAIN trainings
  /\ model \in Nat /\ screened \in Nat /\ judged \in Nat
  /\ frozen \in BOOLEAN /\ good \in BOOLEAN /\ compared \in BOOLEAN /\ gated \in BOOLEAN
  /\ reviews \in Seq({"in_review"} \union Decisions)
  /\ admission \in {"not_assessed", "review_pending"} \union Decisions
  /\ ppc \in {"idle", "fit", "bind", "audit", "decide"} /\ pfaults \in Nat

ProposalFault == pfaults < MaxProposalFaults /\ pfaults' = pfaults + 1
Mark(i, s) == trainings' = [trainings EXCEPT ![i].status = s]
Trained == {i \in DOMAIN trainings : trainings[i].status = "completed"}
LastTrained == CHOOSE i \in Trained : \A j \in Trained : j <= i
-----------------------------------------------------------------------------
\* Mutant of MayTrain: one more execution than the limit.
MayTrainMore == ~ frozen /\ \A i, j, k \in bound : i = j \/ j = k \/ i = k

\* Mutant of MayTrain: executions that were interrupted count.
MayTrainTwice == ~ frozen /\ Len(trainings) < 2

\* The guards of train(): not frozen, and fewer than two executions are bound.
MayTrain == ~ frozen /\ \A i, j \in bound : i = j

\* train(), up to the record that says running.
Train ==
  /\ ppc = "idle" /\ MayTrain
  /\ \E h \in Predictions :
       trainings' = Append(trainings, [status |-> "running", prediction |-> h])
  /\ ppc' = "fit"
  /\ UNCHANGED <<bound, model, assessed, screening, judgement, pfaults>>

\* _fit_once() and the record of its end, or an interruption or an error.
Fit ==
  /\ ppc = "fit"
  /\ \/ Mark(Len(trainings), "completed") /\ ppc' = "bind" /\ UNCHANGED pfaults
     \/ /\ \E s \in {"failed", "interrupted"} : Mark(Len(trainings), s)
        /\ ProposalFault /\ ppc' = "idle"
  /\ UNCHANGED <<bound, model, assessed, screening, judgement>>

\* Mutant of Bind: the executions that were bound before are not kept.
BindLast ==
  /\ ppc = "bind" /\ ppc' = "audit"
  /\ bound' = {Len(trainings)} /\ model' = Len(trainings)
  /\ UNCHANGED <<trainings, assessed, screening, judgement, pfaults>>

\* The proposal takes the artifact over.
Bind ==
  /\ ppc = "bind" /\ ppc' = "audit"
  /\ bound' = bound \union {Len(trainings)} /\ model' = Len(trainings)
  /\ UNCHANGED <<trainings, assessed, screening, judgement, pfaults>>

\* The audit row; an error of it, or of the write before, makes the record failed, when
\* that can be written.
AuditTraining ==
  /\ \/ ppc = "audit" /\ UNCHANGED <<trainings, pfaults>>
     \/ ppc \in {"bind", "audit"} /\ Mark(Len(trainings), "failed") /\ ProposalFault
  /\ ppc' = "idle"
  /\ UNCHANGED <<bound, model, assessed, screening, judgement>>

\* recover_training(), and cancel_training() of the last execution that is left, which may
\* still say running; they differ in the word they leave.
Dispose(i) ==
  /\ ppc = "idle" /\ Mark(i, "disposed")
  /\ \/ trainings[i].status = "interrupted"
     \/ /\ trainings[i].status = "running"
        /\ \A j \in DOMAIN trainings : j > i => trainings[j].status \notin {"running", "interrupted"}
  /\ UNCHANGED <<bound, model, assessed, screening, judgement, ppc, pfaults>>

\* verify_reproducibility(): the last two completed executions.
LastTwo == {i \in Trained : \A j, k \in Trained : j > i /\ k > i => j = k}

Verify ==
  /\ ppc = "idle" /\ \E i, j \in Trained : i # j
  /\ assessed' = LastTwo
  /\ UNCHANGED <<trainings, bound, model, screening, judgement, ppc, pfaults>>

\* Its result: the byte-identical, the semantically identical and those that predict the same.
Reproduced ==
  assessed # {} /\ \A i, j \in assessed : trainings[i].prediction = trainings[j].prediction
-----------------------------------------------------------------------------
Freeze ==
  /\ ppc = "idle" /\ ~ frozen /\ Reproduced /\ frozen' = TRUE
  /\ UNCHANGED <<training, screened, good, compared, gated, judgement, ppc, pfaults>>

\* Mutant of Screen: a screening that was completed is made again.
ScreenAgain ==
  /\ ppc = "idle" /\ frozen
  /\ screened' = LastTrained /\ good' \in BOOLEAN
  /\ UNCHANGED <<training, frozen, compared, gated, judgement, ppc, pfaults>>

\* screen() loads the artifact of the last completed execution.
Screen ==
  /\ ppc = "idle" /\ frozen /\ screened = 0
  /\ screened' = LastTrained /\ good' \in BOOLEAN
  /\ UNCHANGED <<training, frozen, compared, gated, judgement, ppc, pfaults>>

CompareWithActive ==
  /\ ppc = "idle" /\ screened # 0 /\ compared' = TRUE
  /\ UNCHANGED <<training, frozen, screened, good, gated, judgement, ppc, pfaults>>

\* gate() before a review; a decision that is there is pending again.
Gate ==
  /\ ppc = "idle" /\ compared /\ gated' = TRUE /\ admission' = "review_pending"
  /\ UNCHANGED <<training, frozen, screened, good, compared, reviews, judged, ppc, pfaults>>

OpenReview ==
  /\ ppc = "idle" /\ gated /\ Len(reviews) < MaxReviews
  /\ reviews' = Append(reviews, "in_review")
  /\ UNCHANGED <<training, screening, admission, judged, ppc, pfaults>>

\* The decisions that complete_review() accepts.
Allowed == {d \in Decisions : d = "admitted_to_separate_validation" => good /\ Reproduced}

\* complete_review(): the gate and the review, and then the proposal.
CloseReview(r, d) ==
  /\ ppc = "idle" /\ reviews[r] = "in_review" /\ d \in Allowed
  /\ reviews' = [reviews EXCEPT ![r] = d]
  /\ judged' = r /\ ppc' = "decide"
  /\ UNCHANGED <<training, screening, admission, pfaults>>

Admit ==
  /\ ppc = "decide" /\ admission' = reviews[judged] /\ ppc' = "idle" /\ judged' = 0
  /\ UNCHANGED <<training, screening, reviews, pfaults>>

\* A row cannot be written, that of an except clause included: the request ends.
WriteFails ==
  /\ ppc # "idle" /\ ProposalFault /\ ppc' = "idle"
  /\ UNCHANGED <<training, screening, judgement>>

\* The console ends, and _recover_orphans() of the next one.
ProposalRestart ==
  /\ ProposalFault /\ ppc' = "idle"
  /\ trainings' = [i \in DOMAIN trainings |->
       IF trainings[i].status = "running" THEN [trainings[i] EXCEPT !.status = "interrupted"]
       ELSE trainings[i]]
  /\ UNCHANGED <<bound, model, assessed, screening, judgement>>

ProposalContinue == Fit \/ Bind \/ AuditTraining \/ Admit

ProposalNext ==
  \/ Train \/ Verify \/ Freeze \/ Screen \/ CompareWithActive \/ Gate \/ OpenReview
  \/ \E i \in DOMAIN trainings : Dispose(i)
  \/ \E r \in DOMAIN reviews, d \in Decisions : CloseReview(r, d)
  \/ ProposalContinue \/ WriteFails \/ ProposalRestart

ProposalSpec == ProposalInit /\ [][ProposalNext]_proposalVars

\* The next step of the lifecycle in docs/research/candidate-proposal-governance.md.
AdvanceProposal ==
  \/ ~ Reproduced /\ Train
  \/ assessed # LastTwo /\ Verify
  \/ Freeze \/ Screen
  \/ ~ compared /\ CompareWithActive
  \/ ~ gated /\ Gate
  \/ (\A r \in DOMAIN reviews : reviews[r] # "in_review") /\ OpenReview
  \/ \E r \in DOMAIN reviews, d \in Decisions : CloseReview(r, d)

\* A request in progress goes on, and the operators keep asking for the next step.
ProposalFairSpec ==
  ProposalSpec /\ WF_proposalVars(ProposalContinue) /\ SF_proposalVars(AdvanceProposal)
-----------------------------------------------------------------------------
(* Properties *)

\* The training records, the bindings and the artifact are written one after the other,
\* and each later request reads another of them.  Unless an error or an end of the console
\* came between them (then bound and completed executions differ), what was compared is
\* reproducible, and it includes what was frozen, and that is what was screened.
FrozenIsScreened ==
  frozen /\ bound = Trained =>
    /\ Reproduced /\ assessed = Trained
    /\ model \in assessed /\ screened \in {0, model}

\* Two executions are bound, and the last two completed ones differ or there is only one.
NotReproducible ==
  /\ \E i, j \in bound : i # j
  /\ ~ Reproduced
  /\ assessed = LastTwo \/ ~ \E i, j \in Trained : i # j

\* While nothing failed, what was frozen was compared and bound, its model is what is
\* screened, and a proposal is given up only because two bound executions disagree: the
\* records come apart by an error or an end of the console, never by the order of requests.
FaultlessIsSound ==
  pfaults = 0 =>
    /\ frozen => assessed = bound /\ model \in bound /\ screened \in {0, model}
    /\ NotReproducible => \E i, j \in bound : trainings[i].prediction # trainings[j].prediction

\* A proposal that is admitted has a screening that passes and a review that says so,
\* whatever was asked for again after the decision, by whom and in which order.
AdmissionIsEarned ==
  admission = "admitted_to_separate_validation" =>
    screened # 0 /\ good /\ \E r \in DOMAIN reviews : reviews[r] = admission

\* Otherwise an end of the console between any two writes does not strand the proposal: an
\* operator who follows the lifecycle comes to a decision.
ProposalEnds == <>(admission \in Decisions \/ NotReproducible)
=============================================================================

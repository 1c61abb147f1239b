----------------------------- MODULE Procedures -----------------------------
(***************************************************************************)
(* The laboratory's procedures, whose records are several files and rows   *)
(* and whose process may end between any two writes: the campaign, the     *)
(* laboratory runs, the blind validation and the candidate proposal.  They *)
(* share no state, so what holds of one holds whatever the others do; a    *)
(* behaviour of this module follows one of them, which keeps their states  *)
(* from being multiplied.                                                  *)
(***************************************************************************)
EXTENDS CampaignRunner, LabRun, BlindValidation, CandidateProposal

VARIABLE procedure  \* the one that is followed

allVars == <<vars, labVars, blindVars, proposalVars, procedure>>

AllInit ==
  /\ Init /\ LabInit /\ BlindInit /\ ProposalInit
  /\ procedure \in {"campaign", "run", "validation", "proposal"}
  /\ procedure # "run" => lrun = (CHOOSE r \in LabRuns : TRUE)
  /\ procedure # "validation" => ~ leaky

FollowCampaign ==
  procedure = "campaign" /\ Next /\ UNCHANGED <<labVars, blindVars, proposalVars, procedure>>
FollowRun ==
  procedure = "run" /\ LabNext /\ UNCHANGED <<vars, blindVars, proposalVars, procedure>>
FollowValidation ==
  procedure = "validation" /\ BlindNext /\ UNCHANGED <<vars, labVars, proposalVars, procedure>>
FollowProposal ==
  procedure = "proposal" /\ ProposalNext /\ UNCHANGED <<vars, labVars, blindVars, procedure>>

AllNext == FollowCampaign \/ FollowRun \/ FollowValidation \/ FollowProposal

AllSpec == AllInit /\ [][AllNext]_allVars

\* The fairness of each procedure, while it is the one that is followed.
AllFairSpec ==
  /\ AllSpec
  /\ \A p \in Operators :
       /\ WF_vars(procedure = "campaign" /\ Step(p))
       /\ SF_vars(procedure = "campaign" /\ Begin(p, "run"))
       /\ SF_vars(procedure = "campaign" /\ Recover(p))
  /\ WF_labVars(procedure = "run" /\ LabContinue)
  /\ \A r \in LabRuns : SF_labVars(procedure = "run" /\ Execute(r, FALSE))
  /\ WF_blindVars(procedure = "validation" /\ BlindContinue)
  /\ SF_blindVars(procedure = "validation" /\ Advance)
  /\ WF_proposalVars(procedure = "proposal" /\ ProposalContinue)
  /\ SF_proposalVars(procedure = "proposal" /\ AdvanceProposal)
-----------------------------------------------------------------------------
\* Every variable of every procedure keeps its type.
AllTypeOK == TypeOK /\ LabTypeOK /\ BlindTypeOK /\ ProposalTypeOK

\* Settles, ValidationEnds and ProposalEnds, of the behaviours that follow these procedures.
CampaignSettles == procedure = "campaign" => Settles
ValidationSettles == procedure = "validation" => ValidationEnds
ProposalSettles == procedure = "proposal" => ProposalEnds
=============================================================================

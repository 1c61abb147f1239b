--------------------------- MODULE ConsoleProofs ---------------------------
(***************************************************************************)
(* Theorems about the console's procedures: the blind validation,          *)
(* BlindValidation, for any number of inference runs, the laboratory runs, *)
(* LabRun, for any runs and revisions, and the candidate proposal,         *)
(* CandidateProposal, for any reviews; all for any number of ends of the   *)
(* console and of errors.                                                  *)
(***************************************************************************)
EXTENDS Procedures, CampaignRunnerProofs, FiniteSetTheorems, WellFoundedInduction, TLAPS
-----------------------------------------------------------------------------
(* Blind validation: the last completed run *)

\* Latest(p) is a completed run of p when there is one.
LEMMA LatestCompleted ==
  ASSUME BlindTypeOK, NEW p \in Participants, CompletedRuns(p) # {}
  PROVE  Latest(p) \in CompletedRuns(p)
<1>1. Len(inferences) \in Nat /\ DOMAIN inferences = 1..Len(inferences)
  BY DEF BlindTypeOK
<1>2. CompletedRuns(p) \subseteq 1..Len(inferences)
  BY <1>1 DEF CompletedRuns, RunsOf
<1>3. IsFiniteSet(CompletedRuns(p)) /\ CompletedRuns(p) \in SUBSET Nat
  <2>1. IsFiniteSet(1..Len(inferences))
    BY <1>1, FS_Interval
  <2> QED
    BY <1>1, <1>2, <2>1, FS_Subset
<1>4. \E i \in CompletedRuns(p) : \A j \in CompletedRuns(p) : j <= i
  BY <1>3, HasLast
<1> QED
  BY <1>4 DEF Latest
-----------------------------------------------------------------------------
(* Blind validation: the inductive invariant *)

\* Run i of p came to its end.
Good(i, p) == i \in RunsOf(p) /\ inferences[i].status \in {"completed", "frozen"}

\* The parts of the invariant beside the types.
BlindRest ==
  /\ bpc \in {"infer", "again"} =>
       inferences # <<>> /\ inferences[Len(inferences)].status = "running"
  /\ bpc \in {"active", "next", "proposal", "commit"} =>
       \A p \in Participants : CompletedRuns(p) # {}
  /\ bpc \in {"next", "proposal", "commit"} =>
       packages["active_candidate"] = Latest("active_candidate")
  /\ bpc = "commit" => packages["proposal"] = Latest("proposal")
  /\ commitments # NoRuns => \A p \in Participants : commitments[p] # 0
  /\ FilesFollowCommitment
  /\ \A p \in Participants : packages[p] # 0 => Good(packages[p], p)
  /\ \A p \in Participants : evaluation[p] # 0 => unlocked /\ Good(evaluation[p], p)
  /\ unlocked => unlockedAt = Len(inferences)

BlindInv == BlindTypeOK /\ BlindRest

LEMMA BlindBase == BlindInit => BlindInv
<1> SUFFICES ASSUME BlindInit PROVE BlindInv
  OBVIOUS
<1>1. BlindTypeOK
  <2>1. NoRuns \in Selection
    BY DEF NoRuns, Selection
  <2>2. inferences \in Seq([by : Participants, status : Statuses])
    BY DEF BlindInit
  <2> QED
    BY <2>1, <2>2 DEF BlindInit, BlindTypeOK, Participants
<1> QED
  BY <1>1 DEF BlindInit, BlindInv, BlindRest, NoRuns, Participants,
    FilesFollowCommitment

Runs == [by : Participants, status : Statuses]
Over == {"completed", "frozen"}

LEMMA RunsType ==
  ASSUME BlindTypeOK
  PROVE  /\ inferences \in Seq(Runs) /\ Len(inferences) \in Nat
         /\ DOMAIN inferences = 1..Len(inferences)
         /\ \A i \in 1..Len(inferences) :
              inferences[i] \in Runs /\ inferences[i].by \in Participants
                                     /\ inferences[i].status \in Statuses
<1>1. inferences \in Seq(Runs)
  BY DEF BlindTypeOK, Runs
<1>2. \A r \in Runs : r.by \in Participants /\ r.status \in Statuses
  BY DEF Runs
<1> QED
  BY <1>1, <1>2

\* What no step does to the runs: it takes none away, makes none after the unlock, and
\* gives none another participant, nor one that is over a status of one that is not; a
\* completed run stays completed until it is committed to.
LEMMA RunsKept ==
  ASSUME BlindInv, [BlindNext]_blindVars
  PROVE  /\ inferences' \in Seq(Runs)
         /\ Len(inferences') >= Len(inferences)
         /\ unlocked => Len(inferences') = Len(inferences)
         /\ \A i \in 1..Len(inferences) :
              /\ inferences'[i].by = inferences[i].by
              /\ inferences[i].status \in Over => inferences'[i].status \in Over
              /\ inferences[i].status = "completed" /\ ~ Commit =>
                   inferences'[i].status = "completed"
<1>0. /\ inferences \in Seq(Runs) /\ Len(inferences) \in Nat
      /\ DOMAIN inferences = 1..Len(inferences)
      /\ \A i \in 1..Len(inferences) :
              inferences[i] \in Runs /\ inferences[i].by \in Participants
                                     /\ inferences[i].status \in Statuses
  BY RunsType DEF BlindInv
<1>1. CASE UNCHANGED inferences
  BY <1>0, <1>1
<1>2. ASSUME NEW l \in {"infer", "again"}, NEW p \in Participants, MayRun(p), StartRun(p, l)
      PROVE  /\ ~ unlocked /\ inferences' \in Seq(Runs)
             /\ Len(inferences') = Len(inferences) + 1
             /\ \A i \in 1..Len(inferences) : inferences'[i] = inferences[i]
  <2>1. [by |-> p, status |-> "running"] \in Runs
    BY DEF Runs, Statuses
  <2>2. ~ unlocked /\ inferences' = Append(inferences, [by |-> p, status |-> "running"])
    BY <1>2 DEF StartRun, MayRun
  <2> QED
    BY <1>0, <2>1, <2>2
<1>3. ASSUME NEW k \in 1..Len(inferences), NEW s \in Statuses, inferences[k].status \notin Over,
             inferences' = [inferences EXCEPT ![k].status = s]
      PROVE  /\ inferences' \in Seq(Runs)
             /\ Len(inferences') = Len(inferences)
             /\ \A i \in 1..Len(inferences) :
                  /\ inferences'[i].by = inferences[i].by
                  /\ inferences[i].status \in Over => inferences'[i] = inferences[i]
  <2> DEFINE r == [inferences[k] EXCEPT !.status = s]
  <2>1. inferences' = [inferences EXCEPT ![k] = r]
    BY <1>3
  <2>2. r \in Runs /\ r.by = inferences[k].by
    BY <1>0 DEF Runs
  <2> HIDE DEF r
  <2> QED
    BY <1>0, <1>3, <2>1, <2>2
<1>4. ASSUME Commit
      PROVE  /\ inferences' \in Seq(Runs)
             /\ Len(inferences') = Len(inferences)
             /\ \A i \in 1..Len(inferences) :
                  /\ inferences'[i].by = inferences[i].by
                  /\ inferences'[i].status \in {inferences[i].status, "frozen"}
  <2> DEFINE r(i) == IF \E p \in Participants : i = Latest(p)
                     THEN [inferences[i] EXCEPT !.status = "frozen"] ELSE inferences[i]
  <2>1. inferences' = [i \in 1..Len(inferences) |-> r(i)]
    BY <1>0, <1>4 DEF Commit, SaveCommitments
  <2>2. ASSUME NEW i \in 1..Len(inferences)
        PROVE  r(i) \in Runs /\ r(i).by = inferences[i].by
                             /\ r(i).status \in {inferences[i].status, "frozen"}
    BY <1>0 DEF Runs, Statuses
  <2> HIDE DEF r
  <2> QED
    BY <1>0, <2>1, <2>2
<1>5. ASSUME NEW p \in Participants, Run(p) \/ Resume
      PROVE  \E l \in {"infer", "again"}, q \in Participants : MayRun(q) /\ StartRun(q, l)
  BY <1>5 DEF Run, Resume, BlindInv, BlindTypeOK
<1>6. ASSUME Infer, inferences' # inferences
      PROVE  \E k \in 1..Len(inferences), s \in Statuses :
               inferences[k].status \notin Over /\ inferences' = [inferences EXCEPT ![k].status = s]
  <2>1. Len(inferences) \in 1..Len(inferences) /\ inferences[Len(inferences)].status \notin Over
    BY <1>0, <1>6 DEF Infer, BlindInv, BlindRest, Over
  <2>2. PICK s \in {"completed", "interrupted"} : Last(s)
    BY <1>6 DEF Infer
  <2> QED
    BY <2>1, <2>2 DEF Last, Statuses
<1>7. ASSUME NEW i \in DOMAIN inferences, RecoverRun(i)
      PROVE  \E k \in 1..Len(inferences), s \in Statuses :
               inferences[k].status \notin Over /\ inferences' = [inferences EXCEPT ![k].status = s]
  <2>1. "recovered" \in Statuses /\ i \in 1..Len(inferences) /\ inferences[i].status \notin Over
    BY <1>0, <1>7 DEF RecoverRun, Over, Statuses
  <2> QED
    BY <1>7, <2>1 DEF RecoverRun
<1>8. CASE \E l \in {"infer", "again"}, q \in Participants : MayRun(q) /\ StartRun(q, l)
  BY <1>0, <1>2, <1>8
<1>9. CASE \E k \in 1..Len(inferences), s \in Statuses :
               inferences[k].status \notin Over /\ inferences' = [inferences EXCEPT ![k].status = s]
  <2>1. PICK k \in 1..Len(inferences), s \in Statuses :
          inferences[k].status \notin Over /\ inferences' = [inferences EXCEPT ![k].status = s]
    BY <1>9
  <2>2. /\ inferences' \in Seq(Runs) /\ Len(inferences') = Len(inferences)
        /\ \A i \in 1..Len(inferences) :
             /\ inferences'[i].by = inferences[i].by
             /\ inferences[i].status \in Over => inferences'[i] = inferences[i]
    BY <1>3, <2>1
  <2> QED
    BY <1>0, <2>2 DEF Over
<1>10. CASE Commit
  BY <1>0, <1>4, <1>10 DEF Over
<1>11. \/ UNCHANGED inferences \/ Commit \/ Infer \/ Resume
       \/ \E p \in Participants : Run(p)
       \/ \E i \in DOMAIN inferences : RecoverRun(i)
  BY DEF BlindNext, Judge, BlindContinue, blindVars, CheckOverlap, CheckBlindness, FreezePlan, FreezeActive,
         AuthorizeUnlock, UnlockLabels, Evaluate, Compare, CreateReview, CompleteReview,
         ResumeRefused, WriteActive, OpenProposal, WriteProposal, Decide, BlindRestart
<1> QED
  BY <1>1, <1>5, <1>6, <1>7, <1>8, <1>9, <1>10, <1>11 DEF Participants

\* A run that is over stays so.
LEMMA GoodStays ==
  ASSUME BlindInv, [BlindNext]_blindVars, NEW i \in Nat, NEW p \in Participants, Good(i, p)
  PROVE  Good(i, p)'
<1>1. i \in 1..Len(inferences) /\ inferences[i].by = p /\ inferences[i].status \in Over
  BY RunsType DEF BlindInv, Good, RunsOf, Over
<1>2. /\ Len(inferences) \in Nat /\ Len(inferences') \in Nat
      /\ DOMAIN inferences' = 1..Len(inferences')
  BY RunsType, RunsKept DEF BlindInv
<1>3. i \in DOMAIN inferences' /\ inferences'[i].by = p /\ inferences'[i].status \in Over
  BY <1>1, <1>2, RunsKept
<1> QED
  BY <1>3 DEF Good, RunsOf, Over

\* A completed run is one until it is committed to.
LEMMA CompletedStays ==
  ASSUME BlindInv, [BlindNext]_blindVars, ~ Commit, NEW p \in Participants
  PROVE  CompletedRuns(p) \subseteq CompletedRuns(p)'
<1> SUFFICES ASSUME NEW i \in CompletedRuns(p) PROVE i \in CompletedRuns(p)'
  OBVIOUS
<1>1. /\ DOMAIN inferences = 1..Len(inferences) /\ Len(inferences) \in Nat
      /\ DOMAIN inferences' = 1..Len(inferences') /\ Len(inferences') \in Nat
  BY RunsType, RunsKept DEF BlindInv
<1>2. i \in 1..Len(inferences) /\ inferences[i].by = p /\ inferences[i].status = "completed"
  BY <1>1 DEF CompletedRuns, RunsOf
<1>3. /\ Len(inferences') >= Len(inferences)
      /\ inferences'[i].by = inferences[i].by
      /\ inferences[i].status = "completed" => inferences'[i].status = "completed"
  BY <1>2, RunsKept
<1>4. i \in DOMAIN inferences' /\ inferences'[i].by = p /\ inferences'[i].status = "completed"
  BY <1>1, <1>2, <1>3
<1> QED
  BY <1>4 DEF CompletedRuns, RunsOf

\* What an action may do to packages is write the last completed run.
LEMMA LatestGood ==
  ASSUME BlindInv, NEW p \in Participants, CompletedRuns(p) # {}
  PROVE  Good(Latest(p), p) /\ Latest(p) \in Nat /\ Latest(p) # 0
<1>1. Latest(p) \in CompletedRuns(p)
  BY LatestCompleted DEF BlindInv
<1> QED
  BY <1>1, RunsType DEF BlindInv, Good, CompletedRuns, RunsOf

LEMMA BlindTypeStep == BlindInv /\ [BlindNext]_blindVars => BlindTypeOK'
<1> SUFFICES ASSUME BlindInv, [BlindNext]_blindVars PROVE BlindTypeOK'
  OBVIOUS
<1>1. inferences' \in Seq([by : Participants, status : Statuses])
  BY RunsKept DEF Runs
<1>2. \A p \in Participants : CompletedRuns(p) # {} => Latest(p) \in Nat
  BY LatestGood
<1>3. Len(inferences) \in Nat /\ NoRuns \in Selection
  BY RunsType DEF BlindInv, NoRuns, Selection
<1>4. ASSUME NEW p \in Participants,
             OpenPackage(p) \/ (WritePackage(p) /\ CompletedRuns(p) # {})
      PROVE  packages' \in Selection
  <2>1. \E i \in Nat : packages' = [packages EXCEPT ![p] = i]
    BY <1>2, <1>4 DEF OpenPackage, WritePackage
  <2> QED
    BY <2>1 DEF BlindInv, BlindTypeOK, Selection
<1> USE DEF BlindInv, BlindTypeOK, Proceed, BlindFault, gates, labels, verdict, bRequest
<1>5. CASE CheckOverlap \/ CheckBlindness \/ FreezePlan
  <2>1. CASE CheckOverlap
    BY <1>1, <2>1 DEF CheckOverlap
  <2>2. CASE CheckBlindness
    BY <1>1, <2>2 DEF CheckBlindness
  <2>3. CASE FreezePlan
    BY <1>1, <2>3 DEF FreezePlan
  <2> QED
    BY <1>5, <2>1, <2>2, <2>3
<1>6. ASSUME NEW p \in Participants, Run(p) PROVE BlindTypeOK'
  BY <1>1, <1>6 DEF Run, StartRun
<1>7. CASE Infer \/ Resume \/ ResumeRefused
  BY <1>1, <1>7 DEF Infer, Resume, ResumeRefused, StartRun
<1>8. ASSUME NEW i \in DOMAIN inferences, RecoverRun(i) PROVE BlindTypeOK'
  <2>1. inferences[i].by \in Participants
    BY RunsType
  <2> QED
    BY <1>1, <1>8, <2>1 DEF RecoverRun
<1>9. CASE FreezeActive \/ OpenProposal
  <2>1. packages' \in Selection
    BY <1>4, <1>9 DEF FreezeActive, OpenProposal, Participants
  <2> QED
    BY <1>1, <1>9, <2>1 DEF FreezeActive, OpenProposal
<1>10. CASE WriteActive \/ WriteProposal
  <2>1. packages' \in Selection
    BY <1>4, <1>10 DEF WriteActive, WriteProposal, Participants, BlindRest
  <2> QED
    BY <1>1, <1>10, <2>1 DEF WriteActive, WriteProposal
<1>11. CASE Commit
  <2>1. commitments' \in Selection
    BY <1>2, <1>11 DEF Commit, SaveCommitments, BlindRest, Selection
  <2> QED
    BY <1>1, <1>11, <2>1 DEF Commit
<1>12. CASE AuthorizeUnlock \/ UnlockLabels
  <2>1. CASE AuthorizeUnlock
    BY <1>1, <2>1 DEF AuthorizeUnlock
  <2>2. CASE UnlockLabels
    BY <1>1, <1>3, <2>2 DEF UnlockLabels
  <2> QED
    BY <1>12, <2>1, <2>2
<1>13. CASE Judge
  BY <1>1, <1>13 DEF Judge, Evaluate, Compare, CreateReview, CompleteReview
<1>14. CASE Decide \/ BlindRestart
  <2>1. CASE Decide
    BY <1>1, <2>1 DEF Decide
  <2>2. CASE BlindRestart
    BY <1>1, <2>2 DEF BlindRestart
  <2> QED
    BY <1>14, <2>1, <2>2
<1>15. CASE UNCHANGED blindVars
  BY <1>15 DEF blindVars
<1> QED
  BY <1>5, <1>6, <1>7, <1>8, <1>9, <1>10, <1>11, <1>12, <1>13, <1>14, <1>15 DEF BlindNext, BlindContinue

LEMMA BlindRestStep == BlindInv /\ [BlindNext]_blindVars => BlindRest'
<1> SUFFICES ASSUME BlindInv, [BlindNext]_blindVars PROVE BlindRest'
  OBVIOUS
<1>1. \A i \in Nat, p \in Participants : Good(i, p) => Good(i, p)'
  BY GoodStays
<1>2. \A p \in Participants : packages[p] \in Nat /\ evaluation[p] \in Nat
  BY DEF BlindInv, BlindTypeOK, Selection
<1>3. \A p \in Participants : CompletedRuns(p) # {} =>
        Good(Latest(p), p) /\ Latest(p) \in CompletedRuns(p) /\ Latest(p) # 0
  BY LatestGood, LatestCompleted DEF BlindInv
<1>4. UNCHANGED inferences =>
        \A p \in Participants : CompletedRuns(p)' = CompletedRuns(p) /\ Latest(p)' = Latest(p)
  BY DEF CompletedRuns, RunsOf, Latest
<1>5. /\ inferences \in Seq(Runs) /\ Len(inferences) \in Nat /\ DOMAIN inferences = 1..Len(inferences)
      /\ \A i \in 1..Len(inferences) : inferences[i] \in Runs
  BY RunsType DEF BlindInv
<1>c. ~ Commit => \A p \in Participants : CompletedRuns(p) \subseteq CompletedRuns(p)'
  BY CompletedStays
<1>f. UNCHANGED <<commitments, packages>> /\ ~ Commit => FilesFollowCommitment'
  <2> SUFFICES ASSUME UNCHANGED <<commitments, packages>>, ~ Commit, commitments # NoRuns
               PROVE  (packages = commitments \/ \A p \in Participants :
                         /\ CompletedRuns(p) # {}
                         /\ packages[p] \in {0, commitments[p]} \union CompletedRuns(p))'
    BY DEF FilesFollowCommitment, NoRuns
  <2>1. \A p \in Participants : CompletedRuns(p) \subseteq CompletedRuns(p)'
    BY <1>c
  <2> QED
    BY <2>1 DEF BlindInv, BlindRest, FilesFollowCommitment
<1> USE DEF BlindInv, BlindRest
\* Steps that neither read nor write what the invariant is about.
<1>6. CASE /\ UNCHANGED <<inferences, commitments, unlocked, unlockedAt, evaluation, packages>>
           /\ bpc' \in {"idle", "decide", bpc} /\ ~ Commit
  <2>1. \A p \in Participants :
          /\ CompletedRuns(p)' = CompletedRuns(p) /\ Latest(p)' = Latest(p)
          /\ \A i \in Nat : Good(i, p)' <=> Good(i, p)
    BY <1>4, <1>6 DEF Good, RunsOf
  <2>2. FilesFollowCommitment'
    BY <1>6, <1>f
  <2>3. (commitments # NoRuns => \A p \in Participants : commitments[p] # 0)'
    BY <1>6 DEF NoRuns
  <2>4. /\ (\A p \in Participants : packages[p] # 0 => Good(packages[p], p))'
        /\ (\A p \in Participants : evaluation[p] # 0 => unlocked /\ Good(evaluation[p], p))'
    BY <1>2, <1>6, <2>1
  <2> QED
    BY <1>6, <2>1, <2>2, <2>3, <2>4 DEF Participants
<1>7. ASSUME NEW p \in Participants, NEW l \in {"infer", "again"}, MayRun(p), StartRun(p, l), ~ Commit
      PROVE  BlindRest'
  <2>1. inferences' # <<>> /\ inferences'[Len(inferences')].status = "running"
    BY <1>5, <1>7 DEF StartRun
  <2>2. ~ unlocked'
    BY <1>7 DEF StartRun, MayRun, labels
  <2> QED
    BY <1>1, <1>2, <1>7, <1>f, <2>1, <2>2 DEF StartRun, MayRun, labels, verdict, NoRuns
<1>8. ASSUME bpc' \in {"idle", "resume"}, Len(inferences') = Len(inferences), ~ Commit,
             UNCHANGED <<commitments, labels, verdict, packages>>
      PROVE  BlindRest'
  BY <1>1, <1>2, <1>8, <1>f DEF labels, verdict, NoRuns
<1>9. CASE Infer
  BY <1>8, <1>9, <1>5 DEF Infer, Commit, Proceed, Last
<1>10. ASSUME NEW i \in DOMAIN inferences, RecoverRun(i) PROVE BlindRest'
  BY <1>8, <1>10, <1>5 DEF RecoverRun, Idle, Commit
\* Each step of a freeze writes one file, of a participant that has completed runs.
<1>11. ASSUME NEW p \in Participants, OpenPackage(p) \/ WritePackage(p),
              UNCHANGED <<inferences, commitments>>,
              \A q \in Participants : CompletedRuns(q) # {}
       PROVE  /\ \A q \in Participants : CompletedRuns(q)' # {}
              /\ \A q \in Participants : q # p => packages'[q] = packages[q]
              /\ WritePackage(p) => packages'[p] = Latest(p)'
              /\ FilesFollowCommitment'
              /\ (\A q \in Participants : packages[q] # 0 => Good(packages[q], q))'
  <2>1. \A q \in Participants : \/ q # p /\ packages'[q] = packages[q]
                                \/ q = p /\ packages'[q] = 0 /\ ~ WritePackage(p)
                                \/ q = p /\ packages'[q] = Latest(p)
    BY <1>11 DEF OpenPackage, WritePackage, BlindTypeOK, Selection
  <2>2. WritePackage(p) => packages'[p] = Latest(p)
    BY DEF WritePackage, BlindTypeOK, Selection
  <2>3. \A q \in Participants : CompletedRuns(q)' = CompletedRuns(q) /\ Latest(q)' = Latest(q)
    BY <1>4, <1>11
  <2>4. \A q \in Participants : Good(packages[q], q)' <=> Good(packages'[q], q)
    BY <1>11 DEF Good, RunsOf
  <2>5. ASSUME NEW q \in Participants, packages'[q] # 0 PROVE Good(packages'[q], q)
    BY <1>3, <1>11, <2>1, <2>5
  <2>6. ASSUME commitments # NoRuns, NEW q \in Participants
        PROVE  packages'[q] \in {0, commitments[q]} \union CompletedRuns(q)
    BY <1>3, <1>11, <2>1, <2>6 DEF FilesFollowCommitment
  <2>7. FilesFollowCommitment'
    BY <1>11, <2>3, <2>6 DEF FilesFollowCommitment, NoRuns
  <2> QED
    BY <1>11, <2>1, <2>2, <2>3, <2>4, <2>5, <2>7
<1>12. CASE FreezeActive
  <2>1. /\ \A q \in Participants : CompletedRuns(q)' # {}
        /\ FilesFollowCommitment'
        /\ (\A q \in Participants : packages[q] # 0 => Good(packages[q], q))'
    BY <1>11, <1>12 DEF FreezeActive, Participants
  <2> QED
    BY <1>1, <1>2, <1>12, <2>1 DEF FreezeActive, Proceed, labels, verdict, NoRuns
<1>13. CASE WriteActive
  <2>1. /\ \A q \in Participants : CompletedRuns(q)' # {}
        /\ packages'["active_candidate"] = Latest("active_candidate")'
        /\ FilesFollowCommitment'
        /\ (\A q \in Participants : packages[q] # 0 => Good(packages[q], q))'
    BY <1>11, <1>13 DEF WriteActive, Participants
  <2> QED
    BY <1>1, <1>2, <1>13, <2>1 DEF WriteActive, Proceed, labels, verdict, NoRuns
<1>14. CASE OpenProposal \/ WriteProposal
  <2>1. bpc \in {"next", "proposal"} /\ UNCHANGED <<inferences, commitments>>
        /\ \A q \in Participants : CompletedRuns(q) # {}
    BY <1>14 DEF OpenProposal, WriteProposal
  <2>2. /\ \A q \in Participants : CompletedRuns(q)' # {}
        /\ packages'["active_candidate"] = packages["active_candidate"]
        /\ WriteProposal => packages'["proposal"] = Latest("proposal")'
        /\ FilesFollowCommitment'
        /\ (\A q \in Participants : packages[q] # 0 => Good(packages[q], q))'
    BY <1>11, <1>14, <2>1 DEF OpenProposal, WriteProposal, Participants
  <2>3. packages'["active_candidate"] = Latest("active_candidate")'
    BY <1>4, <2>1, <2>2 DEF Participants
  <2> QED
    BY <1>1, <1>2, <1>14, <2>1, <2>2, <2>3
    DEF OpenProposal, WriteProposal, Proceed, labels, verdict, NoRuns
<1>15. CASE Commit
  <2>1. \A p \in Participants : packages[p] = Latest(p) /\ Latest(p) # 0
    BY <1>3, <1>15 DEF Commit, Participants
  <2>2. Len(inferences') = Len(inferences)
    BY <1>5, <1>15 DEF Commit, SaveCommitments
  <2>3. \A p \in Participants : commitments'[p] = Latest(p)
    BY <1>15 DEF Commit, SaveCommitments
  <2>4. packages' = commitments'
    BY <1>15, <2>1 DEF Commit, SaveCommitments, BlindTypeOK, Selection
  <2> QED
    BY <1>1, <1>2, <1>15, <2>1, <2>2, <2>3, <2>4
    DEF Commit, FilesFollowCommitment, Proceed, labels, verdict
<1>16. CASE UnlockLabels
  BY <1>1, <1>2, <1>4, <1>5, <1>16, <1>f DEF UnlockLabels, gates, verdict, bRequest, Idle, Commit
<1>17. CASE Evaluate
  BY <1>1, <1>2, <1>4, <1>17, <1>f DEF Evaluate, FilesReadable, labels, bRequest, Idle, Commit
<1>18. ASSUME NEW p \in Participants, Run(p) PROVE BlindRest'
  BY <1>7, <1>18 DEF Run, Idle, Commit
<1>19. CASE Resume
  BY <1>7, <1>19 DEF Resume, Commit, BlindTypeOK
<1>20. CASE CheckOverlap \/ CheckBlindness \/ FreezePlan \/ AuthorizeUnlock \/ ResumeRefused
  BY <1>6, <1>20 DEF CheckOverlap, CheckBlindness, FreezePlan, AuthorizeUnlock, ResumeRefused,
                     Idle, Commit, Proceed, gates, labels, verdict, bRequest
<1>21. CASE Compare \/ CreateReview \/ CompleteReview \/ Decide \/ UNCHANGED blindVars
  <2>1. CASE Commit
    BY <1>15, <2>1
  <2> QED
    BY <1>6, <1>21, <2>1 DEF Compare, CreateReview, CompleteReview, Decide, blindVars,
                        Proceed, gates, labels, verdict, bRequest
<1>22. CASE BlindRestart
  <2>1. CASE Commit
    BY <1>15, <2>1
  <2> QED
    BY <1>6, <1>22, <2>1 DEF BlindRestart, Proceed, gates, labels, verdict, bRequest
<1> QED
  BY <1>9, <1>10, <1>12, <1>13, <1>14, <1>15, <1>16, <1>17, <1>18, <1>19, <1>20, <1>21, <1>22
  DEF BlindNext, Judge, BlindContinue

LEMMA BlindStep == BlindInv /\ [BlindNext]_blindVars => BlindInv'
BY BlindTypeStep, BlindRestStep DEF BlindInv

\* Every variable of the validation keeps its type.
THEOREM BlindTypeCorrect == BlindSpec => []BlindTypeOK
<1>1. BlindInv => BlindTypeOK
  BY DEF BlindInv
<1> QED
  BY <1>1, BlindBase, BlindStep, PTL DEF BlindSpec

\* Whatever is recovered and frozen again, and wherever a freeze is cut off, between its files
\* or within one, the files are those of the commitment or the freeze can be asked for again.
THEOREM FilesAreCommitted == BlindSpec => []FilesFollowCommitment
<1>1. BlindInv => FilesFollowCommitment
  BY DEF BlindInv, BlindRest
<1> QED
  BY <1>1, BlindBase, BlindStep, PTL DEF BlindSpec

\* What is evaluated was inferred to the end before the unlock.
THEOREM EvaluatedIsBlind == BlindSpec => []PredictedBlind
<1>1. BlindInv => PredictedBlind
  BY RunsType DEF BlindInv, BlindRest, PredictedBlind, Good, RunsOf
<1> QED
  BY <1>1, BlindBase, BlindStep, PTL DEF BlindSpec
-----------------------------------------------------------------------------
(* Blind validation: there is a next step *)

\* What the gates and the labels need of each other.
GatesInv ==
  /\ blindness = "failed" => leaky
  /\ blindness \in {"passed", "failed"} => overlap
  /\ unlocked => authorized
  /\ authorized => commitments # NoRuns
  /\ evaluation # NoRuns => unlocked
  /\ acceptance # NoRuns => evaluation # NoRuns

LEMMA GatesStep == BlindInv /\ GatesInv /\ [BlindNext]_blindVars => GatesInv'
<1> SUFFICES ASSUME BlindInv, GatesInv, [BlindNext]_blindVars PROVE GatesInv'
  OBVIOUS
<1> USE DEF GatesInv, gates, labels, verdict, bRequest
<1>1. CASE CheckOverlap \/ CheckBlindness \/ FreezePlan
  BY <1>1 DEF CheckOverlap, CheckBlindness, FreezePlan
<1>2. CASE Commit
  <2>1. \A p \in Participants : Latest(p) # 0
    BY <1>2, LatestGood DEF Commit, BlindInv, BlindRest
  <2>2. commitments' # NoRuns
    BY <1>2, <2>1 DEF Commit, SaveCommitments, NoRuns, Participants
  <2> QED
    BY <1>2, <2>2 DEF Commit
<1>3. CASE AuthorizeUnlock \/ UnlockLabels
  BY <1>3 DEF AuthorizeUnlock, UnlockLabels
<1>4. CASE Evaluate
  <2>1. evaluation' # NoRuns
    BY <1>4 DEF Evaluate, FilesReadable, NoRuns, Participants
  <2> QED
    BY <1>4, <2>1 DEF Evaluate
<1>5. CASE Compare
  BY <1>5 DEF Compare
<1>6. CASE UNCHANGED <<gates, commitments, labels, evaluation, acceptance>>
  BY <1>6
<1> QED
  BY <1>1, <1>2, <1>3, <1>4, <1>5, <1>6
  DEF BlindNext, Judge, BlindContinue, Run, StartRun, RecoverRun, FreezeActive, CreateReview,
      CompleteReview, Infer, Resume, ResumeRefused, WriteActive, OpenProposal, WriteProposal, Decide,
      BlindRestart, blindVars

\* The guards of the steps of Advance, in the order of the procedure.
MayAdvance ==
  \/ ~ overlap                                                          \* CheckOverlap
  \/ overlap /\ blindness = "none"                                      \* CheckBlindness
  \/ blindness = "passed" /\ ~ planFrozen                               \* FreezePlan
  \/ commitments = NoRuns /\ \E p \in Participants : CompletedRuns(p) = {} /\ MayRun(p)  \* Run
  \/ commitments = NoRuns /\ \A p \in Participants : CompletedRuns(p) # {}  \* FreezeActive
  \/ commitments # NoRuns /\ ~ authorized                               \* AuthorizeUnlock
  \/ authorized /\ ~ unlocked                                           \* UnlockLabels
  \/ unlocked /\ evaluation = NoRuns /\ FilesReadable                    \* Evaluate
  \/ /\ evaluation = NoRuns /\ ~ FilesReadable                           \* FreezeActive
     /\ \A p \in Participants : CompletedRuns(p) # {}
  \/ evaluation # NoRuns /\ acceptance = NoRuns                         \* Compare
  \/ acceptance # NoRuns /\ review = "none"                             \* CreateReview
  \/ review # "none" /\ ~ decided                                       \* CompleteReview

\* The bound of the model, which the code does not have.
RunsAreLeft == \A p \in Participants : Cardinality(RunsOf(p)) < MaxRuns

\* A validation that is neither decided nor stopped by its gate has a next step.
HasNextStep == Idle /\ ~ decided /\ ~ leaky /\ RunsAreLeft => MayAdvance

\* The safety half of ValidationSettles: wherever the console ended, between any two
\* files and rows or within a file, no gate is closed for good: the labels, after which
\* nothing can be inferred, are unlocked over files that can be read or frozen again.
THEOREM ValidationHasNextStep == BlindSpec => []HasNextStep
<1>1. BlindInit => GatesInv
  BY DEF BlindInit, GatesInv
<1>2. BlindInv /\ GatesInv => HasNextStep
  <2> SUFFICES ASSUME BlindInv, GatesInv, ~ decided, ~ leaky, RunsAreLeft PROVE MayAdvance
    BY DEF HasNextStep
  <2>1. CASE ~ planFrozen
    BY <2>1 DEF BlindInv, BlindTypeOK, GatesInv, MayAdvance
  <2>2. CASE planFrozen /\ commitments = NoRuns
    <3>1. ~ unlocked
      BY <2>2 DEF GatesInv
    <3> QED
      BY <2>2, <3>1 DEF MayRun, RunsAreLeft, MayAdvance
  <2>3. CASE commitments # NoRuns
    <3>1. FilesReadable \/ \A p \in Participants : CompletedRuns(p) # {}
      BY <2>3 DEF BlindInv, BlindRest, FilesFollowCommitment, FilesReadable
    <3> QED
      BY <2>3, <3>1 DEF MayAdvance
  <2> QED
    BY <2>1, <2>2, <2>3
<1> QED
  BY <1>1, <1>2, BlindBase, BlindStep, GatesStep, PTL DEF BlindSpec
-----------------------------------------------------------------------------
(* Laboratory runs *)

\* The bundle of run r holds the result h, whole.
Holds(r, h) == files[r] = h /\ manifest[r] = h /\ semantic[r] = h

LabInv ==
  /\ LabTypeOK
  /\ \A r \in LabRuns :
       /\ manifest[r] # {} => manifest[r] = files[r]
       /\ semantic[r] # {} => semantic[r] = manifest[r]
       /\ state[r] = "completed" => result[r] # {} /\ Holds(r, result[r])
  /\ lpc \notin {"idle", "resume", "audit"} => state[lrun] = "running"
  /\ lpc = "resume" => state[lrun] = "recovering"
  /\ lpc \in {"files", "manifest", "semantic", "save"} => built # {}
  /\ lpc = "manifest" => files[lrun] = built /\ manifest[lrun] = {}
  /\ lpc = "semantic" => files[lrun] = built /\ manifest[lrun] = built /\ semantic[lrun] = {}
  /\ lpc = "save" => Holds(lrun, built)
  /\ lpc = "audit" => result[lrun] = built /\ state[lrun] = "completed"

LEMMA LabBase == LabInit => LabInv
BY DEF LabInit, LabInv, LabTypeOK, Results, States, Ended

\* Every action changes one run, and that from the place its request is at.
LEMMA LabStep == LabInv /\ [LabNext]_labVars => LabInv'
<1> SUFFICES ASSUME LabInv, [LabNext]_labVars PROVE LabInv'
  OBVIOUS
<1> USE DEF LabInv, LabTypeOK, Results, States, Ended, Save, LabGoto,
            bundle, request, labFaults, Holds
<1>1. ASSUME NEW r \in LabRuns, Manage(r) PROVE LabInv'
  BY <1>1 DEF Manage, Transition
<1>2. ASSUME NEW r \in LabRuns, LabRecover(r) PROVE LabInv'
  BY <1>2 DEF LabRecover
<1>3. ASSUME NEW r \in LabRuns, NEW b \in BOOLEAN, Execute(r, b) PROVE LabInv'
  BY <1>3 DEF Execute
<1>4. CASE Checkpoint \/ LabResume
  BY <1>4 DEF Checkpoint, LabResume
<1>5. CASE Build
  BY <1>5 DEF Build
<1>6. CASE WriteFiles
  BY <1>6 DEF WriteFiles
<1>7. CASE WriteManifest
  BY <1>7 DEF WriteManifest
<1>8. CASE WriteSemantic
  BY <1>8 DEF WriteSemantic
<1>9. CASE Complete \/ Audit
  BY <1>9 DEF Complete, Audit
<1>10. CASE ExecuteFailed
  BY <1>10 DEF ExecuteFailed
<1>11. CASE RowFails \/ LabRestart
  BY <1>11 DEF RowFails, LabRestart
<1>12. CASE UNCHANGED labVars
  BY <1>12 DEF labVars
<1> QED
  BY <1>1, <1>2, <1>3, <1>4, <1>5, <1>6, <1>7, <1>8, <1>9, <1>10, <1>11, <1>12
  DEF LabNext, LabContinue

\* Every variable of the laboratory runs keeps its type.
THEOREM LabTypeCorrect == LabSpec => []LabTypeOK
<1>1. LabInv => LabTypeOK
  BY DEF LabInv
<1> QED
  BY <1>1, LabBase, LabStep, PTL DEF LabSpec

\* What a completed run promises is in its bundle, all of it from one execution.
THEOREM CompletedRunsVerify == LabSpec => []CompletedIsVerifiable
<1>1. LabInv => CompletedIsVerifiable
  BY DEF LabInv, CompletedIsVerifiable, Holds
<1> QED
  BY <1>1, LabBase, LabStep, PTL DEF LabSpec

\* No step touches a bundle that has a manifest.
THEOREM BundlesStay == LabSpec => BundleImmutable
<1> DEFINE Kept == \A r \in LabRuns : manifest[r] # {} =>
                     /\ manifest'[r] = manifest[r] /\ files'[r] = files[r]
                     /\ semantic[r] # {} => semantic'[r] = semantic[r]
<1>1. LabInv /\ [LabNext]_labVars => [Kept]_(labVars)
  <2> SUFFICES ASSUME LabInv, LabNext PROVE Kept
    OBVIOUS
  <2>1. CASE UNCHANGED bundle
    BY <2>1 DEF bundle
  <2>2. CASE WriteFiles \/ WriteManifest \/ WriteSemantic
    BY <2>2 DEF LabInv, LabTypeOK, WriteFiles, WriteManifest, WriteSemantic
  <2> QED
    BY <2>1, <2>2 DEF LabNext, LabContinue, Manage, Transition, LabRecover, Execute,
         Checkpoint, LabResume, Build, Complete, Audit, ExecuteFailed, RowFails, LabRestart
<1> QED
  BY <1>1, LabBase, LabStep, PTL DEF LabSpec, BundleImmutable
-----------------------------------------------------------------------------
(* Laboratory runs: what becomes of the row of a run *)

LEMMA StrandedStep == LabInv /\ StrandedByRow /\ [LabNext]_labVars => StrandedByRow'
<1> SUFFICES ASSUME LabInv, StrandedByRow, [LabNext]_labVars, NEW r \in LabRuns, Stranded(r)'
             PROVE  r \in unsaved'
  BY DEF StrandedByRow
<1> USE DEF LabInv, LabTypeOK, StrandedByRow, Stranded, Executes, Save, LabGoto, request, labFaults
<1>1. ASSUME NEW q \in LabRuns, Manage(q) PROVE r \in unsaved'
  BY <1>1 DEF Manage, Transition
<1>2. ASSUME NEW q \in LabRuns, LabRecover(q) PROVE r \in unsaved'
  BY <1>2 DEF LabRecover
<1>3. ASSUME NEW q \in LabRuns, NEW b \in BOOLEAN, Execute(q, b) PROVE r \in unsaved'
  BY <1>3 DEF Execute
<1>4. CASE Checkpoint \/ LabResume
  BY <1>4 DEF Checkpoint, LabResume
<1>5. CASE Build \/ WriteFiles \/ WriteManifest \/ WriteSemantic
  BY <1>5 DEF Build, WriteFiles, WriteManifest, WriteSemantic
<1>6. CASE Complete \/ Audit
  BY <1>6 DEF Complete, Audit
<1>7. CASE ExecuteFailed
  BY <1>7 DEF ExecuteFailed
<1>8. CASE RowFails
  BY <1>8 DEF RowFails
<1>9. CASE LabRestart
  BY <1>9 DEF LabRestart
<1>10. CASE UNCHANGED labVars
  BY <1>10 DEF labVars
<1> QED
  BY <1>1, <1>2, <1>3, <1>4, <1>5, <1>6, <1>7, <1>8, <1>9, <1>10 DEF LabNext, LabContinue

\* A row that says running has its request, or it is of a run whose row could not be written
\* since the console started: executions, errors that are caught and ends of the console take
\* no request away from its row, and every restart looks at all of them.
THEOREM RunsStrandedByRow == LabSpec => []StrandedByRow
<1>1. LabInit => StrandedByRow
  BY DEF LabInit, StrandedByRow, Stranded
<1> QED
  BY <1>1, LabBase, LabStep, StrandedStep, PTL DEF LabSpec

\* A run that has ended stays as it ended, but for one that was completed by the request
\* whose audit then fails.
EndedStays ==
  [][\A r \in LabRuns : state[r] \in Ended /\ state'[r] # state[r] =>
       /\ state[r] = "completed" /\ state'[r] = "failed"
       /\ lrun = r /\ lpc = "audit"]_labVars

\* The same of every behaviour of the service: no cancel, recovery, execution or restart
\* touches the row of a run that failed, was cancelled, or whose completion was audited.
THEOREM EndedRunsStay == LabSpec => EndedStays
<1> DEFINE Stays == \A r \in LabRuns : state[r] \in Ended /\ state'[r] # state[r] =>
                      /\ state[r] = "completed" /\ state'[r] = "failed"
                      /\ lrun = r /\ lpc = "audit"
<1>1. LabInv /\ [LabNext]_labVars => [Stays]_(labVars)
  <2> SUFFICES ASSUME LabInv, LabNext PROVE Stays
    OBVIOUS
  <2> USE DEF LabInv, LabTypeOK, Ended, Save
  <2>1. CASE state' = state
    BY <2>1
  <2>2. ASSUME NEW r \in LabRuns, Manage(r) \/ LabRecover(r) \/ \E b \in BOOLEAN : Execute(r, b)
        PROVE  Stays
    BY <2>2 DEF Manage, Transition, LabRecover, Execute
  <2>3. CASE Checkpoint \/ Complete
    BY <2>3 DEF Checkpoint, Complete
  <2>4. CASE LabResume
    BY <2>4 DEF LabResume
  <2>5. CASE ExecuteFailed
    BY <2>5 DEF ExecuteFailed
  <2>6. CASE LabRestart
    BY <2>6 DEF LabRestart
  <2> QED
    BY <2>1, <2>2, <2>3, <2>4, <2>5, <2>6
    DEF LabNext, LabContinue, Build, WriteFiles, WriteManifest, WriteSemantic, Audit, RowFails
<1> QED
  BY <1>1, LabBase, LabStep, PTL DEF LabSpec, EndedStays
-----------------------------------------------------------------------------
(* Candidate proposal: the inductive invariant *)

Executions == [status : TrainingStatuses, prediction : Predictions]

\* The parts of the invariant beside the types: what is assessed, ...
AssessedRest ==
  /\ assessed \subseteq Trained
  /\ assessed # {} => \E i, j \in assessed : i # j

\* ... what is bound, and what train() is at, ...
BoundRest ==
  /\ \A i, j, k \in bound : i = j \/ j = k \/ i = k
  /\ bound # {} => model \in bound /\ \A j \in bound : j <= model
  /\ ppc \in {"fit", "bind", "audit"} =>
       ~ frozen /\ trainings # <<>> /\ Len(trainings) \notin assessed
  /\ ppc \in {"fit", "bind"} => \A i, j \in bound : i = j

\* ... what the freeze fixes, ...
FrozenRest ==
  /\ frozen => assessed # {}
  /\ frozen /\ bound = Trained => Reproduced /\ assessed = Trained
  /\ screened # 0 => frozen /\ screened = LastTrained

\* ... and where a decision comes from.
AdmittedRest ==
  /\ good => screened # 0
  /\ \A r \in DOMAIN reviews : reviews[r] = "admitted_to_separate_validation" => good
  /\ admission \in Decisions => \E r \in DOMAIN reviews : reviews[r] = admission
  /\ ppc = "decide" => judged \in DOMAIN reviews /\ reviews[judged] \in Decisions

ProposalInv == ProposalTypeOK /\ AssessedRest /\ BoundRest /\ FrozenRest /\ AdmittedRest

\* The records are numbered from one, and their numbers are numbers.
LEMMA TrainingsType ==
  ASSUME ProposalTypeOK
  PROVE  /\ trainings \in Seq(Executions) /\ Len(trainings) \in Nat
         /\ DOMAIN trainings = 1..Len(trainings)
         /\ \A i \in DOMAIN trainings : trainings[i] \in Executions
         /\ Trained \subseteq DOMAIN trainings /\ Trained \in SUBSET Nat
         /\ IsFiniteSet(Trained)
<1>1. trainings \in Seq(Executions)
  BY DEF ProposalTypeOK, Executions
<1>2. Len(trainings) \in Nat /\ DOMAIN trainings = 1..Len(trainings)
      /\ \A i \in DOMAIN trainings : trainings[i] \in Executions
  BY <1>1
<1>3. Trained \subseteq 1..Len(trainings)
  BY <1>2 DEF Trained
<1>4. IsFiniteSet(Trained)
  <2>1. IsFiniteSet(1..Len(trainings))
    BY <1>2, FS_Interval
  <2> QED
    BY <1>3, <2>1, FS_Subset
<1> QED
  BY <1>1, <1>2, <1>3, <1>4

\* The last completed execution is one that is not before any other.
LEMMA LastTrainedIs ==
  ASSUME ProposalTypeOK, Trained # {}
  PROVE  LastTrained \in Trained /\ \A j \in Trained : j <= LastTrained
<1>1. \E i \in Trained : \A j \in Trained : j <= i
  BY TrainingsType, HasLast
<1> QED
  BY <1>1 DEF LastTrained

\* Two completed executions have a last two among them, which are two.
LEMMA LastTwoAre ==
  ASSUME ProposalTypeOK, \E i, j \in Trained : i # j
  PROVE  /\ LastTwo \subseteq Trained
         /\ \E i, j \in LastTwo : i # j
<1> DEFINE Others == Trained \ {LastTrained}
<1>1. /\ LastTrained \in Trained /\ \A j \in Trained : j <= LastTrained
      /\ Trained \in SUBSET Nat /\ IsFiniteSet(Trained)
  BY LastTrainedIs, TrainingsType
<1>2. Others \in SUBSET Nat /\ Others # {} /\ IsFiniteSet(Others)
  BY <1>1, FS_Subset
<1>3. PICK i \in Others : \A j \in Others : j <= i
  <2> HIDE DEF Others
  <2> QED
    BY <1>2, HasLast
<1>4. LastTrained \in LastTwo
  BY <1>1 DEF LastTwo
<1>5. i \in LastTwo
  <2>1. \A j \in Trained : j > i => j = LastTrained
    <3>1. ASSUME NEW j \in Trained, j > i, j \in Others PROVE FALSE
      <4>1. i \in Nat /\ j \in Nat /\ j <= i
        BY <1>2, <1>3, <3>1
      <4> QED
        BY <4>1, <3>1
    <3> QED
      BY <3>1
  <2> QED
    BY <2>1, <1>3 DEF LastTwo
<1> QED
  BY <1>3, <1>4, <1>5 DEF LastTwo

LEMMA ProposalBase == ProposalInit => ProposalInv
<1> SUFFICES ASSUME ProposalInit PROVE ProposalInv
  OBVIOUS
<1>1. trainings = <<>> /\ reviews = <<>> /\ bound = {} /\ assessed = {}
  BY DEF ProposalInit
<1>2. trainings \in Seq(Executions) /\ reviews \in Seq({"in_review"} \union Decisions)
  BY <1>1
<1>3. ProposalTypeOK
  BY <1>2 DEF ProposalInit, ProposalTypeOK, Executions
<1> QED
  BY <1>1, <1>3 DEF ProposalInit, ProposalInv, AssessedRest, BoundRest, FrozenRest,
    AdmittedRest, Decisions

\* The types after a step.
LEMMA ProposalTypes ==
  ASSUME ProposalInv, [ProposalNext]_proposalVars
  PROVE  ProposalTypeOK'
<1> USE DEF training, screening, judgement
<1>0. /\ ProposalTypeOK /\ trainings \in Seq(Executions) /\ Len(trainings) \in Nat
      /\ DOMAIN trainings = 1..Len(trainings)
      /\ \A i \in DOMAIN trainings : trainings[i] \in Executions
      /\ Trained \subseteq DOMAIN trainings /\ Trained \in SUBSET Nat
      /\ reviews \in Seq({"in_review"} \union Decisions)
  BY TrainingsType DEF ProposalInv, ProposalTypeOK
<1>a. /\ DOMAIN reviews = 1..Len(reviews) /\ Len(reviews) \in Nat
  BY <1>0
<1>m. ASSUME NEW i \in DOMAIN trainings, NEW s \in TrainingStatuses, Mark(i, s)
      PROVE  trainings' \in Seq(Executions) /\ DOMAIN trainings' = DOMAIN trainings
  <2>1. [trainings[i] EXCEPT !.status = s] \in Executions
    BY <1>0 DEF Executions
  <2> QED
    BY <2>1, <1>0, <1>m DEF Mark
<1>l. trainings # <<>> => Len(trainings) \in DOMAIN trainings
  BY <1>0
<1>b. trainings' \in Seq(Executions) /\ DOMAIN trainings \subseteq DOMAIN trainings'
  <2>1. CASE UNCHANGED trainings
    BY <2>1, <1>0
  <2>2. CASE Train
    <3>1. PICK h \in Predictions :
            trainings' = Append(trainings, [status |-> "running", prediction |-> h])
      BY <2>2 DEF Train
    <3>2. [status |-> "running", prediction |-> h] \in Executions
      BY DEF Executions, TrainingStatuses
    <3> QED
      BY <3>1, <3>2, <1>0
  <2>3. CASE Fit \/ AuditTraining
    <3>1. ppc \in {"fit", "bind", "audit"} => trainings # <<>>
      BY DEF ProposalInv, BoundRest
    <3>2. \/ UNCHANGED trainings
          \/ trainings # <<>> /\ \E s \in TrainingStatuses : Mark(Len(trainings), s)
      BY <2>3, <3>1 DEF Fit, AuditTraining, TrainingStatuses
    <3> QED
      BY <3>2, <1>m, <1>l, <1>0
  <2>4. ASSUME NEW i \in DOMAIN trainings, Dispose(i)
        PROVE  trainings' \in Seq(Executions) /\ DOMAIN trainings \subseteq DOMAIN trainings'
    BY <2>4, <1>m DEF Dispose, TrainingStatuses
  <2>5. CASE ProposalRestart
    <3> DEFINE Orphan(i) == IF trainings[i].status = "running"
                          THEN [trainings[i] EXCEPT !.status = "interrupted"] ELSE trainings[i]
    <3>1. \A i \in DOMAIN trainings : Orphan(i) \in Executions
      BY <1>0 DEF Executions, TrainingStatuses
    <3>2. trainings' = [i \in 1..Len(trainings) |-> Orphan(i)]
      BY <2>5, <1>0 DEF ProposalRestart
    <3> HIDE DEF Orphan
    <3> QED
      BY <3>1, <3>2, <1>0
  <2> QED
    BY <2>1, <2>2, <2>3, <2>4, <2>5 DEF ProposalNext, ProposalContinue, proposalVars, Bind,
      Verify, Freeze, Screen, CompareWithActive, Gate, OpenReview, CloseReview, Admit,
      WriteFails
<1>c. bound' \subseteq DOMAIN trainings' /\ assessed' \subseteq DOMAIN trainings'
      /\ model' \in Nat
  <2>0. bound \subseteq DOMAIN trainings' /\ assessed \subseteq DOMAIN trainings' /\ model \in Nat
    BY <1>0, <1>b DEF ProposalTypeOK
  <2>1. CASE UNCHANGED <<bound, assessed, model>>
    BY <2>0, <2>1
  <2>2. CASE Bind
    BY <2>0, <2>2, <1>0, <1>l DEF Bind, ProposalInv, BoundRest
  <2>3. CASE Verify
    BY <2>0, <2>3, <1>0 DEF Verify, LastTwo
  <2> QED
    BY <2>1, <2>2, <2>3 DEF ProposalNext, ProposalContinue, proposalVars, Train, Fit,
      AuditTraining, Dispose, Freeze, Screen, CompareWithActive, Gate, OpenReview, CloseReview,
      Admit, WriteFails, ProposalRestart
<1>d. screened' \in Nat /\ frozen' \in BOOLEAN /\ good' \in BOOLEAN /\ compared' \in BOOLEAN
      /\ gated' \in BOOLEAN
  <2>0. screened \in Nat /\ frozen \in BOOLEAN /\ good \in BOOLEAN /\ compared \in BOOLEAN
        /\ gated \in BOOLEAN
    BY <1>0 DEF ProposalTypeOK
  <2>1. CASE Screen
    <3>1. Trained # {}
      BY <2>1 DEF Screen, ProposalInv, FrozenRest, AssessedRest
    <3>2. LastTrained \in Nat
      BY <3>1, <1>0, LastTrainedIs
    <3> QED
      BY <2>0, <2>1, <3>2 DEF Screen
  <2>2. CASE ~ Screen
    BY <2>0, <2>2 DEF ProposalNext, ProposalContinue, proposalVars, Train, Fit, Bind,
      AuditTraining, Dispose, Verify, Freeze, CompareWithActive, Gate, OpenReview, CloseReview,
      Admit, WriteFails, ProposalRestart
  <2> QED
    BY <2>1, <2>2
<1>e. reviews' \in Seq({"in_review"} \union Decisions) /\ judged' \in Nat
      /\ admission' \in {"not_assessed", "review_pending"} \union Decisions
  <2>0. judged \in Nat /\ admission \in {"not_assessed", "review_pending"} \union Decisions
    BY <1>0 DEF ProposalTypeOK
  <2>1. CASE UNCHANGED <<reviews, judged>>
        /\ admission' \in {admission, "review_pending"}
    BY <2>0, <2>1, <1>0
  <2>2. CASE OpenReview
    BY <2>0, <2>2, <1>0 DEF OpenReview
  <2>3. ASSUME NEW r \in DOMAIN reviews, NEW d \in Decisions, CloseReview(r, d)
        PROVE  reviews' \in Seq({"in_review"} \union Decisions) /\ judged' \in Nat
               /\ UNCHANGED admission
    BY <2>0, <2>3, <1>0, <1>a DEF CloseReview
  <2>4. CASE Admit
    BY <2>0, <2>4, <1>0 DEF Admit, ProposalInv, AdmittedRest
  <2> QED
    BY <2>0, <2>1, <2>2, <2>3, <2>4 DEF ProposalNext, ProposalContinue, proposalVars, Train,
      Fit, Bind, AuditTraining, Dispose, Verify, Freeze, Screen, CompareWithActive, Gate,
      WriteFails, ProposalRestart
<1>f. ppc' \in {"idle", "fit", "bind", "audit", "decide"} /\ pfaults' \in Nat
  BY <1>0 DEF ProposalTypeOK, ProposalNext, ProposalContinue, proposalVars, ProposalFault,
    Train, Fit, Bind, AuditTraining, Dispose, Verify, Freeze, Screen, CompareWithActive, Gate,
    OpenReview, CloseReview, Admit, WriteFails, ProposalRestart
<1> QED
  BY <1>b, <1>c, <1>d, <1>e, <1>f DEF ProposalTypeOK, Executions

\* A step that leaves the records of completed executions alone leaves what is read of them.
LEMMA TrainedKept ==
  ASSUME ProposalInv, Trained' = Trained, UNCHANGED assessed,
         \A i \in DOMAIN trainings : trainings'[i].prediction = trainings[i].prediction
  PROVE  AssessedRest' /\ LastTrained' = LastTrained /\ LastTwo' = LastTwo
         /\ Reproduced' = Reproduced
<1>1. assessed \subseteq DOMAIN trainings
  BY DEF ProposalInv, ProposalTypeOK
<1>2. AssessedRest'
  BY DEF ProposalInv, AssessedRest
<1>3. Reproduced' <=> Reproduced
  BY <1>1 DEF Reproduced
<1>4. LastTrained' = LastTrained
  BY DEF LastTrained
<1>5. LastTwo' = LastTwo
  BY DEF LastTwo
<1> QED
  BY <1>2, <1>3, <1>4, <1>5 DEF Reproduced

\* While the last execution is being made, or is marked failed, the other completed ones stay.
LEMMA AssessedKept ==
  ASSUME ProposalInv, ProposalTypeOK', UNCHANGED assessed,
         \A i \in assessed : trainings'[i] = trainings[i]
  PROVE  AssessedRest'
<1>1. \A i \in assessed : i \in DOMAIN trainings'
  BY DEF ProposalTypeOK
<1> QED
  BY <1>1 DEF ProposalInv, AssessedRest, Trained

LEMMA ProposalStep == ProposalInv /\ [ProposalNext]_proposalVars => ProposalInv'
<1> USE DEF training, screening, judgement
<1> SUFFICES ASSUME ProposalInv, [ProposalNext]_proposalVars PROVE ProposalInv'
  OBVIOUS
<1>t. ProposalTypeOK'
  BY ProposalTypes
<1>0. /\ ProposalTypeOK /\ trainings \in Seq(Executions) /\ Len(trainings) \in Nat
      /\ DOMAIN trainings = 1..Len(trainings)
      /\ Trained \subseteq DOMAIN trainings /\ Trained \in SUBSET Nat
      /\ reviews \in Seq({"in_review"} \union Decisions)
      /\ DOMAIN reviews = 1..Len(reviews) /\ Len(reviews) \in Nat
      /\ bound \subseteq DOMAIN trainings /\ assessed \subseteq DOMAIN trainings
      /\ screened \in Nat /\ good \in BOOLEAN
  BY TrainingsType DEF ProposalInv, ProposalTypeOK
<1>i. AssessedRest /\ BoundRest /\ FrozenRest /\ AdmittedRest
  BY DEF ProposalInv
<1>l. trainings # <<>> => Len(trainings) \in DOMAIN trainings
  BY <1>0
<1>1. CASE Train
  <2>1. PICK h \in Predictions :
          trainings' = Append(trainings, [status |-> "running", prediction |-> h])
    BY <1>1 DEF Train
  <2>2. Len(trainings') = Len(trainings) + 1 /\ trainings' # <<>>
        /\ \A i \in DOMAIN trainings : trainings'[i] = trainings[i]
    BY <2>1, <1>0
  <2>3. AssessedRest'
    BY <2>2, <1>0, <1>1, <1>t, AssessedKept DEF Train
  <2>4. BoundRest'
    BY <2>2, <1>0, <1>1, <1>i DEF Train, MayTrain, BoundRest
  <2>5. FrozenRest' /\ AdmittedRest'
    BY <1>1, <1>i DEF Train, MayTrain, FrozenRest, AdmittedRest
  <2> QED
    BY <1>t, <2>3, <2>4, <2>5 DEF ProposalInv
<1>2. CASE Fit \/ AuditTraining
  <2>1. /\ ppc \in {"fit", "bind", "audit"} /\ UNCHANGED <<bound, model, assessed, screening, judgement>>
        /\ ppc' \in {"idle", "bind"} /\ (ppc' = "bind" => ppc = "fit")
        /\ \/ UNCHANGED trainings
           \/ \E s \in TrainingStatuses : Mark(Len(trainings), s)
    BY <1>2 DEF Fit, AuditTraining, TrainingStatuses
  <2>2. ~ frozen /\ trainings # <<>> /\ Len(trainings) \notin assessed
    BY <2>1, <1>i DEF BoundRest
  <2>3. /\ \A i \in assessed : trainings'[i] = trainings[i]
        /\ trainings' # <<>> /\ Len(trainings') = Len(trainings)
    BY <2>1, <2>2, <1>0, <1>l DEF Mark
  <2>4. AssessedRest'
    BY <2>1, <2>3, <1>t, AssessedKept
  <2>5. BoundRest'
    BY <2>1, <2>2, <2>3, <1>i DEF BoundRest
  <2>6. FrozenRest' /\ AdmittedRest'
    BY <2>1, <2>2, <1>i DEF FrozenRest, AdmittedRest
  <2> QED
    BY <1>t, <2>4, <2>5, <2>6 DEF ProposalInv
<1>3. CASE Bind
  <2>1. AssessedRest'
    BY <1>3, <1>t, AssessedKept DEF Bind
  <2>2. ~ frozen /\ Len(trainings) \notin assessed /\ trainings # <<>>
        /\ \A i, j \in bound : i = j
    BY <1>3, <1>i DEF Bind, BoundRest
  <2>3. \A i \in bound : i <= Len(trainings)
    BY <1>0
  <2>4. BoundRest'
    BY <1>3, <2>2, <2>3, <1>0 DEF Bind, BoundRest
  <2>5. FrozenRest' /\ AdmittedRest'
    BY <1>3, <2>2, <1>i DEF Bind, FrozenRest, AdmittedRest
  <2> QED
    BY <1>t, <2>1, <2>4, <2>5 DEF ProposalInv
<1>4. CASE Verify
  <2>1. LastTwo \subseteq Trained /\ \E i, j \in LastTwo : i # j
    BY <1>4, <1>0, LastTwoAre DEF Verify
  <2>2. Trained' = Trained /\ LastTrained' = LastTrained
    BY <1>4 DEF Verify, Trained, LastTrained
  <2>3. AssessedRest'
    BY <1>4, <2>1, <2>2 DEF Verify, AssessedRest
  <2>4. BoundRest' /\ AdmittedRest'
    BY <1>4, <1>i DEF Verify, BoundRest, AdmittedRest
  <2>5. ASSUME frozen, bound = Trained PROVE LastTwo = Trained
    BY <2>5, <1>0, <1>i DEF BoundRest, LastTwo
  <2>6. ASSUME frozen, bound = Trained PROVE assessed' = assessed /\ UNCHANGED trainings
    BY <2>5, <2>6, <1>4, <1>i DEF Verify, FrozenRest
  <2>7. FrozenRest'
    <3>1. (frozen => assessed # {})' /\ (screened # 0 => frozen /\ screened = LastTrained)'
      BY <1>4, <2>1, <2>2, <1>i DEF Verify, FrozenRest
    <3>2. ASSUME frozen', bound' = Trained' PROVE Reproduced' /\ assessed' = Trained'
      <4>1. frozen /\ bound = Trained
        BY <3>2, <2>2, <1>4 DEF Verify
      <4>2. Reproduced /\ assessed = Trained /\ assessed' = assessed /\ UNCHANGED trainings
        BY <4>1, <2>6, <1>i DEF FrozenRest
      <4> QED
        BY <4>2, <2>2 DEF Reproduced
    <3> QED
      BY <3>1, <3>2 DEF FrozenRest
  <2> QED
    BY <1>t, <2>3, <2>4, <2>7 DEF ProposalInv
<1>5. CASE /\ UNCHANGED <<trainings, assessed, bound>>
           /\ Freeze \/ Screen
  <2>1. Trained' = Trained
    BY <1>5 DEF Trained
  <2>2. AssessedRest' /\ LastTrained' = LastTrained /\ (Reproduced' <=> Reproduced)
    BY <1>5, <2>1, TrainedKept
  <2>3. BoundRest'
    BY <1>5, <1>i DEF Freeze, Screen, BoundRest
  <2>4. CASE Freeze
    <3>1. assessed # {} /\ Reproduced /\ UNCHANGED screened /\ ~ frozen
      BY <2>4 DEF Freeze, Reproduced
    <3>2. ASSUME bound = Trained PROVE assessed = Trained
      BY <3>1, <3>2, <1>i DEF AssessedRest, BoundRest
    <3>3. FrozenRest'
      BY <3>1, <3>2, <1>5, <2>1, <2>2, <1>i DEF FrozenRest
    <3>4. AdmittedRest'
      BY <2>4, <1>i DEF Freeze, AdmittedRest
    <3> QED
      BY <1>t, <2>2, <2>3, <3>3, <3>4 DEF ProposalInv
  <2>5. CASE Screen
    <3>1. frozen /\ screened = 0 /\ screened' = LastTrained /\ UNCHANGED frozen
      BY <2>5 DEF Screen
    <3>2. Trained # {}
      BY <3>1, <1>i DEF FrozenRest, AssessedRest
    <3>3. LastTrained # 0
      BY <3>2, <1>0, LastTrainedIs
    <3>4. FrozenRest'
      BY <3>1, <1>5, <2>1, <2>2, <1>i DEF FrozenRest
    <3>5. AdmittedRest'
      BY <3>1, <3>3, <2>5, <1>i DEF Screen, AdmittedRest
    <3> QED
      BY <1>t, <2>2, <2>3, <3>4, <3>5 DEF ProposalInv
  <2> QED
    BY <2>4, <2>5, <1>5
<1>6. CASE /\ UNCHANGED <<training, frozen, screened, good>>
           /\ ppc' = ppc \/ ppc' \in {"idle", "decide"}
           /\ AdmittedRest'
  <2>1. Trained' = Trained
    BY <1>6 DEF Trained
  <2>2. AssessedRest' /\ LastTrained' = LastTrained /\ (Reproduced' <=> Reproduced)
    BY <1>6, <2>1, TrainedKept
  <2>3. BoundRest' /\ FrozenRest'
    BY <1>6, <2>1, <2>2, <1>i DEF BoundRest, FrozenRest
  <2> QED
    BY <1>t, <1>6, <2>2, <2>3 DEF ProposalInv
<1>7. CASE ProposalRestart \/ \E i \in DOMAIN trainings : Dispose(i)
  <2>1. /\ UNCHANGED <<bound, model, assessed, screening, judgement>> /\ ppc' \in {"idle", ppc}
        /\ ppc' # "idle" => ppc = "idle"
    BY <1>7 DEF ProposalRestart, Dispose
  <2>2. /\ DOMAIN trainings' = DOMAIN trainings
        /\ \A i \in DOMAIN trainings :
             /\ trainings'[i].prediction = trainings[i].prediction
             /\ trainings'[i].status = "completed" <=> trainings[i].status = "completed"
    <3>1. \A i \in DOMAIN trainings : trainings[i] \in Executions
      BY TrainingsType DEF ProposalInv
    <3>2. CASE ProposalRestart
      BY <3>1, <3>2 DEF ProposalRestart, Executions
    <3>3. ASSUME NEW i \in DOMAIN trainings, Dispose(i)
          PROVE  /\ trainings[i].status # "completed"
                 /\ trainings' = [trainings EXCEPT ![i].status = "disposed"]
      BY <3>3 DEF Dispose, Mark
    <3>4. CASE \E i \in DOMAIN trainings : Dispose(i)
      BY <3>1, <3>3, <3>4 DEF Executions
    <3> QED
      BY <1>7, <3>2, <3>4
  <2>3. Trained' = Trained
    BY <2>2 DEF Trained
  <2>4. AssessedRest' /\ LastTrained' = LastTrained /\ (Reproduced' <=> Reproduced)
    BY <2>1, <2>2, <2>3, TrainedKept
  <2>5. BoundRest' /\ FrozenRest' /\ AdmittedRest'
    BY <2>1, <2>3, <2>4, <1>i DEF BoundRest, FrozenRest, AdmittedRest
  <2> QED
    BY <1>t, <2>4, <2>5 DEF ProposalInv
<1>8. CASE UNCHANGED proposalVars \/ CompareWithActive \/ Gate \/ OpenReview \/ Admit \/ WriteFails
  <2>1. AdmittedRest'
    <3>1. CASE UNCHANGED proposalVars \/ CompareWithActive \/ Gate \/ WriteFails
      BY <3>1, <1>i DEF proposalVars, CompareWithActive, Gate, WriteFails, AdmittedRest, Decisions
    <3>2. CASE OpenReview
      <4>1. /\ DOMAIN reviews' = 1..(Len(reviews) + 1)
            /\ \A r \in DOMAIN reviews : reviews'[r] = reviews[r]
            /\ reviews'[Len(reviews) + 1] = "in_review"
        BY <3>2, <1>0 DEF OpenReview
      <4>2. \A r \in DOMAIN reviews' : r \in DOMAIN reviews \/ r = Len(reviews) + 1
        BY <4>1, <1>0
      <4>3. DOMAIN reviews \subseteq DOMAIN reviews'
        BY <4>1, <1>0
      <4> QED
        BY <3>2, <4>1, <4>2, <4>3, <1>i DEF OpenReview, AdmittedRest
    <3>3. CASE Admit
      BY <3>3, <1>i DEF Admit, AdmittedRest
    <3> QED
      BY <1>8, <3>1, <3>2, <3>3
  <2> QED
    BY <1>8, <2>1, <1>6 DEF proposalVars, CompareWithActive, Gate, OpenReview, Admit, WriteFails
<1>9. ASSUME NEW r \in DOMAIN reviews, NEW d \in Decisions, CloseReview(r, d)
      PROVE  ProposalInv'
  <2>1. /\ DOMAIN reviews' = DOMAIN reviews /\ reviews'[r] = d /\ reviews[r] = "in_review"
        /\ \A q \in DOMAIN reviews : q # r => reviews'[q] = reviews[q]
        /\ d = "admitted_to_separate_validation" => good
        /\ judged' = r /\ UNCHANGED <<admission, screening>>
    BY <1>9, <1>0 DEF CloseReview, Allowed
  <2>2. "in_review" \notin Decisions
    BY DEF Decisions
  <2>3. AdmittedRest'
    BY <2>1, <2>2, <1>i DEF AdmittedRest
  <2> QED
    BY <1>9, <2>3, <1>6 DEF CloseReview
<1> QED
  BY <1>1, <1>2, <1>3, <1>4, <1>5, <1>6, <1>7, <1>8, <1>9
  DEF ProposalNext, ProposalContinue, Freeze, Screen

\* Every variable of the candidate proposal keeps its type.
THEOREM ProposalTypeCorrect == ProposalSpec => []ProposalTypeOK
<1>1. ProposalInv => ProposalTypeOK
  BY DEF ProposalInv
<1> QED
  BY <1>1, ProposalBase, ProposalStep, PTL DEF ProposalSpec

\* What the freeze fixed is what was bound, and the model of it what is screened.
LEMMA FrozenOnceAgreed == ProposalInv => FrozenIsScreened
<1> SUFFICES ASSUME ProposalInv, frozen, bound = Trained
             PROVE  Reproduced /\ assessed = Trained
                    /\ model \in assessed /\ screened \in {0, model}
  BY DEF FrozenIsScreened
<1>1. Reproduced /\ assessed = Trained /\ assessed # {}
      /\ model \in bound /\ \A j \in bound : j <= model
  BY DEF ProposalInv, FrozenRest, BoundRest, AssessedRest
<1>2. LastTrained \in Trained /\ \A j \in Trained : j <= LastTrained
  BY <1>1, LastTrainedIs DEF ProposalInv
<1>3. Trained \in SUBSET Nat
  BY TrainingsType DEF ProposalInv
<1>4. model = LastTrained
  BY <1>1, <1>2, <1>3
<1> QED
  BY <1>1, <1>4 DEF ProposalInv, FrozenRest

\* What was frozen is reproducible, and it is what was screened, unless an error or an end of
\* the console left an execution that is completed and not bound, or bound and not completed.
THEOREM FrozenProposalIsScreened == ProposalSpec => []FrozenIsScreened
  BY FrozenOnceAgreed, ProposalBase, ProposalStep, PTL DEF ProposalSpec

\* An admitted proposal has a screening that passes and a review that admits it, for any number
\* of reviews, repeated comparisons and gates, errors and ends of the console.
THEOREM AdmissionsAreEarned == ProposalSpec => []AdmissionIsEarned
<1>1. ProposalInv => AdmissionIsEarned
  BY DEF ProposalInv, AdmittedRest, AdmissionIsEarned, Decisions
<1> QED
  BY <1>1, ProposalBase, ProposalStep, PTL DEF ProposalSpec
-----------------------------------------------------------------------------
(* Candidate proposal: while nothing failed, records and bindings agree *)

\* The execution that is to be bound is the only one of which they may differ.
AgreedInv ==
  pfaults = 0 =>
    /\ ppc = "bind" => Trained = bound \union {Len(trainings)}
    /\ ppc # "bind" => Trained = bound

LEMMA AgreedStep == ProposalInv /\ AgreedInv /\ [ProposalNext]_proposalVars => AgreedInv'
<1> USE DEF training, screening, judgement
<1> SUFFICES ASSUME ProposalInv, AgreedInv, [ProposalNext]_proposalVars, pfaults' = 0
             PROVE  /\ (ppc = "bind" => Trained = bound \union {Len(trainings)})'
                    /\ (ppc # "bind" => Trained = bound)'
  BY DEF AgreedInv
<1>0. /\ trainings \in Seq(Executions) /\ Len(trainings) \in Nat /\ pfaults \in Nat
      /\ DOMAIN trainings = 1..Len(trainings)
      /\ \A i \in DOMAIN trainings : trainings[i] \in Executions
  BY TrainingsType DEF ProposalInv, ProposalTypeOK
<1>1. CASE Train
  <2>1. PICK h \in Predictions :
          trainings' = Append(trainings, [status |-> "running", prediction |-> h])
    BY <1>1 DEF Train
  <2>2. /\ DOMAIN trainings' = DOMAIN trainings \union {Len(trainings) + 1}
        /\ \A i \in DOMAIN trainings : trainings'[i] = trainings[i]
        /\ trainings'[Len(trainings) + 1].status = "running"
    BY <2>1, <1>0
  <2>3. Trained' = Trained
    BY <2>2 DEF Trained
  <2> QED
    BY <1>1, <2>3 DEF Train, AgreedInv
<1>2. CASE Fit
  <2>1. trainings # <<>> /\ Len(trainings) \in DOMAIN trainings
    BY <1>2, <1>0 DEF Fit, ProposalInv, BoundRest
  <2>2. ppc = "fit" /\ ppc' = "bind" /\ UNCHANGED bound /\ Mark(Len(trainings), "completed")
        /\ pfaults = 0
    BY <1>2, <1>0 DEF Fit, ProposalFault
  <2>3. DOMAIN trainings' = DOMAIN trainings /\ Len(trainings') = Len(trainings)
        /\ \A i \in DOMAIN trainings :
             trainings'[i].status = IF i = Len(trainings) THEN "completed" ELSE trainings[i].status
    BY <2>1, <2>2, <1>0 DEF Mark, Executions
  <2>4. Trained' = Trained \union {Len(trainings)}
    BY <2>1, <2>3 DEF Trained
  <2> QED
    BY <2>2, <2>3, <2>4 DEF AgreedInv
<1>3. CASE Bind
  <2>1. Trained' = Trained
    BY <1>3 DEF Bind, Trained
  <2> QED
    BY <1>3, <2>1 DEF Bind, AgreedInv
<1>4. CASE AuditTraining
  <2>1. Trained' = Trained /\ ppc = "audit" /\ ppc' = "idle" /\ UNCHANGED <<bound, pfaults>>
    BY <1>4, <1>0 DEF AuditTraining, ProposalFault, Trained
  <2> QED
    BY <2>1 DEF AgreedInv
<1>5. ASSUME NEW i \in DOMAIN trainings, Dispose(i) PROVE Trained' = Trained /\ UNCHANGED <<bound, ppc, pfaults>>
  <2>1. /\ trainings[i].status # "completed"
        /\ trainings' = [trainings EXCEPT ![i].status = "disposed"]
        /\ UNCHANGED <<bound, ppc, pfaults>>
    BY <1>5 DEF Dispose, Mark
  <2>2. /\ DOMAIN trainings' = DOMAIN trainings
        /\ \A j \in DOMAIN trainings :
             trainings'[j].status = "completed" <=> trainings[j].status = "completed"
    BY <2>1, <1>0 DEF Executions
  <2> QED
    BY <2>1, <2>2 DEF Trained
<1>6. CASE \E i \in DOMAIN trainings : Dispose(i)
  <2>1. ppc = "idle"
    BY <1>6 DEF Dispose
  <2> QED
    BY <1>5, <1>6, <2>1 DEF AgreedInv
<1>7. ~ ProposalRestart /\ ~ WriteFails
  BY <1>0 DEF ProposalRestart, WriteFails, ProposalFault
<1>8. CASE /\ UNCHANGED <<trainings, bound, pfaults>>
           /\ ppc' = ppc \/ "bind" \notin {ppc, ppc'}
  <2>1. Trained' = Trained
    BY <1>8 DEF Trained
  <2> QED
    BY <1>8, <2>1 DEF AgreedInv
<1> QED
  BY <1>1, <1>2, <1>3, <1>4, <1>6, <1>7, <1>8
  DEF ProposalNext, ProposalContinue, proposalVars, Verify, Freeze, Screen, CompareWithActive,
      Gate, OpenReview, CloseReview, Admit

\* The training record, the binding and the freeze are written by different requests and
\* no one compares them.  They can only come to differ by an error or an end of the console:
\* the condition of FrozenIsScreened is met by every history without one, whatever the
\* requests and their order, and those the operators give up have the cause the gate looks for.
THEOREM FaultlessProposalIsSound == ProposalSpec => []FaultlessIsSound
<1>1. ProposalInit => AgreedInv
  BY DEF ProposalInit, AgreedInv, Trained
<1>2. ProposalInv /\ AgreedInv => FaultlessIsSound
  <2> SUFFICES ASSUME ProposalInv, AgreedInv, pfaults = 0
               PROVE  /\ frozen => assessed = bound /\ model \in bound /\ screened \in {0, model}
                      /\ NotReproducible =>
                           \E i, j \in bound : trainings[i].prediction # trainings[j].prediction
    BY DEF FaultlessIsSound
  <2>1. ASSUME frozen PROVE assessed = bound /\ model \in bound /\ screened \in {0, model}
    <3>1. bound = Trained
      BY <2>1 DEF ProposalInv, BoundRest, AgreedInv
    <3> QED
      BY <2>1, <3>1, FrozenOnceAgreed DEF FrozenIsScreened
  <2>2. ASSUME NotReproducible
        PROVE  \E i, j \in bound : trainings[i].prediction # trainings[j].prediction
    <3>1. bound = Trained /\ \E i, j \in Trained : i # j
      BY <2>2 DEF NotReproducible, ProposalInv, BoundRest, AgreedInv
    <3>2. LastTwo \subseteq Trained /\ LastTwo # {} /\ assessed = LastTwo
      BY <2>2, <3>1, LastTwoAre DEF NotReproducible, ProposalInv
    <3> QED
      BY <2>2, <3>1, <3>2 DEF NotReproducible, Reproduced
  <2> QED
    BY <2>1, <2>2
<1> QED
  BY <1>1, <1>2, AgreedStep, ProposalBase, ProposalStep, PTL DEF ProposalSpec

-----------------------------------------------------------------------------
(* The procedures together *)

\* A behaviour of the procedures is one of each of them.
LEMMA EachProcedureIsItself == AllSpec => Spec /\ LabSpec /\ BlindSpec /\ ProposalSpec
<1>1. AllInit => Init /\ LabInit /\ BlindInit /\ ProposalInit
  BY DEF AllInit
<1>2. [AllNext]_allVars => /\ [Next]_vars /\ [LabNext]_labVars /\ [BlindNext]_blindVars
                           /\ [ProposalNext]_proposalVars
  BY DEF AllNext, FollowCampaign, FollowRun, FollowValidation, FollowProposal, allVars
<1> QED
  BY <1>1, <1>2, PTL DEF AllSpec, Spec, LabSpec, BlindSpec, ProposalSpec

\* Every variable of every procedure keeps its type.
THEOREM AllTypesCorrect == AllSpec => []AllTypeOK
<1>1. TypeOK /\ LabTypeOK /\ BlindTypeOK /\ ProposalTypeOK => AllTypeOK
  BY DEF AllTypeOK
<1> QED
  BY <1>1, EachProcedureIsItself, TypeCorrect, LabTypeCorrect, BlindTypeCorrect,
     ProposalTypeCorrect, PTL

\* What is proved of each procedure holds of the system that the run of MCProcedures checks:
\* wherever a command, a console, a file or a row was cut off, a record has its evidence.
THEOREM RecordsHaveEvidence ==
  AllSpec => [](/\ CompletedIsSealed /\ CompletedIsVerifiable /\ StrandedByRow
                /\ FilesFollowCommitment /\ PredictedBlind /\ HasNextStep
                /\ FrozenIsScreened /\ FaultlessIsSound /\ AdmissionIsEarned)
  BY EachProcedureIsItself, CompletedUnitsAreSealed, CompletedRunsVerify, RunsStrandedByRow, FilesAreCommitted,
     EvaluatedIsBlind, ValidationHasNextStep, FrozenProposalIsScreened, FaultlessProposalIsSound,
     AdmissionsAreEarned, PTL

\* And the histories of those records: bundles are not rewritten, ended runs stay as they
\* are, and with one command at a time the campaign keeps its evidence, walks through its
\* plan and meets no dead end.
THEOREM RecordsAreKept ==
  AllSpec => /\ BundleImmutable /\ EndedStays
             /\ OneCommand => []RetryAfterEvidence /\ []NoDeadEnd /\ EvidenceKept /\ ImplementsPlanWalk
<1>1. OneCommand => LockHolds
  BY DEF LockHolds
<1>2. OneCommand => (Spec => []RetryAfterEvidence /\ []NoDeadEnd /\ EvidenceKept /\ ImplementsPlanWalk)
  BY <1>1, RetriesFollowEvidence, CampaignHasNoDeadEnd, EvidenceIsKept, CampaignImplementsPlanWalk
<1> QED
  BY <1>2, EachProcedureIsItself, BundlesStay, EndedRunsStay
=============================================================================

------------------------ MODULE CampaignRunnerProofs ------------------------
(***************************************************************************)
(* Theorems about the campaign commands, CampaignRunner, for every plan,   *)
(* any number of commands at the same time, errors and deaths.             *)
(***************************************************************************)
EXTENDS CampaignRunner, FiniteSetTheorems, WellFoundedInduction, TLAPS

\* The lines of a unit after an append.
LEMMA AppendLines ==
  ASSUME NEW L \in Seq(Record), NEW r \in Record, NEW u \in Units
  PROVE  LinesOf(Append(L, r), u) =
           IF r.unit = u THEN LinesOf(L, u) \union {r.line} ELSE LinesOf(L, u)
<1> DEFINE M == Append(L, r)
<1>1. /\ DOMAIN L = 1..Len(L) /\ DOMAIN M = 1..(Len(L) + 1)
      /\ \A i \in 1..Len(L) : M[i] = L[i]
      /\ M[Len(L) + 1] = r /\ Len(L) \in Nat
  OBVIOUS
<1>2. 1..(Len(L) + 1) = 1..Len(L) \union {Len(L) + 1}
  BY <1>1
<1> HIDE DEF M
<1>3. {k \in DOMAIN M : M[k].unit = u} =
        {k \in DOMAIN L : L[k].unit = u} \union (IF r.unit = u THEN {Len(L) + 1} ELSE {})
  BY <1>1, <1>2
<1>4. ASSUME NEW i \in {k \in DOMAIN L : L[k].unit = u} PROVE M[i].line = L[i].line
  BY <1>1
<1>5. LinesOf(M, u) = {L[i].line : i \in {k \in DOMAIN L : L[k].unit = u}}
                        \union (IF r.unit = u THEN {r.line} ELSE {})
  BY <1>1, <1>3, <1>4 DEF LinesOf
<1> QED
  BY <1>5 DEF LinesOf, M

LEMMA LinesType ==
  ASSUME NEW L \in Seq(Record), NEW u \in Units
  PROVE  LinesOf(L, u) \subseteq Lines
<1>1. \A i \in DOMAIN L : L[i] \in Record
  OBVIOUS
<1>2. \A r \in Record : r.line \in Lines
  BY DEF Record
<1> QED
  BY <1>1, <1>2 DEF LinesOf

\* attempts_for counts none, one or two started attempts.
LEMMA AttemptsValue ==
  ASSUME NEW L, NEW u
  PROVE  /\ Attempts(L, u) \in 0..2
         /\ Attempts(L, u) = 0 <=> Started(1) \notin LinesOf(L, u) /\ Started(2) \notin LinesOf(L, u)
         /\ Attempts(L, u) = 2 <=> Started(1) \in LinesOf(L, u) /\ Started(2) \in LinesOf(L, u)
<1> DEFINE S == {n \in {1, 2} : Started(n) \in LinesOf(L, u)}
<1>1. S = {} \/ S = {1} \/ S = {2} \/ S = {1, 2}
  OBVIOUS
<1>2. Cardinality({}) = 0 /\ Cardinality({1}) = 1 /\ Cardinality({2}) = 1
  BY FS_EmptySet, FS_Singleton
<1>3. Cardinality({1, 2}) = 2
  <2>1. IsFiniteSet({1})
    BY FS_Singleton
  <2>2. 2 \notin {1}
    OBVIOUS
  <2>3. Cardinality({1} \union {2}) = Cardinality({1}) + 1
    BY <2>1, <2>2, FS_AddElement
  <2>4. {1} \union {2} = {1, 2}
    OBVIOUS
  <2> QED
    BY <2>3, <2>4, <1>2
<1> QED
  BY <1>1, <1>2, <1>3 DEF Attempts
-----------------------------------------------------------------------------
(* Types *)

\* A command inside the lock is about to append.
TypeInv == TypeOK /\ \A p \in inside : pc[p] \in Appending

LEMMA LineType ==
  ASSUME TypeOK, NEW p \in Operators, pc[p] \in Appending
  PROVE  Line(p) \in Lines
<1>1. at[p][2] \in {1, 2}
  BY DEF TypeOK, Ids
<1>2. \A n \in {1, 2} : {Started(n), Finished(n), Failed(n), RetryRequest} \subseteq Lines
  BY DEF Started, Finished, Failed, RetryRequest, Lines, Events
<1> QED
  BY <1>1, <1>2 DEF Line, Appending

LEMMA AppendedType ==
  ASSUME TypeInv, NEW p \in inside
  PROVE  /\ Appended(p) \in Seq(Record)
         /\ \A u \in Units : LinesOf(Appended(p), u) =
              IF at[p][1] = u THEN LinesOf(ledger, u) \union {Line(p)} ELSE LinesOf(ledger, u)
<1> DEFINE r == [seq |-> seen[p] + 1, unit |-> at[p][1], line |-> Line(p)]
<1>1. p \in Operators /\ pc[p] \in Appending /\ Line(p) \in Lines
  BY LineType DEF TypeInv, TypeOK
<1>2. seen[p] + 1 \in Nat /\ at[p][1] \in Units
  BY <1>1 DEF TypeInv, TypeOK, Ids
<1>3. r \in Record /\ ledger \in Seq(Record)
  BY <1>1, <1>2 DEF Record, TypeInv, TypeOK
<1>4. Appended(p) = Append(ledger, r)
  BY DEF Appended
<1>5. r.unit = at[p][1] /\ r.line = Line(p)
  OBVIOUS
<1> HIDE DEF r
<1> QED
  BY <1>3, <1>4, <1>5, AppendLines

LEMMA TypeInit == Init => TypeInv
<1> SUFFICES ASSUME Init PROVE TypeInv
  OBVIOUS
<1>1. ledger \in Seq(Record)
  BY DEF Init
<1>2. lock \in BOOLEAN
  BY Zenon DEF Init
<1>3. Plan[1] \in Units
  BY PlanAssumption
<1>4. at \in [Operators -> Ids]
  BY <1>3 DEF Init, Ids
<1> QED
  BY <1>1, <1>2, <1>4, RunnerAssumption DEF Init, TypeInv, TypeOK, Staged, Places

LEMMA TypeStep == TypeInv /\ [Next]_vars => TypeInv'
<1> SUFFICES ASSUME TypeInv, [Next]_vars PROVE TypeInv'
  OBVIOUS
<1>1. ASSUME NEW p \in Operators, NEW m \in {"run", "preflight"}, Begin(p, m) PROVE TypeInv'
  <2>1. \A u \in Units : Attempts(ledger, u) < 2 => Attempts(ledger, u) + 1 \in {1, 2}
    BY AttemptsValue
  <2> QED
    BY <1>1, <2>1 DEF Begin, TypeInv, TypeOK, Places, Goto, SetDir, Fault, Staged, Appending, Ids, disk, journal, bounds
<1>2. ASSUME NEW p \in Operators, Recover(p) PROVE TypeInv'
  BY <1>2, RunnerAssumption DEF Recover, TypeInv, TypeOK, Places, Goto, SetDir, Fault, Staged, Appending, Ids, disk, journal, bounds
<1>3. ASSUME NEW p \in Operators, Prepare(p) PROVE TypeInv'
  BY <1>3, RunnerAssumption DEF Prepare, TypeInv, TypeOK, Places, Goto, SetDir, Fault, Staged, Appending, Ids, disk, journal, bounds
<1>4. ASSUME NEW p \in Operators, Launch(p) PROVE TypeInv'
  <2>1. faults' \in 0..MaxFaults
    BY <1>4, RunnerAssumption DEF Launch, Fault, TypeInv, TypeOK
  <2>2. pc' \in [Operators -> Places] /\ p \notin inside /\ \A q \in Operators \ {p} : pc'[q] = pc[q]
    BY <1>4 DEF Launch, Goto, TypeInv, TypeOK, Places, Appending
  <2>3. mapping' \subseteq Units /\ containers' \subseteq Ids
    BY <1>4 DEF Launch, TypeInv, TypeOK, Ids, disk, journal
  <2>4. /\ dir' \in [Ids -> {"none", "sealed", "failed"} \union Staged]
        /\ reason' \in [Operators -> {"none", "technical", "other"}]
    BY <1>4 DEF Launch, SetDir, TypeInv, TypeOK, Staged
  <2>5. UNCHANGED <<ledger, lock, mode, at, started, inside, seen, crashes>>
    BY <1>4 DEF Launch, journal
  <2> QED
    BY <2>1, <2>2, <2>3, <2>4, <2>5 DEF TypeInv, TypeOK
<1>5. ASSUME NEW p \in Operators, Map(p) PROVE TypeInv'
  <2>1. faults' \in 0..MaxFaults
    BY <1>5, RunnerAssumption DEF Map, Fault, TypeInv, TypeOK
  <2>2. pc' \in [Operators -> Places] /\ p \notin inside /\ \A q \in Operators \ {p} : pc'[q] = pc[q]
    BY <1>5 DEF Map, Goto, TypeInv, TypeOK, Places, Appending
  <2>3. mapping' \subseteq Units /\ containers' \subseteq Ids
    BY <1>5 DEF Map, TypeInv, TypeOK, Ids, disk, journal
  <2>4. /\ dir' \in [Ids -> {"none", "sealed", "failed"} \union Staged]
        /\ reason' \in [Operators -> {"none", "technical", "other"}]
    BY <1>5 DEF Map, SetDir, TypeInv, TypeOK, Staged
  <2>5. UNCHANGED <<ledger, lock, mode, at, started, inside, seen, crashes>>
    BY <1>5 DEF Map, journal
  <2> QED
    BY <2>1, <2>2, <2>3, <2>4, <2>5 DEF TypeInv, TypeOK
<1>6. ASSUME NEW p \in Operators, Behave(p) PROVE TypeInv'
  BY <1>6, RunnerAssumption DEF Behave, TypeInv, TypeOK, Places, Goto, SetDir, Fault, Staged, Appending, Ids, disk, journal, bounds
<1>7. ASSUME NEW p \in Operators, Process(p) PROVE TypeInv'
  <2>1. faults' \in 0..MaxFaults
    BY <1>7, RunnerAssumption DEF Process, Fault, TypeInv, TypeOK
  <2>2. pc' \in [Operators -> Places] /\ p \notin inside /\ \A q \in Operators \ {p} : pc'[q] = pc[q]
    BY <1>7 DEF Process, Goto, TypeInv, TypeOK, Places, Appending
  <2>3. mapping' \subseteq Units /\ containers' \subseteq Ids
    BY <1>7 DEF Process, TypeInv, TypeOK, Ids, disk, journal
  <2>4. /\ dir' \in [Ids -> {"none", "sealed", "failed"} \union Staged]
        /\ reason' \in [Operators -> {"none", "technical", "other"}]
    BY <1>7 DEF Process, SetDir, TypeInv, TypeOK, Staged
  <2>5. UNCHANGED <<ledger, lock, mode, at, started, inside, seen, crashes>>
    BY <1>7 DEF Process, journal
  <2> QED
    BY <2>1, <2>2, <2>3, <2>4, <2>5 DEF TypeInv, TypeOK
<1>8. ASSUME NEW p \in Operators, Seal(p) PROVE TypeInv'
  <2>1. faults' \in 0..MaxFaults
    BY <1>8, RunnerAssumption DEF Seal, Fault, TypeInv, TypeOK
  <2>2. pc' \in [Operators -> Places] /\ p \notin inside /\ \A q \in Operators \ {p} : pc'[q] = pc[q]
    BY <1>8 DEF Seal, Goto, TypeInv, TypeOK, Places, Appending
  <2>3. mapping' \subseteq Units /\ containers' \subseteq Ids
    BY <1>8 DEF Seal, TypeInv, TypeOK, Ids, disk, journal
  <2>4. /\ dir' \in [Ids -> {"none", "sealed", "failed"} \union Staged]
        /\ reason' \in [Operators -> {"none", "technical", "other"}]
    BY <1>8 DEF Seal, SetDir, TypeInv, TypeOK, Staged
  <2>5. UNCHANGED <<ledger, lock, mode, at, started, inside, seen, crashes>>
    BY <1>8 DEF Seal, journal
  <2> QED
    BY <2>1, <2>2, <2>3, <2>4, <2>5 DEF TypeInv, TypeOK
<1>9. ASSUME NEW p \in Operators, Retain(p) PROVE TypeInv'
  <2>1. faults' \in 0..MaxFaults
    BY <1>9, RunnerAssumption DEF Retain, Fault, TypeInv, TypeOK
  <2>2. pc' \in [Operators -> Places] /\ p \notin inside /\ \A q \in Operators \ {p} : pc'[q] = pc[q]
    BY <1>9 DEF Retain, Goto, TypeInv, TypeOK, Places, Appending
  <2>3. mapping' \subseteq Units /\ containers' \subseteq Ids
    BY <1>9 DEF Retain, TypeInv, TypeOK, Ids, disk, journal
  <2>4. /\ dir' \in [Ids -> {"none", "sealed", "failed"} \union Staged]
        /\ reason' \in [Operators -> {"none", "technical", "other"}]
    BY <1>9 DEF Retain, SetDir, TypeInv, TypeOK, Staged
  <2>5. UNCHANGED <<ledger, lock, mode, at, started, inside, seen, crashes>>
    BY <1>9 DEF Retain, journal
  <2> QED
    BY <2>1, <2>2, <2>3, <2>4, <2>5 DEF TypeInv, TypeOK
<1>10. ASSUME NEW p \in Operators, Recycle(p) PROVE TypeInv'
  <2>1. at' \in [Operators -> Ids]
    <3>1. at[p][1] \in Units /\ <<at[p][1], 2>> \in Ids
      BY DEF TypeInv, TypeOK, Ids
    <3> QED
      BY <1>10, <3>1 DEF Recycle, TypeInv, TypeOK
  <2>2. started' \in [Operators -> BOOLEAN] /\ reason' \in [Operators -> {"none", "technical", "other"}]
    BY <1>10 DEF Recycle, TypeInv, TypeOK
  <2>3. pc' \in [Operators -> Places] /\ p \notin inside /\ \A q \in Operators \ {p} : pc'[q] = pc[q]
    BY <1>10 DEF Recycle, Goto, TypeInv, TypeOK, Places, Appending
  <2>4. containers' \subseteq Ids
    BY <1>10 DEF Recycle, TypeInv, TypeOK
  <2> QED
    BY <1>10, <2>1, <2>2, <2>3, <2>4 DEF Recycle, TypeInv, TypeOK, journal, bounds
<1>11. ASSUME NEW p \in Operators, Clean(p) PROVE TypeInv'
  BY <1>11, RunnerAssumption DEF Clean, TypeInv, TypeOK, Places, Goto, SetDir, Fault, Staged, Appending, Ids, disk, journal, bounds
<1>12. ASSUME NEW p \in Operators, Unstage(p) PROVE TypeInv'
  BY <1>12, RunnerAssumption DEF Unstage, TypeInv, TypeOK, Places, Goto, SetDir, Fault, Staged, Appending, Ids, disk, journal, bounds
<1>13. ASSUME NEW p \in Operators, Enter(p) PROVE TypeInv'
  <2>1. Refused(p) \in {"idle", "clean"}
    BY DEF Refused
  <2>2. lock' \in BOOLEAN /\ ledger' \in Seq(Record)
    BY <1>13 DEF Enter, TypeInv, TypeOK
  <2>3. inside' \subseteq Operators /\ \A q \in inside' : pc'[q] \in Appending
    BY <1>13 DEF Enter, Goto, TypeInv, TypeOK
  <2>5. seen' \in [Operators -> Nat]
    <3>1. Len(ledger) \in Nat
      BY DEF TypeInv, TypeOK
    <3> QED
      BY <1>13, <3>1 DEF Enter, TypeInv, TypeOK
  <2>4. pc' \in [Operators -> Places]
    BY <1>13, <2>1 DEF Enter, TypeInv, TypeOK, Places, Goto, SetDir, Fault, Staged, Appending, Ids, disk, journal, bounds
  <2> QED
    BY <1>13, <2>2, <2>3, <2>4, <2>5 DEF Enter, TypeInv, TypeOK, bounds
<1>14. ASSUME NEW p \in Operators, Write(p) PROVE TypeInv'
  <2>1. Appended(p) \in Seq(Record) /\ pc[p] \in Appending
    BY <1>14, AppendedType DEF TypeInv, Write
  <2>2. Done(p) \in {"map", "idle", "clean", "retain", "recycle"} /\ Refused(p) \in {"idle", "clean"}
    BY <2>1 DEF Done, Refused, Appending
  <2>3. started' \in [Operators -> BOOLEAN]
    BY <1>14 DEF Write, TypeInv, TypeOK
  <2>4. faults' \in 0..MaxFaults
    BY <1>14, RunnerAssumption DEF Write, Fault, TypeInv, TypeOK
  <2>5. pc' \in [Operators -> Places] /\ \A q \in Operators \ {p} : pc'[q] = pc[q]
    BY <1>14, <2>2 DEF Write, Goto, TypeInv, TypeOK, Places
  <2>6. ledger' \in Seq(Record) /\ lock' \in BOOLEAN /\ inside' = inside \ {p}
    BY <1>14, <2>1 DEF Write
  <2> QED
    BY <1>14, <2>3, <2>4, <2>5, <2>6 DEF Write, TypeInv, TypeOK
<1>15. ASSUME NEW p \in Operators, Crash(p) PROVE TypeInv'
  <2>1. ledger' \in Seq(Record)
    BY <1>15, AppendedType DEF Crash, TypeInv, TypeOK
  <2> QED
    BY <1>15, <2>1, RunnerAssumption DEF Crash, TypeInv, TypeOK, Places, Goto, SetDir, Fault, Staged, Appending, Ids, disk, journal, bounds
<1>16. CASE UNCHANGED vars
  BY <1>16 DEF TypeInv, TypeOK, vars, disk, bounds
<1> QED
  BY <1>1, <1>2, <1>3, <1>4, <1>5, <1>6, <1>7, <1>8, <1>9, <1>10, <1>11, <1>12, <1>13, <1>14, <1>15, <1>16 DEF Next, Step

\* Every variable keeps its type.
THEOREM TypeCorrect == Spec => []TypeOK
<1>1. TypeInv => TypeOK
  BY DEF TypeInv
<1> QED
  BY <1>1, TypeInit, TypeStep, PTL DEF Spec
-----------------------------------------------------------------------------
(* Completed units are sealed *)

\* A sealed or failed directory stays what it is, whoever runs beside its owner.
LEMMA EvidenceStays ==
  ASSUME TypeInv, [Next]_vars
  PROVE  \A a \in Ids : dir[a] \in {"sealed", "failed"} => dir'[a] = dir[a]
<1> SUFFICES ASSUME NEW a \in Ids, dir[a] \in {"sealed", "failed"} PROVE dir'[a] = dir[a]
  OBVIOUS
<1>1. ASSUME NEW p \in Operators, NEW m \in {"run", "preflight"}, Begin(p, m) PROVE dir'[a] = dir[a]
  BY <1>1 DEF Begin, disk, journal, SetDir, Staged, Ids, TypeInv, TypeOK
<1>2. ASSUME NEW p \in Operators, Recover(p) PROVE dir'[a] = dir[a]
  BY <1>2 DEF Recover, disk, journal, SetDir, Staged, Ids, TypeInv, TypeOK
<1>3. ASSUME NEW p \in Operators, Prepare(p) PROVE dir'[a] = dir[a]
  BY <1>3 DEF Prepare, disk, journal, SetDir, Staged, Ids, TypeInv, TypeOK
<1>4. ASSUME NEW p \in Operators, Launch(p) PROVE dir'[a] = dir[a]
  BY <1>4 DEF Launch, disk, journal, SetDir, Staged, Ids, TypeInv, TypeOK
<1>5. ASSUME NEW p \in Operators, Map(p) PROVE dir'[a] = dir[a]
  BY <1>5 DEF Map, disk, journal, SetDir, Staged, Ids, TypeInv, TypeOK
<1>6. ASSUME NEW p \in Operators, Behave(p) PROVE dir'[a] = dir[a]
  BY <1>6 DEF Behave, disk, journal, SetDir, Staged, Ids, TypeInv, TypeOK
<1>7. ASSUME NEW p \in Operators, Process(p) PROVE dir'[a] = dir[a]
  BY <1>7 DEF Process, disk, journal, SetDir, Staged, Ids, TypeInv, TypeOK
<1>8. ASSUME NEW p \in Operators, Seal(p) PROVE dir'[a] = dir[a]
  BY <1>8 DEF Seal, disk, journal, SetDir, Staged, Ids, TypeInv, TypeOK
<1>9. ASSUME NEW p \in Operators, Retain(p) PROVE dir'[a] = dir[a]
  BY <1>9 DEF Retain, disk, journal, SetDir, Staged, Ids, TypeInv, TypeOK
<1>10. ASSUME NEW p \in Operators, Recycle(p) PROVE dir'[a] = dir[a]
  BY <1>10 DEF Recycle, disk, journal, SetDir, Staged, Ids, TypeInv, TypeOK
<1>11. ASSUME NEW p \in Operators, Clean(p) PROVE dir'[a] = dir[a]
  BY <1>11 DEF Clean, disk, journal, SetDir, Staged, Ids, TypeInv, TypeOK
<1>12. ASSUME NEW p \in Operators, Unstage(p) PROVE dir'[a] = dir[a]
  BY <1>12 DEF Unstage, disk, journal, SetDir, Staged, Ids, TypeInv, TypeOK
<1>13. ASSUME NEW p \in Operators, Enter(p) PROVE dir'[a] = dir[a]
  BY <1>13 DEF Enter, disk, journal, SetDir, Staged, Ids, TypeInv, TypeOK
<1>14. ASSUME NEW p \in Operators, Write(p) PROVE dir'[a] = dir[a]
  BY <1>14 DEF Write, disk, journal, SetDir, Staged, Ids, TypeInv, TypeOK
<1>15. ASSUME NEW p \in Operators, Crash(p) PROVE dir'[a] = dir[a]
  BY <1>15 DEF Crash, disk, journal, SetDir, Staged, Ids, TypeInv, TypeOK
<1>16. CASE UNCHANGED vars
  BY <1>16 DEF vars, disk
<1> QED
  BY <1>1, <1>2, <1>3, <1>4, <1>5, <1>6, <1>7, <1>8, <1>9, <1>10, <1>11, <1>12, <1>13, <1>14, <1>15, <1>16 DEF Next, Step

\* A command on its way to session_completed has the mapping, and then the directory.
SealedInv ==
  /\ \A p \in Operators :
       /\ pc[p] \in {"behave", "process", "seal", "complete"} => at[p][1] \in mapping
       /\ pc[p] = "complete" => dir[at[p]] = "sealed"
  /\ CompletedIsSealed

LEMMA AppendedLine ==
  ASSUME TypeInv, NEW p \in inside, NEW a \in Ids,
         Finished(a[2]) \in LinesOf(Appended(p), a[1])
  PROVE  Finished(a[2]) \in LinesOf(ledger, a[1]) \/ (pc[p] = "complete" /\ a = at[p])
<1>1. a[1] \in Units /\ p \in Operators /\ pc[p] \in Appending /\ at[p] \in Ids
  BY DEF Ids, TypeInv, TypeOK
<1>2. Finished(a[2]) \in LinesOf(ledger, a[1]) \/ (at[p][1] = a[1] /\ Finished(a[2]) = Line(p))
  BY <1>1, AppendedType
<1>3. Finished(a[2]) = Line(p) => pc[p] = "complete" /\ a[2] = at[p][2]
  BY <1>1 DEF Line, Appending, Started, Finished, Failed, RetryRequest
<1> QED
  BY <1>1, <1>2, <1>3 DEF Ids

LEMMA SealedStep == TypeInv /\ SealedInv /\ [Next]_vars => SealedInv'
<1> SUFFICES ASSUME TypeInv, SealedInv, [Next]_vars PROVE SealedInv'
  OBVIOUS
<1>1. ASSUME NEW p \in Operators, NEW m \in {"run", "preflight"}, Begin(p, m) PROVE SealedInv'
  <2>1. UNCHANGED ledger /\ mapping \subseteq mapping'
    BY <1>1 DEF Begin, disk, journal
  <2>2. \A q \in Operators \ {p} : pc'[q] = pc[q] /\ at'[q] = at[q]
    BY <1>1 DEF Begin, Goto, TypeInv, TypeOK
  <2>3. pc'[p] \in {"behave", "process", "seal", "complete"} => at'[p][1] \in mapping'
    BY <1>1 DEF Begin, Goto, SealedInv, TypeInv, TypeOK, Refused, Appending, disk, journal
  <2>4. pc'[p] = "complete" => dir'[at'[p]] = "sealed"
    BY <1>1 DEF Begin, Goto, SetDir, SealedInv, TypeInv, TypeOK, Refused, Appending, Staged, disk, journal
  <2> QED
    BY <2>1, <2>2, <2>3, <2>4, EvidenceStays DEF SealedInv, CompletedIsSealed, TypeInv, TypeOK, Ids
<1>2. ASSUME NEW p \in Operators, Recover(p) PROVE SealedInv'
  <2>1. UNCHANGED ledger /\ mapping \subseteq mapping'
    BY <1>2 DEF Recover, disk, journal
  <2>2. \A q \in Operators \ {p} : pc'[q] = pc[q] /\ at'[q] = at[q]
    BY <1>2 DEF Recover, Goto, TypeInv, TypeOK
  <2>3. pc'[p] \in {"behave", "process", "seal", "complete"} => at'[p][1] \in mapping'
    BY <1>2 DEF Recover, Goto, SealedInv, TypeInv, TypeOK, Refused, Appending, disk, journal
  <2>4. pc'[p] = "complete" => dir'[at'[p]] = "sealed"
    BY <1>2 DEF Recover, Goto, SetDir, SealedInv, TypeInv, TypeOK, Refused, Appending, Staged, disk, journal
  <2> QED
    BY <2>1, <2>2, <2>3, <2>4, EvidenceStays DEF SealedInv, CompletedIsSealed, TypeInv, TypeOK, Ids
<1>3. ASSUME NEW p \in Operators, Prepare(p) PROVE SealedInv'
  <2>1. UNCHANGED ledger /\ mapping \subseteq mapping'
    BY <1>3 DEF Prepare, disk, journal
  <2>2. \A q \in Operators \ {p} : pc'[q] = pc[q] /\ at'[q] = at[q]
    BY <1>3 DEF Prepare, Goto, TypeInv, TypeOK
  <2>3. pc'[p] \in {"behave", "process", "seal", "complete"} => at'[p][1] \in mapping'
    BY <1>3 DEF Prepare, Goto, SealedInv, TypeInv, TypeOK, Refused, Appending, disk, journal
  <2>4. pc'[p] = "complete" => dir'[at'[p]] = "sealed"
    BY <1>3 DEF Prepare, Goto, SetDir, SealedInv, TypeInv, TypeOK, Refused, Appending, Staged, disk, journal
  <2> QED
    BY <2>1, <2>2, <2>3, <2>4, EvidenceStays DEF SealedInv, CompletedIsSealed, TypeInv, TypeOK, Ids
<1>4. ASSUME NEW p \in Operators, Launch(p) PROVE SealedInv'
  <2>1. UNCHANGED ledger /\ mapping \subseteq mapping'
    BY <1>4 DEF Launch, disk, journal
  <2>2. \A q \in Operators \ {p} : pc'[q] = pc[q] /\ at'[q] = at[q]
    BY <1>4 DEF Launch, Goto, TypeInv, TypeOK
  <2>3. pc'[p] \in {"behave", "process", "seal", "complete"} => at'[p][1] \in mapping'
    BY <1>4 DEF Launch, Goto, SealedInv, TypeInv, TypeOK, Refused, Appending, disk, journal
  <2>4. pc'[p] = "complete" => dir'[at'[p]] = "sealed"
    BY <1>4 DEF Launch, Goto, SetDir, SealedInv, TypeInv, TypeOK, Refused, Appending, Staged, disk, journal
  <2> QED
    BY <2>1, <2>2, <2>3, <2>4, EvidenceStays DEF SealedInv, CompletedIsSealed, TypeInv, TypeOK, Ids
<1>5. ASSUME NEW p \in Operators, Map(p) PROVE SealedInv'
  <2>1. UNCHANGED ledger /\ mapping \subseteq mapping'
    BY <1>5 DEF Map, disk, journal
  <2>2. \A q \in Operators \ {p} : pc'[q] = pc[q] /\ at'[q] = at[q]
    BY <1>5 DEF Map, Goto, TypeInv, TypeOK
  <2>3. pc'[p] \in {"behave", "process", "seal", "complete"} => at'[p][1] \in mapping'
    BY <1>5 DEF Map, Goto, SealedInv, TypeInv, TypeOK, Refused, Appending, disk, journal
  <2>4. pc'[p] = "complete" => dir'[at'[p]] = "sealed"
    BY <1>5 DEF Map, Goto, SetDir, SealedInv, TypeInv, TypeOK, Refused, Appending, Staged, disk, journal
  <2> QED
    BY <2>1, <2>2, <2>3, <2>4, EvidenceStays DEF SealedInv, CompletedIsSealed, TypeInv, TypeOK, Ids
<1>6. ASSUME NEW p \in Operators, Behave(p) PROVE SealedInv'
  <2>1. UNCHANGED ledger /\ mapping \subseteq mapping'
    BY <1>6 DEF Behave, disk, journal
  <2>2. \A q \in Operators \ {p} : pc'[q] = pc[q] /\ at'[q] = at[q]
    BY <1>6 DEF Behave, Goto, TypeInv, TypeOK
  <2>3. pc'[p] \in {"behave", "process", "seal", "complete"} => at'[p][1] \in mapping'
    BY <1>6 DEF Behave, Goto, SealedInv, TypeInv, TypeOK, Refused, Appending, disk, journal
  <2>4. pc'[p] = "complete" => dir'[at'[p]] = "sealed"
    BY <1>6 DEF Behave, Goto, SetDir, SealedInv, TypeInv, TypeOK, Refused, Appending, Staged, disk, journal
  <2> QED
    BY <2>1, <2>2, <2>3, <2>4, EvidenceStays DEF SealedInv, CompletedIsSealed, TypeInv, TypeOK, Ids
<1>7. ASSUME NEW p \in Operators, Process(p) PROVE SealedInv'
  <2>1. UNCHANGED ledger /\ mapping \subseteq mapping'
    BY <1>7 DEF Process, disk, journal
  <2>2. \A q \in Operators \ {p} : pc'[q] = pc[q] /\ at'[q] = at[q]
    BY <1>7 DEF Process, Goto, TypeInv, TypeOK
  <2>3. pc'[p] \in {"behave", "process", "seal", "complete"} => at'[p][1] \in mapping'
    BY <1>7 DEF Process, Goto, SealedInv, TypeInv, TypeOK, Refused, Appending, disk, journal
  <2>4. pc'[p] = "complete" => dir'[at'[p]] = "sealed"
    BY <1>7 DEF Process, Goto, SetDir, SealedInv, TypeInv, TypeOK, Refused, Appending, Staged, disk, journal
  <2> QED
    BY <2>1, <2>2, <2>3, <2>4, EvidenceStays DEF SealedInv, CompletedIsSealed, TypeInv, TypeOK, Ids
<1>8. ASSUME NEW p \in Operators, Seal(p) PROVE SealedInv'
  <2>1. UNCHANGED ledger /\ mapping \subseteq mapping'
    BY <1>8 DEF Seal, disk, journal
  <2>2. \A q \in Operators \ {p} : pc'[q] = pc[q] /\ at'[q] = at[q]
    BY <1>8 DEF Seal, Goto, TypeInv, TypeOK
  <2>3. pc'[p] \in {"behave", "process", "seal", "complete"} => at'[p][1] \in mapping'
    BY <1>8 DEF Seal, Goto, SealedInv, TypeInv, TypeOK, Refused, Appending, disk, journal
  <2>4. pc'[p] = "complete" => dir'[at'[p]] = "sealed"
    BY <1>8 DEF Seal, Goto, SetDir, SealedInv, TypeInv, TypeOK, Refused, Appending, Staged, disk, journal
  <2> QED
    BY <2>1, <2>2, <2>3, <2>4, EvidenceStays DEF SealedInv, CompletedIsSealed, TypeInv, TypeOK, Ids
<1>9. ASSUME NEW p \in Operators, Retain(p) PROVE SealedInv'
  <2>1. UNCHANGED ledger /\ mapping \subseteq mapping'
    BY <1>9 DEF Retain, disk, journal
  <2>2. \A q \in Operators \ {p} : pc'[q] = pc[q] /\ at'[q] = at[q]
    BY <1>9 DEF Retain, Goto, TypeInv, TypeOK
  <2>3. pc'[p] \in {"behave", "process", "seal", "complete"} => at'[p][1] \in mapping'
    BY <1>9 DEF Retain, Goto, SealedInv, TypeInv, TypeOK, Refused, Appending, disk, journal
  <2>4. pc'[p] = "complete" => dir'[at'[p]] = "sealed"
    BY <1>9 DEF Retain, Goto, SetDir, SealedInv, TypeInv, TypeOK, Refused, Appending, Staged, disk, journal
  <2> QED
    BY <2>1, <2>2, <2>3, <2>4, EvidenceStays DEF SealedInv, CompletedIsSealed, TypeInv, TypeOK, Ids
<1>10. ASSUME NEW p \in Operators, Recycle(p) PROVE SealedInv'
  <2>1. UNCHANGED ledger /\ mapping \subseteq mapping'
    BY <1>10 DEF Recycle, disk, journal
  <2>2. \A q \in Operators \ {p} : pc'[q] = pc[q] /\ at'[q] = at[q]
    BY <1>10 DEF Recycle, Goto, TypeInv, TypeOK
  <2>3. pc'[p] \in {"behave", "process", "seal", "complete"} => at'[p][1] \in mapping'
    BY <1>10 DEF Recycle, Goto, SealedInv, TypeInv, TypeOK, Refused, Appending, disk, journal
  <2>4. pc'[p] = "complete" => dir'[at'[p]] = "sealed"
    BY <1>10 DEF Recycle, Goto, SetDir, SealedInv, TypeInv, TypeOK, Refused, Appending, Staged, disk, journal
  <2> QED
    BY <2>1, <2>2, <2>3, <2>4, EvidenceStays DEF SealedInv, CompletedIsSealed, TypeInv, TypeOK, Ids
<1>11. ASSUME NEW p \in Operators, Clean(p) PROVE SealedInv'
  <2>1. UNCHANGED ledger /\ mapping \subseteq mapping'
    BY <1>11 DEF Clean, disk, journal
  <2>2. \A q \in Operators \ {p} : pc'[q] = pc[q] /\ at'[q] = at[q]
    BY <1>11 DEF Clean, Goto, TypeInv, TypeOK
  <2>3. pc'[p] \in {"behave", "process", "seal", "complete"} => at'[p][1] \in mapping'
    BY <1>11 DEF Clean, Goto, SealedInv, TypeInv, TypeOK, Refused, Appending, disk, journal
  <2>4. pc'[p] = "complete" => dir'[at'[p]] = "sealed"
    BY <1>11 DEF Clean, Goto, SetDir, SealedInv, TypeInv, TypeOK, Refused, Appending, Staged, disk, journal
  <2> QED
    BY <2>1, <2>2, <2>3, <2>4, EvidenceStays DEF SealedInv, CompletedIsSealed, TypeInv, TypeOK, Ids
<1>12. ASSUME NEW p \in Operators, Unstage(p) PROVE SealedInv'
  <2>1. UNCHANGED ledger /\ mapping \subseteq mapping'
    BY <1>12 DEF Unstage, disk, journal
  <2>2. \A q \in Operators \ {p} : pc'[q] = pc[q] /\ at'[q] = at[q]
    BY <1>12 DEF Unstage, Goto, TypeInv, TypeOK
  <2>3. pc'[p] \in {"behave", "process", "seal", "complete"} => at'[p][1] \in mapping'
    BY <1>12 DEF Unstage, Goto, SealedInv, TypeInv, TypeOK, Refused, Appending, disk, journal
  <2>4. pc'[p] = "complete" => dir'[at'[p]] = "sealed"
    BY <1>12 DEF Unstage, Goto, SetDir, SealedInv, TypeInv, TypeOK, Refused, Appending, Staged, disk, journal
  <2> QED
    BY <2>1, <2>2, <2>3, <2>4, EvidenceStays DEF SealedInv, CompletedIsSealed, TypeInv, TypeOK, Ids
<1>13. ASSUME NEW p \in Operators, Enter(p) PROVE SealedInv'
  <2>1. UNCHANGED ledger /\ mapping \subseteq mapping'
    BY <1>13 DEF Enter, disk, journal
  <2>2. \A q \in Operators \ {p} : pc'[q] = pc[q] /\ at'[q] = at[q]
    BY <1>13 DEF Enter, Goto, TypeInv, TypeOK
  <2>3. pc'[p] \in {"behave", "process", "seal", "complete"} => at'[p][1] \in mapping'
    BY <1>13 DEF Enter, Goto, SealedInv, TypeInv, TypeOK, Refused, Appending, disk, journal
  <2>4. pc'[p] = "complete" => dir'[at'[p]] = "sealed"
    BY <1>13 DEF Enter, Goto, SetDir, SealedInv, TypeInv, TypeOK, Refused, Appending, Staged, disk, journal
  <2> QED
    BY <2>1, <2>2, <2>3, <2>4, EvidenceStays DEF SealedInv, CompletedIsSealed, TypeInv, TypeOK, Ids
<1>14. ASSUME NEW p \in Operators, Write(p) PROVE SealedInv'
  <2>1. p \in Operators /\ TypeInv /\ \A q \in Operators : at'[q] = at[q] /\ (q # p => pc'[q] = pc[q])
    BY <1>14 DEF Write, Goto, TypeInv, TypeOK
  <2>2. pc'[p] \notin {"behave", "process", "seal", "complete"}
    BY <1>14 DEF Write, Goto, Done, Refused, TypeInv, TypeOK, Appending
  <2>3. \A b \in Ids : Finished(b[2]) \in LinesOf(ledger', b[1]) => Finished(b[2]) \in LinesOf(ledger, b[1]) \/ (pc[p] = "complete" /\ b = at[p])
    <3>1. p \in inside /\ ledger' = Appended(p)
      BY <1>14 DEF Write
    <3> QED
      BY <3>1, AppendedLine
  <2>4. at[p] \in Ids
    BY DEF TypeInv, TypeOK
  <2>5. \A b \in Ids : Finished(b[2]) \in LinesOf(ledger', b[1]) => dir[b] = "sealed" /\ b[1] \in mapping
    BY <2>3 DEF SealedInv, CompletedIsSealed
  <2>6. UNCHANGED <<dir, mapping>>
    BY <1>14 DEF Write
  <2> QED
    BY <2>1, <2>2, <2>5, <2>6 DEF SealedInv, CompletedIsSealed
<1>15. ASSUME NEW p \in Operators, Crash(p) PROVE SealedInv'
  <2>1. p \in Operators /\ TypeInv /\ \A q \in Operators : at'[q] = at[q] /\ (q # p => pc'[q] = pc[q])
    BY <1>15 DEF Crash, Goto, TypeInv, TypeOK
  <2>2. pc'[p] \notin {"behave", "process", "seal", "complete"}
    BY <1>15 DEF Crash, Goto, TypeInv, TypeOK
  <2>3. \A b \in Ids : Finished(b[2]) \in LinesOf(ledger', b[1]) => Finished(b[2]) \in LinesOf(ledger, b[1]) \/ (pc[p] = "complete" /\ b = at[p])
    <3>1. CASE UNCHANGED ledger
      BY <3>1
    <3>2. CASE p \in inside /\ ledger' = Appended(p)
      BY <3>2, AppendedLine
    <3> QED
      BY <1>15, <3>1, <3>2 DEF Crash
  <2>4. at[p] \in Ids
    BY DEF TypeInv, TypeOK
  <2>5. \A b \in Ids : Finished(b[2]) \in LinesOf(ledger', b[1]) => dir[b] = "sealed" /\ b[1] \in mapping
    BY <2>3 DEF SealedInv, CompletedIsSealed
  <2>6. UNCHANGED <<dir, mapping>>
    BY <1>15 DEF Crash
  <2> QED
    BY <2>1, <2>2, <2>5, <2>6 DEF SealedInv, CompletedIsSealed
<1>16. CASE UNCHANGED vars
  BY <1>16 DEF SealedInv, CompletedIsSealed, vars, disk
<1> QED
  BY <1>1, <1>2, <1>3, <1>4, <1>5, <1>6, <1>7, <1>8, <1>9, <1>10, <1>11, <1>12, <1>13, <1>14, <1>15, <1>16 DEF Next, Step

LEMMA SealedInit == Init => SealedInv
<1> SUFFICES ASSUME Init PROVE SealedInv
  OBVIOUS
<1>1. \A u \in Units : LinesOf(ledger, u) = {}
  BY DEF Init, LinesOf
<1> QED
  BY <1>1 DEF Init, SealedInv, CompletedIsSealed, Ids

\* A completed unit has its sealed attempt and its mapping entry, however many commands
\* run beside each other and whichever of them writes the record.
THEOREM CompletedUnitsAreSealed == Spec => []CompletedIsSealed
<1>1. SealedInv => CompletedIsSealed
  BY DEF SealedInv
<1> QED
  BY <1>1, TypeInit, TypeStep, SealedInit, SealedStep, PTL DEF Spec
-----------------------------------------------------------------------------
(* The evidence, while one command runs at a time *)

OneCommand == \A p, q \in Operators : p = q

\* What a command knows of its attempt.
Command(p) ==
  /\ pc[p] \in {"prepare", "launch", "start"} /\ p \notin inside
       => Started(at[p][2]) \notin LinesOf(ledger, at[p][1])
  /\ pc[p] \in {"map", "behave"} => Started(at[p][2]) \in LinesOf(ledger, at[p][1])
  /\ pc[p] \in {"launch", "start", "map", "behave"} => dir[at[p]] = "staging"
  /\ pc[p] = "process" => dir[at[p]] = "used"
  /\ pc[p] = "seal" => dir[at[p]] = "ready"
  /\ pc[p] \in {"fail", "retain"} => dir[at[p]] \in Staged
  /\ pc[p] = "retry" => dir[at[p]] = "failed" /\ at[p][2] = 1
  /\ pc[p] \in {"map", "behave", "process", "seal", "retain", "complete", "fail", "retry"}
       => started[p]
  /\ pc[p] = "unstage" => ~started[p]
  /\ pc[p] \in {"clean", "unstage"} /\ ~started[p] => dir[at[p]] \notin {"used", "ready"}
  /\ p \in inside => LinesOf(ledger, at[p][1]) = Before[Line(p)]

\* Only a started attempt has a directory with data of the behaviour in it.
EvidenceInv ==
  /\ \A a \in Ids : dir[a] \in {"used", "ready"} => Started(a[2]) \in LinesOf(ledger, a[1])
  /\ \A u \in Units : Started(2) \in LinesOf(ledger, u) => Started(1) \in LinesOf(ledger, u)
  /\ RetryAfterEvidence
  /\ \A p \in Operators : Command(p)

\* A second start has the lines of the first attempt before it.
LEMMA BeforeSecond ==
  ASSUME NEW l \in Lines, l = Started(2) PROVE Started(1) \in Before[l]
<1>1. Before[l] = Retrying
  BY DEF Before, Started, Finished, Failed, RetryRequest, Lines, Events
<1> QED
  BY <1>1 DEF Retrying, FirstFailed

LEMMA EvidenceStep ==
  ASSUME OneCommand PROVE TypeInv /\ EvidenceInv /\ [Next]_vars => EvidenceInv'
<1> SUFFICES ASSUME TypeInv, EvidenceInv, [Next]_vars PROVE EvidenceInv'
  OBVIOUS
<1>1. ASSUME NEW p \in Operators, NEW m \in {"run", "preflight"}, Begin(p, m) PROVE EvidenceInv'
  <2>1. \A q \in Operators : q = p
    BY DEF OneCommand
  <2>2. /\ UNCHANGED ledger
        /\ \A b \in Ids : dir'[b] \in {"used", "ready"} => Started(b[2]) \in LinesOf(ledger, b[1])
    BY <1>1 DEF Begin, SetDir, Staged, Command, EvidenceInv, TypeInv, TypeOK, Ids, disk, journal
  <2>3. Command(p)'
    <3>1. PICK u \in Units : Attempts(ledger, u) < 2 /\ at'[p] = <<u, Attempts(ledger, u) + 1>>
      BY <1>1 DEF Begin, TypeInv, TypeOK
    <3>2. Started(Attempts(ledger, u) + 1) \notin LinesOf(ledger, u)
      <4>1. Attempts(ledger, u) = 0 \/ Attempts(ledger, u) = 1
        BY <3>1, AttemptsValue
      <4> QED
        BY <4>1, AttemptsValue DEF EvidenceInv
    <3>3. pc'[p] = "prepare" /\ UNCHANGED <<ledger, inside>> /\ p \notin inside
      BY <1>1 DEF Begin, Goto, TypeInv, TypeOK, disk, Appending
    <3> QED
      BY <3>1, <3>2, <3>3 DEF Command, Appending
  <2>4. RetryAfterEvidence'
    BY <2>2, EvidenceStays DEF RetryAfterEvidence, EvidenceInv, Ids
  <2> QED
    BY <2>1, <2>2, <2>3, <2>4 DEF EvidenceInv
<1>2. ASSUME NEW p \in Operators, Recover(p) PROVE EvidenceInv'
  <2>1. \A q \in Operators : q = p
    BY DEF OneCommand
  <2>2. /\ UNCHANGED ledger
        /\ \A b \in Ids : dir'[b] \in {"used", "ready"} => Started(b[2]) \in LinesOf(ledger, b[1])
    BY <1>2 DEF Recover, SetDir, Staged, Command, EvidenceInv, TypeInv, TypeOK, Ids, disk, journal
  <2>3. Command(p)'
    <3>1. UNCHANGED <<ledger, inside>> /\ p \notin inside /\ at[p] \in Ids
      BY <1>2 DEF Recover, TypeInv, TypeOK, disk, journal, Appending
    <3>2. pc'[p] = "complete" /\ started'[p]
      BY <1>2 DEF Recover, Goto, SetDir, Staged, Command, EvidenceInv, TypeInv, TypeOK, disk
    <3> QED
      BY <3>1, <3>2 DEF Command, EvidenceInv, Appending, Staged
  <2>4. RetryAfterEvidence'
    BY <2>2, EvidenceStays DEF RetryAfterEvidence, EvidenceInv, Ids
  <2> QED
    BY <2>1, <2>2, <2>3, <2>4 DEF EvidenceInv
<1>3. ASSUME NEW p \in Operators, Prepare(p) PROVE EvidenceInv'
  <2>1. \A q \in Operators : q = p
    BY DEF OneCommand
  <2>2. /\ UNCHANGED ledger
        /\ \A b \in Ids : dir'[b] \in {"used", "ready"} => Started(b[2]) \in LinesOf(ledger, b[1])
    BY <1>3 DEF Prepare, SetDir, Staged, Command, EvidenceInv, TypeInv, TypeOK, Ids, disk, journal
  <2>3. Command(p)'
    BY <1>3 DEF Prepare, Goto, SetDir, Staged, Appending, Command, EvidenceInv, TypeInv, TypeOK, Ids, disk, journal
  <2>4. RetryAfterEvidence'
    BY <2>2, EvidenceStays DEF RetryAfterEvidence, EvidenceInv, Ids
  <2> QED
    BY <2>1, <2>2, <2>3, <2>4 DEF EvidenceInv
<1>4. ASSUME NEW p \in Operators, Launch(p) PROVE EvidenceInv'
  <2>1. \A q \in Operators : q = p
    BY DEF OneCommand
  <2>2. /\ UNCHANGED ledger
        /\ \A b \in Ids : dir'[b] \in {"used", "ready"} => Started(b[2]) \in LinesOf(ledger, b[1])
    BY <1>4 DEF Launch, SetDir, Staged, Command, EvidenceInv, TypeInv, TypeOK, Ids, disk, journal
  <2>3. Command(p)'
    BY <1>4 DEF Launch, Goto, SetDir, Staged, Appending, Command, EvidenceInv, TypeInv, TypeOK, Ids, disk, journal
  <2>4. RetryAfterEvidence'
    BY <2>2, EvidenceStays DEF RetryAfterEvidence, EvidenceInv, Ids
  <2> QED
    BY <2>1, <2>2, <2>3, <2>4 DEF EvidenceInv
<1>5. ASSUME NEW p \in Operators, Map(p) PROVE EvidenceInv'
  <2>1. \A q \in Operators : q = p
    BY DEF OneCommand
  <2>2. /\ UNCHANGED ledger
        /\ \A b \in Ids : dir'[b] \in {"used", "ready"} => Started(b[2]) \in LinesOf(ledger, b[1])
    BY <1>5 DEF Map, SetDir, Staged, Command, EvidenceInv, TypeInv, TypeOK, Ids, disk, journal
  <2>3. Command(p)'
    <3>1. UNCHANGED <<ledger, inside, at, started>> /\ p \notin inside /\ at[p] \in Ids
      BY <1>5 DEF Map, TypeInv, TypeOK, disk, journal, Appending
    <3>2. /\ Started(at[p][2]) \in LinesOf(ledger, at[p][1]) /\ dir'[at[p]] = "staging" /\ started[p]
          /\ pc'[p] \in {"behave", "fail"}
      BY <1>5 DEF Map, Goto, SetDir, Staged, Command, EvidenceInv, TypeInv, TypeOK, disk
    <3> QED
      BY <3>1, <3>2 DEF Command, EvidenceInv, Appending, Staged
  <2>4. RetryAfterEvidence'
    BY <2>2, EvidenceStays DEF RetryAfterEvidence, EvidenceInv, Ids
  <2> QED
    BY <2>1, <2>2, <2>3, <2>4 DEF EvidenceInv
<1>6. ASSUME NEW p \in Operators, Behave(p) PROVE EvidenceInv'
  <2>1. \A q \in Operators : q = p
    BY DEF OneCommand
  <2>2. /\ UNCHANGED ledger
        /\ \A b \in Ids : dir'[b] \in {"used", "ready"} => Started(b[2]) \in LinesOf(ledger, b[1])
    BY <1>6 DEF Behave, SetDir, Staged, Command, EvidenceInv, TypeInv, TypeOK, Ids, disk, journal
  <2>3. Command(p)'
    <3>1. UNCHANGED <<ledger, inside, at, started>> /\ p \notin inside /\ at[p] \in Ids
      BY <1>6 DEF Behave, TypeInv, TypeOK, disk, journal, Appending
    <3>2. /\ started[p]
          /\ \/ pc'[p] = "process" /\ dir'[at[p]] = "used"
             \/ pc'[p] = "fail" /\ dir'[at[p]] = "staging" 
      BY <1>6 DEF Behave, Goto, SetDir, Staged, Command, EvidenceInv, TypeInv, TypeOK, disk
    <3> QED
      BY <3>1, <3>2 DEF Command, EvidenceInv, Appending, Staged
  <2>4. RetryAfterEvidence'
    BY <2>2, EvidenceStays DEF RetryAfterEvidence, EvidenceInv, Ids
  <2> QED
    BY <2>1, <2>2, <2>3, <2>4 DEF EvidenceInv
<1>7. ASSUME NEW p \in Operators, Process(p) PROVE EvidenceInv'
  <2>1. \A q \in Operators : q = p
    BY DEF OneCommand
  <2>2. /\ UNCHANGED ledger
        /\ \A b \in Ids : dir'[b] \in {"used", "ready"} => Started(b[2]) \in LinesOf(ledger, b[1])
    BY <1>7 DEF Process, SetDir, Staged, Command, EvidenceInv, TypeInv, TypeOK, Ids, disk, journal
  <2>3. Command(p)'
    <3>1. UNCHANGED <<ledger, inside, at, started>> /\ p \notin inside /\ at[p] \in Ids
      BY <1>7 DEF Process, TypeInv, TypeOK, disk, journal, Appending
    <3>2. /\ started[p]
          /\ \/ pc'[p] = "seal" /\ dir'[at[p]] = "ready"
             \/ pc'[p] = "fail" /\ dir'[at[p]] = "used" 
      BY <1>7 DEF Process, Goto, SetDir, Staged, Command, EvidenceInv, TypeInv, TypeOK, disk
    <3> QED
      BY <3>1, <3>2 DEF Command, EvidenceInv, Appending, Staged
  <2>4. RetryAfterEvidence'
    BY <2>2, EvidenceStays DEF RetryAfterEvidence, EvidenceInv, Ids
  <2> QED
    BY <2>1, <2>2, <2>3, <2>4 DEF EvidenceInv
<1>8. ASSUME NEW p \in Operators, Seal(p) PROVE EvidenceInv'
  <2>1. \A q \in Operators : q = p
    BY DEF OneCommand
  <2>2. /\ UNCHANGED ledger
        /\ \A b \in Ids : dir'[b] \in {"used", "ready"} => Started(b[2]) \in LinesOf(ledger, b[1])
    BY <1>8 DEF Seal, SetDir, Staged, Command, EvidenceInv, TypeInv, TypeOK, Ids, disk, journal
  <2>3. Command(p)'
    <3>1. UNCHANGED <<ledger, inside, at, started>> /\ p \notin inside /\ at[p] \in Ids
      BY <1>8 DEF Seal, TypeInv, TypeOK, disk, journal, Appending
    <3>2. /\ started[p]
          /\ \/ pc'[p] = "complete"
             \/ pc'[p] = "fail" /\ dir'[at[p]] = "ready" 
      BY <1>8 DEF Seal, Goto, SetDir, Staged, Command, EvidenceInv, TypeInv, TypeOK, disk
    <3> QED
      BY <3>1, <3>2 DEF Command, EvidenceInv, Appending, Staged
  <2>4. RetryAfterEvidence'
    BY <2>2, EvidenceStays DEF RetryAfterEvidence, EvidenceInv, Ids
  <2> QED
    BY <2>1, <2>2, <2>3, <2>4 DEF EvidenceInv
<1>9. ASSUME NEW p \in Operators, Retain(p) PROVE EvidenceInv'
  <2>1. \A q \in Operators : q = p
    BY DEF OneCommand
  <2>2. /\ UNCHANGED ledger
        /\ \A b \in Ids : dir'[b] \in {"used", "ready"} => Started(b[2]) \in LinesOf(ledger, b[1])
    BY <1>9 DEF Retain, SetDir, Staged, Command, EvidenceInv, TypeInv, TypeOK, Ids, disk, journal
  <2>3. Command(p)'
    <3>1. UNCHANGED <<ledger, inside, at, started>> /\ p \notin inside /\ at[p] \in Ids
      BY <1>9 DEF Retain, TypeInv, TypeOK, disk, journal, Appending
    <3>2. /\ started[p]
          /\ \/ pc'[p] = "retry" /\ dir'[at[p]] = "failed" /\ at[p][2] = 1
             \/ pc'[p] = "clean" 
      BY <1>9 DEF Retain, Goto, SetDir, Staged, Command, EvidenceInv, TypeInv, TypeOK, disk
    <3> QED
      BY <3>1, <3>2 DEF Command, EvidenceInv, Appending, Staged
  <2>4. RetryAfterEvidence'
    BY <2>2, EvidenceStays DEF RetryAfterEvidence, EvidenceInv, Ids
  <2> QED
    BY <2>1, <2>2, <2>3, <2>4 DEF EvidenceInv
<1>10. ASSUME NEW p \in Operators, Recycle(p) PROVE EvidenceInv'
  <2>1. \A q \in Operators : q = p
    BY DEF OneCommand
  <2>2. /\ UNCHANGED ledger
        /\ \A b \in Ids : dir'[b] \in {"used", "ready"} => Started(b[2]) \in LinesOf(ledger, b[1])
    BY <1>10 DEF Recycle, SetDir, Staged, Command, EvidenceInv, TypeInv, TypeOK, Ids, disk, journal
  <2>3. Command(p)'
    <3>1. UNCHANGED <<ledger, inside, dir>> /\ p \notin inside /\ at[p][1] \in Units
      BY <1>10 DEF Recycle, TypeInv, TypeOK, journal, Appending, Ids
    <3>2. CASE at'[p] = <<at[p][1], 2>> /\ pc'[p] = "prepare" /\ Attempts(ledger, at[p][1]) < 2
      <4>1. Started(2) \notin LinesOf(ledger, at[p][1])
        BY <3>1, <3>2, AttemptsValue DEF EvidenceInv
      <4> QED
        BY <3>1, <3>2, <4>1 DEF Command, Appending
    <3>3. CASE pc'[p] = "idle"
      BY <3>1, <3>3 DEF Command, Appending
    <3> QED
      BY <1>10, <3>2, <3>3 DEF Recycle, Goto, TypeInv, TypeOK
  <2>4. RetryAfterEvidence'
    BY <2>2, EvidenceStays DEF RetryAfterEvidence, EvidenceInv, Ids
  <2> QED
    BY <2>1, <2>2, <2>3, <2>4 DEF EvidenceInv
<1>11. ASSUME NEW p \in Operators, Clean(p) PROVE EvidenceInv'
  <2>1. \A q \in Operators : q = p
    BY DEF OneCommand
  <2>2. /\ UNCHANGED ledger
        /\ \A b \in Ids : dir'[b] \in {"used", "ready"} => Started(b[2]) \in LinesOf(ledger, b[1])
    BY <1>11 DEF Clean, SetDir, Staged, Command, EvidenceInv, TypeInv, TypeOK, Ids, disk, journal
  <2>3. Command(p)'
    <3>1. UNCHANGED <<ledger, inside, at, started>> /\ p \notin inside /\ at[p] \in Ids
      BY <1>11 DEF Clean, TypeInv, TypeOK, disk, journal, Appending
    <3>2. /\ pc'[p] = (IF started[p] THEN "idle" ELSE "unstage")
          /\ ~started[p] => dir'[at[p]] \notin {"used", "ready"} 
      BY <1>11 DEF Clean, Goto, SetDir, Staged, Command, EvidenceInv, TypeInv, TypeOK, disk
    <3> QED
      BY <3>1, <3>2 DEF Command, EvidenceInv, Appending, Staged
  <2>4. RetryAfterEvidence'
    BY <2>2, EvidenceStays DEF RetryAfterEvidence, EvidenceInv, Ids
  <2> QED
    BY <2>1, <2>2, <2>3, <2>4 DEF EvidenceInv
<1>12. ASSUME NEW p \in Operators, Unstage(p) PROVE EvidenceInv'
  <2>1. \A q \in Operators : q = p
    BY DEF OneCommand
  <2>2. /\ UNCHANGED ledger
        /\ \A b \in Ids : dir'[b] \in {"used", "ready"} => Started(b[2]) \in LinesOf(ledger, b[1])
    BY <1>12 DEF Unstage, SetDir, Staged, Command, EvidenceInv, TypeInv, TypeOK, Ids, disk, journal
  <2>3. Command(p)'
    BY <1>12 DEF Unstage, Goto, SetDir, Staged, Appending, Command, EvidenceInv, TypeInv, TypeOK, Ids, disk, journal
  <2>4. RetryAfterEvidence'
    BY <2>2, EvidenceStays DEF RetryAfterEvidence, EvidenceInv, Ids
  <2> QED
    BY <2>1, <2>2, <2>3, <2>4 DEF EvidenceInv
<1>13. ASSUME NEW p \in Operators, Enter(p) PROVE EvidenceInv'
  <2>1. \A q \in Operators : q = p
    BY DEF OneCommand
  <2>2. /\ UNCHANGED ledger
        /\ \A b \in Ids : dir'[b] \in {"used", "ready"} => Started(b[2]) \in LinesOf(ledger, b[1])
    BY <1>13 DEF Enter, SetDir, Staged, Command, EvidenceInv, TypeInv, TypeOK, Ids, disk, journal
  <2>3. Command(p)'
    <3>1. CASE LinesOf(ledger, at[p][1]) = Before[Line(p)] /\ UNCHANGED pc
      BY <1>13, <3>1 DEF Enter, Command, EvidenceInv, Line
    <3>2. CASE pc'[p] \in {"idle", "clean"} /\ UNCHANGED inside
      <4>1. pc'[p] = "clean" /\ ~started[p] => pc[p] = "start"
        BY <1>13 DEF Enter, EvidenceInv, Command, Appending
      <4> QED
        BY <1>13, <3>2, <4>1 DEF Enter, Command, EvidenceInv, Appending
    <3> QED
      BY <1>13, <3>1, <3>2 DEF Enter, Goto, Refused, Acceptable, TypeInv, TypeOK
  <2>4. RetryAfterEvidence'
    BY <2>2, EvidenceStays DEF RetryAfterEvidence, EvidenceInv, Ids
  <2> QED
    BY <2>1, <2>2, <2>3, <2>4 DEF EvidenceInv
<1>14. ASSUME NEW p \in Operators, Write(p) PROVE EvidenceInv'
  <2>1. \A q \in Operators : q = p
    BY DEF OneCommand
  <2>2. p \in inside => /\ \A u \in Units : LinesOf(Appended(p), u) =
                             IF at[p][1] = u THEN LinesOf(ledger, u) \union {Line(p)} ELSE LinesOf(ledger, u)
                        /\ LinesOf(ledger, at[p][1]) = Before[Line(p)] /\ pc[p] \in Appending
    BY AppendedType DEF EvidenceInv, Command, TypeInv
  <2>3. ledger' = ledger \/ (p \in inside /\ ledger' = Appended(p))
    BY <1>14 DEF Write
  <2>4. /\ UNCHANGED <<dir, at>> /\ at[p] \in Ids /\ at[p][1] \in Units /\ at[p][2] \in {1, 2}
        /\ inside' = inside \ {p}
    BY <1>14 DEF Write, TypeInv, TypeOK, Ids
  <2>5. \A u \in Units : LinesOf(ledger, u) \subseteq LinesOf(ledger', u)
    BY <2>2, <2>3
  <2>6. \A b \in Ids : dir'[b] \in {"used", "ready"} => Started(b[2]) \in LinesOf(ledger', b[1])
    BY <2>4, <2>5 DEF EvidenceInv, Ids
  <2>7. \A u \in Units : Started(2) \in LinesOf(ledger', u) => Started(1) \in LinesOf(ledger', u)
    <3>1. p \in inside => (Line(p) = Started(2) => Started(1) \in LinesOf(ledger, at[p][1]))
      BY <2>2, LineType, BeforeSecond DEF TypeInv, TypeOK
    <3> QED
      BY <2>2, <2>3, <2>5, <3>1 DEF EvidenceInv
  <2>8. RetryAfterEvidence'
    <3>1. Line(p) = RetryRequest /\ pc[p] \in Appending => pc[p] = "retry"
      BY DEF Line, Appending, Started, Finished, Failed, RetryRequest
    <3>2. \A u \in Units : RetryRequest \in LinesOf(ledger', u)
            => RetryRequest \in LinesOf(ledger, u) \/ (pc[p] = "retry" /\ u = at[p][1])
      BY <2>2, <2>3, <3>1
    <3>3. pc[p] = "retry" => at[p] = <<at[p][1], 1>>
      BY <2>4 DEF EvidenceInv, Command, Ids
    <3> QED
      BY <2>4, <3>2, <3>3 DEF RetryAfterEvidence, EvidenceInv, Command
  <2>9. Command(p)'
    <3>1. p \in inside /\ ledger' = Appended(p) /\ pc[p] \in Appending /\ pc[p] # "idle"
      BY <1>14, <2>2 DEF Write, Appending
    <3>2. CASE started'[p] /\ pc'[p] = Done(p)
      <4>1. pc'[p] \in {"map", "idle", "clean", "retain", "recycle"} /\ (pc'[p] = "map" => pc[p] = "start") /\ (pc'[p] = "retain" => pc[p] = "fail")
        BY <3>1, <3>2 DEF Done, Appending
      <4>2. pc[p] = "start" => Line(p) = Started(at[p][2])
        BY DEF Line
      <4>3. pc[p] = "start" => Started(at[p][2]) \in LinesOf(ledger', at[p][1])
        BY <3>1, <2>2, <2>4, <4>2
      <4> QED
        BY <2>4, <3>2, <4>1, <4>3 DEF Command, EvidenceInv, Appending
    <3>3. CASE UNCHANGED started /\ pc'[p] = Refused(p)
      <4>1. pc'[p] \in {"idle", "clean"}
        BY <3>3 DEF Refused
      <4>2. pc'[p] = "clean" /\ ~started[p] => pc[p] = "start"
        BY <3>1 DEF EvidenceInv, Command, Appending
      <4> QED
        BY <2>4, <3>3, <4>1, <4>2 DEF Command, EvidenceInv, Appending
    <3> QED
      BY <1>14, <3>2, <3>3 DEF Write, Goto, TypeInv, TypeOK
  <2> QED
    BY <2>1, <2>6, <2>7, <2>8, <2>9 DEF EvidenceInv
<1>15. ASSUME NEW p \in Operators, Crash(p) PROVE EvidenceInv'
  <2>1. \A q \in Operators : q = p
    BY DEF OneCommand
  <2>2. p \in inside => /\ \A u \in Units : LinesOf(Appended(p), u) =
                             IF at[p][1] = u THEN LinesOf(ledger, u) \union {Line(p)} ELSE LinesOf(ledger, u)
                        /\ LinesOf(ledger, at[p][1]) = Before[Line(p)] /\ pc[p] \in Appending
    BY AppendedType DEF EvidenceInv, Command, TypeInv
  <2>3. ledger' = ledger \/ (p \in inside /\ ledger' = Appended(p))
    BY <1>15 DEF Crash
  <2>4. /\ UNCHANGED <<dir, at>> /\ at[p] \in Ids /\ at[p][1] \in Units /\ at[p][2] \in {1, 2}
        /\ inside' = inside \ {p}
    BY <1>15 DEF Crash, TypeInv, TypeOK, Ids
  <2>5. \A u \in Units : LinesOf(ledger, u) \subseteq LinesOf(ledger', u)
    BY <2>2, <2>3
  <2>6. \A b \in Ids : dir'[b] \in {"used", "ready"} => Started(b[2]) \in LinesOf(ledger', b[1])
    BY <2>4, <2>5 DEF EvidenceInv, Ids
  <2>7. \A u \in Units : Started(2) \in LinesOf(ledger', u) => Started(1) \in LinesOf(ledger', u)
    <3>1. p \in inside => (Line(p) = Started(2) => Started(1) \in LinesOf(ledger, at[p][1]))
      BY <2>2, LineType, BeforeSecond DEF TypeInv, TypeOK
    <3> QED
      BY <2>2, <2>3, <2>5, <3>1 DEF EvidenceInv
  <2>8. RetryAfterEvidence'
    <3>1. Line(p) = RetryRequest /\ pc[p] \in Appending => pc[p] = "retry"
      BY DEF Line, Appending, Started, Finished, Failed, RetryRequest
    <3>2. \A u \in Units : RetryRequest \in LinesOf(ledger', u)
            => RetryRequest \in LinesOf(ledger, u) \/ (pc[p] = "retry" /\ u = at[p][1])
      BY <2>2, <2>3, <3>1
    <3>3. pc[p] = "retry" => at[p] = <<at[p][1], 1>>
      BY <2>4 DEF EvidenceInv, Command, Ids
    <3> QED
      BY <2>4, <3>2, <3>3 DEF RetryAfterEvidence, EvidenceInv, Command
  <2>9. Command(p)'
    <3>1. pc'[p] = "idle"
      BY <1>15 DEF Crash, Goto, TypeInv, TypeOK
    <3> QED
      BY <2>4, <3>1 DEF Command, Appending
  <2> QED
    BY <2>1, <2>6, <2>7, <2>8, <2>9 DEF EvidenceInv
<1>16. CASE UNCHANGED vars
  BY <1>16 DEF EvidenceInv, Command, Line, RetryAfterEvidence, vars, disk
<1> QED
  BY <1>1, <1>2, <1>3, <1>4, <1>5, <1>6, <1>7, <1>8, <1>9, <1>10, <1>11, <1>12, <1>13, <1>14, <1>15, <1>16 DEF Next, Step

LEMMA EvidenceKeeps ==
  ASSUME OneCommand, TypeInv, EvidenceInv, [Next]_vars, NEW a \in Ids
  PROVE  /\ dir[a] \in {"used", "ready"} => dir'[a] \in {dir[a], "ready", "sealed", "failed"}
         /\ dir[a] \in {"sealed", "failed"} => dir'[a] = dir[a]
<1> SUFFICES ASSUME dir[a] \in {"used", "ready"}
             PROVE  dir'[a] \in {dir[a], "ready", "sealed", "failed"}
  BY EvidenceStays
<1>1. ASSUME NEW p \in Operators, NEW m \in {"run", "preflight"}, Begin(p, m) PROVE dir'[a] \in {dir[a], "ready", "sealed", "failed"}
  BY <1>1 DEF Begin, SetDir, Staged, TypeInv, TypeOK, Ids, disk, journal
<1>2. ASSUME NEW p \in Operators, Recover(p) PROVE dir'[a] \in {dir[a], "ready", "sealed", "failed"}
  BY <1>2 DEF Recover, SetDir, Staged, TypeInv, TypeOK, Ids, disk, journal
<1>3. ASSUME NEW p \in Operators, Prepare(p) PROVE dir'[a] \in {dir[a], "ready", "sealed", "failed"}
  BY <1>3 DEF Prepare, SetDir, Staged, TypeInv, TypeOK, Ids, disk, journal
<1>4. ASSUME NEW p \in Operators, Launch(p) PROVE dir'[a] \in {dir[a], "ready", "sealed", "failed"}
  BY <1>4 DEF Launch, SetDir, Staged, TypeInv, TypeOK, Ids, disk, journal
<1>5. ASSUME NEW p \in Operators, Map(p) PROVE dir'[a] \in {dir[a], "ready", "sealed", "failed"}
  BY <1>5 DEF Map, SetDir, Staged, TypeInv, TypeOK, Ids, disk, journal
<1>6. ASSUME NEW p \in Operators, Behave(p) PROVE dir'[a] \in {dir[a], "ready", "sealed", "failed"}
  BY <1>6 DEF Behave, SetDir, Staged, TypeInv, TypeOK, Ids, disk, journal
<1>7. ASSUME NEW p \in Operators, Process(p) PROVE dir'[a] \in {dir[a], "ready", "sealed", "failed"}
  BY <1>7 DEF Process, SetDir, Staged, TypeInv, TypeOK, Ids, disk, journal
<1>8. ASSUME NEW p \in Operators, Seal(p) PROVE dir'[a] \in {dir[a], "ready", "sealed", "failed"}
  BY <1>8 DEF Seal, SetDir, Staged, TypeInv, TypeOK, Ids, disk, journal
<1>9. ASSUME NEW p \in Operators, Retain(p) PROVE dir'[a] \in {dir[a], "ready", "sealed", "failed"}
  BY <1>9 DEF Retain, SetDir, Staged, TypeInv, TypeOK, Ids, disk, journal
<1>10. ASSUME NEW p \in Operators, Recycle(p) PROVE dir'[a] \in {dir[a], "ready", "sealed", "failed"}
  BY <1>10 DEF Recycle, SetDir, Staged, TypeInv, TypeOK, Ids, disk, journal
<1>11. ASSUME NEW p \in Operators, Clean(p) PROVE dir'[a] \in {dir[a], "ready", "sealed", "failed"}
  BY <1>11 DEF Clean, SetDir, Staged, TypeInv, TypeOK, Ids, disk, journal
<1>12. ASSUME NEW p \in Operators, Unstage(p) PROVE dir'[a] \in {dir[a], "ready", "sealed", "failed"}
  <2>1. dir[at[p]] \notin {"used", "ready"}
    BY <1>12 DEF Unstage, EvidenceInv, Command
  <2> QED
    BY <1>12, <2>1 DEF Unstage, Staged, TypeInv, TypeOK, Ids, disk, journal
<1>13. ASSUME NEW p \in Operators, Enter(p) PROVE dir'[a] \in {dir[a], "ready", "sealed", "failed"}
  BY <1>13 DEF Enter, SetDir, Staged, TypeInv, TypeOK, Ids, disk, journal
<1>14. ASSUME NEW p \in Operators, Write(p) PROVE dir'[a] \in {dir[a], "ready", "sealed", "failed"}
  BY <1>14 DEF Write, SetDir, Staged, TypeInv, TypeOK, Ids, disk, journal
<1>15. ASSUME NEW p \in Operators, Crash(p) PROVE dir'[a] \in {dir[a], "ready", "sealed", "failed"}
  BY <1>15 DEF Crash, SetDir, Staged, TypeInv, TypeOK, Ids, disk, journal
<1>16. CASE UNCHANGED vars
  BY <1>16 DEF vars, disk
<1> QED
  BY <1>1, <1>2, <1>3, <1>4, <1>5, <1>6, <1>7, <1>8, <1>9, <1>10, <1>11, <1>12, <1>13, <1>14, <1>15, <1>16 DEF Next, Step

LEMMA EvidenceInit == Init => EvidenceInv
<1> SUFFICES ASSUME Init PROVE EvidenceInv
  OBVIOUS
<1>1. \A u \in Units : LinesOf(ledger, u) = {}
  BY DEF Init, LinesOf
<1>2. \A a \in Ids : dir[a] = "none" /\ a[1] \in Units
  BY DEF Init, Ids
<1>3. \A p \in Operators : pc[p] = "idle" /\ p \notin inside
  BY DEF Init
<1> QED
  BY <1>1, <1>2, <1>3 DEF EvidenceInv, Command, RetryAfterEvidence

\* With one command at a time, a retry is recorded only for a first attempt whose
\* directory was put aside as failed.
THEOREM RetriesFollowEvidence == OneCommand => (Spec => []RetryAfterEvidence)
<1> SUFFICES ASSUME OneCommand PROVE Spec => []RetryAfterEvidence
  OBVIOUS
<1>1. TypeInv /\ EvidenceInv /\ [Next]_vars => EvidenceInv'
  BY EvidenceStep
<1>2. EvidenceInv => RetryAfterEvidence
  BY DEF EvidenceInv
<1> QED
  BY <1>1, <1>2, TypeInit, TypeStep, EvidenceInit, PTL DEF Spec

\* With one command at a time, what the behaviour left behind is never deleted or reused.
THEOREM EvidenceIsKept == OneCommand => (Spec => EvidenceKept)
<1> SUFFICES ASSUME OneCommand PROVE Spec => EvidenceKept
  OBVIOUS
<1> DEFINE Kept(a) == /\ dir[a] \in {"used", "ready"} => dir'[a] \in {dir[a], "ready", "sealed", "failed"}
                      /\ dir[a] \in {"sealed", "failed"} => dir'[a] = dir[a]
<1>1. TypeInv /\ EvidenceInv /\ [Next]_vars => EvidenceInv'
  BY EvidenceStep
<1>2. TypeInv /\ EvidenceInv /\ [Next]_vars => [\A a \in Ids : Kept(a)]_vars
  BY EvidenceKeeps
<1>3. Spec => [][\A a \in Ids : Kept(a)]_vars
  BY <1>1, <1>2, TypeInit, TypeStep, EvidenceInit, PTL DEF Spec
<1> QED
  BY <1>3 DEF EvidenceKept
-----------------------------------------------------------------------------
(* The lock, and the walk through the plan *)

\* The lock file keeps a second command out: one command runs, or a file that a command
\* holds open cannot be removed by another.
LockHolds == OneCommand \/ ~UnlinkOpen

\* One append at a time is inside the lock; it has read the journal as it is, and its record
\* is the one the transition table allows next.
LockInv ==
  /\ inside # {} => lock
  /\ \A p, q \in inside : p = q
  /\ \A p \in inside : seen[p] = Len(ledger) /\ Acceptable(ledger, at[p][1], Line(p))
  /\ Readable(ledger)

\* What a step does to the journal: nothing that matters to it, or one of three actions.
LEMMA JournalSteps ==
  ASSUME TypeInv, [Next]_vars
  PROVE  \/ /\ UNCHANGED journal
            /\ \A q \in inside : pc'[q] = pc[q] /\ at'[q] = at[q]
         \/ \E p \in Operators : Enter(p) \/ Write(p) \/ Crash(p)
<1> DEFINE Quiet == /\ UNCHANGED journal
                    /\ \A q \in inside : pc'[q] = pc[q] /\ at'[q] = at[q]
<1>1. ASSUME NEW p \in Operators, NEW m \in {"run", "preflight"}, Begin(p, m) PROVE Quiet
  BY <1>1 DEF Begin, Goto, disk, journal, TypeInv, TypeOK, Appending
<1>2. ASSUME NEW p \in Operators, Recover(p) PROVE Quiet
  BY <1>2 DEF Recover, Goto, disk, journal, TypeInv, TypeOK, Appending
<1>3. ASSUME NEW p \in Operators, Recycle(p) PROVE Quiet
  BY <1>3 DEF Recycle, Goto, journal, TypeInv, TypeOK, Appending
<1>4. ASSUME NEW p \in Operators, Prepare(p) PROVE Quiet
  BY <1>4 DEF Prepare, Goto, journal, TypeInv, TypeOK, Appending
<1>5. ASSUME NEW p \in Operators, Launch(p) PROVE Quiet
  BY <1>5 DEF Launch, Goto, journal, TypeInv, TypeOK, Appending
<1>6. ASSUME NEW p \in Operators, Map(p) PROVE Quiet
  BY <1>6 DEF Map, Goto, journal, TypeInv, TypeOK, Appending
<1>7. ASSUME NEW p \in Operators, Behave(p) PROVE Quiet
  BY <1>7 DEF Behave, Goto, journal, TypeInv, TypeOK, Appending
<1>8. ASSUME NEW p \in Operators, Process(p) PROVE Quiet
  BY <1>8 DEF Process, Goto, journal, TypeInv, TypeOK, Appending
<1>9. ASSUME NEW p \in Operators, Seal(p) PROVE Quiet
  BY <1>9 DEF Seal, Goto, journal, TypeInv, TypeOK, Appending
<1>10. ASSUME NEW p \in Operators, Retain(p) PROVE Quiet
  BY <1>10 DEF Retain, Goto, journal, TypeInv, TypeOK, Appending
<1>11. ASSUME NEW p \in Operators, Clean(p) \/ Unstage(p) PROVE Quiet
  BY <1>11 DEF Clean, Unstage, Goto, journal, TypeInv, TypeOK, Appending
<1>12. CASE UNCHANGED vars
  BY <1>12 DEF vars, disk, journal
<1> QED
  BY <1>1, <1>2, <1>3, <1>4, <1>5, <1>6, <1>7, <1>8, <1>9, <1>10, <1>11, <1>12 DEF Next, Step

\* A record that is written with the number after the last one keeps the journal readable.
LEMMA AppendReadable ==
  ASSUME TypeInv, Readable(ledger), NEW p \in inside, seen[p] = Len(ledger)
  PROVE  Readable(Appended(p))
<1> DEFINE r == [seq |-> seen[p] + 1, unit |-> at[p][1], line |-> Line(p)]
           M == Append(ledger, r)
<1>1. ledger \in Seq(Record) /\ r.seq = Len(ledger) + 1
  BY DEF TypeInv, TypeOK
<1>2. \A i \in DOMAIN ledger : ledger[i].seq = i
  BY DEF Readable
<1> HIDE DEF r
<1>3. ASSUME NEW i \in DOMAIN M PROVE M[i].seq = i
  <2>1. CASE i \in DOMAIN ledger
    BY <1>1, <1>2, <2>1
  <2>2. CASE i = Len(ledger) + 1
    BY <1>1, <2>2
  <2> QED
    BY <1>1, <2>1, <2>2
<1> QED
  BY <1>3 DEF Readable, Appended, r

\* A refused command removes the lock file only where no append is under way or none is
\* harmed; a command that dies in an append leaves the lock to nobody.
LEMMA LockStep == LockHolds /\ TypeInv /\ LockInv /\ [Next]_vars => LockInv'
<1> SUFFICES ASSUME LockHolds, TypeInv, LockInv, [Next]_vars PROVE LockInv'
  OBVIOUS
<1>1. CASE /\ UNCHANGED journal
           /\ \A q \in inside : pc'[q] = pc[q] /\ at'[q] = at[q]
  BY <1>1 DEF LockInv, journal, Line, Acceptable
<1>2. ASSUME NEW p \in Operators, Enter(p) PROVE LockInv'
  <2>1. UNCHANGED <<ledger, at>> /\ p \notin inside
    BY <1>2 DEF Enter
  <2>2. CASE /\ ~lock /\ lock' = TRUE /\ inside' = inside \union {p} /\ UNCHANGED pc
             /\ seen' = [seen EXCEPT ![p] = Len(ledger)]
             /\ Acceptable(ledger, at[p][1], Line(p))
    <3>1. inside' = {p} /\ seen'[p] = Len(ledger)
      BY <2>2 DEF LockInv, TypeInv, TypeOK
    <3>2. Line(p)' = Line(p)
      BY <2>1, <2>2 DEF Line
    <3> QED
      BY <2>1, <2>2, <3>1, <3>2 DEF LockInv
  <2>3. CASE /\ lock' = (inside # {} /\ ~UnlinkOpen /\ lock)
             /\ Goto(p, Refused(p)) /\ UNCHANGED <<inside, seen>>
    <3>1. inside # {} => ~UnlinkOpen /\ lock
      BY <2>1 DEF LockHolds, OneCommand, LockInv, TypeInv, TypeOK
    <3>2. \A q \in inside : pc'[q] = pc[q]
      BY <2>1, <2>3 DEF Goto, TypeInv, TypeOK
    <3>3. \A q \in inside : Line(q)' = Line(q)
      BY <2>1, <3>2 DEF Line
    <3>4. inside' # {} => lock'
      BY <2>3, <3>1
    <3> QED
      BY <2>1, <2>3, <3>3, <3>4 DEF LockInv
  <2> QED
    BY <1>2, <2>2, <2>3 DEF Enter
<1>3. ASSUME NEW p \in Operators, Write(p) PROVE LockInv'
  <2>1. p \in inside /\ inside' = {} /\ ledger' = Appended(p)
    BY <1>3 DEF Write, LockInv
  <2>2. Readable(ledger')
    BY <2>1, AppendReadable DEF LockInv
  <2> QED
    BY <2>1, <2>2 DEF LockInv
<1>4. ASSUME NEW p \in Operators, Crash(p) PROVE LockInv'
  <2>1. CASE p \in inside
    <3>1. inside' = {}
      BY <1>4, <2>1 DEF Crash, LockInv
    <3>2. Readable(ledger')
      BY <1>4, <2>1, AppendReadable DEF LockInv, Crash
    <3> QED
      BY <3>1, <3>2 DEF LockInv
  <2>2. CASE p \notin inside
    <3>1. UNCHANGED <<ledger, lock, inside, seen, at>>
      BY <1>4, <2>2 DEF Crash
    <3>2. \A q \in inside : pc'[q] = pc[q]
      BY <1>4, <2>2 DEF Crash, Goto, TypeInv, TypeOK
    <3>3. \A q \in inside : Line(q)' = Line(q)
      BY <3>1, <3>2 DEF Line
    <3> QED
      BY <3>1, <3>3 DEF LockInv
  <2> QED
    BY <2>1, <2>2
<1> QED
  BY <1>1, <1>2, <1>3, <1>4, JournalSteps

\* No command is in the lock at the start.
LEMMA LockInit == Init => LockInv
  BY DEF Init, LockInv, Readable

\* Where the lock holds, the journal has every number once, whatever dies or fails: the
\* journal that cannot be read (LedgerStaysReadable refuted by a run) needs two commands
\* and a system that removes open files.
THEOREM LockKeepsJournalReadable == LockHolds => (Spec => []LedgerStaysReadable)
<1> SUFFICES ASSUME LockHolds PROVE Spec => []LedgerStaysReadable
  OBVIOUS
<1>1. TypeInv /\ LockInv /\ [Next]_vars => LockInv'
  BY LockStep
<1>2. LockInv => LedgerStaysReadable
  BY DEF LockInv, LedgerStaysReadable
<1> QED
  BY <1>1, <1>2, TypeInit, TypeStep, LockInit, PTL DEF Spec

\* A finite set of numbers that is not empty has a largest: the elements above it are the
\* smallest among the sets of elements above one of them.
LEMMA HasLast ==
  ASSUME NEW S \in SUBSET Nat, IsFiniteSet(S), S # {}
  PROVE  \E i \in S : \A j \in S : j <= i
<1> DEFINE Above(i) == {j \in S : j > i}
           T == {Above(i) : i \in S}
<1>1. T \subseteq FiniteSubsetsOf(S) /\ T # {}
  <2>1. ASSUME NEW i \in S PROVE Above(i) \subseteq S /\ IsFiniteSet(Above(i))
    <3>1. Above(i) \subseteq S
      OBVIOUS
    <3> QED
      BY <3>1, FS_Subset
  <2> QED
    BY <2>1 DEF FiniteSubsetsOf
<1>2. PICK U \in T : \A V \in T : ~ (<<V, U>> \in StrictSubsetOrdering(S))
  <2> HIDE DEF T
  <2> QED
    BY <1>1, FS_StrictSubsetOrderingWellFounded, WFMin
<1>3. PICK i \in S : U = Above(i)
  BY <1>2
<1>4. ASSUME NEW j \in S, j > i PROVE FALSE
  <2>1. Above(j) \in T /\ Above(j) \subseteq U /\ j \in U /\ j \notin Above(j)
    <3>1. Above(j) \in T
      BY <1>4
    <3>2. \A k \in S : k > j => k > i
      <4> \A k \in S : k \in Nat
        OBVIOUS
      <4> QED
        BY <1>4
    <3>3. Above(j) \subseteq Above(i) /\ j \in Above(i) /\ j \notin Above(j)
      <4>1. j \in Nat /\ ~ (j > j)
        OBVIOUS
      <4>2. Above(j) \subseteq Above(i)
        BY <3>2
      <4> QED
        BY <1>4, <4>1, <4>2
    <3> HIDE DEF T, Above
    <3> QED
      BY <1>3, <3>1, <3>3
  <2>2. <<Above(j), U>> \in StrictSubsetOrdering(S)
    BY <2>1, <1>3 DEF StrictSubsetOrdering
  <2> QED
    BY <2>1, <2>2, <1>2
<1> QED
  BY <1>4

\* What the records of a unit can be, in the order of the transition table.
Stages == {{}, {Started(1)}, {Started(1), Finished(1)}, FirstFailed, Retrying,
           Retrying \union {Started(2)}, Retrying \union {Started(2), Finished(2)},
           Retrying \union {Started(2), Failed(2)}}

\* Those in which an attempt is active.
OpenStages == {{Started(1)}, Retrying \union {Started(2)}}

\* Each unit went through the table, and only after those before it were completed.
InOrder(L) ==
  /\ \A u \in Units : LinesOf(L, u) \in Stages
  /\ \A i, j \in DOMAIN Plan :
       i < j /\ LinesOf(L, Plan[j]) # {} => Plan[i] \in Completed(L)

\* The transition table leads from a stage to a stage.
LEMMA NextStage ==
  ASSUME NEW ls \in Stages, NEW l \in Lines, ls = Before[l]
  PROVE  /\ ls \union {l} \in Stages
         /\ ls \intersect {Finished(1), Finished(2)} = {}
         /\ \/ l = Started(1) /\ ls = {}
            \/ l \in {Finished(1), Failed(1)} /\ ls = {Started(1)}
            \/ l = RetryRequest /\ ls = FirstFailed
            \/ l = Started(2) /\ ls = Retrying
            \/ l \in {Finished(2), Failed(2)} /\ ls = Retrying \union {Started(2)}
<1>1. l \in {Started(1), Finished(1), Failed(1), RetryRequest, Started(2), Finished(2), Failed(2)}
      \/ l = <<"retry_requested", 2>>
  BY DEF Lines, Events, Started, Finished, Failed, RetryRequest
<1>2. ls = CASE l = Started(1)                  -> {}
    [] l \in {Finished(1), Failed(1)}  -> {Started(1)}
    [] l = RetryRequest                -> FirstFailed
    [] l = Started(2)                  -> Retrying
    [] l \in {Finished(2), Failed(2)}  -> Retrying \union {Started(2)}
    [] OTHER                           -> Lines
  BY DEF Before
<1>3. l # <<"retry_requested", 2>>
  <2>1. <<"retry_requested", 2>> \in Lines
    BY DEF Lines, Events
  <2>2. \A s \in Stages : <<"retry_requested", 2>> \notin s
    BY DEF Stages, FirstFailed, Retrying, Started, Finished, Failed, RetryRequest
  <2>3. SUFFICES ASSUME l = <<"retry_requested", 2>> PROVE FALSE
    OBVIOUS
  <2>4. ls = Lines
    BY <1>2, <2>3 DEF Started, Finished, Failed, RetryRequest
  <2> QED
    BY <2>1, <2>2, <2>4
<1>4. \/ l = Started(1) /\ ls = {}
      \/ l \in {Finished(1), Failed(1)} /\ ls = {Started(1)}
      \/ l = RetryRequest /\ ls = FirstFailed
      \/ l = Started(2) /\ ls = Retrying
      \/ l \in {Finished(2), Failed(2)} /\ ls = Retrying \union {Started(2)}
  BY <1>1, <1>2, <1>3 DEF Started, Finished, Failed, RetryRequest
<1>5. ls \intersect {Finished(1), Finished(2)} = {}
  BY <1>4 DEF FirstFailed, Retrying, Started, Finished, Failed, RetryRequest
<1>6. ls \union {l} \in Stages
  BY <1>4 DEF Stages, FirstFailed, Retrying
<1> QED
  BY <1>4, <1>5, <1>6

\* The first record of a unit starts its first attempt.
LEMMA OnlyStartFirst == ASSUME NEW l \in Lines, Before[l] = {} PROVE l = Started(1)
<1>1. {} \in Stages /\ {} = Before[l]
  BY DEF Stages
<1>2. FirstFailed # {} /\ Retrying # {}
  BY DEF FirstFailed, Retrying
<1> HIDE DEF Stages
<1>3. \/ l = Started(1)
      \/ {} = {Started(1)} \/ {} = FirstFailed \/ {} = Retrying
      \/ {} = Retrying \union {Started(2)}
  BY <1>1, NextStage
<1> QED
  BY <1>2, <1>3

\* The stages in which an attempt is active, and those in which none is.
LEMMA StageKinds ==
  /\ \A ls \in Stages : \A n \in {1, 2} :
       Started(n) \in ls /\ {Finished(n), Failed(n)} \intersect ls = {} => ls \in OpenStages
  /\ \A ls \in OpenStages :
       /\ ls # {} /\ ls \intersect {Finished(1), Finished(2)} = {}
       /\ \E n \in {1, 2} : Started(n) \in ls /\ {Finished(n), Failed(n)} \intersect ls = {}
  /\ {} \notin OpenStages /\ FirstFailed \notin OpenStages /\ Retrying \notin OpenStages
  /\ Retrying \union {Started(2), Failed(2)} \notin OpenStages
<1>1. \A n, m \in {1, 2} :
        /\ Started(n) # Finished(m) /\ Started(n) # Failed(m) /\ Started(n) # RetryRequest
        /\ Finished(n) # Failed(m) /\ Finished(n) # RetryRequest /\ Failed(n) # RetryRequest
        /\ n # m => Started(n) # Started(m) /\ Finished(n) # Finished(m) /\ Failed(n) # Failed(m)
  BY DEF Started, Finished, Failed, RetryRequest
<1>2. /\ FirstFailed = {Started(1), Failed(1)}
      /\ Retrying = {Started(1), Failed(1), RetryRequest}
  BY DEF FirstFailed, Retrying
<1>3. ASSUME NEW ls \in Stages, NEW n \in {1, 2}, Started(n) \in ls,
             {Finished(n), Failed(n)} \intersect ls = {}
      PROVE  ls \in OpenStages
  <2>1. Finished(n) \notin ls /\ Failed(n) \notin ls
    BY <1>3
  <2>2. CASE n = 1
    BY <1>1, <1>2, <1>3, <2>1, <2>2 DEF Stages, OpenStages
  <2>3. CASE n = 2
    BY <1>1, <1>2, <1>3, <2>1, <2>3 DEF Stages, OpenStages
  <2> QED
    BY <2>2, <2>3
<1>4. ASSUME NEW ls \in OpenStages
      PROVE  /\ ls # {} /\ ls \intersect {Finished(1), Finished(2)} = {}
             /\ \E n \in {1, 2} : Started(n) \in ls /\ {Finished(n), Failed(n)} \intersect ls = {}
  <2>1. CASE ls = {Started(1)}
    BY <1>1, <2>1
  <2>2. CASE ls = {Started(1), Failed(1), RetryRequest, Started(2)}
    <3>1. Finished(1) \notin ls /\ Finished(2) \notin ls /\ Failed(2) \notin ls /\ Started(2) \in ls
      BY <1>1, <2>2
    <3> QED
      BY <3>1
  <2> QED
    BY <1>2, <2>1, <2>2 DEF OpenStages
<1>5. /\ Failed(1) \in FirstFailed /\ Started(2) \notin FirstFailed
      /\ Failed(1) \in Retrying /\ Started(2) \notin Retrying /\ Failed(2) \notin Retrying
  BY <1>1, <1>2
<1>6. /\ {} \notin OpenStages /\ FirstFailed \notin OpenStages /\ Retrying \notin OpenStages
      /\ Retrying \union {Started(2), Failed(2)} \notin OpenStages
  <2>1. \A ls \in OpenStages : Started(2) \in ls \/ Failed(1) \notin ls
    BY <1>1, <1>2 DEF OpenStages
  <2>2. \A ls \in OpenStages : Failed(2) \notin ls
    BY <1>1, <1>2 DEF OpenStages
  <2>3. {} \notin OpenStages
    BY DEF OpenStages
  <2> QED
    BY <1>5, <2>1, <2>2, <2>3
<1> QED
  BY <1>3, <1>4, <1>6

\* An accepted record keeps the units in the order of the plan.
LEMMA OrderStep ==
  ASSUME NEW L \in Seq(Record), NEW M \in Seq(Record), NEW u \in Units, NEW l \in Lines,
         \A v \in Units : LinesOf(M, v) = IF u = v THEN LinesOf(L, v) \union {l} ELSE LinesOf(L, v),
         InOrder(L), Acceptable(L, u, l)
  PROVE  InOrder(M)
<1>1. ASSUME NEW v \in Units PROVE LinesOf(M, v) \in Stages
  BY NextStage DEF InOrder, Acceptable
<1>2. Completed(L) \subseteq Completed(M)
  BY DEF Completed
<1>3. ASSUME NEW i \in DOMAIN Plan, NEW j \in DOMAIN Plan, i < j, LinesOf(M, Plan[j]) # {}
      PROVE  Plan[i] \in Completed(M)
  <2>0. Plan[j] \in Units
    BY PlanAssumption
  <2>1. CASE LinesOf(L, Plan[j]) # {}
    BY <1>2, <1>3, <2>1 DEF InOrder
  <2>2. CASE LinesOf(L, Plan[j]) = {}
    <3>1. u = Plan[j] /\ Before[l] = {} /\ LinesOf(L, u) \in Stages
      BY <1>3, <2>0, <2>2 DEF Acceptable, InOrder
    <3>2. l = Started(1)
      BY <3>1, OnlyStartFirst
    <3>3. PICK k \in DOMAIN Plan : Plan[k] = u /\ \A h \in 1..(k - 1) : Plan[h] \in Completed(L)
      BY <3>2 DEF Acceptable, IsNext
    <3>4. k = j /\ DOMAIN Plan = 1..Len(Plan) /\ Len(Plan) \in Nat
      BY <3>1, <3>3, PlanAssumption
    <3>5. i \in 1..(k - 1)
      BY <1>3, <3>4
    <3> QED
      BY <1>2, <3>3, <3>5
  <2> QED
    BY <2>1, <2>2
<1> QED
  BY <1>1, <1>3 DEF InOrder

\* The completed units are the first ones of the plan; beyond the next one no unit has a record.
LEMMA Prefix ==
  ASSUME NEW L \in Seq(Record), InOrder(L)
  PROVE  /\ Cardinality(Completed(L)) \in 0..Len(Plan)
         /\ Completed(L) = {Plan[i] : i \in 1..Cardinality(Completed(L))}
         /\ \A i \in DOMAIN Plan :
              i > Cardinality(Completed(L)) + 1 => LinesOf(L, Plan[i]) = {}
<1> DEFINE D == {i \in DOMAIN Plan : Plan[i] \in Completed(L)}
<1>1. /\ DOMAIN Plan = 1..Len(Plan) /\ Len(Plan) \in Nat
      /\ \A i \in DOMAIN Plan : Plan[i] \in Units
  BY PlanAssumption
<1>2. \A i, j \in DOMAIN Plan : i < j /\ j \in D => i \in D
  <2>1. \A j \in D : LinesOf(L, Plan[j]) # {}
    BY DEF Completed
  <2> QED
    BY <2>1 DEF InOrder
<1>3. PICK k \in 0..Len(Plan) : D = 1..k
  <2>1. CASE D = {}
    <3>1. D = 1..0 /\ 0 \in 0..Len(Plan)
      BY <1>1, <2>1
    <3> QED
      BY <3>1
  <2>2. CASE D # {}
    <3>1. IsFiniteSet(D) /\ D \in SUBSET Nat
      <4>1. IsFiniteSet(1..Len(Plan)) /\ D \in SUBSET (1..Len(Plan))
        BY <1>1, FS_Interval
      <4>2. IsFiniteSet(D)
        BY <4>1, FS_Subset
      <4> QED
        BY <1>1, <4>1, <4>2
    <3>2. PICK k \in D : \A j \in D : j <= k
      BY <2>2, <3>1, HasLast
    <3>3. k \in 1..Len(Plan)
      BY <1>1
    <3>4. \A i \in D : i \in 1..Len(Plan)
      BY <1>1
    <3> HIDE DEF D
    <3>5. ASSUME NEW i \in 1..k PROVE i \in D
      <4>1. i \in DOMAIN Plan /\ k \in DOMAIN Plan /\ (i < k \/ i = k)
        BY <1>1, <3>3
      <4> QED
        BY <1>2, <3>2, <4>1
    <3>6. ASSUME NEW i \in D PROVE i \in 1..k
      BY <1>1, <3>2, <3>3, <3>4
    <3>7. D = 1..k
      BY <3>5, <3>6
    <3> QED
      BY <3>3, <3>7
  <2> QED
    BY <2>1, <2>2
<1>4. Completed(L) = {Plan[i] : i \in 1..k}
  <2>1. Completed(L) \subseteq Units
    BY DEF Completed
  <2>2. \A i \in 1..k : i \in DOMAIN Plan /\ Plan[i] \in Completed(L)
    BY <1>3
  <2>3. ASSUME NEW u \in Completed(L) PROVE u \in {Plan[i] : i \in 1..k}
    <3>1. PICK i \in DOMAIN Plan : Plan[i] = u
      BY <2>1, <2>3, PlanAssumption
    <3>2. i \in 1..k
      BY <1>3, <2>3, <3>1
    <3> QED
      BY <3>1, <3>2
  <2> QED
    BY <2>2, <2>3
<1>5. Cardinality(Completed(L)) = k
  <2> DEFINE f == [i \in 1..k |-> Plan[i]]
  <2>1. 1..k \subseteq DOMAIN Plan
    BY <1>1
  <2>2. f \in Bijection(1..k, Completed(L))
    <3>1. f \in [1..k -> Completed(L)]
      BY <1>4
    <3>2. \A i, j \in 1..k : f[i] = f[j] => i = j
      BY <2>1, PlanAssumption
    <3>3. \A u \in Completed(L) : \E i \in 1..k : f[i] = u
      BY <1>4
    <3> HIDE DEF f
    <3>4. f \in Injection(1..k, Completed(L))
      BY <3>1, <3>2 DEF Injection, IsInjective
    <3>5. f \in Surjection(1..k, Completed(L))
      BY <3>1, <3>3 DEF Surjection
    <3> QED
      BY <3>4, <3>5 DEF Bijection
  <2>3. ExistsBijection(1..k, Completed(L))
    BY <2>2 DEF ExistsBijection
  <2> QED
    BY <2>3, FS_CountingElements
<1>6. ASSUME NEW i \in DOMAIN Plan, i > k + 1 PROVE LinesOf(L, Plan[i]) = {}
  <2>1. k + 1 \in DOMAIN Plan /\ k + 1 < i /\ k + 1 \notin D
    BY <1>1, <1>3, <1>6
  <2> QED
    BY <2>1 DEF InOrder
<1> QED
  BY <1>3, <1>4, <1>5, <1>6

\* What the walk sees of a journal.
ReachedIn(L)  == Cardinality(Completed(L))
OpenIn(L)  == Active(L) # {}
TriesIn(L) == IF ReachedIn(L) = Len(Plan) THEN 0 ELSE Attempts(L, Plan[ReachedIn(L) + 1])

\* An attempt that is active is one of the next unit, whose records show it.
LEMMA OpenIsNext ==
  ASSUME NEW L \in Seq(Record), InOrder(L)
  PROVE  OpenIn(L) <=> \E u \in Units : /\ u = Plan[ReachedIn(L) + 1] /\ ReachedIn(L) < Len(Plan)
                                      /\ LinesOf(L, u) \in OpenStages
<1> DEFINE k == ReachedIn(L)
<1>1. /\ k \in 0..Len(Plan) /\ Completed(L) = {Plan[i] : i \in 1..k}
      /\ \A i \in DOMAIN Plan : i > k + 1 => LinesOf(L, Plan[i]) = {}
      /\ DOMAIN Plan = 1..Len(Plan) /\ Len(Plan) \in Nat
  BY Prefix, PlanAssumption DEF ReachedIn
<1>2. ASSUME NEW ls \in Stages, NEW n \in {1, 2}, Started(n) \in ls,
             {Finished(n), Failed(n)} \intersect ls = {}
      PROVE  ls \in OpenStages
  BY <1>2, StageKinds
<1>3. \A ls \in OpenStages : ls # {} /\ ls \intersect {Finished(1), Finished(2)} = {}
  BY StageKinds
<1>4. ASSUME NEW u \in Units, LinesOf(L, u) \in OpenStages PROVE u = Plan[k + 1] /\ k < Len(Plan)
  <2>1. u \notin Completed(L) /\ LinesOf(L, u) # {}
    BY <1>3, <1>4 DEF Completed
  <2>2. PICK i \in DOMAIN Plan : Plan[i] = u
    BY PlanAssumption
  <2> HIDE DEF k
  <2>3. i \notin 1..k /\ ~ (i > k + 1)
    BY <1>1, <2>1, <2>2
  <2> QED
    BY <1>1, <2>2, <2>3
<1>5. ASSUME NEW u \in Units, LinesOf(L, u) \in OpenStages PROVE OpenIn(L)
  <2>1. \E n \in {1, 2} : /\ Started(n) \in LinesOf(L, u)
                          /\ {Finished(n), Failed(n)} \intersect LinesOf(L, u) = {}
    BY <1>5, StageKinds
  <2>2. PICK n \in {1, 2} : /\ Started(n) \in LinesOf(L, u)
                            /\ {Finished(n), Failed(n)} \intersect LinesOf(L, u) = {}
    BY <2>1
  <2>3. <<u, n>> \in Active(L)
    BY <2>2 DEF Active
  <2> QED
    BY <2>3 DEF OpenIn
<1>6. ASSUME OpenIn(L) PROVE \E u \in Units : LinesOf(L, u) \in OpenStages
  <2>1. PICK a \in Units \X {1, 2} : a \in Active(L)
    BY <1>6 DEF OpenIn, Active
  <2>2. LinesOf(L, a[1]) \in OpenStages
    BY <1>2, <2>1 DEF Active, InOrder
  <2> QED
    BY <2>2
<1> QED
  BY <1>4, <1>5, <1>6

\* A record the transition table allows is about the next unit of the plan.
LEMMA AcceptedIsNext ==
  ASSUME NEW L \in Seq(Record), InOrder(L), NEW u \in Units, NEW l \in Lines, Acceptable(L, u, l)
  PROVE  ReachedIn(L) \in 0..(Len(Plan) - 1) /\ u = Plan[ReachedIn(L) + 1]
<1> DEFINE k == ReachedIn(L)
<1>1. /\ k \in 0..Len(Plan) /\ Completed(L) = {Plan[i] : i \in 1..k}
      /\ \A i \in DOMAIN Plan : i > k + 1 => LinesOf(L, Plan[i]) = {}
      /\ DOMAIN Plan = 1..Len(Plan) /\ Len(Plan) \in Nat
  BY Prefix, PlanAssumption DEF ReachedIn
<1>2. LinesOf(L, u) \in Stages /\ LinesOf(L, u) = Before[l]
  BY DEF InOrder, Acceptable
<1>3. u \notin Completed(L)
  BY <1>2, NextStage DEF Completed
<1>4. PICK i \in DOMAIN Plan : Plan[i] = u
  BY PlanAssumption
<1> HIDE DEF k
<1>5. i \notin 1..k
  BY <1>1, <1>3, <1>4
<1>6. ASSUME i > k + 1 PROVE FALSE
  <2>1. LinesOf(L, u) = {}
    BY <1>1, <1>4, <1>6
  <2>3. l = Started(1)
    BY <1>2, <2>1, OnlyStartFirst
  <2>4. PICK j \in DOMAIN Plan : Plan[j] = u /\ \A h \in 1..(j - 1) : Plan[h] \in Completed(L)
    BY <2>3 DEF Acceptable, IsNext
  <2>5. j = i
    BY <1>4, <2>4, PlanAssumption
  <2>6. k + 1 \in 1..(j - 1) /\ k + 1 \in DOMAIN Plan
    BY <1>1, <1>6, <2>5
  <2>7. PICK h \in 1..k : Plan[h] = Plan[k + 1]
    BY <1>1, <2>4, <2>6
  <2>8. h \in DOMAIN Plan /\ h # k + 1
    BY <1>1, <2>6
  <2> QED
    BY <2>6, <2>7, <2>8, PlanAssumption
<1>7. i = k + 1
  BY <1>1, <1>5, <1>6
<1> QED
  BY <1>1, <1>4, <1>7 DEF k

\* The attempts of a unit by its records.
LEMMA TriesByStage ==
  ASSUME NEW L, NEW u
  PROVE  /\ LinesOf(L, u) = {} => Attempts(L, u) = 0
         /\ LinesOf(L, u) \in {{Started(1)}, FirstFailed, Retrying} => Attempts(L, u) = 1
         /\ LinesOf(L, u) \in {Retrying \union {Started(2)}, Retrying \union {Started(2), Failed(2)}}
              => Attempts(L, u) = 2
<1>1. LinesOf(L, u) = {} => Started(1) \notin LinesOf(L, u) /\ Started(2) \notin LinesOf(L, u)
  OBVIOUS
<1>2. LinesOf(L, u) \in {{Started(1)}, FirstFailed, Retrying}
        => Started(1) \in LinesOf(L, u) /\ Started(2) \notin LinesOf(L, u)
  BY DEF FirstFailed, Retrying, Started, Finished, Failed, RetryRequest
<1>3. LinesOf(L, u) \in {Retrying \union {Started(2)}, Retrying \union {Started(2), Failed(2)}}
        => Started(1) \in LinesOf(L, u) /\ Started(2) \in LinesOf(L, u)
  BY DEF FirstFailed, Retrying
<1>4. Attempts(L, u) \in {0, 1, 2}
  BY AttemptsValue
<1> QED
  BY <1>1, <1>2, <1>3, <1>4, AttemptsValue

\* An accepted record is a step of the walk, or the request of a retry.
LEMMA AcceptedWalks ==
  ASSUME NEW L \in Seq(Record), NEW M \in Seq(Record), NEW u \in Units, NEW l \in Lines,
         \A v \in Units : LinesOf(M, v) = IF u = v THEN LinesOf(L, v) \union {l} ELSE LinesOf(L, v),
         InOrder(L), Acceptable(L, u, l)
  PROVE  \/ /\ ~OpenIn(L) /\ ReachedIn(L) < Len(Plan) /\ TriesIn(L) < 2
            /\ OpenIn(M) /\ ReachedIn(M) = ReachedIn(L) /\ TriesIn(M) = TriesIn(L) + 1
         \/ OpenIn(L) /\ ~OpenIn(M) /\ ReachedIn(M) = ReachedIn(L) /\ TriesIn(M) = TriesIn(L)
         \/ OpenIn(L) /\ ~OpenIn(M) /\ ReachedIn(M) = ReachedIn(L) + 1 /\ TriesIn(M) = 0
         \/ (OpenIn(M) <=> OpenIn(L)) /\ ReachedIn(M) = ReachedIn(L) /\ TriesIn(M) = TriesIn(L)
<1> DEFINE k == ReachedIn(L)
<1>1. InOrder(M)
  BY OrderStep
<1>2. k \in 0..(Len(Plan) - 1) /\ u = Plan[k + 1] /\ Len(Plan) \in Nat
  BY AcceptedIsNext, PlanAssumption
<1>3. LinesOf(L, u) \in Stages /\ LinesOf(L, u) = Before[l]
  BY DEF InOrder, Acceptable
<1>4. u \notin Completed(L)
  BY <1>3, NextStage DEF Completed
<1>5. IsFiniteSet(Completed(L))
  BY PlanAssumption, FS_Subset DEF Completed
<1>6. LinesOf(M, u) = LinesOf(L, u) \union {l}
  OBVIOUS
<1>7. OpenIn(L) <=> LinesOf(L, u) \in OpenStages
  BY <1>2, OpenIsNext
<1>8. TriesIn(L) = Attempts(L, u)
  BY <1>2 DEF TriesIn
<1>9. l \notin {Finished(1), Finished(2)} =>
        /\ ReachedIn(M) = k /\ TriesIn(M) = Attempts(M, u)
        /\ OpenIn(M) <=> LinesOf(M, u) \in OpenStages
  <2> SUFFICES ASSUME l \notin {Finished(1), Finished(2)}
               PROVE  /\ ReachedIn(M) = k /\ TriesIn(M) = Attempts(M, u)
                      /\ OpenIn(M) <=> LinesOf(M, u) \in OpenStages
    OBVIOUS
  <2>1. Completed(M) = Completed(L)
    BY <1>6 DEF Completed
  <2>2. ReachedIn(M) = k
    BY <2>1 DEF ReachedIn
  <2> QED
    BY <1>1, <1>2, <2>2, OpenIsNext DEF TriesIn
<1>10. l \in {Finished(1), Finished(2)} => ~OpenIn(M) /\ ReachedIn(M) = k + 1 /\ TriesIn(M) = 0
  <2> SUFFICES ASSUME l \in {Finished(1), Finished(2)} PROVE ~OpenIn(M) /\ ReachedIn(M) = k + 1 /\ TriesIn(M) = 0
    OBVIOUS
  <2>1. Completed(M) = Completed(L) \union {u}
    BY <1>6 DEF Completed
  <2>2. ReachedIn(M) = k + 1
    BY <1>4, <1>5, <2>1, FS_AddElement DEF ReachedIn
  <2>3. ASSUME k + 1 < Len(Plan)
        PROVE  LinesOf(M, Plan[k + 2]) = {} /\ Plan[k + 2] \in Units
    <3>1. k + 2 \in DOMAIN Plan /\ k + 1 \in DOMAIN Plan /\ k + 2 # k + 1 /\ k + 2 > ReachedIn(L) + 1
      BY <1>2, <2>3, PlanAssumption
    <3>2. Plan[k + 2] \in Units /\ Plan[k + 2] # u
      BY <1>2, <3>1, PlanAssumption
    <3>3. LinesOf(L, Plan[k + 2]) = {}
      BY <3>1, Prefix DEF ReachedIn
    <3> QED
      BY <3>2, <3>3
  <2>4. TriesIn(M) = 0
    <3>1. k + 1 < Len(Plan) => Attempts(M, Plan[k + 2]) = 0
      BY <2>3, TriesByStage
    <3> QED
      BY <1>2, <2>2, <3>1 DEF TriesIn
  <2>5. ~OpenIn(M)
    <3>1. \A ls \in OpenStages : ls # {}
      BY DEF OpenStages
    <3> QED
      BY <1>1, <1>2, <2>2, <2>3, <3>1, OpenIsNext
  <2> QED
    BY <2>2, <2>4, <2>5
<1> HIDE DEF k
<1>11. {Started(1)} \in OpenStages /\ Retrying \union {Started(2)} \in OpenStages
  BY DEF OpenStages
<1>12. \A ls \in {{}, FirstFailed, Retrying, Retrying \union {Started(2), Failed(2)}} : ls \notin OpenStages
  BY StageKinds
<1>13. CASE l = Started(1) /\ LinesOf(L, u) = {}
  <2>1. LinesOf(M, u) = {Started(1)} /\ l \notin {Finished(1), Finished(2)}
    BY <1>6, <1>13 DEF Started, Finished
  <2> QED
    BY <1>2, <1>7, <1>8, <1>9, <1>11, <1>12, <1>13, <2>1, TriesByStage DEF k
<1>14. CASE l = Started(2) /\ LinesOf(L, u) = Retrying
  <2>1. LinesOf(M, u) = Retrying \union {Started(2)} /\ l \notin {Finished(1), Finished(2)}
    BY <1>6, <1>14 DEF Started, Finished
  <2> QED
    BY <1>2, <1>7, <1>8, <1>9, <1>11, <1>12, <1>14, <2>1, TriesByStage DEF k
<1>15. CASE l = RetryRequest /\ LinesOf(L, u) = FirstFailed
  <2>1. LinesOf(M, u) = Retrying /\ l \notin {Finished(1), Finished(2)}
    BY <1>6, <1>15 DEF RetryRequest, Finished, Retrying
  <2> QED
    BY <1>2, <1>7, <1>8, <1>9, <1>12, <1>15, <2>1, TriesByStage DEF k
<1>16. CASE l = Failed(1) /\ LinesOf(L, u) = {Started(1)}
  <2>1. LinesOf(M, u) = FirstFailed /\ l \notin {Finished(1), Finished(2)}
    BY <1>6, <1>16 DEF Failed, Finished, FirstFailed
  <2> QED
    BY <1>2, <1>7, <1>8, <1>9, <1>11, <1>12, <1>16, <2>1, TriesByStage DEF k
<1>17. CASE l = Failed(2) /\ LinesOf(L, u) = Retrying \union {Started(2)}
  <2>1. LinesOf(M, u) = Retrying \union {Started(2), Failed(2)} /\ l \notin {Finished(1), Finished(2)}
    BY <1>6, <1>17 DEF Failed, Finished
  <2> QED
    BY <1>2, <1>7, <1>8, <1>9, <1>11, <1>12, <1>17, <2>1, TriesByStage DEF k
<1>18. CASE l \in {Finished(1), Finished(2)} /\ LinesOf(L, u) \in OpenStages
  BY <1>7, <1>10, <1>18 DEF k
<1>19. LET ls == LinesOf(L, u)
       IN \/ l = Started(1) /\ ls = {}
          \/ l \in {Finished(1), Failed(1)} /\ ls = {Started(1)}
          \/ l = RetryRequest /\ ls = FirstFailed
          \/ l = Started(2) /\ ls = Retrying
          \/ l \in {Finished(2), Failed(2)} /\ ls = Retrying \union {Started(2)}
  BY <1>3, NextStage
<1> QED
  BY <1>11, <1>13, <1>14, <1>15, <1>16, <1>17, <1>18, <1>19

\* The invariant of the walk: the lock's, and the order of the records.
WalkInv == LockInv /\ InOrder(ledger)

\* Only an accepted record is appended, and only by the command inside the lock.
LEMMA AppendsAreAccepted ==
  ASSUME TypeInv, LockInv, [Next]_vars
  PROVE  \/ UNCHANGED ledger
         \/ \E p \in inside : ledger' = Appended(p) /\ Acceptable(ledger, at[p][1], Line(p))
<1>1. ASSUME NEW p \in Operators, Enter(p) PROVE UNCHANGED ledger
  BY <1>1 DEF Enter
<1>2. ASSUME NEW p \in Operators, Write(p) \/ Crash(p)
      PROVE  UNCHANGED ledger \/ (p \in inside /\ ledger' = Appended(p))
  BY <1>2 DEF Write, Crash
<1> QED
  BY <1>1, <1>2, JournalSteps DEF journal, LockInv

\* An empty journal is the walk at its start.
LEMMA WalkInit == Init => WalkInv /\ Walk!Init
<1> SUFFICES ASSUME Init PROVE WalkInv /\ Walk!Init
  OBVIOUS
<1>1. ledger \in Seq(Record) /\ \A u \in Units : LinesOf(ledger, u) = {}
  BY DEF Init, LinesOf
<1>2. InOrder(ledger)
  BY <1>1, PlanAssumption DEF InOrder, Stages
<1>3. Completed(ledger) = {} /\ Active(ledger) = {}
  BY <1>1 DEF Completed, Active
<1>4. Reached = 0 /\ Len(Plan) # 0 /\ Plan[1] \in Units
  BY <1>3, FS_EmptySet, PlanAssumption DEF Reached
<1>5. Attempts(ledger, Plan[1]) = 0
  BY <1>1, <1>4, TriesByStage
<1> QED
  BY <1>2, <1>3, <1>4, <1>5, LockInit DEF WalkInv, Walk!Init

\* Every step of the commands is a step of the walk or leaves it where it is.
LEMMA WalkStep ==
  ASSUME LockHolds, TypeInv, WalkInv, [Next]_vars
  PROVE  WalkInv' /\ [Walk!Next]_(Walk!vars)
<1>1. LockInv'
  BY LockStep DEF WalkInv
<1>2. CASE UNCHANGED ledger
  <2>1. InOrder(ledger)'
    BY <1>2 DEF WalkInv, InOrder
  <2>2. UNCHANGED Walk!vars
    BY <1>2 DEF Walk!vars, Reached
  <2> QED
    BY <1>1, <2>1, <2>2 DEF WalkInv
<1>3. ASSUME NEW p \in inside, ledger' = Appended(p), Acceptable(ledger, at[p][1], Line(p))
      PROVE  WalkInv' /\ [Walk!Next]_(Walk!vars)
  <2>1. /\ p \in Operators /\ at[p][1] \in Units /\ Line(p) \in Lines
        /\ ledger \in Seq(Record) /\ InOrder(ledger)
    BY LineType DEF TypeInv, TypeOK, Ids, WalkInv
  <2>2. /\ ledger' \in Seq(Record)
        /\ \A v \in Units : LinesOf(ledger', v) =
             IF at[p][1] = v THEN LinesOf(ledger, v) \union {Line(p)} ELSE LinesOf(ledger, v)
    BY <1>3, AppendedType
  <2>3. InOrder(ledger')
    BY <1>3, <2>1, <2>2, OrderStep
  <2> DEFINE L == ledger
             M == ledger'
  <2>4. \/ /\ ~OpenIn(L) /\ ReachedIn(L) < Len(Plan) /\ TriesIn(L) < 2
           /\ OpenIn(M) /\ ReachedIn(M) = ReachedIn(L) /\ TriesIn(M) = TriesIn(L) + 1
        \/ OpenIn(L) /\ ~OpenIn(M) /\ ReachedIn(M) = ReachedIn(L) /\ TriesIn(M) = TriesIn(L)
        \/ OpenIn(L) /\ ~OpenIn(M) /\ ReachedIn(M) = ReachedIn(L) + 1 /\ TriesIn(M) = 0
        \/ (OpenIn(M) <=> OpenIn(L)) /\ ReachedIn(M) = ReachedIn(L) /\ TriesIn(M) = TriesIn(L)
    BY <1>3, <2>1, <2>2, AcceptedWalks
  <2>5. [Walk!Next]_(Walk!vars)
    BY <2>4 DEF Walk!Next, Walk!vars, Walk!Start, Walk!Fail, Walk!Complete, Reached, OpenIn, ReachedIn, TriesIn
  <2>6. InOrder(ledger)'
    BY <2>3 DEF InOrder
  <2> QED
    BY <1>1, <2>5, <2>6 DEF WalkInv
<1> QED
  BY <1>2, <1>3, AppendsAreAccepted DEF WalkInv

\* Where the lock holds, the journal walks through the plan: one unit after the other, in
\* one attempt or two, one attempt open at a time.
THEOREM CampaignImplementsPlanWalk == LockHolds => (Spec => ImplementsPlanWalk)
<1> SUFFICES ASSUME LockHolds PROVE Spec => ImplementsPlanWalk
  OBVIOUS
<1>1. Init => WalkInv /\ Walk!Init
  BY WalkInit
<1>2. TypeInv /\ WalkInv /\ [Next]_vars => WalkInv' /\ [Walk!Next]_(Walk!vars)
  BY WalkStep
<1> QED
  BY <1>1, <1>2, TypeInit, TypeStep, PTL DEF Spec, ImplementsPlanWalk, Walk!Spec
-----------------------------------------------------------------------------
(* No dead end, while one command runs at a time *)

\* Evidence is of attempts that the journal has as started, and what is sealed is mapped.
FreshInv ==
  /\ \A a \in Ids : /\ dir[a] \in {"sealed", "failed"} => Started(a[2]) \in LinesOf(ledger, a[1])
                    /\ dir[a] = "sealed" => a[1] \in mapping
  /\ \A p \in Operators :
       pc[p] \in {"fail", "retain"} => Started(at[p][2]) \in LinesOf(ledger, at[p][1])

\* No record is taken back.
LEMMA LinesGrow ==
  ASSUME TypeInv, LockInv, [Next]_vars, NEW u \in Units
  PROVE  LinesOf(ledger, u) \subseteq LinesOf(ledger', u)
<1>1. ASSUME NEW p \in inside, ledger' = Appended(p)
      PROVE  LinesOf(ledger, u) \subseteq LinesOf(ledger', u)
  BY <1>1, AppendedType
<1> QED
  BY <1>1, AppendsAreAccepted

LEMMA FreshStep ==
  ASSUME OneCommand, TypeInv, SealedInv, LockInv, EvidenceInv, FreshInv, [Next]_vars
  PROVE  FreshInv'
<1> DEFINE Kept(q) == pc'[q] \in {"fail", "retain"}
                        => Started(at'[q][2]) \in LinesOf(ledger, at'[q][1])
           Earned(a) == dir'[a] \in {"sealed", "failed"}
                          => /\ Started(a[2]) \in LinesOf(ledger, a[1])
                             /\ dir'[a] = "sealed" => a[1] \in mapping
           Quiet == /\ \A q \in Operators : Kept(q)
                    /\ \A a \in Ids : Earned(a)
                    /\ mapping \subseteq mapping'
\* What a command in progress knows.
<1>0. \A p \in Operators :
         /\ at[p] \in Ids /\ at[p][1] \in Units
         /\ pc[p] \in {"map", "behave", "process", "seal", "fail", "retain"}
              => Started(at[p][2]) \in LinesOf(ledger, at[p][1])
         /\ pc[p] = "seal" => at[p][1] \in mapping
  <2>1. \A p \in Operators : pc[p] \in {"process", "seal"} => dir[at[p]] \in {"used", "ready"}
    BY DEF EvidenceInv, Command
  <2> QED
    BY <2>1 DEF EvidenceInv, Command, FreshInv, SealedInv, TypeInv, TypeOK, Ids
<1>1. ASSUME NEW p \in Operators, NEW m \in {"run", "preflight"}, Begin(p, m) PROVE Quiet
  <2>1. \A q \in Operators : Kept(q)
    BY <1>1, <1>0 DEF FreshInv, Begin, Goto, TypeInv, TypeOK, Ids
  <2>2. \A a \in Ids : Earned(a)
    BY <1>1, <1>0 DEF FreshInv, Begin, SetDir, SealedInv, TypeInv, TypeOK, Staged, Ids, disk, journal
  <2>3. mapping \subseteq mapping'
    BY <1>1 DEF Begin, disk, journal
  <2> QED
    BY <2>1, <2>2, <2>3
<1>2. ASSUME NEW p \in Operators, Recover(p) PROVE Quiet
  <2>1. \A q \in Operators : Kept(q)
    BY <1>2, <1>0 DEF FreshInv, Recover, Goto, TypeInv, TypeOK, Ids
  <2>2. \A a \in Ids : Earned(a)
    BY <1>2, <1>0 DEF FreshInv, Recover, SetDir, SealedInv, TypeInv, TypeOK, Staged, Ids, disk, journal
  <2>3. mapping \subseteq mapping'
    BY <1>2 DEF Recover, disk, journal
  <2> QED
    BY <2>1, <2>2, <2>3
<1>3. ASSUME NEW p \in Operators, Prepare(p) PROVE Quiet
  <2>1. \A q \in Operators : Kept(q)
    BY <1>3, <1>0 DEF FreshInv, Prepare, Goto, TypeInv, TypeOK, Ids
  <2>2. \A a \in Ids : Earned(a)
    BY <1>3, <1>0 DEF FreshInv, Prepare, SetDir, SealedInv, TypeInv, TypeOK, Staged, Ids, disk, journal
  <2>3. mapping \subseteq mapping'
    BY <1>3 DEF Prepare, disk, journal
  <2> QED
    BY <2>1, <2>2, <2>3
<1>4. ASSUME NEW p \in Operators, Launch(p) PROVE Quiet
  <2>1. \A q \in Operators : Kept(q)
    BY <1>4, <1>0 DEF FreshInv, Launch, Goto, TypeInv, TypeOK, Ids
  <2>2. \A a \in Ids : Earned(a)
    BY <1>4, <1>0 DEF FreshInv, Launch, SetDir, SealedInv, TypeInv, TypeOK, Staged, Ids, disk, journal
  <2>3. mapping \subseteq mapping'
    BY <1>4 DEF Launch, disk, journal
  <2> QED
    BY <2>1, <2>2, <2>3
<1>5. ASSUME NEW p \in Operators, Map(p) PROVE Quiet
  <2>1. \A q \in Operators : Kept(q)
    BY <1>5, <1>0 DEF FreshInv, Map, Goto, TypeInv, TypeOK, Ids
  <2>2. \A a \in Ids : Earned(a)
    BY <1>5, <1>0 DEF FreshInv, Map, SetDir, SealedInv, TypeInv, TypeOK, Staged, Ids, disk, journal
  <2>3. mapping \subseteq mapping'
    BY <1>5 DEF Map, disk, journal
  <2> QED
    BY <2>1, <2>2, <2>3
<1>6. ASSUME NEW p \in Operators, Behave(p) PROVE Quiet
  <2>1. \A q \in Operators : Kept(q)
    BY <1>6, <1>0 DEF FreshInv, Behave, Goto, TypeInv, TypeOK, Ids
  <2>2. \A a \in Ids : Earned(a)
    BY <1>6, <1>0 DEF FreshInv, Behave, SetDir, SealedInv, TypeInv, TypeOK, Staged, Ids, disk, journal
  <2>3. mapping \subseteq mapping'
    BY <1>6 DEF Behave, disk, journal
  <2> QED
    BY <2>1, <2>2, <2>3
<1>7. ASSUME NEW p \in Operators, Process(p) PROVE Quiet
  <2>1. \A q \in Operators : Kept(q)
    BY <1>7, <1>0 DEF FreshInv, Process, Goto, TypeInv, TypeOK, Ids
  <2>2. \A a \in Ids : Earned(a)
    BY <1>7, <1>0 DEF FreshInv, Process, SetDir, SealedInv, TypeInv, TypeOK, Staged, Ids, disk, journal
  <2>3. mapping \subseteq mapping'
    BY <1>7 DEF Process, disk, journal
  <2> QED
    BY <2>1, <2>2, <2>3
<1>8. ASSUME NEW p \in Operators, Seal(p) PROVE Quiet
  <2>1. \A q \in Operators : Kept(q)
    BY <1>8, <1>0 DEF FreshInv, Seal, Goto, TypeInv, TypeOK, Ids
  <2>2. \A a \in Ids : Earned(a)
    BY <1>8, <1>0 DEF FreshInv, Seal, SetDir, SealedInv, TypeInv, TypeOK, Staged, Ids, disk, journal
  <2>3. mapping \subseteq mapping'
    BY <1>8 DEF Seal, disk, journal
  <2> QED
    BY <2>1, <2>2, <2>3
<1>9. ASSUME NEW p \in Operators, Retain(p) PROVE Quiet
  <2>1. \A q \in Operators : Kept(q)
    BY <1>9, <1>0 DEF FreshInv, Retain, Goto, TypeInv, TypeOK, Ids
  <2>2. \A a \in Ids : Earned(a)
    BY <1>9, <1>0 DEF FreshInv, Retain, SetDir, SealedInv, TypeInv, TypeOK, Staged, Ids, disk, journal
  <2>3. mapping \subseteq mapping'
    BY <1>9 DEF Retain, disk, journal
  <2> QED
    BY <2>1, <2>2, <2>3
<1>10. ASSUME NEW p \in Operators, Recycle(p) PROVE Quiet
  <2>1. \A q \in Operators : Kept(q)
    BY <1>10, <1>0 DEF FreshInv, Recycle, Goto, TypeInv, TypeOK, Ids
  <2>2. \A a \in Ids : Earned(a)
    BY <1>10, <1>0 DEF FreshInv, Recycle, SetDir, SealedInv, TypeInv, TypeOK, Staged, Ids, disk, journal
  <2>3. mapping \subseteq mapping'
    BY <1>10 DEF Recycle, disk, journal
  <2> QED
    BY <2>1, <2>2, <2>3
<1>11. ASSUME NEW p \in Operators, Clean(p) PROVE Quiet
  <2>1. \A q \in Operators : Kept(q)
    BY <1>11, <1>0 DEF FreshInv, Clean, Goto, TypeInv, TypeOK, Ids
  <2>2. \A a \in Ids : Earned(a)
    BY <1>11, <1>0 DEF FreshInv, Clean, SetDir, SealedInv, TypeInv, TypeOK, Staged, Ids, disk, journal
  <2>3. mapping \subseteq mapping'
    BY <1>11 DEF Clean, disk, journal
  <2> QED
    BY <2>1, <2>2, <2>3
<1>12. ASSUME NEW p \in Operators, Unstage(p) PROVE Quiet
  <2>1. \A q \in Operators : Kept(q)
    BY <1>12, <1>0 DEF FreshInv, Unstage, Goto, TypeInv, TypeOK, Ids
  <2>2. \A a \in Ids : Earned(a)
    BY <1>12, <1>0 DEF FreshInv, Unstage, SetDir, SealedInv, TypeInv, TypeOK, Staged, Ids, disk, journal
  <2>3. mapping \subseteq mapping'
    BY <1>12 DEF Unstage, disk, journal
  <2> QED
    BY <2>1, <2>2, <2>3
<1>13. ASSUME NEW p \in Operators, Enter(p) PROVE Quiet
  <2>1. \A q \in Operators : Kept(q)
    BY <1>13, <1>0 DEF FreshInv, Enter, Goto, Refused, TypeInv, TypeOK, Ids
  <2>2. \A a \in Ids : Earned(a)
    BY <1>13, <1>0 DEF FreshInv, Enter, SetDir, SealedInv, TypeInv, TypeOK, Staged, Ids, disk, journal
  <2>3. mapping \subseteq mapping'
    BY <1>13 DEF Enter, disk, journal
  <2> QED
    BY <2>1, <2>2, <2>3
<1>14. ASSUME NEW p \in Operators, Write(p) PROVE Quiet
  <2>1. \A q \in Operators : Kept(q)
    BY <1>14, <1>0 DEF FreshInv, Write, Goto, Command, Done, Refused, Appending, TypeInv, TypeOK, Ids
  <2>2. \A a \in Ids : Earned(a)
    BY <1>14, <1>0 DEF FreshInv, Write, SetDir, SealedInv, TypeInv, TypeOK, Staged, Ids, disk, journal
  <2>3. mapping \subseteq mapping'
    BY <1>14 DEF Write, disk, journal
  <2> QED
    BY <2>1, <2>2, <2>3
<1>15. ASSUME NEW p \in Operators, Crash(p) PROVE Quiet
  <2>1. \A q \in Operators : Kept(q)
    BY <1>15, <1>0 DEF FreshInv, Crash, Goto, TypeInv, TypeOK, Ids
  <2>2. \A a \in Ids : Earned(a)
    BY <1>15, <1>0 DEF FreshInv, Crash, SetDir, SealedInv, TypeInv, TypeOK, Staged, Ids, disk, journal
  <2>3. mapping \subseteq mapping'
    BY <1>15 DEF Crash, disk, journal
  <2> QED
    BY <2>1, <2>2, <2>3
<1>16. ASSUME UNCHANGED vars PROVE Quiet
  BY <1>16 DEF FreshInv, vars, disk
<1>17. Quiet
  BY <1>1, <1>2, <1>3, <1>4, <1>5, <1>6, <1>7, <1>8, <1>9, <1>10, <1>11, <1>12, <1>13, <1>14, <1>15, <1>16 DEF Next, Step
<1>18. \A u \in Units : LinesOf(ledger, u) \subseteq LinesOf(ledger', u)
  BY LinesGrow
<1>19. TypeInv'
  BY TypeStep
<1>20. \A p \in Operators : at'[p][1] \in Units
  BY <1>19 DEF TypeInv, TypeOK, Ids
<1>21. \A a \in Ids : a[1] \in Units
  BY DEF Ids
<1> QED
  BY <1>17, <1>18, <1>20, <1>21 DEF FreshInv

LEMMA FreshInit == Init => FreshInv
<1> SUFFICES ASSUME Init PROVE FreshInv
  OBVIOUS
<1> QED
  BY DEF Init, FreshInv

\* In an open stage one attempt is active, the first or the second.
LEMMA OneIsOpen ==
  ASSUME NEW ls \in OpenStages, NEW m \in {1, 2}, NEW n \in {1, 2},
         Started(m) \in ls, {Finished(m), Failed(m)} \intersect ls = {},
         Started(n) \in ls, {Finished(n), Failed(n)} \intersect ls = {}
  PROVE  m = n
<1>1. CASE ls = {Started(1)}
  BY <1>1 DEF Started
<1>2. CASE ls = Retrying \union {Started(2)}
  <2>1. Failed(1) \in ls
    BY <1>2 DEF Retrying, FirstFailed
  <2> QED
    BY <2>1
<1> QED
  BY <1>1, <1>2 DEF OpenStages

\* What is active is one attempt, of the next unit.
LEMMA OneIsActive ==
  ASSUME NEW L \in Seq(Record), InOrder(L), NEW a \in Active(L)
  PROVE  Active(L) = {a}
<1> DEFINE k == ReachedIn(L)
<1>1. /\ k \in 0..Len(Plan) /\ Completed(L) = {Plan[i] : i \in 1..k}
      /\ \A i \in DOMAIN Plan : i > k + 1 => LinesOf(L, Plan[i]) = {}
      /\ DOMAIN Plan = 1..Len(Plan) /\ Len(Plan) \in Nat
  BY Prefix, PlanAssumption DEF ReachedIn
<1> HIDE DEF k
<1>2. ASSUME NEW b \in Active(L)
      PROVE  /\ b[1] \in Units /\ b[2] \in {1, 2} /\ b = <<b[1], b[2]>>
             /\ Started(b[2]) \in LinesOf(L, b[1])
             /\ {Finished(b[2]), Failed(b[2])} \intersect LinesOf(L, b[1]) = {}
             /\ LinesOf(L, b[1]) \in OpenStages
  <2>1. /\ b[1] \in Units /\ b[2] \in {1, 2} /\ b = <<b[1], b[2]>>
        /\ Started(b[2]) \in LinesOf(L, b[1])
        /\ {Finished(b[2]), Failed(b[2])} \intersect LinesOf(L, b[1]) = {}
    BY <1>2 DEF Active
  <2>2. LinesOf(L, b[1]) \in Stages
    BY <2>1 DEF InOrder
  <2> QED
    BY <2>1, <2>2, StageKinds
<1>3. ASSUME NEW u \in Units, LinesOf(L, u) \in OpenStages PROVE u = Plan[k + 1]
  <2>1. LinesOf(L, u) # {} /\ u \notin Completed(L)
    BY <1>3, StageKinds DEF Completed
  <2>2. PICK i \in DOMAIN Plan : Plan[i] = u
    BY PlanAssumption
  <2>3. i \notin 1..k
    BY <1>1, <2>1, <2>2
  <2>4. ~(i > k + 1)
    BY <1>1, <2>1, <2>2
  <2> QED
    BY <1>1, <2>2, <2>3, <2>4
<1>4. ASSUME NEW b \in Active(L) PROVE b = a
  <2>1. a[1] = b[1]
    BY <1>2, <1>3
  <2>2. a[2] = b[2]
    BY <1>2, <2>1, OneIsOpen
  <2> QED
    BY <1>2, <2>1, <2>2
<1> QED
  BY <1>4

LEMMA AlwaysAWay ==
  ASSUME TypeInv, WalkInv, EvidenceInv, FreshInv
  PROVE  NoDeadEnd
<1> DEFINE k == ReachedIn(ledger)
           u == Plan[k + 1]
<1>1. /\ k \in 0..Len(Plan) /\ Completed(ledger) = {Plan[i] : i \in 1..k}
      /\ DOMAIN Plan = 1..Len(Plan) /\ Len(Plan) \in Nat
      /\ ledger \in Seq(Record) /\ InOrder(ledger)
  BY Prefix, PlanAssumption DEF ReachedIn, WalkInv, TypeInv, TypeOK
<1>2. Readable(ledger)
  BY DEF WalkInv, LockInv
<1>3. CASE k = Len(Plan)
  <2>1. Completed(ledger) = Units
    BY <1>1, <1>3, PlanAssumption DEF Completed
  <2> QED
    BY <1>2, <2>1 DEF NoDeadEnd
<1>4. ASSUME NEW a \in Active(ledger) PROVE NoDeadEnd
  <2>1. a \in Ids /\ a = <<a[1], a[2]>> /\ a[1] \in Units /\ a[2] \in {1, 2}
    BY DEF Active, Ids
  <2>2. CASE dir[a] # "sealed"
    BY <1>2, <2>1, <2>2 DEF NoDeadEnd, Unresolved
  <2>3. CASE dir[a] = "sealed"
    <3>1. a[1] \in mapping /\ Active(ledger) = {a}
      BY <1>1, <2>1, <2>3, OneIsActive DEF FreshInv
    <3> QED
      BY <1>2, <2>1, <2>3, <3>1 DEF NoDeadEnd
  <2> QED
    BY <2>2, <2>3
<1>5. CASE k < Len(Plan) /\ Active(ledger) = {}
  <2>1. u \in Units /\ k + 1 \in DOMAIN Plan
    BY <1>1, <1>5, PlanAssumption
  <2>2. u \notin Completed(ledger)
    BY <1>1, <2>1, PlanAssumption
  <2>3. \A j \in 1..((k + 1) - 1) : Plan[j] \in Completed(ledger)
    BY <1>1
  <2>4. IsNext(ledger, u)
    BY <2>1, <2>2, <2>3 DEF IsNext
  <2>5. LinesOf(ledger, u) \in Stages /\ LinesOf(ledger, u) \notin OpenStages
    BY <1>1, <1>5, <2>1, OpenIsNext DEF InOrder, OpenIn
  <2>6. LinesOf(ledger, u) \notin {{Started(1), Finished(1)}, Retrying \union {Started(2), Finished(2)}}
    BY <2>1, <2>2 DEF Completed
  <2>7. LinesOf(ledger, u) \in {{}, FirstFailed, Retrying, Retrying \union {Started(2), Failed(2)}}
    BY <2>5, <2>6 DEF Stages, OpenStages
  <2> HIDE DEF u
  <2>8. CASE LinesOf(ledger, u) \in {FirstFailed, Retrying \union {Started(2), Failed(2)}}
    <3>1. Unresolved(u)
      BY <2>8 DEF Unresolved
    <3> QED
      BY <1>2, <2>1, <3>1 DEF NoDeadEnd
  <2>9. CASE LinesOf(ledger, u) \in {{}, Retrying}
    <3>1. \/ Attempts(ledger, u) = 0 /\ Started(1) \notin LinesOf(ledger, u)
          \/ Attempts(ledger, u) = 1 /\ Started(2) \notin LinesOf(ledger, u)
      BY <2>9, TriesByStage DEF Retrying, FirstFailed, Started, Failed, RetryRequest
    <3>2. PICK n \in {1, 2} : n = Attempts(ledger, u) + 1 /\ Started(n) \notin LinesOf(ledger, u)
      BY <3>1
    <3>3. <<u, n>> \in Ids /\ <<u, n>>[1] = u /\ <<u, n>>[2] = n
      BY <2>1 DEF Ids
    <3>4. dir[<<u, n>>] \in {"none", "staging"}
      BY <3>2, <3>3 DEF FreshInv, EvidenceInv, TypeInv, TypeOK, Staged
    <3>5. Attempts(ledger, u) < 2
      BY <3>1
    <3> QED
      BY <1>2, <1>5, <2>1, <2>4, <3>2, <3>4, <3>5 DEF NoDeadEnd
  <2> QED
    BY <2>7, <2>8, <2>9
<1> QED
  BY <1>1, <1>3, <1>4, <1>5

\* With one command at a time, a campaign that is neither over nor waiting for a decision
\* on a unit can always be taken further, by the next session or by the recovery.
THEOREM CampaignHasNoDeadEnd == OneCommand => (Spec => []NoDeadEnd)
<1> SUFFICES ASSUME OneCommand PROVE Spec => []NoDeadEnd
  OBVIOUS
<1>1. TypeInv /\ WalkInv /\ [Next]_vars => WalkInv'
  BY WalkStep DEF LockHolds
<1>2. TypeInv /\ EvidenceInv /\ [Next]_vars => EvidenceInv'
  BY EvidenceStep
<1>3. WalkInv => LockInv
  BY DEF WalkInv
<1>4. TypeInv /\ SealedInv /\ WalkInv /\ EvidenceInv /\ FreshInv /\ [Next]_vars => FreshInv'
  BY <1>3, FreshStep
<1>5. TypeInv /\ WalkInv /\ EvidenceInv /\ FreshInv => NoDeadEnd
  BY AlwaysAWay
<1>6. Init => WalkInv
  BY WalkInit
<1> QED
  BY <1>1, <1>2, <1>4, <1>5, <1>6, TypeInit, TypeStep, SealedInit, SealedStep, EvidenceInit,
     FreshInit, PTL DEF Spec
=============================================================================

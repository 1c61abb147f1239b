--------------------------- MODULE CampaignLedger ---------------------------
(***************************************************************************)
(* The journal of a Phase 1 campaign: LedgerStore of                       *)
(* src/lab/network_validation/phase1_runtime.py with the transition table  *)
(* of execution/phase1_runtime_contract.json.                              *)
(*                                                                         *)
(* A record carries its sequence number; the digest chain, which breaks    *)
(* exactly where the numbers do, is left out.  The table has no cycle and  *)
(* each of its states is reached along one path, so the state of a unit is *)
(* the set of its lines, and a key is in the table when the unit has       *)
(* exactly the lines that lead to it.                                      *)
(***************************************************************************)
EXTENDS Naturals, Sequences, FiniteSets

CONSTANTS Units,  \* execution tokens
          Plan    \* ordered_execution_units

ASSUME PlanAssumption ==
  /\ IsFiniteSet(Units)
  /\ Plan \in Seq(Units) /\ Plan # <<>>
  /\ \A u \in Units : \E i \in DOMAIN Plan : Plan[i] = u
  /\ \A i, j \in DOMAIN Plan : Plan[i] = Plan[j] => i = j

Events == {"session_started", "session_completed", "session_failed", "retry_requested"}
Lines  == Events \X {1, 2}    \* event_type and attempt_number
Record == [seq : Nat, unit : Units, line : Lines]

Started(n)   == <<"session_started", n>>
Finished(n)  == <<"session_completed", n>>
Failed(n)    == <<"session_failed", n>>
RetryRequest == <<"retry_requested", 1>>

\* ledger_state_machine.transitions: the lines a unit must have before one.
FirstFailed == {Started(1), Failed(1)}
Retrying    == FirstFailed \union {RetryRequest}
Before == [l \in Lines |->
  CASE l = Started(1)                  -> {}
    [] l \in {Finished(1), Failed(1)}  -> {Started(1)}
    [] l = RetryRequest                -> FirstFailed
    [] l = Started(2)                  -> Retrying
    [] l \in {Finished(2), Failed(2)}  -> Retrying \union {Started(2)}
    [] OTHER                           -> Lines]

LinesOf(L, u) == {L[i].line : i \in {k \in DOMAIN L : L[k].unit = u}}

Terminal(ls) == ls \intersect {Finished(1), Finished(2), Failed(2)} # {}

Completed(L) == {u \in Units : LinesOf(L, u) \intersect {Finished(1), Finished(2)} # {}}

\* active_tokens(), with the attempt that is active.
Active(L) == {a \in Units \X {1, 2} :
                /\ Started(a[2]) \in LinesOf(L, a[1])
                /\ {Finished(a[2]), Failed(a[2])} \intersect LinesOf(L, a[1]) = {}}

Attempts(L, u) == Cardinality({n \in {1, 2} : Started(n) \in LinesOf(L, u)})

\* Mutant of IsNext: the order of the plan is not followed.
IsNextAny(L, u) == u \notin Completed(L)

\* The first unit of the plan without a session_completed record.
IsNext(L, u) == /\ u \notin Completed(L)
                /\ \E i \in DOMAIN Plan :
                     Plan[i] = u /\ \A j \in 1..(i - 1) : Plan[j] \in Completed(L)

\* validate_ledger_bytes: no number missing, none used twice.
Readable(L) == \A i \in DOMAIN L : L[i].seq = i

\* _validate_transitions of [*existing, record].
Acceptable(L, u, l) ==
  /\ LinesOf(L, u) = Before[l]
  /\ l = Started(1) => IsNext(L, u)
  /\ \A v \in Units \ {u} : LinesOf(L, v) = {} \/ Terminal(LinesOf(L, v))
=============================================================================

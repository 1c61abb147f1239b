------------------------------ MODULE PlanWalk ------------------------------
(***************************************************************************)
(* What the journal of a campaign promises, whatever commands write it:    *)
(* the units of the plan are done one after the other, each in one attempt *)
(* or two, and one attempt is open at a time (the cross_execution_rule of  *)
(* src/lab/network_validation/execution/phase1_runtime_contract.json).     *)
(***************************************************************************)
EXTENDS Naturals

CONSTANT Length   \* units in the plan

VARIABLES done,   \* units that are completed
          tries,  \* attempts at the next one
          open    \* its last attempt is neither completed nor failed

vars == <<done, tries, open>>

Init == done = 0 /\ tries = 0 /\ open = FALSE

Start == /\ ~open /\ done < Length /\ tries < 2
         /\ tries' = tries + 1 /\ open' = TRUE /\ UNCHANGED done

Fail == open /\ open' = FALSE /\ UNCHANGED <<done, tries>>

Complete == open /\ open' = FALSE /\ done' = done + 1 /\ tries' = 0

Next == Start \/ Fail \/ Complete

Spec == Init /\ [][Next]_vars
=============================================================================

--------------------------- MODULE BudgetGovernor ---------------------------
(***************************************************************************)
(* The in-process budget governor of budget.py: one number, the dollars    *)
(* recorded so far, guarded by a lock.  check_can_start reads it and       *)
(* reserves nothing; record_spend adds to it and complains afterwards.     *)
(* The two are separate critical sections, so what happens between them is *)
(* up to the strategies that call them: those modules EXTEND this one and  *)
(* use its operators in their own steps.                                   *)
(*                                                                         *)
(* Money is counted in an integer unit (say, a tenth of a cent): the code  *)
(* uses floats, and none of the properties depends on their rounding.      *)
(***************************************************************************)
EXTENDS Integers

CONSTANT HardCap        \* hard_cap_usd

ASSUME HardCapAssumption == HardCap \in Nat

VARIABLE spent          \* _spent

\* The `remaining` property: never negative, even after an overshoot.
Remaining == IF spent < HardCap THEN HardCap - spent ELSE 0

\* Faulty variants of the two operators below, for the mutants of PROJECT.json: a
\* check that forgets what was spent, a record that refunds, one that raises first.
CanStartFresh(projected) == HardCap > 0 /\ projected <= HardCap
RecordSpendRefund(cost)  == spent' = spent - cost
RecordSpendInCap(cost)   == spent' = IF spent + cost > HardCap THEN spent ELSE spent + cost

\* check_can_start returns (TRUE) or raises BudgetExceeded (FALSE).
CanStart(projected) == Remaining > 0 /\ projected <= Remaining

\* record_spend applies the cost whatever the result ...
RecordSpend(cost) == spent' = spent + cost

\* ... and raises BudgetExceeded when the new total is over the cap.
RecordRaises(cost) == spent + cost > HardCap

=============================================================================

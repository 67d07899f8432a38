--------------------------- MODULE StrategyContract ---------------------------
(***************************************************************************)
(* What every strategy promises the router about money (strategies/base.py *)
(* and the `execute` of each): a run that returns reports exactly what the *)
(* governor has recorded for it, whatever the way out, and a run that was  *)
(* started on an exhausted cap records nothing.                            *)
(*                                                                         *)
(* Fleet and Routing implement this specification.                         *)
(***************************************************************************)
EXTENDS Integers

CONSTANT Cap

VARIABLES spent, base, phase, reported

vars == << spent, base, phase, reported >>

Init == spent = base /\ phase = "open" /\ reported = 0

\* Spend never falls, and rises only in a run that began below the cap.
Spends == spent' >= spent /\ (spent' > spent => base < Cap)

Charge ==
  /\ phase = "open" /\ phase' = "open"
  /\ Spends
  /\ UNCHANGED << base, reported >>

Return ==
  /\ phase = "open" /\ phase' = "returned"
  /\ Spends
  /\ reported' = spent' - base
  /\ UNCHANGED base

\* execute raised: what the run has spent is in the governor and in no result.
Raise ==
  /\ phase = "open" /\ phase' = "raised"
  /\ Spends
  /\ UNCHANGED << base, reported >>

\* The router takes the next task.
NextTask ==
  /\ phase # "open" /\ phase' = "open"
  /\ base' = spent /\ reported' = 0
  /\ UNCHANGED spent

Next == Charge \/ Return \/ Raise \/ NextTask

Spec == Init /\ [][Next]_vars

=============================================================================

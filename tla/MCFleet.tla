------------------------------ MODULE MCFleet ------------------------------
(***************************************************************************)
(* Fleet for TLC.                                                          *)
(***************************************************************************)
EXTENDS Fleet, TLC

\* Workers are interchangeable: nothing in Fleet orders them.
WorkerSymmetry == Permutations(Workers)

=============================================================================

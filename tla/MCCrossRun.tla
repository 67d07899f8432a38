----------------------------- MODULE MCCrossRun -----------------------------
(***************************************************************************)
(* CrossRun for TLC: a command line and a harness, or two command lines.   *)
(***************************************************************************)
EXTENDS CrossRun

=============================================================================

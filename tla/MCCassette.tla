----------------------------- MODULE MCCassette -----------------------------
(***************************************************************************)
(* Cassette for TLC: three shards, whose prompts either all differ, or     *)
(* repeat after one that holds what save takes for a secret; two models,   *)
(* one of them twice the price of the other.                               *)
(***************************************************************************)
EXTENDS Cassette

CONSTANTS cheap, dear, edit, test, docs, key

MCTextChoices ==
  {<< edit, test, docs >>, << key, edit, edit >>}

MCPrice == (cheap :> 1) @@ (dear :> 2)

=============================================================================

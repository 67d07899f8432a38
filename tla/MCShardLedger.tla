---------------------------- MODULE MCShardLedger ----------------------------
(***************************************************************************)
(* ShardLedger for TLC: three workers, two of them threads of one process. *)
(***************************************************************************)
EXTENDS ShardLedger, TLC

CONSTANTS w1, w2, w3, p1, p2

MCWorkers   == {w1, w2, w3}
MCProcesses == {p1, p2}
MCProcessOf == w1 :> p1 @@ w2 :> p1 @@ w3 :> p2

=============================================================================

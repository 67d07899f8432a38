----------------------------- MODULE ShardQueue -----------------------------
(***************************************************************************)
(* What a shard ledger promises: each shard of a run is handed out once,   *)
(* in shard_id order, to one worker, and only that worker settles it.      *)
(* ShardLedger shows that the two SQL statements of claim_next keep this   *)
(* promise; Fleet uses the operations below as atomic steps.               *)
(***************************************************************************)
EXTENDS Integers

CONSTANTS
  NumShards,    \* number of shards plan_shards returned
  Workers,      \* worker ids
  NoWorker,     \* worker_id IS NULL
  MaxCost       \* the most one model call can cost

ASSUME NumShardsAssumption == NumShards \in Nat \ {0}
ASSUME NoWorkerAssumption  == NoWorker \notin Workers
ASSUME MaxCostAssumption   == MaxCost \in Nat

VARIABLES
  status,       \* status[s]:  column `status`; "absent" before add_shard
  owner,        \* owner[s]:   column `worker_id`
  rowCost       \* rowCost[s]: column `cost_usd`

rows == << status, owner, rowCost >>

Shards == 1 .. NumShards
Costs  == 0 .. MaxCost

ShardStatus == {"absent", "pending", "in_progress", "done", "error"}

RowsTypeOK ==
  /\ status  \in [Shards -> ShardStatus]
  /\ owner   \in [Shards -> Workers \cup {NoWorker}]
  /\ rowCost \in [Shards -> Costs]

RowsInit ==
  /\ status  = [s \in Shards |-> "absent"]
  /\ owner   = [s \in Shards |-> NoWorker]
  /\ rowCost = [s \in Shards |-> 0]

Pending == {s \in Shards : status[s] = "pending"}

\* The row "SELECT ... WHERE status='pending' ORDER BY shard_id LIMIT 1" finds.
IsNextPending(s) == s \in Pending /\ \A t \in Pending : s <= t

\* record_run followed by one add_shard per planned shard.
AddShards ==
  /\ status' = [s \in Shards |-> "pending"]
  /\ UNCHANGED << owner, rowCost >>

\* Faulty variant: a claim whose UPDATE does not ask for status='pending'.
ClaimUnguarded(s, w) ==
  /\ status[s] \in {"pending", "in_progress"}
  /\ status' = [status EXCEPT ![s] = "in_progress"]
  /\ owner'  = [owner  EXCEPT ![s] = w]
  /\ UNCHANGED rowCost

\* claim_next: the next pending shard becomes w's.
Claim(s, w) ==
  /\ IsNextPending(s)
  /\ status' = [status EXCEPT ![s] = "in_progress"]
  /\ owner'  = [owner  EXCEPT ![s] = w]
  /\ UNCHANGED rowCost

\* complete_shard: an unconditional UPDATE.
CompleteShard(s, cost) ==
  /\ status'  = [status  EXCEPT ![s] = "done"]
  /\ rowCost' = [rowCost EXCEPT ![s] = cost]
  /\ UNCHANGED owner

\* Faulty variant: a status the rest of the code does not know.
FailShardMisnamed(s) ==
  /\ status' = [status EXCEPT ![s] = "failed"]
  /\ UNCHANGED << owner, rowCost >>

\* fail_shard: an unconditional UPDATE.
FailShard(s) ==
  /\ status' = [status EXCEPT ![s] = "error"]
  /\ UNCHANGED << owner, rowCost >>

-----------------------------------------------------------------------------
(***************************************************************************)
(* The promise as a specification of its own.                              *)
(***************************************************************************)
Publish == (\A s \in Shards : status[s] = "absent") /\ AddShards

Settle(s) ==
  /\ status[s] = "in_progress"
  /\ \/ \E c \in Costs : CompleteShard(s, c)
     \/ FailShard(s)

QueueNext ==
  \/ Publish
  \/ \E s \in Shards : Settle(s) \/ \E w \in Workers : Claim(s, w)

QueueSpec == RowsInit /\ [][QueueNext]_rows

=============================================================================

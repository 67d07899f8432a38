-------------------------- MODULE ShardLedgerProofs --------------------------
(***************************************************************************)
(* claim_next's two statements implement the atomic claim of ShardQueue,   *)
(* for any number of processes, threads and shards, whatever crashes.      *)
(***************************************************************************)
EXTENDS ShardLedger, TLAPS

\* Between SELECT and UPDATE: no smaller shard can have become pending since,
\* for a shard is pending only once.
NoneBefore ==
  \A w \in Workers : pc[w] = "update" =>
    /\ sel[w] \in Shards /\ status[sel[w]] # "absent"
    /\ \A t \in Shards : t < sel[w] => status[t] # "pending"

\* A worker works on a row that is its own.
WorksOnOwn ==
  \A w \in Workers : pc[w] = "working" =>
    /\ sel[w] \in Shards
    /\ status[sel[w]] = "in_progress" /\ owner[sel[w]] = w

LedgerInv == TypeOK /\ NoneBefore /\ WorksOnOwn

LEMMA LedgerInvInductive ==
  /\ Init => LedgerInv
  /\ LedgerInv /\ [Next]_vars => LedgerInv'
<1>1. Init => LedgerInv
  BY MaxCostAssumption
     DEF Init, LedgerInv, TypeOK, RowsTypeOK, RowsInit, ShardStatus, Costs, NoneBefore, WorksOnOwn
<1>2. LedgerInv /\ [Next]_vars => LedgerInv'
  <2> SUFFICES ASSUME LedgerInv, [Next]_vars PROVE LedgerInv'
    OBVIOUS
  <2> USE ProcessOfAssumption, MaxCostAssumption, NumShardsAssumption
      DEF LedgerInv, TypeOK, RowsTypeOK, rows, ShardStatus, NoneBefore, WorksOnOwn,
          LockFree, Unlocked, GoTo, Drop
  <2>1. CASE Start
    BY <2>1 DEF Start, Publish, AddShards
  <2>2. ASSUME NEW w \in Workers, Select(w) PROVE LedgerInv'
    BY <2>2 DEF Select, IsNextPending, Pending, Shards
  <2>3. ASSUME NEW w \in Workers, SelectNone(w) PROVE LedgerInv'
    BY <2>3 DEF SelectNone
  <2>4. ASSUME NEW w \in Workers, UpdateWon(w) PROVE LedgerInv'
    BY <2>4 DEF UpdateWon
  <2>5. ASSUME NEW w \in Workers, UpdateLost(w) PROVE LedgerInv'
    BY <2>5 DEF UpdateLost
  <2>6. ASSUME NEW w \in Workers, SettleShard(w) PROVE LedgerInv'
    BY <2>6 DEF SettleShard, CompleteShard, FailShard
  <2>7. ASSUME NEW w \in Workers, Busy(w) PROVE LedgerInv'
    BY <2>7 DEF Busy
  <2>8. ASSUME NEW p \in Processes, Crash(p) PROVE LedgerInv'
    BY <2>8 DEF Crash
  <2>9. CASE Idle \/ UNCHANGED vars
    BY <2>9 DEF Idle, vars
  <2> QED
    BY <2>1, <2>2, <2>3, <2>4, <2>5, <2>6, <2>7, <2>8, <2>9 DEF Next, Worker, Progress
<1> QED
  BY <1>1, <1>2

\* A shard has one worker at a time, the one its row names (ledger.py claim_next).
THEOREM OneWorker == Spec => []OneWorkerPerShard
<1>1. LedgerInv => OneWorkerPerShard
  BY DEF LedgerInv, WorksOnOwn, OneWorkerPerShard
<1> QED
  BY <1>1, LedgerInvInductive, PTL DEF Spec

\* Every step of the ledger is a step of the queue or leaves the rows alone:
\* shards are claimed once, in order, and settled once.
THEOREM LedgerImplementsQueue == Spec => ImplementsQueue
<1>1. Init => RowsInit
  BY DEF Init
<1>2. LedgerInv /\ [Next]_vars => [QueueNext]_rows
  <2> SUFFICES ASSUME LedgerInv, [Next]_vars PROVE [QueueNext]_rows
    OBVIOUS
  <2>1. CASE Start
    BY <2>1 DEF Start, QueueNext
  <2>2. ASSUME NEW w \in Workers, UpdateWon(w) PROVE QueueNext
    <3>1. sel[w] \in Shards /\ IsNextPending(sel[w])
      BY <2>2, NumShardsAssumption
         DEF UpdateWon, LedgerInv, NoneBefore, IsNextPending, Pending, Shards
    <3>2. Claim(sel[w], w)
      BY <2>2, <3>1 DEF UpdateWon, Claim
    <3> QED
      BY <3>1, <3>2 DEF QueueNext
  <2>3. ASSUME NEW w \in Workers, SettleShard(w) PROVE QueueNext
    <3>1. sel[w] \in Shards /\ status[sel[w]] = "in_progress"
      BY <2>3 DEF SettleShard, LedgerInv, WorksOnOwn
    <3>2. Settle(sel[w])
      BY <2>3, <3>1 DEF SettleShard, Settle
    <3> QED
      BY <3>1, <3>2 DEF QueueNext
  <2>4. ASSUME NEW w \in Workers,
               Select(w) \/ SelectNone(w) \/ UpdateLost(w) \/ Busy(w)
        PROVE  UNCHANGED rows
    BY <2>4 DEF Select, SelectNone, UpdateLost, Busy
  <2>5. ASSUME NEW p \in Processes, Crash(p) PROVE UNCHANGED rows
    BY <2>5 DEF Crash
  <2>6. CASE Idle \/ UNCHANGED vars
    BY <2>6 DEF Idle, vars, rows
  <2> QED
    BY <2>1, <2>2, <2>3, <2>4, <2>5, <2>6 DEF Next, Worker, Progress
<1> QED
  BY <1>1, <1>2, LedgerInvInductive, PTL DEF Spec, ImplementsQueue, QueueSpec

\* Rows, locks and workers keep their types, whatever crashes and whatever
\* statement fails.
THEOREM ShardsTypeCorrect == Spec => []TypeOK
<1>1. LedgerInv => TypeOK
  BY DEF LedgerInv
<1> QED
  BY <1>1, LedgerInvInductive, PTL DEF Spec

\* claim_next answers None only when no shard is pending, also to a worker that has
\* lost races (ledger.py:114-118): the loop is left by a SELECT without a row alone.
THEOREM NoneIsTheEnd == Spec => NoneMeansNonePending
<1>1. LedgerInv /\ [Next]_vars
      => [\A w \in Workers : pc[w] # "returned" /\ pc'[w] = "returned" => Pending = {}]_vars
  <2> SUFFICES ASSUME LedgerInv, Next, NEW w \in Workers, pc[w] # "returned", pc'[w] = "returned"
               PROVE  Pending = {}
    OBVIOUS
  <2> USE DEF LedgerInv, TypeOK, GoTo
  <2>1. CASE Start
    BY <2>1 DEF Start
  <2>2. ASSUME NEW v \in Workers, Worker(v) PROVE Pending = {}
    BY <2>2 DEF Worker, Progress, Select, SelectNone, UpdateWon, UpdateLost, SettleShard, Busy
  <2>3. ASSUME NEW p \in Processes, Crash(p) PROVE FALSE
    BY <2>3 DEF Crash
  <2>4. CASE Idle
    BY <2>4 DEF Idle, vars
  <2> QED
    BY <2>1, <2>2, <2>3, <2>4 DEF Next
<1> QED
  BY <1>1, LedgerInvInductive, PTL DEF Spec, NoneMeansNonePending

=============================================================================

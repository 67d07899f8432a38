----------------------------- MODULE ShardLedger -----------------------------
(***************************************************************************)
(* fleet/ledger.py, with claim_next taken apart.  The SELECT and the       *)
(* UPDATE are two autocommitted statements: the lock of a ledger object    *)
(* keeps the threads of one process apart, but a second process that opens *)
(* the same file has a lock of its own and can get in between.  The module *)
(* shows that the conditional UPDATE and the retry loop keep the promise   *)
(* of ShardQueue all the same, while processes crash and statements fail.  *)
(***************************************************************************)
EXTENDS ShardQueue

CONSTANTS
  Processes,    \* processes that opened the ledger's file
  ProcessOf,    \* ProcessOf[w]: the process worker w is a thread of
  Mortal        \* the processes that may crash

ASSUME ProcessOfAssumption == ProcessOf \in [Workers -> Processes]
ASSUME MortalAssumption    == Mortal \subseteq Processes

VARIABLES
  lock,   \* lock[p]: the worker inside _lock of p's ledger object
  pc,     \* pc[w]: where worker w is
  sel     \* sel[w]: the shard_id w's SELECT returned, 0 outside claim and work

vars == << rows, lock, pc, sel >>

TypeOK ==
  /\ RowsTypeOK
  /\ lock \in [Processes -> Workers \cup {NoWorker}]
  /\ pc   \in [Workers -> {"waiting", "idle", "update", "working", "returned", "failed", "dead"}]
  /\ sel  \in [Workers -> Shards \cup {0}]

Init ==
  /\ RowsInit
  /\ lock = [p \in Processes |-> NoWorker]
  /\ pc   = [w \in Workers |-> "waiting"]
  /\ sel  = [w \in Workers |-> 0]

LockFree(w) == lock[ProcessOf[w]] = NoWorker
Unlocked(w) == [lock EXCEPT ![ProcessOf[w]] = NoWorker]
GoTo(w, l)  == pc' = [pc EXCEPT ![w] = l]
Drop(w)     == sel' = [sel EXCEPT ![w] = 0]

\* Another process may hold the database longer than busy_timeout.
MayBeBusy(w) == \E v \in Workers : ProcessOf[v] # ProcessOf[w]

-----------------------------------------------------------------------------
(***************************************************************************)
(* Faulty variants, used only by the mutants of PROJECT.json.              *)
(***************************************************************************)

\* SELECT without ORDER BY.
SelectAny(w) ==
  /\ pc[w] = "idle" /\ LockFree(w)
  /\ \E s \in Pending : sel' = [sel EXCEPT ![w] = s]
  /\ lock' = [lock EXCEPT ![ProcessOf[w]] = w]
  /\ GoTo(w, "update")
  /\ UNCHANGED rows

\* UPDATE without "AND status='pending'".
UpdateUnguarded(w) ==
  /\ pc[w] = "update"
  /\ status' = [status EXCEPT ![sel[w]] = "in_progress"]
  /\ owner'  = [owner  EXCEPT ![sel[w]] = w]
  /\ lock' = Unlocked(w)
  /\ GoTo(w, "working")
  /\ UNCHANGED << rowCost, sel >>

\* A lost race is answered with None ...
UpdateLostGivesUp(w) ==
  /\ pc[w] = "update" /\ status[sel[w]] # "pending"
  /\ lock' = Unlocked(w)
  /\ GoTo(w, "returned")
  /\ Drop(w)
  /\ UNCHANGED rows

\* ... or by trying the same row again, without a new SELECT.
UpdateLostRepeats(w) ==
  /\ pc[w] = "update" /\ status[sel[w]] # "pending"
  /\ UNCHANGED vars

-----------------------------------------------------------------------------
\* The main thread writes every row before it starts the pool.
Start ==
  /\ Publish
  /\ pc' = [w \in Workers |-> IF pc[w] = "waiting" THEN "idle" ELSE pc[w]]
  /\ UNCHANGED << lock, sel >>

\* claim_next enters the lock and its SELECT finds a row.
Select(w) ==
  /\ pc[w] = "idle" /\ LockFree(w)
  /\ \E s \in Shards :
       /\ IsNextPending(s)
       /\ sel' = [sel EXCEPT ![w] = s]
  /\ lock' = [lock EXCEPT ![ProcessOf[w]] = w]
  /\ GoTo(w, "update")
  /\ UNCHANGED rows

\* The SELECT finds none: claim_next returns None.
SelectNone(w) ==
  /\ pc[w] = "idle" /\ LockFree(w) /\ Pending = {}
  /\ GoTo(w, "returned")
  /\ UNCHANGED << rows, lock, sel >>

\* The UPDATE changes the row: the shard is loaded and returned.
UpdateWon(w) ==
  /\ pc[w] = "update" /\ status[sel[w]] = "pending"
  /\ status' = [status EXCEPT ![sel[w]] = "in_progress"]
  /\ owner'  = [owner  EXCEPT ![sel[w]] = w]
  /\ lock' = Unlocked(w)
  /\ GoTo(w, "working")
  /\ UNCHANGED << rowCost, sel >>

\* rowcount = 0: another process was faster; the loop starts again.
UpdateLost(w) ==
  /\ pc[w] = "update" /\ status[sel[w]] # "pending"
  /\ lock' = Unlocked(w)
  /\ GoTo(w, "idle")
  /\ Drop(w)
  /\ UNCHANGED rows

\* complete_shard or fail_shard, then the next claim.
SettleShard(w) ==
  /\ pc[w] = "working" /\ LockFree(w)
  /\ \/ \E c \in Costs : CompleteShard(sel[w], c)
     \/ FailShard(sel[w])
  /\ GoTo(w, "idle")
  /\ Drop(w)
  /\ UNCHANGED lock

\* A statement ends with "database is locked": nothing is written, the lock is
\* released by its `with`, and the exception ends the worker.
Busy(w) ==
  /\ MayBeBusy(w)
  /\ \/ pc[w] = "update" /\ lock' = Unlocked(w)
     \/ pc[w] \in {"idle", "working"} /\ LockFree(w) /\ lock' = lock
  /\ GoTo(w, "failed")
  /\ Drop(w)
  /\ UNCHANGED rows

\* A process dies between two statements, with every thread it has.
Crash(p) ==
  /\ p \in Mortal
  /\ \E w \in Workers : ProcessOf[w] = p /\ pc[w] # "dead"
  /\ pc' = [w \in Workers |-> IF ProcessOf[w] = p THEN "dead" ELSE pc[w]]
  /\ lock' = [lock EXCEPT ![p] = NoWorker]
  /\ sel' = [w \in Workers |-> IF ProcessOf[w] = p THEN 0 ELSE sel[w]]
  /\ UNCHANGED rows

Progress(w) ==
  Select(w) \/ SelectNone(w) \/ UpdateWon(w) \/ UpdateLost(w) \/ SettleShard(w)

Worker(w) == Progress(w) \/ Busy(w)

Ended == \A w \in Workers : pc[w] \in {"returned", "failed", "dead"}

Idle == Ended /\ UNCHANGED vars

Next ==
  \/ Start
  \/ \E w \in Workers : Worker(w)
  \/ \E p \in Processes : Crash(p)
  \/ Idle

Spec == Init /\ [][Next]_vars

\* Threads are scheduled fairly and SQLite answers within busy_timeout: nothing
\* makes a statement fail or a process crash.
FairSpec == Spec /\ WF_vars(Start) /\ \A w \in Workers : WF_vars(Progress(w))

-----------------------------------------------------------------------------
\* The ledger keeps the queue's promise: a shard is claimed once, in order, and
\* settled once (ADR-0002 "exactly-once shard claims").
ImplementsQueue == QueueSpec

\* No two workers ever work on one shard, and the row names the one that does.
OneWorkerPerShard ==
  \A w \in Workers : pc[w] = "working" =>
    /\ status[sel[w]] = "in_progress" /\ owner[sel[w]] = w
    /\ \A v \in Workers \ {w} : pc[v] = "working" => sel[v] # sel[w]

\* claim_next does not answer None "while pending shards remain", even to a
\* worker that has just lost a race (ledger.py:114-118).
NoneMeansNonePending ==
  [][\A w \in Workers : pc[w] # "returned" /\ pc'[w] = "returned" => Pending = {}]_vars

\* The retry loop never livelocks and no lock stays held: every worker comes to
\* the end of the queue, fails or dies with its process.
EveryWorkerEnds == <>Ended

=============================================================================

-------------------------------- MODULE Fleet --------------------------------
(***************************************************************************)
(* FleetStrategy.execute: one main thread, a pool of worker threads, and   *)
(* what they share: the governor's spend, the shard ledger, the abort      *)
(* event and the worktrees.  Each worker step below is the code between    *)
(* two points where another thread can observe or change shared state.     *)
(*                                                                         *)
(* The ledger's claim is one step because every worker of a run uses the   *)
(* same ledger object, whose lock covers the SELECT and the UPDATE.        *)
(***************************************************************************)
EXTENDS BudgetGovernor, ShardQueue, FiniteSets, Sequences, Functions

CONSTANTS
  PerShard,       \* projected_cost_usd / len(shards)
  InitialSpends,  \* what the governor may have recorded before this run
  Faults          \* which exceptions the environment may raise

ASSUME WorkersAssumption      == IsFiniteSet(Workers) /\ Workers # {}
ASSUME PerShardAssumption     == PerShard \in Nat
ASSUME InitialSpendsAssumption == InitialSpends \subseteq Nat
ASSUME FaultsAssumption       == Faults \subseteq {"ledger", "disk"}

VARIABLES
  phase,      \* where the main thread is
  runStatus,  \* column `status` of the run's row in table `runs`
  reported,   \* cost_usd of the StrategyResult
  abort,      \* abort_event
  pc,         \* pc[w]: where worker w's thread is
  exit,       \* exit[w]: where w goes after the `finally` clean-up
  held,       \* held[w]: the shard in w's hands, 0 when none
  bill,       \* bill[w]: cost of the answer w is handling
  results,    \* results[w]: w's `local` list
  totalCost,  \* total_cost, summed up as results are appended ...
  alreadyRecorded,  \* ... and already_recorded: the paid-for successes among them
  trees,      \* worktrees on disk, as << worker, shard >>
  billed,     \* history: what the provider has charged in all
  base        \* history: the spend recorded before this run

governorVars == << spent, billed, base >>
mainVars     == << phase, runStatus, reported >>
resultVars   == << results, totalCost, alreadyRecorded >>
workerVars   == << pc, exit, held, bill, resultVars >>
vars == << governorVars, rows, mainVars, workerVars, abort, trees >>

Result == [shard : Shards, ok : BOOLEAN, cost : Costs]

Locations == {"idle", "check", "preflight", "stop", "claim", "provision", "call",
              "complete", "fail", "record", "cleanup", "returned", "raised"}

TypeOK ==
  /\ spent \in Nat /\ billed \in Nat /\ base \in Nat
  /\ reported \in Nat /\ totalCost \in Nat /\ alreadyRecorded \in Nat
  /\ RowsTypeOK
  /\ phase \in {"start", "running", "rejected", "finished", "raised"}
  /\ runStatus \in {"none", "open", "done", "partial", "budget_exceeded"}
  /\ abort \in BOOLEAN
  /\ pc      \in [Workers -> Locations]
  /\ exit    \in [Workers -> {"check", "returned", "raised"}]
  /\ held    \in [Workers -> Shards \cup {0}]
  /\ bill    \in [Workers -> Costs]
  /\ results \in [Workers -> Seq(Result)]
  /\ trees   \subseteq Workers \X Shards

Init ==
  /\ base \in InitialSpends /\ spent = base /\ billed = base
  /\ reported = 0 /\ totalCost = 0 /\ alreadyRecorded = 0
  /\ RowsInit
  /\ phase = "start" /\ runStatus = "none" /\ abort = FALSE
  /\ pc      = [w \in Workers |-> "idle"]
  /\ exit    = [w \in Workers |-> "check"]
  /\ held    = [w \in Workers |-> 0]
  /\ bill    = [w \in Workers |-> 0]
  /\ results = [w \in Workers |-> << >>]
  /\ trees   = {}

GoTo(w, l) == pc' = [pc EXCEPT ![w] = l]
At(w, l)   == phase = "running" /\ pc[w] = l

AddResult(w, ok, cost) ==
  /\ results' = [results EXCEPT ![w] = Append(@, [shard |-> held[w], ok |-> ok, cost |-> cost])]
  /\ totalCost' = totalCost + cost
  /\ alreadyRecorded' = alreadyRecorded + (IF ok THEN cost ELSE 0)

Projected == PerShard * NumShards

-----------------------------------------------------------------------------
(***************************************************************************)
(* Faulty variants of the actions below, used only by the mutants of       *)
(* PROJECT.json: each is a slip a change to the code could make.           *)
(***************************************************************************)

\* A worker that meets the abort event waits instead of returning.
CheckAbortWaits(w) ==
  /\ At(w, "check")
  /\ GoTo(w, IF abort THEN "check" ELSE "preflight")
  /\ UNCHANGED << governorVars, rows, mainVars, exit, held, bill, resultVars, abort, trees >>

\* The per-shard preflight always passes ...
PreflightSkipped(w) ==
  /\ At(w, "preflight")
  /\ GoTo(w, "claim")
  /\ UNCHANGED << governorVars, rows, mainVars, exit, held, bill, resultVars, abort, trees >>

\* ... or asks for the whole run's projection.
PreflightWholeRun(w) ==
  /\ At(w, "preflight")
  /\ GoTo(w, IF CanStart(Projected) THEN "claim" ELSE "stop")
  /\ UNCHANGED << governorVars, rows, mainVars, exit, held, bill, resultVars, abort, trees >>

\* The early return of a worker over the cap skips the `finally`.
StopDirect(w) ==
  /\ At(w, "stop")
  /\ abort' = TRUE
  /\ exit' = [exit EXCEPT ![w] = "returned"]
  /\ GoTo(w, "returned")
  /\ UNCHANGED << governorVars, rows, mainVars, held, bill, resultVars, trees >>

\* The worker never records what its calls cost.
CompleteUnrecorded(w) ==
  /\ At(w, "complete")
  /\ CompleteShard(held[w], bill[w])
  /\ AddResult(w, TRUE, bill[w])
  /\ exit' = [exit EXCEPT ![w] = "check"]
  /\ GoTo(w, "cleanup")
  /\ UNCHANGED << governorVars, mainVars, held, bill, abort, trees >>

\* A failed shard is reported at its projected cost.
FailCharged(w) ==
  /\ At(w, "fail")
  /\ FailShard(held[w])
  /\ AddResult(w, FALSE, PerShard)
  /\ exit' = [exit EXCEPT ![w] = "check"]
  /\ GoTo(w, "cleanup")
  /\ UNCHANGED << governorVars, mainVars, held, bill, abort, trees >>

\* An exception of the ledger is swallowed and the loop goes on.
SettleSwallows(w) ==
  /\ (At(w, "complete") \/ At(w, "fail")) /\ "ledger" \in Faults
  /\ exit' = [exit EXCEPT ![w] = "check"]
  /\ GoTo(w, "cleanup")
  /\ UNCHANGED << governorVars, rows, mainVars, held, bill, resultVars, abort, trees >>

\* The loop restarts at the claim, past both checks.
CleanupToClaim(w) ==
  /\ At(w, "cleanup")
  /\ trees' = trees \ {<< w, held[w] >>}
  /\ held' = [held EXCEPT ![w] = 0]
  /\ bill' = [bill EXCEPT ![w] = 0]
  /\ GoTo(w, IF exit[w] = "check" THEN "claim" ELSE exit[w])
  /\ UNCHANGED << governorVars, rows, mainVars, exit, resultVars, abort >>

-----------------------------------------------------------------------------
(***************************************************************************)
(* The main thread.                                                        *)
(***************************************************************************)

\* The preflight on the whole run raises: nothing has been written.
Reject ==
  /\ phase = "start" /\ ~CanStart(Projected)
  /\ phase' = "rejected"
  /\ UNCHANGED << governorVars, rows, runStatus, reported, workerVars, abort, trees >>

\* The run and its shards are recorded and the pool is started.
Launch ==
  /\ phase = "start" /\ CanStart(Projected)
  /\ phase' = "running" /\ runStatus' = "open"
  /\ AddShards
  /\ pc' = [w \in Workers |-> "check"]
  /\ UNCHANGED << governorVars, reported, exit, held, bill, resultVars, abort, trees >>

\* record_run or one of the add_shard calls raised: no worker was started.
LaunchRaises ==
  /\ phase = "start" /\ CanStart(Projected) /\ "ledger" \in Faults
  /\ phase' = "raised"
  /\ \/ status' = status /\ runStatus' = "none"
     \/ /\ \E n \in 0 .. NumShards - 1 :
             status' = [s \in Shards |-> IF s <= n THEN "pending" ELSE "absent"]
        /\ runStatus' = "open"
  /\ UNCHANGED << governorVars, owner, rowCost, reported, workerVars, abort, trees >>

\* What the workers' results cost over what the workers recorded themselves.
Residue == totalCost - alreadyRecorded

Joined == phase = "running" /\ \A w \in Workers : pc[w] = "returned"

\* Every worker returned: total up, charge the residue, finalize the run.
Aggregate ==
  /\ Joined
  /\ RecordSpend(Residue)
  /\ reported' = totalCost
  /\ runStatus' =
       IF Residue > 0 /\ RecordRaises(Residue) THEN "budget_exceeded"
       ELSE IF \A w \in Workers : \A i \in DOMAIN results[w] : results[w][i].ok
            THEN "done" ELSE "partial"
  /\ phase' = "finished"
  /\ UNCHANGED << billed, base, rows, workerVars, abort, trees >>

\* finalize_run raised: the result is lost and the run's row stays "open".
FinalizeRaises ==
  /\ Joined /\ "ledger" \in Faults
  /\ RecordSpend(Residue)
  /\ phase' = "raised"
  /\ UNCHANGED << billed, base, rows, runStatus, reported, workerVars, abort, trees >>

\* Every thread has ended and one ended by an exception: fut.result()
\* re-raises it out of execute, and the run's row stays "open".
Raise ==
  /\ phase = "running"
  /\ \A w \in Workers : pc[w] \in {"returned", "raised"}
  /\ \E w \in Workers : pc[w] = "raised"
  /\ phase' = "raised"
  /\ UNCHANGED << governorVars, rows, runStatus, reported, workerVars, abort, trees >>

-----------------------------------------------------------------------------
(***************************************************************************)
(* The worker threads: one pass of the `while True` loop of _one_worker.   *)
(***************************************************************************)

\* if abort_event.is_set(): return local
CheckAbort(w) ==
  /\ At(w, "check")
  /\ GoTo(w, IF abort THEN "returned" ELSE "preflight")
  /\ UNCHANGED << governorVars, rows, mainVars, exit, held, bill, resultVars, abort, trees >>

\* check_can_start on one shard's share; nothing is reserved.
Preflight(w) ==
  /\ At(w, "preflight")
  /\ GoTo(w, IF CanStart(PerShard) THEN "claim" ELSE "stop")
  /\ UNCHANGED << governorVars, rows, mainVars, exit, held, bill, resultVars, abort, trees >>

\* abort_event.set() and return, after the clean-up when a worktree is held.
Stop(w) ==
  /\ At(w, "stop")
  /\ abort' = TRUE
  /\ exit' = [exit EXCEPT ![w] = "returned"]
  /\ GoTo(w, IF held[w] = 0 THEN "returned" ELSE "cleanup")
  /\ UNCHANGED << governorVars, rows, mainVars, held, bill, resultVars, trees >>

\* claim_next handed out a shard.
ClaimShard(w) ==
  /\ At(w, "claim")
  /\ \E s \in Shards :
       /\ Claim(s, w)
       /\ held' = [held EXCEPT ![w] = s]
  /\ GoTo(w, "provision")
  /\ UNCHANGED << governorVars, mainVars, exit, bill, resultVars, abort, trees >>

\* claim_next returned None: the worker is done.
ClaimNone(w) ==
  /\ At(w, "claim") /\ Pending = {}
  /\ GoTo(w, "returned")
  /\ UNCHANGED << governorVars, rows, mainVars, exit, held, bill, resultVars, abort, trees >>

\* claim_next raised: outside the try, so the thread ends at once.
ClaimRaises(w) ==
  /\ At(w, "claim") /\ "ledger" \in Faults
  /\ GoTo(w, "raised")
  /\ UNCHANGED << governorVars, rows, mainVars, exit, held, bill, resultVars, abort, trees >>

\* manager.provision: a fresh directory of the worker's own.
Provision(w) ==
  /\ At(w, "provision")
  /\ trees' = trees \cup {<< w, held[w] >>}
  /\ GoTo(w, "call")
  /\ UNCHANGED << governorVars, rows, mainVars, exit, held, bill, resultVars, abort >>

\* provision raised, also outside the try: the shard stays in_progress.  The
\* directory may already exist (mkdtemp succeeded, starting git did not).
ProvisionRaises(w) ==
  /\ At(w, "provision") /\ "disk" \in Faults
  /\ trees' \in {trees, trees \cup {<< w, held[w] >>}}
  /\ held' = [held EXCEPT ![w] = 0]
  /\ GoTo(w, "raised")
  /\ UNCHANGED << governorVars, rows, mainVars, exit, bill, resultVars, abort >>

\* run_shard: the adapter answers, and the provider charges for it ...
Answer(w) ==
  /\ At(w, "call")
  /\ \E c \in Costs :
       /\ bill' = [bill EXCEPT ![w] = c]
       /\ billed' = billed + c
  /\ GoTo(w, "complete")
  /\ UNCHANGED << spent, base, rows, mainVars, exit, held, resultVars, abort, trees >>

\* ... or it raises, at no cost.
AdapterRaises(w) ==
  /\ At(w, "call")
  /\ GoTo(w, "fail")
  /\ UNCHANGED << governorVars, rows, mainVars, exit, held, bill, resultVars, abort, trees >>

\* run_shard's complete_shard, then local.append.
Complete(w) ==
  /\ At(w, "complete")
  /\ CompleteShard(held[w], bill[w])
  /\ AddResult(w, TRUE, bill[w])
  /\ exit' = [exit EXCEPT ![w] = "check"]
  /\ GoTo(w, IF bill[w] > 0 THEN "record" ELSE "cleanup")
  /\ UNCHANGED << governorVars, mainVars, held, bill, abort, trees >>

\* run_shard's fail_shard, then local.append.
Fail(w) ==
  /\ At(w, "fail")
  /\ FailShard(held[w])
  /\ AddResult(w, FALSE, 0)
  /\ exit' = [exit EXCEPT ![w] = "check"]
  /\ GoTo(w, "cleanup")
  /\ UNCHANGED << governorVars, mainVars, held, bill, abort, trees >>

\* The UPDATE raised out of run_shard: neither the row, the local list nor the
\* governor hears of the answer; `finally` still removes the worktree.
SettleRaises(w) ==
  /\ (At(w, "complete") \/ At(w, "fail")) /\ "ledger" \in Faults
  /\ exit' = [exit EXCEPT ![w] = "raised"]
  /\ GoTo(w, "cleanup")
  /\ UNCHANGED << governorVars, rows, mainVars, held, bill, resultVars, abort, trees >>

\* record_spend: applied in any case; over the cap the worker stops the run.
Record(w) ==
  /\ At(w, "record")
  /\ RecordSpend(bill[w])
  /\ GoTo(w, IF RecordRaises(bill[w]) THEN "stop" ELSE "cleanup")
  /\ UNCHANGED << billed, base, rows, mainVars, exit, held, bill, resultVars, abort, trees >>

\* manager.cleanup in the `finally`; an exception in it is swallowed and may
\* leave the directory behind.
Cleanup(w) ==
  /\ At(w, "cleanup")
  /\ \/ trees' = trees \ {<< w, held[w] >>}
     \/ "disk" \in Faults /\ trees' = trees
  /\ held' = [held EXCEPT ![w] = 0]
  /\ bill' = [bill EXCEPT ![w] = 0]
  /\ GoTo(w, exit[w])
  /\ UNCHANGED << governorVars, rows, mainVars, exit, resultVars, abort >>

-----------------------------------------------------------------------------
Worker(w) ==
  \/ CheckAbort(w) \/ Preflight(w) \/ Stop(w)
  \/ ClaimShard(w) \/ ClaimNone(w) \/ ClaimRaises(w)
  \/ Provision(w) \/ ProvisionRaises(w)
  \/ Answer(w) \/ AdapterRaises(w)
  \/ Complete(w) \/ Fail(w) \/ SettleRaises(w)
  \/ Record(w) \/ Cleanup(w)

Main == Reject \/ Launch \/ LaunchRaises \/ Aggregate \/ FinalizeRaises \/ Raise

Ended == phase \in {"rejected", "finished", "raised"}

\* execute has returned or raised, and nothing of it runs on.
Idle == Ended /\ UNCHANGED vars

Next == Main \/ (\E w \in Workers : Worker(w)) \/ Idle

Spec == Init /\ [][Next]_vars

(***************************************************************************)
(* Threads are scheduled fairly by the operating system, and an adapter    *)
(* call ends: the SDK clients are built with a timeout and a retry limit.  *)
(***************************************************************************)
Fairness == WF_vars(Main) /\ \A w \in Workers : WF_vars(Worker(w))

FairSpec == Spec /\ Fairness

-----------------------------------------------------------------------------
(***************************************************************************)
(* Safety.                                                                 *)
(***************************************************************************)
Admitted == phase \in {"running", "finished", "raised"}

\* Every call costs at most the share check_can_start was asked about.
EstimateHolds == MaxCost <= PerShard

\* However the workers race between check_can_start and record_spend, what they
\* record stays within one call per worker of the last admission (fleet.py
\* _one_worker, budget.py check_can_start and record_spend).
SpendBound ==
  Admitted => spent <= HardCap - PerShard + Cardinality(Workers) * MaxCost

\* The same bound holds for the dollars the provider charges, recorded or not:
\* an exception loses at most one answer per worker, since it ends the worker.
\* And the governor never records a dollar nobody charged.
RealSpendBound ==
  /\ spent <= billed
  /\ Admitted => billed <= HardCap - PerShard + Cardinality(Workers) * MaxCost

\* Though no worker reserves its share, the cap is never passed as long as each
\* call keeps to its share: the global preflight covers every shard once, and
\* no shard is charged twice (fleet.py _execute and _one_worker).
CapHeldByEstimate == EstimateHolds /\ Admitted => billed <= HardCap

\* ... and then the per-shard preflight never stops the run early: when execute
\* returns a result, every shard was worked on.
EstimateLeavesNothing ==
  EstimateHolds /\ phase = "finished" => \A s \in Shards : status[s] \in {"done", "error"}

\* The ledger and the workers' lists tell the same story: a shard has a result
\* exactly when its row is settled, at most one, from the worker that owns the
\* row, with the row's outcome and cost.
OneResultPerShard ==
  /\ \A w \in Workers : \A i \in DOMAIN results[w] :
       LET r == results[w][i]
       IN  /\ status[r.shard] = IF r.ok THEN "done" ELSE "error"
           /\ owner[r.shard] = w /\ rowCost[r.shard] = r.cost
           /\ \A j \in DOMAIN results[w] : results[w][j].shard = r.shard => i = j
  /\ \A s \in Shards : status[s] \in {"done", "error"} =>
       \E i \in DOMAIN results[owner[s]] : results[owner[s]][i].shard = s

\* When execute returns a result, the cost it reports is the sum of the ledger's
\* cost column, and the governor's spend that of the provider's charges.
AccountsAgree ==
  phase = "finished" =>
    /\ reported = FoldFunction(+, 0, rowCost)
    /\ billed = spent

\* No worktree outlives the run, whether its worker finished, failed or raised,
\* unless the file system itself refused (fleet.py `finally: manager.cleanup`).
\* ADR-0003:45-47 says the opposite of a failed worker.
WorktreesReturned == Ended /\ "disk" \notin Faults => trees = {}

(***************************************************************************)
(* Action properties.                                                      *)
(***************************************************************************)
Contract == INSTANCE StrategyContract
  WITH Cap   <- HardCap,
       phase <- CASE phase \in {"start", "running"}     -> "open"
                  [] phase \in {"rejected", "finished"} -> "returned"
                  [] phase = "raised"                   -> "raised"

\* For all its threads a fleet keeps the strategies' contract: the result reports
\* what the workers have recorded between them, and no worker records on a cap
\* that was exhausted before the run (fleet.py _execute).
ImplementsContract == Contract!Spec

\* After the abort event is set no worker passes a preflight any more: spend
\* only grows, so the check that failed for one worker fails for all.
NoAdmissionAfterAbort ==
  [][abort => \A w \in Workers : pc'[w] = "claim" => pc[w] = "claim"]_vars

\* The residue block of _execute "should be a no-op in practice": it is.
BackstopIsNoOp ==
  [][phase' = "finished" => spent' = spent /\ runStatus' # "budget_exceeded"]_vars

(***************************************************************************)
(* Liveness, under FairSpec.                                               *)
(***************************************************************************)

\* execute returns or raises: no worker waits for another.
Terminates == <>Ended

\* A claimed shard is settled unless its worker's thread died of an exception.
ClaimedIsSettled ==
  \A s \in Shards :
    status[s] = "in_progress" ~>
      \/ status[s] \in {"done", "error"}
      \/ \E w \in Workers : owner[s] = w /\ pc[w] = "raised"

=============================================================================

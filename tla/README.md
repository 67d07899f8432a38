# Budgeteer in TLA+

Budgeteer routes a coding task to one of three execution strategies (one model
call, the four-role PCIV workflow, a fleet of workers) and spends money on it
under a hard cap. These modules specify what happens to that money and to the
work while threads race, processes share files and steps fail. Line numbers
refer to the repository's files; `PROJECT.json` maps every definition to them.

## 1. The system

| Component | State it keeps | Operations | Hard because of |
|---|---|---|---|
| Budget governor, `budget.py` | dollars recorded, hard cap | `project`, `check_can_start`, `record_spend`, `remaining` | check and record are two critical sections; nothing is reserved |
| Fleet strategy, `strategies/fleet.py` | abort event, one result list per thread, run id | `execute`, worker loop, residue block | N threads, an abort flag, exceptions that end one thread |
| Worker, `fleet/worker.py` | none | `run_shard` | answer, row, result and spend are written one after the other |
| Shard ledger, `fleet/ledger.py` | SQLite tables `runs`, `shards`; a lock per object | `record_run`, `add_shard`, `claim_next`, `complete_shard`, `fail_shard`, `finalize_run` | SELECT then UPDATE, several processes on one file, crashes |
| Worktrees, `fleet/worktree.py` | directories on disk | `provision`, `cleanup` | clean-up on every exit path |
| Shard planning, `fleet/sharding.py` | none | `plan_shards` | must count as the classifier does |
| Cross-run cap, `cli.py` and agentcore's ledger | rows of a SQLite file, by window | preflight, record, override | look once before, write once after; windows change; runs break |
| SWE-bench harness, `bench/swe_bench/runner.py` | arm records, capped budget | checks, loop over instances and arms, summaries | re-reads the window after each arm; percentiles of short lists |
| Router and policy, `router.py`, `policy.py` | a governor per router | `route_only`, `run`, `route` | decision order; forced routes bypass it |
| Single agent and PCIV, `strategies/*.py`, `adapters/pciv_adapter.py` | none | `execute` | projection, degradation, overshoot, exception paths |
| Pricing and projection, `pricing.py`, `budget.py` | table, coefficients | `cost`, `project`, `_apply_swaps` | rule order, protected roles, integer shares |
| Classifier, `classifier.py`; `_scan_repo`, `cli.py` | word lists | `extract_features` | text heuristics at thresholds |
| Learned policy, `learning.py` | a trained tree | `train_policy`, `route` | scikit-learn's |
| Live micro-bench, `bench/live` | cassette file, cursor, a day's ledger | record, replay, save | one adapter without locks used by several threads; exceptions the strategies swallow |
| Adapters, telemetry, redaction | clients, spans, counters | vendor calls, exports | time-outs and retries |

A run: `budgeteer run` looks at the cross-run window, builds a `Router` whose
governor is capped by what is left, the router picks and executes a strategy,
and a `finally` writes the cost to the window. The fleet strategy projects the
cost, checks the governor, writes its shards to the ledger and starts
`max_workers` threads. Each thread repeats: look at the abort event; check the
governor for one shard's share; claim a shard; provision a worktree; call the
model; write the row; append the result; record the cost; clean up.

What makes each part correct:

* governor and fleet: the cap is passed by a bounded amount and never when calls
  keep to their estimate; the governor, the rows, the results and the bill agree;
  no thread is admitted after the abort; nothing is left on disk; execute ends;
* ledger: a shard has one worker, is settled once, is not skipped while pending;
* cross-run: a window's rows and a window's real charges are bounded, and each
  charged dollar is in exactly one row or known to be lost;
* routing: what the classifier counts is what the fleet runs; a tight budget is cheap;
  rules degrade in order; what was billed is recorded, whatever execute meets;
* cassettes: the ledger and the tape hold the same calls; a replay keeps the recorded
  order; a green replay stands for the recorded run and for no other;
* harness: every arm has a record of every instance, on real problems when live, each
  failure is in one bucket, and all arms together keep to the window's cap.

The section "hazards" of `PROJECT.json` lists, line by line, what is hard to test.

## 2. Modules

| Module | Models |
|---|---|
| `BudgetGovernor` | `spent`, `Remaining`, `CanStart`, `RecordSpend`; no behaviour of its own |
| `Projection` | `project`: what a plan costs and how the rules degrade it, as operators on the governor's state |
| `StrategyContract` | what any strategy promises about money: a result reports what was recorded |
| `ShardQueue` | the ledger's promise: rows, atomic `Claim`, `CompleteShard`, `FailShard`, and `QueueSpec` |
| `ShardLedger` | `claim_next` statement by statement, with the lock of each process, busy time-outs and crashes; implements `QueueSpec` |
| `Fleet` | `FleetStrategy.execute`: the main thread and the workers; uses `BudgetGovernor` and the atomic operations of `ShardQueue` |
| `Classifier` | `_scan_repo` and `extract_features`, over tasks made of words and repositories made of files |
| `ShardPlanning` | `plan_shards` over the same tasks |
| `Routing` | `Router.run`, the policy, the single-agent and PCIV strategies and pciv's runner, one task after another; uses `Classifier`, `ShardPlanning` and `Projection`; implements `StrategyContract`, as `Fleet` does |
| `CrossRun` | processes sharing a window's cap; a strategy is reduced to what `Fleet` shows of its spend |
| `SweBench` | the harness's `run`: checks, arms, records, summaries; its ledger steps are those of `CrossRun`, whose other processes run beside it |
| `Cassette` | `RecordingAdapter`, `CassetteAdapter`, `Cassette.save` and the live runner, under a pool of threads |
| `MCFleet`, `MCShardLedger`, `MCRouting`, `MCCrossRun`, `MCCassette`, `MCSweBench` | values for TLC |
| `FleetProofs`, `FleetOutcomeProofs`, `ShardLedgerProofs`, `RoutingProofs`, `CrossRunProofs`, `CassetteProofs`, `SweBenchProofs` | theorems |
| `SumProofs` | lemmas about sums: a fold of + is a number of things |

**Fleet.** `phase` is where the main thread is, `pc[w]` where worker w's thread
is: the names are those of the next thing the loop of `_one_worker` does
(`check`, `preflight`, `stop`, `claim`, `provision`, `call`, `complete` or `fail`,
`record`, `cleanup`). A step is the code between two points where another thread can see or
change shared state, so `check_can_start`, `record_spend` and each ledger call
are one step each. `complete_shard` and the `local.append` after it are one step,
as the list is the thread's own until the pool is joined. `Faults` says which
exceptions the environment raises: "ledger" (SQLite) or "disk" (worktrees). An
adapter that raises is always possible. The claim is atomic here because every
worker of a run shares one ledger object and its lock; `ShardLedger` drops
that assumption. Python's `sum` of results and costs is kept in running totals.

**ShardLedger.** `Select` takes the lock of the worker's process and remembers
the row, `UpdateWon` and `UpdateLost` are the two outcomes of the conditional
UPDATE, `Busy` is "database is locked", `Crash` ends a process between two
autocommitted statements. A `worker_id` is unique in the model; in the code it is
unique within a run, and a shard's row belongs to one run. Crashed processes do
not come back: no code resumes a run.

**Classifier, ShardPlanning.** A task is a sequence of sentences, a sentence of clauses,
a clause of words, cut where the code's patterns cut (the dot of a path is such a cut, and
its suffix becomes a word). A lexicon stands for the patterns and word lists: it says
of a word whether it is a path, an imperative, a reasoning word and so on. What the code
computes from there is kept: which of several signals decides, the clamps, the integer
divisions, the first three words of a clause. Scores are in hundredths.

**Routing.** `Route` is `route_only`, from the task's words and the repository's files;
`BuildRaises` is `_build_strategy` without an
SDK, a key or the pciv package; `Refuse`, `ConfigMissing`, `ProjectionRaises` and `Start`
are the ways `execute` can go before its calls; `SingleAnswers`, `CallFails`, `PCIVRefuses`,
`PCIVRuns`, `PCIVReports`, `FleetReturns` and `FleetRaises` those after. `PCIVRuns` is
`build_default_runner`'s `_run`, whose pipeline may also raise after its calls, even after
a merge; what pciv does in between is external. Nothing runs beside a task, so a
step may hold several calls, as the answer and its record. The rule list and
plan.yaml are chosen at the start and stay. `projection` is what the governor was asked
about, `ran` what was called: they differ for PCIV. Nothing in the repository gives a router two
tasks today; its interface allows it, and a second task is how the model reaches
a router with little or nothing left. `billed` and `base` are histories.

**CrossRun.** `Admit` is the preflight plus the capped budget, `Charge` the
strategy's calls under `effective`, `Returns` the `finally`, `ArmReturns` and
`ReRead` the harness's loop body. `NextWindow` is midnight or the month's end.
The persistent ledger itself is agentcore's: `RecordRow` writes the row and then
perhaps complains, as cli.py:415-420 relies on. A command-line run with the
override writes forced rows, which reduce the remainder but are not bounded.
Histories `charges` and `unbooked` exist for the properties only.

**SweBench.** `Refuse` and `Start` are the checks before the first arm. With a ledger
`ArmReturns` and `LookAgain` are `CrossRun`'s `ArmReturns` and `ReRead` together with the
record; without one `ArmUnledgered` is an arm in one step. `MayEnd` says which results a
strategy under a given cap can give, in the words of its error that `_classify_failure`
looks for. A PCIV without a plan file ends before any runner is called, stubbed or live, with an error
that has none of these words (`ConfigMissing`, pciv.py:77-81): policy.yaml points to a checkout beside
the repository, so this is how the `pciv` arm ends without one, in the bucket "infra-error". `instance` and `arm` are where the two nested loops are, `records` is `arm_records`,
`Ranked(values, k)` the k-th of the sorted values. An arm's cost stands for tokens and seconds too. A record's
window and the version of its problem are histories.

**Cassette.** A thread's step is the code between two reads or writes of the shared
adapter or ledger: the append to the tape, the reading of the totals and their
replacement are three steps, the cursor's test, its reading and its storing are three.
`SettleFailed` is the strategies' `except Exception`, through which a refused charge and a
mismatch both go. `FinishLive` therefore saves in every case: no `BudgetExceeded`
reaches `run_live`. The task's prompts, its model and the policy's model are inputs; the
policy's may change between two runs. `save` rewrites a prompt that holds a secret. A
run may be interrupted at any point, after which nothing is saved.

Money is an integer in all of them; no property depends on float rounding.

## 3. Runs

| Run | Question | Bounds |
|---|---|---|
| `MCFleet` | Can the cap be passed, by how much, do the books agree, is the contract kept? | 2 workers, 3 shards, share 1, calls cost 0..3, cap 4, 0, 1, 2 or 5 already spent, a ledger that may fail |
| `MCFleetFaults` | When SQLite and the disk fail, do rows and results match, does execute end, is each claim settled? | 2 workers, 3 shards, all faults, calls cost 0..2, cap 3, no symmetry |
| `MCFleetEstimate` | If no call exceeds its share, is the cap exact and every shard worked on? | 3 workers, 4 shards, share 2, cap 8 = exactly the projection |
| `MCShardLedger` | Does the two-statement claim keep the queue's promise and end? | 3 workers in 2 processes, one may crash, 3 shards |
| `MCRouting` | Is a task classified, routed, projected, degraded, refused, billed and reported as the parts promise? | 2 tasks, 10 texts, 3 repositories, 2 latencies, 6 rule lists, 5 plan files, 5 costs around the cap of 30 |
| `MCCrossRun` | What do a window's rows and real charges add up to? | a command line and a harness, cap 2, overshoot 1, budgets 1 and 3, 2 windows, 4 runs |
| `MCCassette` | What do tape, totals and ledger hold, what does a green replay mean, does every run end? | 2 threads, 3 shards with different or repeated prompts, 2 models, answers of 1 or 2 units, a day's cap of 3, 2 runs |
| `MCSweBench` | What does the harness refuse, record, count and spend? | 2 arms, 0 or 2 instances, 4 problem files, stubbed or live, with or without a cap, another process, 2 windows |
| `MCRoutingDegraded`, `MCCrossRunShared`, `MCCrossRunPartial`, `MCCassetteBreach` | a sentence of the repository that the code does not keep | as small as shows it |

The bounds make the interesting cases happen: fewer workers than shards (a
worker comes back for a second shard), calls dearer than their share, a cap
that ends in the middle, a cap spent before the run, two processes between each other's SELECT
and UPDATE, a run over a window's end, a harness whose remainder is taken by
another process. In `MCRouting` each threshold is met and missed by some text and repository,
the rule lists hold a chain in both orders, a cycle and a target without a price, and
the second task starts anywhere from an untouched to an exhausted cap. In `MCCassette` two runs are a
recording and its replay, or a recording over another; three calls of the cheap model fit the day's cap, two large ones do
not; two runs are too few for the replay of a single agent's refused recording, which
`RecordingsRoundTrip` covers. In `MCSweBench` an arm has two records, so the halves of its percentiles differ, and an empty
list has none. The only
artificial bounds are `NumShards`, `MaxCost`, `MaxTasks`, `LastWindow`, `MaxRuns` and
`OtherRuns`. Workers are interchangeable, and `MCFleet` and `MCFleetEstimate`, which check no
liveness, use their symmetry.
Deadlock is checked in every run: the states in which the program rests have an
explicit `Idle` or `Rest` step.

**Fairness.** `Fleet`, `ShardLedger` and `Cassette` assume that every thread that can run
eventually does, and the main thread that waits for them. That an adapter call ends is justified by the clients'
60-second time-out and two retries (anthropic_adapter.py:63-86, azure_openai_adapter.py:41-65), that a SQL
statement is answered within `busy_timeout` (ledger.py:75). Nothing is assumed to fail or crash.
`CrossRun`, `Routing` and `SweBench` assume no fairness at all: nobody need ever start a run.

### What the violation runs show

* `DegradedPlanRuns`: the governor admits PCIV on the cost of a degraded plan, and the
  runner, given only plan.yaml's path, runs the one that was too dear.
* `ProcessesShareCap`: two runs that look together spend the window twice.
  `WindowBound` is what holds.
* `PartialRunsCount`: a run that raises books 0.0. `BooksBalance` says where each
  dollar is, `unbooked` being those lost this way.
* `BreachWritesNothing`: a charge the ledger refuses is caught by the strategy, and the
  cassette is saved without that call. `TapeIsPaid` and `SingleRoundTrip` are what holds:
  such a cassette holds only paid calls, and replays as the failure it was.

### Other places where the texts and the code differ

These were met while modelling. No run is about them: the first two follow from the
properties named, the others are outside what a property here would show.

* The comment at fleet.py:88-92 presents the per-shard check as a ceiling for each worker
  "before it makes its model call". It reserves nothing, so calls dearer than their share pass
  the cap by one call per worker (`RealSpendBound` is what holds).
* ADR-0003 (:45-47, :65) keeps a failed worker's worktree on disk for the user to inspect; the
  `finally` of `_one_worker` (fleet.py:213-218) removes every worktree. `WorktreesReturned`, a
  theorem, contradicts the ADR in every run with a failed shard and a working disk.
* cassette.py:50-52 and bench/live/README.md speak of strategies that make several calls.
  A fleet's tape is in the order the calls were answered, and another schedule asks in
  another order: a replay of a clean recording may be red. It is never wrongly green.
* bench/live/README.md:58-61 lists among the assertions that the policy would pick the task's
  strategy; runner.py:309-313 leaves it out of `success` and notes it only.
* live/runner.py:16 says the cap refuses "BEFORE a second over-cap call would be issued"; the
  charge comes after the provider has answered, so a refused call has been billed.
* A task without paths is projected for the classifier's estimate of files and run as one
  shard per sentence; only tasks that name their files agree (`ProjectionMatchesShards`).
* docs/configuration.md:100 has `trigger_ratio` in (0, 1]; `load_degradation` takes any. With a
  ratio above 1 a task that does not fit is refused without the rules being tried. This came out of
  an attempt to prove `RefusedOnlyIfNothingFits` for any ratio, and TLC shows it with a ratio of
  1.5; the property now says up to which ratio it holds (`RatioAtMostOne`).
* `_role_plan_for` of bench/runner.py gives a fleet plan four worker roles, where the strategy
  projects one: its projected fleet cost is not the strategy's.

## 4. Proofs

Every safety property of every passing run is a theorem, for every value of the constants; the
assumptions are the named ASSUMEs of the modules. They say what the code or its interpreter
gives: finite sets of workers and processes, natural numbers as amounts, prices and sizes
(`PricesAssumption`, `CoefficientsAssumption`, `ReposAssumption`), a trigger ratio with a denominator, arms that differ, a plan
file that names the four roles it is read for (`PlansAssumption`). Texts, rule lists, repositories, problem
files and thresholds are arbitrary.

**SumProofs.** Many properties compare sums, which the modules write as folds.
`SumIsCount` says that a fold of + over a finite set is the cardinality of a set of units, so many for
each member; the prover knows cardinalities. It is proved by a smallest counterexample, a finite set
or a number (`SmallestSubset`, `LeastNumber`), as the library's induction theorems cannot be
instantiated here. From it: a sum changes by what one member changes (`SumChanges`), grows with a new
member (`SumGrows`), and is monotonic. Each of the proofs below that adds up goes through these lemmas.

**FleetProofs.** `TypeCorrect` by one step per action. `SpendIsBounded` needs an
inductive invariant that counts (`SpendInv`): a worker between its admission and its
record can still add one call, so `spent` plus `MaxCost` for each such worker stays
under the bound as long as somebody may be admitted; the set of workers in flight
is compared by cardinality. `AbortIsFinal` needs that the abort was set by a worker
for which the preflight failed, that `spent` never falls, and that the share stays
the same: so the preflight fails for all from then on. `BackstopNeverFires` rests on
`totalCost = alreadyRecorded`, an invariant of `AddResult`. `EstimateKeepsCap`
needs shards rather than workers: each shard is charged at most once, so the
charges are bounded by the projection the first preflight has admitted.

**FleetOutcomeProofs.** `RealSpendIsBounded` must compare what is billed with what is
recorded while workers hold answers they have not recorded or have lost them for good.
`BillInv` gives each worker what it still owes the governor (`Due`) and what it leaves of one
whole call (`Slack`), and bounds `billed` from both sides by their sums.
`WorktreesAreReturned`: a directory belongs to the shard in a
worker's hands and to a place in the loop from which the clean-up is still to come (`TreeInv`).
`EstimateFinishesShards`: as long as a shard is pending its share is affordable, by `BillInv` and the invariant of
`EstimateKeepsCap`, so no worker has resigned (`QueueInv`), and a claimed one is in its owner's
hands or the owner's thread is dying (`SettleInv`), which ends in `raised`.
`RowsMatchResults`: a row is settled by the step that appends its result, and nobody else
has the shard in hand (`ResultInv`). `BooksCloseInAgreement` adds what each worker has noted in its
results and not yet recorded (`Owed`): spent plus that is what the run started with plus its results
(`BooksInv`), and the results cost what the rows say (`RowsInv`); when all have returned nothing is owed.
With that every step of a fleet is a step of the contract or leaves it alone (`FleetKeepsContract`).

**ShardLedgerProofs.** The inductive invariant adds two facts to the types:
while the rows a worker selected is at the update, no smaller row is pending
(`NoneBefore`), and a worker that works owns its row (`WorksOnOwn`). The second gives
`OneWorker`; both show that each step of `Spec` is a step of `QueueSpec`
or leaves the rows alone (`LedgerImplementsQueue`, the refinement mapping is the
identity on the rows). `ShardsTypeCorrect` is part of the invariant. `NoneIsTheEnd` holds of each step: a worker
ends its loop in a SELECT that found nothing, and in no other step.

**CrossRunProofs.** A window is bounded because every row is written by a process
that started when the remainder was positive. The invariant (`BookInv`) says: the rows of a
window and what the processes in flight may still add together are at most one
cap and overshoot per process, a sum over the processes (`Sums`). `BooksAlwaysBalance` is the equation beside it:
what was charged in all windows is what was booked, what broken runs lost and what is in flight (`Balance`);
a row may land in a later window than its charges, so it holds of the sums over windows only.

**SweBenchProofs.** `BenchInv` follows the two loops: how many records an arm has is fixed by where
they are, and the k-th record is of instance k and honest (`RecordsInv`); the report is what `Report` said
when it was written (`ReportInv`). `ReportIsComplete` is read off it. `HistogramIsComplete`: each record is in one class of
`Modes`, and the sizes of the classes add up to the number of records (`SumOfClasses`). `HarnessStaysInCap` is not
`WindowIsBounded` with one process, which would allow one overshoot per process: it needs
that the harness's rows are among the window's (`RowsInLedger`), and that the cap of the arm at work, plus
what the harness has booked in the window it may end in, is within the cap (`RoomLeft`), although another
process books in between and midnight may pass (`CapAtMidnight`). `PercentilesAlwaysSplit`: a value of
rank k exists and has fewer than k values below (`RankedExists`, `RankedIsRanked`), a percentile is between two
neighbouring ranks (`Between`), and the median's and the tail's positions in a list of n bound the
numbers above and below; the arithmetic of the positions is a lemma of its own (`PositionBounds`).

**CassetteProofs.** `CassetteTypeCorrect` needs the pool (`PoolInv`: who has which shard, and that
nothing is left between runs) and that an answer is one the adapter may give (`AnswerInv`).
`ReplayKeepsOrder` looks as if it needed a lock. It holds because a worker between the call it was
handed and the stored cursor has the prompt of the call at the cursor; if prompts differ
only one worker can have it, so there is one such worker at a time and everybody else
meets a mismatch (`OrderInv`). `GreenIsFaithful` follows a prompt back: answered
in the replay, so on the file, so on the tape of the run that wrote it and not rewritten,
so asked by that run, of its model (`ReplayInv`, `FileInv`, `TapeInv`).
`TapeAlwaysPaid`: the ledger is ahead of the tape by the calls charged and not appended (`PaidInv`).
`TotalsStayBehind` must allow for lost updates: a worker may have read totals that others have replaced since. What it read,
like the totals themselves, is behind the tape by at least the calls that nobody has counted (`CountedInv`), so
writing it back can lose calls and never add any; for a single agent it is an equation.
`RecordingsRoundTrip` splits a single-agent run into where its one call is (`SingleRun`), what a recording
has by then (`SingleRecording`), what a replay has found (`SingleReplay`) and what the file says of
the run that wrote it (`SingleFile`).

**RoutingProofs.** Two theorems are about money alone and need nothing of texts, prices, rules or
policy. They rest on one fact about the time before `execute` ends
(`Untouched`): nothing has been recorded for the task yet, its calls are only made
when something was left, and what is billed is in the report on its way. Each way out then
records and reports the same amount: `BillsAreRecorded`, and every step is a step of
`StrategyContract` (`RoutingImplementsContract`).

The others are about what is computed. That a recursive function on an index is a function, with the values its
equation says, is not given and is proved from the least index at which it might fail
(`IndexRecursion`). So the words of a text are a sequence of words (`FlattenType`), a
task has features of the right types (`FeaturesType`), the rules take a role through stages
(`StagesUnfold`): a role every rule protects stays as it was (`StagesProtect`), a model no later rule makes is
one no later rule has taken (`StagesReplace`), and rules that only make cheaper make the plan no dearer
(`SwappedCostsNoMore`). `PlanInv` says along the run that what is projected is the first plan or what the rules made of it
(`Degraded`), that a tight budget was routed to the fallback (`TightRoute`), what a single agent ran (`RanAsPlanned`) and
why a task was refused (`Refused`). `RefusalsAreJustified` then is arithmetic: a plan not degraded although it
does not fit was under the trigger, which a ratio up to 1 rules out. `ProjectionsMatchShards` is about the text:
the paths kept in order are as many as the paths (`UniquePathsAre`), all different, and both
sides cut them off at the same maximum (`ShardsOfPaths`).

**Only model-checked.** `Terminates`, `ClaimedIsSettled`, `EveryWorkerEnds` and `RunsEnd`: liveness under
fairness, which the prover cannot handle. The violation runs, which are counterexamples. What the
shards of a task without paths are (the sentences `SelectSeq` keeps) is neither a property nor proved.

## 5. Not modelled

* Text: what the regular expressions match, redaction patterns, prompts, JSON and YAML.
* The Anthropic and Azure adapters beyond "answers at a cost, or raises". A call that times out
  on the client and is billed all the same is taken as free, as `run_shard` takes it: the code does not see it.
* The pciv package: its pipeline, gates and governor are behind `PCIVRuns`.
* The learned policy: no router or command asks it for a route; it trains a scikit-learn
  tree and writes it to disk.
* Telemetry, log formatting and redaction: no component reads what they write.
* The decision-tree bench (bench/runner.py): it scores the policy and the projection on
  fixed tasks and keeps no state.
* Reading the clock, except for the window.

## 6. Plan

1. *(done)* `BudgetGovernor`, `ShardQueue`, `Fleet`, `ShardLedger`, `CrossRun`,
   `Projection`, `StrategyContract`, `Routing`, and the first theorem of each component.
2. *(done)* `Cassette`, `SweBench`, `Classifier`, `ShardPlanning`, pciv's runner in
   `Routing`, and the theorems of `FleetOutcomeProofs` and `CassetteProofs`.
3. *(done)* The sums of `SumProofs`, and with them a theorem for every safety property a
   passing run checks, `SweBenchProofs` among them.
4. What a theorem could still add to the runs. Links between modules that share no
   variables: that the spend `CrossRun` lets a run have (`Overshoot` over its cap) is what `Fleet`'s
   `RealSpendBound` leaves, with `MaxCost` per worker for the overshoot; that `SweBench` with a ledger
   and the harness's own variables hidden is a behaviour of `CrossRun`, so that its theorems hold beside
   a harness (without a ledger `Start` sets a budget only, which is no step of `CrossRun`). The shards of a task without paths, that no sentence is run twice and none is
   lost below the maximum.

------------------------------- MODULE Routing -------------------------------
(***************************************************************************)
(* Router.run of router.py: one task after another under one governor.     *)
(* The repository is scanned and the task classified (module Classifier),  *)
(* the policy picks a strategy and a model, the strategy projects its plan *)
(* (module Projection), asks the governor, calls its models and records    *)
(* what they cost.  The single-agent and the PCIV strategy are here step   *)
(* by step; a fleet's run (module Fleet) is its spend and its outcome.     *)
(***************************************************************************)
EXTENDS Projection, ShardPlanning

CONSTANTS
  TaskTexts,     \* tasks that may be asked
  Repos,         \* repositories they may be asked of
  Latencies,     \* latency targets
  Forces,        \* strategies --force-strategy may name
  Thresholds,    \* the `routing` block
  ModelDefaults, \* the `model_defaults` block: [primary, fallback, planner, worker]
  SwapLists,     \* rule lists the `degradation` block may hold
  PlanFiles,     \* what may be at pciv's config_path: [state, models]
  Costs,         \* what a strategy's calls may cost
  MaxTasks       \* bound: tasks given to one router

Strategies == {"single", "pciv", "fleet"}
PCIVRoles  == {"planner", "critic", "implementer", "verifier"}

ASSUME TasksAssumption ==
  TaskTexts \subseteq Seq(Seq(Seq(DOMAIN Lexicon))) /\ MaxTasks \in Nat \ {0}
ASSUME ReposAssumption ==
  \A repo \in Repos : /\ IsFiniteSet(repo.files)
                     /\ \A f \in repo.files : f.size \in Nat \cup {NoSize}
ASSUME ForcesAssumption == Forces \subseteq Strategies
ASSUME SwapsAssumption  == \A rules \in SwapLists : rules \in Seq(Range(rules))
ASSUME PlansAssumption  ==
  \A p \in PlanFiles : p.state = "file" => DOMAIN p.models = PCIVRoles
ASSUME CostsAssumption  == Costs \subseteq Nat

VARIABLES
  swaps,       \* _degradation.swaps
  planFile,    \* pciv's plan.yaml
  tasks,       \* tasks accepted so far
  phase,       \* where Router.run is
  task,        \* its text
  features,    \* its features
  decision,    \* RouteDecision
  projection,  \* CostProjection
  ran,         \* the models called, by role
  outcome,     \* how execute ended
  report,      \* PCIVRunReport of the pciv run
  reported,    \* cost_usd of its StrategyResult
  billed,      \* history: what the providers charged for the task
  base         \* history: the spend when the task was accepted

files   == << swaps, planFile >>
request == << task, features, decision, tasks, base >>
money   == << spent, billed >>
result  == << outcome, report, reported >>
vars    == << money, files, request, phase, projection, ran, result >>

NoDecision   == [strategy |-> "none", model |-> "none", reason |-> "none"]
NoProjection == [plan |-> << >>, degraded |-> FALSE, cost |-> 0]
NoFeatures   == << >>
NoTask       == << >>
NoReport     == [cost |-> 0, success |-> FALSE]

Outcomes == {"none", "refused", "failed", "over_cap", "unsuccessful", "succeeded"}

TypeOK ==
  /\ spent \in Nat /\ base \in Nat /\ reported \in Nat /\ billed \in Nat
  /\ report \in [cost : Nat, success : BOOLEAN]
  /\ swaps \in SwapLists /\ planFile \in PlanFiles
  /\ tasks \in 0 .. MaxTasks
  /\ phase \in {"idle", "routed", "calling", "reporting", "returned", "raised"}
  /\ outcome \in Outcomes
  /\ task \in TaskTexts \cup {NoTask}
  /\ features = NoFeatures \/ features \in
       [files : Nat \ {0}, coupling : 0 .. 100, tests : BOOLEAN, depth : Nat,
        ratio : [of : Nat, amidst : Nat], tokens : Nat \ {0}]
  /\ decision.strategy \in Strategies \cup {"none"}
  /\ projection.degraded \in BOOLEAN /\ projection.cost \in Nat
  /\ DOMAIN ran \subseteq DOMAIN projection.plan

Init ==
  /\ spent = 0 /\ base = 0 /\ reported = 0 /\ billed = 0 /\ report = NoReport
  /\ swaps \in SwapLists /\ planFile \in PlanFiles
  /\ tasks = 0 /\ phase = "idle" /\ outcome = "none"
  /\ task = NoTask /\ features = NoFeatures /\ decision = NoDecision
  /\ projection = NoProjection /\ ran = << >>

-----------------------------------------------------------------------------
(***************************************************************************)
(* The policy.                                                             *)
(***************************************************************************)
Decide(strategy, model, reason) ==
  [strategy |-> strategy, model |-> model, reason |-> reason]

Single(model, reason) == Decide("single", model, reason)

Large(f)     == f.tokens > Thresholds.largeContext
Reasoning(f) == 100 * f.ratio.of > Thresholds.pcivRatio * f.ratio.amidst /\ f.tests
Spread(f)    == f.files >= Thresholds.fleetFiles /\ f.coupling < Thresholds.fleetCoupling

\* The decision tree below its first two questions.
RouteByShape(f, latency) ==
  IF latency < Thresholds.shortLatency THEN
    IF Reasoning(f) THEN Decide("pciv", ModelDefaults.planner, "short_latency_reasoning")
    ELSE Single(ModelDefaults.primary, "short_latency")
  ELSE IF Spread(f) THEN Decide("fleet", ModelDefaults.worker, "independent_files")
  ELSE IF Reasoning(f) \/ f.depth >= Thresholds.pcivDepth
    THEN Decide("pciv", ModelDefaults.planner, "reasoning_or_deep")
  ELSE Single(ModelDefaults.primary, "default")

\* A faulty variant: the large-context question comes first.
PolicyRouteLargeFirst(f, remaining, latency) ==
  IF Large(f) THEN Single(ModelDefaults.primary, "large_context")
  ELSE IF remaining < Thresholds.tightBudget
    THEN Single(ModelDefaults.fallback, "tight_budget")
  ELSE RouteByShape(f, latency)

\* Policy.route: the tight-budget question comes first.
PolicyRoute(f, remaining, latency) ==
  IF remaining < Thresholds.tightBudget
    THEN Single(ModelDefaults.fallback, "tight_budget")
  ELSE IF Large(f) THEN Single(ModelDefaults.primary, "large_context")
  ELSE RouteByShape(f, latency)

\* _forced_decision
ForcedDecision(strategy) ==
  Decide(strategy,
         CASE strategy = "single" -> ModelDefaults.primary
           [] strategy = "pciv"   -> ModelDefaults.planner
           [] strategy = "fleet"  -> ModelDefaults.worker,
         "forced")

\* route_only
Route ==
  /\ phase = "idle"
  /\ task' \in TaskTexts
  /\ \E repo \in Repos : features' = ExtractFeatures(task', ScanRepo(repo))
  /\ \/ \E l \in Latencies : decision' = PolicyRoute(features', Remaining, l)
     \/ \E s \in Forces : decision' = ForcedDecision(s)
  /\ tasks' = tasks + 1 /\ phase' = "routed"
  /\ UNCHANGED << money, files, base, projection, ran, result >>

\* _build_strategy raises: an SDK, its key or the pciv package is missing.
BuildRaises ==
  /\ phase = "routed"
  /\ phase' = "raised"
  /\ UNCHANGED << money, files, request, projection, ran, result >>

-----------------------------------------------------------------------------
(***************************************************************************)
(* execute, up to the calls.                                               *)
(***************************************************************************)

\* _resolve_models of pciv.py: plan.yaml, or the defaults written there.
PCIVModels ==
  IF planFile.state = "file" THEN planFile.models
  ELSE [planner     |-> "azure-reasoning", critic   |-> "azure-reasoning",
        implementer |-> "azure-codegen",   verifier |-> "azure-reasoning"]

\* The role_model_plan a strategy projects.
FirstPlan ==
  CASE decision.strategy = "single" -> [primary |-> decision.model]
    [] decision.strategy = "pciv"   -> PCIVModels
    [] decision.strategy = "fleet"  -> [worker |-> decision.model]

Projected == Project(decision.strategy, features, FirstPlan, swaps)

\* The models a strategy then calls.  pciv loads plan.yaml itself, so what it
\* runs is the plan as it was projected first; it runs nothing if that fails.
ModelsCalled ==
  IF decision.strategy # "pciv" THEN Projected.plan
  ELSE IF planFile.state = "file" THEN planFile.models
  ELSE << >>

Projects == phase = "routed" /\ ~ ProjectRaises(decision.strategy, features, FirstPlan, swaps)

\* A KeyError of the pricing table leaves execute.
ProjectionRaises ==
  /\ phase = "routed" /\ ProjectRaises(decision.strategy, features, FirstPlan, swaps)
  /\ phase' = "raised"
  /\ UNCHANGED << money, files, request, projection, ran, result >>

\* check_can_start raises.
Refuse ==
  /\ Projects /\ ~ CanStart(Projected.cost)
  /\ projection' = Projected
  /\ phase' = "returned" /\ outcome' = "refused"
  /\ UNCHANGED << money, files, request, ran, report, reported >>

NoPlanFile == decision.strategy = "pciv" /\ planFile.state = "missing"

\* PCIV without a plan.yaml: only now is that a failure.
ConfigMissing ==
  /\ Projects /\ CanStart(Projected.cost) /\ NoPlanFile
  /\ projection' = Projected
  /\ phase' = "returned" /\ outcome' = "failed"
  /\ UNCHANGED << money, files, request, ran, report, reported >>

Start ==
  /\ Projects /\ CanStart(Projected.cost) /\ ~ NoPlanFile
  /\ projection' = Projected
  /\ ran' = ModelsCalled
  /\ phase' = "calling"
  /\ UNCHANGED << money, files, request, result >>

-----------------------------------------------------------------------------
(***************************************************************************)
(* The calls and the record.                                               *)
(***************************************************************************)
Calling(strategy) == phase = "calling" /\ decision.strategy = strategy

\* The adapter raises, or the pciv runner does before it has a pipeline: a failure
\* at no cost.
CallFails ==
  /\ Calling("single") \/ Calling("pciv")
  /\ phase' = "returned" /\ outcome' = "failed"
  /\ UNCHANGED << money, files, request, projection, ran, report, reported >>

\* Faulty variants: the failure of a breached cap reports no cost ...
SingleAnswersUnreported ==
  /\ Calling("single")
  /\ \E c \in Costs :
       /\ RecordSpend(c) /\ billed' = c
       /\ outcome' = IF RecordRaises(c) THEN "over_cap" ELSE "succeeded"
       /\ reported' = IF RecordRaises(c) THEN 0 ELSE c
  /\ phase' = "returned"
  /\ UNCHANGED << files, request, projection, ran, report >>

\* ... and the report of a pipeline that raised has no cost lines.
ReportOfNoLines(cost, ending) ==
  [cost |-> IF ending = "raised" THEN 0 ELSE cost, success |-> ending \in {"merged", "ship"}]

\* SingleAgentStrategy: the answer is paid for, then compared with the cap.
SingleAnswers ==
  /\ Calling("single")
  /\ \E c \in Costs :
       /\ RecordSpend(c) /\ billed' = c /\ reported' = c
       /\ outcome' = IF RecordRaises(c) THEN "over_cap" ELSE "succeeded"
  /\ phase' = "returned"
  /\ UNCHANGED << files, request, projection, ran, report >>

\* How a pciv run ends: with a status, or with an exception of the pipeline, of its
\* ledger or of the clean-up, which may come after a merge.
Endings == {"merged", "ship", "rejected", "raised"}

\* The runner's report: an exception keeps the lines of pciv's own governor.
ReportOf(cost, ending) == [cost |-> cost, success |-> ending \in {"merged", "ship"}]

\* build_default_runner's _run: plan.yaml is gone by now, or pciv's own governor
\* refuses the ceiling; a report without lines.
PCIVRefuses ==
  /\ Calling("pciv")
  /\ report' = NoReport /\ phase' = "reporting"
  /\ UNCHANGED << money, files, request, projection, ran, outcome, reported >>

\* The pipeline runs, and its report is made.
PCIVRuns ==
  /\ Calling("pciv") /\ planFile.state = "file"
  /\ \E c \in Costs, ending \in Endings : billed' = c /\ report' = ReportOf(c, ending)
  /\ phase' = "reporting"
  /\ UNCHANGED << spent, files, request, projection, ran, outcome, reported >>

\* PCIVStrategy: the report's cost lines are recorded in one sum, if there is
\* any; the report says whether the workflow succeeded.
PCIVReports ==
  /\ phase = "reporting"
  /\ RecordSpend(report.cost) /\ reported' = report.cost
  /\ outcome' = IF report.cost > 0 /\ RecordRaises(report.cost) THEN "over_cap"
                ELSE IF report.success THEN "succeeded" ELSE "unsuccessful"
  /\ phase' = "returned"
  /\ UNCHANGED << billed, files, request, projection, ran, report >>

\* FleetStrategy, as module Fleet describes it: the workers have recorded their
\* calls when execute returns, and a breached cap does not undo a success ...
FleetReturns ==
  /\ Calling("fleet")
  /\ \E c \in Costs : RecordSpend(c) /\ billed' = c /\ reported' = c
  /\ outcome' \in {"succeeded", "unsuccessful"}
  /\ phase' = "returned"
  /\ UNCHANGED << files, request, projection, ran, report >>

\* ... or when it raises, which may lose answers that were paid for.
FleetRaises ==
  /\ Calling("fleet")
  /\ \E c, lost \in Costs : RecordSpend(c) /\ billed' = c + lost
  /\ phase' = "raised"
  /\ UNCHANGED << files, request, projection, ran, result >>

Ended == phase \in {"returned", "raised"}

\* The caller gives the router another task.
NextTask ==
  /\ Ended /\ tasks < MaxTasks
  /\ phase' = "idle" /\ base' = spent /\ billed' = 0
  /\ reported' = 0 /\ outcome' = "none" /\ report' = NoReport
  /\ task' = NoTask /\ features' = NoFeatures /\ decision' = NoDecision
  /\ projection' = NoProjection /\ ran' = << >>
  /\ UNCHANGED << spent, files, tasks >>

\* Or has none left.
Rest == Ended /\ tasks = MaxTasks /\ UNCHANGED vars

Next ==
  \/ Route \/ BuildRaises
  \/ ProjectionRaises \/ Refuse \/ ConfigMissing \/ Start
  \/ CallFails \/ SingleAnswers \/ PCIVRefuses \/ PCIVRuns \/ PCIVReports
  \/ FleetReturns \/ FleetRaises
  \/ NextTask \/ Rest

Spec == Init /\ [][Next]_vars

-----------------------------------------------------------------------------
(***************************************************************************)
(* Properties.                                                             *)
(***************************************************************************)
Contract == INSTANCE StrategyContract
  WITH Cap   <- HardCap,
       phase <- IF Ended THEN phase ELSE "open"

\* Whichever strategy runs, and whichever way execute ends, what the router's
\* result reports is what the governor has recorded for the task, and a task
\* begun on an exhausted cap spends nothing (single_agent.py:78-93 and pciv.py:
\* 119-130 report the cost of a call that breaches the cap).
ImplementsContract == Contract!Spec

\* Every rule's new model is at most as dear as the old one.
Cheapening ==
  \A i \in DOMAIN swaps :
    LET from == swaps[i].from  to == swaps[i].to
    IN  /\ {from, to} \subseteq DOMAIN Prices
        /\ Prices[to].in <= Prices[from].in /\ Prices[to].out <= Prices[from].out

\* docs/configuration.md:100 has the ratio in (0, 1]; load_degradation takes any.
RatioAtMostOne == TriggerRatio.num <= TriggerRatio.den

\* A task is refused only when neither its plan nor the plan the rules make of it
\* fits: degradation is tried, and priced again, before the governor is asked
\* (budget.py:186-211, check_can_start).  With a ratio above 1 that is not so.
RefusedOnlyIfNothingFits ==
  outcome = "refused" /\ Remaining > 0 /\ Cheapening /\ RatioAtMostOne =>
    /\ ~ CanStart(PlanCost(decision.strategy, features, FirstPlan))
    /\ ~ CanStart(PlanCost(decision.strategy, features, Swapped(swaps, FirstPlan)))

\* In a degraded plan a role every rule protects has kept its model, and a role is
\* left on a model that a rule would replace only if that rule or a later one
\* has brought it there (budget.py:213-224: one pass over the rules, in order).
DegradationFollowsRules ==
  projection.degraded =>
    \A r \in DOMAIN projection.plan :
      LET last == projection.plan[r]
      IN  /\ (\A i \in DOMAIN swaps : r \in swaps[i].protect) => last = FirstPlan[r]
          /\ \A i \in DOMAIN swaps :
               last = swaps[i].from /\ r \notin swaps[i].protect =>
                 \E j \in i .. Len(swaps) : swaps[j].to = last

\* On a tight budget the router by itself never calls a model dearer than the
\* fallback, whatever the task (policy.py:113-122).
TightBudgetIsCheap ==
  HardCap - base < Thresholds.tightBudget /\ decision.reason # "forced" /\ Cheapening =>
    \A r \in DOMAIN ran :
      /\ Prices[ran[r]].in  <= Prices[ModelDefaults.fallback].in
      /\ Prices[ran[r]].out <= Prices[ModelDefaults.fallback].out

\* A fleet whose task names its files is projected for the shards it runs, one for
\* each file however often it is named, up to the maximum, so that the share its
\* workers ask the governor for is that of one shard; each shard gets a prompt of
\* its own.  Nothing else keeps sharding.py and classifier.py in step.
ProjectionMatchesShards ==
  decision.strategy = "fleet" /\ Paths(task) # {} /\ Coefficients.fleetMaxShards = MaxShards =>
    LET shards == PlanShards(task)
    IN  /\ OutputTokens("fleet", features) = Coefficients.fleetPerShard * Len(shards)
        /\ Cardinality({shards[i] : i \in DOMAIN shards}) = Len(shards)

\* When a strategy returns, whatever it met on the way, the governor has recorded
\* for the task what the providers charged for it: a pciv run that raised, perhaps
\* after it merged, is paid for too (pciv_adapter.py:152-161, pciv.py:106-121).
BilledIsRecorded == phase = "returned" => spent = base + billed

\* architecture.md:64-67: the governor "applies degradation rules (Opus to Sonnet
\* on non-planning steps) before execution".
DegradedPlanRuns == ran # << >> => ran = projection.plan

=============================================================================

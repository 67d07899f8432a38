------------------------------ MODULE Projection ------------------------------
(***************************************************************************)
(* BudgetGovernor.project of budget.py: what a plan (a model for each role *)
(* of a strategy) would cost, and which cheaper plan replaces it when that *)
(* is too large a part of what is left.                                    *)
(*                                                                         *)
(* Prices are integers per token, and the trigger ratio is a fraction.     *)
(***************************************************************************)
EXTENDS BudgetGovernor, FiniteSets, Sequences, Functions

CONSTANTS
  Prices,        \* Prices[m] = [in, out], for the models of the `pricing` block
  TriggerRatio,  \* [num, den]
  Coefficients   \* the `projection` block

ASSUME PricesAssumption  == \A m \in DOMAIN Prices : Prices[m] \in [in : Nat, out : Nat]
ASSUME TriggerAssumption == TriggerRatio.num \in Nat /\ TriggerRatio.den \in Nat \ {0}
ASSUME CoefficientsAssumption ==
  Coefficients \in [singleBase : Nat, singlePerStep : Nat, pcivMultiplier : Nat,
                    pcivPerStep : Nat, fleetPerShard : Nat, fleetMaxShards : Nat]

Larger(a, b) == IF a > b THEN a ELSE b
Lesser(a, b) == IF a < b THEN a ELSE b

OutputTokens(strategy, f) ==
  LET c == Coefficients
  IN  CASE strategy = "single" -> c.singleBase + c.singlePerStep * f.depth
        [] strategy = "pciv"   -> c.singleBase * c.pcivMultiplier + c.pcivPerStep * f.depth
        [] strategy = "fleet"  -> c.fleetPerShard * Larger(1, Lesser(f.files, c.fleetMaxShards))

\* PricingTable.cost raises KeyError for a model without a price.
Priced(plan) == \A r \in DOMAIN plan : plan[r] \in DOMAIN Prices

\* _sum_cost: the roles share the tokens, except those of the fleet.
RoleCosts(strategy, f, plan) ==
  LET n == IF strategy = "fleet" THEN 1 ELSE Cardinality(DOMAIN plan)
  IN  [r \in DOMAIN plan |->
         LET p == Prices[plan[r]]
         IN  p.in * (f.tokens \div n) + p.out * (OutputTokens(strategy, f) \div n)]

PlanCost(strategy, f, plan) == SumFunction(RoleCosts(strategy, f, plan))

\* A faulty variant for the mutants of PROJECT.json: a rule that forgets whom it
\* protects.
AppliesToAll(rule, role, model) == model = rule.from

\* A swap rule is [from, to, protect]; the policy has a sequence of them.
Applies(rule, role, model) == model = rule.from /\ role \notin rule.protect

\* _apply_swaps for one role: the rules once each, in their order, each on what
\* the rules before it have left.  No rule relates two roles.
Stages(rules, role, model) ==
  LET after[i \in 0 .. Len(rules)] ==
        IF i = 0 THEN model
        ELSE IF Applies(rules[i], role, after[i - 1]) THEN rules[i].to ELSE after[i - 1]
  IN  after

Swapped(rules, plan) == [r \in DOMAIN plan |-> Stages(rules, r, plan[r])[Len(rules)]]

SomeRuleApplies(rules, plan) ==
  \E r \in DOMAIN plan : \E i \in 1 .. Len(rules) :
    Applies(rules[i], r, Stages(rules, r, plan[r])[i - 1])

\* projected > trigger_ratio * remaining
OverTrigger(cost) ==
  Remaining > 0 /\ cost * TriggerRatio.den > TriggerRatio.num * Remaining

Degrades(strategy, f, plan, rules) ==
  OverTrigger(PlanCost(strategy, f, plan)) /\ SomeRuleApplies(rules, plan)

\* A projection that keeps the first plan's cost, for the mutants.
ProjectStale(strategy, f, plan, rules) ==
  LET d == Degrades(strategy, f, plan, rules)
  IN  [plan |-> IF d THEN Swapped(rules, plan) ELSE plan, degraded |-> d,
       cost |-> PlanCost(strategy, f, plan)]

\* The CostProjection that project returns when every model has a price.
Project(strategy, f, plan, rules) ==
  LET d     == Degrades(strategy, f, plan, rules)
      final == IF d THEN Swapped(rules, plan) ELSE plan
  IN  [plan |-> final, degraded |-> d, cost |-> PlanCost(strategy, f, final)]

\* project raises: the plan has a model without a price, or is given one.
ProjectRaises(strategy, f, plan, rules) ==
  IF Priced(plan) THEN Degrades(strategy, f, plan, rules) /\ ~ Priced(Swapped(rules, plan))
  ELSE TRUE

=============================================================================

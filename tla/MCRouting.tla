------------------------------ MODULE MCRouting ------------------------------
(***************************************************************************)
(* Routing for TLC: three priced models and one without a price, amounts   *)
(* of the order of the cap.                                                *)
(***************************************************************************)
EXTENDS Routing, TLC

MCPrices ==
  [m \in {"azure-reasoning", "azure-codegen", "mini"} |->
     CASE m = "azure-reasoning" -> [in |-> 1, out |-> 3]
       [] m = "azure-codegen"   -> [in |-> 1, out |-> 1]
       [] m = "mini"            -> [in |-> 0, out |-> 1]]

MCTriggerRatio == [num |-> 7, den |-> 10]

MCCoefficients ==
  [singleBase |-> 2, singlePerStep |-> 1, pcivMultiplier |-> 4, pcivPerStep |-> 4,
   fleetPerShard |-> 3, fleetMaxShards |-> 3]

MCThresholds ==
  [largeContext |-> 12, tightBudget |-> 26, shortLatency |-> 2, fleetFiles |-> 2,
   fleetCoupling |-> 30, pcivRatio |-> 60, pcivDepth |-> 3]

MCModelDefaults ==
  [primary |-> "azure-reasoning", fallback |-> "azure-codegen",
   planner |-> "azure-reasoning", worker   |-> "azure-codegen"]

MCLexicon ==
  ("design"      :> {"imperative", "reasoning"}) @@ ("debug" :> {"imperative", "reasoning"}) @@
  ("rename"      :> {"imperative", "mechanical"}) @@ ("fix"  :> {"imperative"}) @@
  ("imports"     :> {"import"}) @@ ("shared" :> {"shared"}) @@
  ("independent" :> {"independent"}) @@ ("every" :> {"wide"}) @@
  [p \in {"a.py", "b.py", "c.py", "d.py"} |-> {"path"}] @@
  [w \in {"py", "it", "the", "bug", "0 files", "3 files", "15 files"} |-> {}]

MCCounts == ("0 files" :> 0) @@ ("3 files" :> 3) @@ ("15 files" :> 15)

\* Tasks that meet and miss each threshold.
MCTaskTexts ==
  { \* "fix the bug"
    << << << "fix", "the", "bug" >> >> >>,
    \* "fix a.py, b.py and a.py"
    << << << "fix", "a.py" >> >>, << << "py", "b.py" >> >>, << << "py" >>, << "a.py" >> >>,
       << << "py" >> >> >>,
    \* "fix independent a.py, b.py, c.py, d.py"
    << << << "fix", "independent", "a.py" >> >>, << << "py", "b.py" >> >>,
       << << "py", "c.py" >> >>, << << "py", "d.py" >> >>, << << "py" >> >> >>,
    \* "design the imports. debug it" and the like
    << << << "design", "the", "imports" >> >>, << << "debug", "it" >> >> >>,
    << << << "design", "it" >>, << "rename", "it" >> >>, << << "the", "bug", "it", "fix" >> >> >>,
    << << << "design", "it" >>, << "debug", "it" >>, << "fix", "it" >> >> >>,
    \* "rename 3 files. fix the independent bug"
    << << << "rename", "the", "3 files" >> >>, << << "fix", "the", "independent", "bug" >> >> >>,
    << << << "rename", "0 files" >> >> >>,
    << << << "fix", "15 files", "shared", "imports" >> >> >>,
    << << << "rename", "every", "independent", "bug" >> >> >> }

\* None, one with a directory `tests` and a large file, one with tests and files
\* that are not looked at or cannot be.
MCRepos ==
  LET File(dirs, name, prefixed, size) ==
        [dirs |-> dirs, name |-> name, prefixed |-> prefixed, size |-> size]
  IN  { [path |-> {"repo"}, files |-> {}],
        [path |-> {"repo"}, files |-> {File({"tests"}, "it.py", FALSE, 40), File({}, "a.py", FALSE, 4)}],
        [path |-> {"repo"}, files |-> {File({}, "test_it.py", TRUE, 4),
                                       File({"venv"}, "test_a.py", TRUE, 80),
                                       File({}, "link", FALSE, NoSize)}] }

ToCodegen == [from |-> "azure-reasoning", to |-> "azure-codegen",
              protect |-> {"planner", "critic"}]
ToMini    == [from |-> "azure-codegen", to |-> "mini", protect |-> {"planner"}]

\* No rule, the policy's, a chain in both orders, a cycle, and a rule whose model
\* has no price.
MCSwapLists ==
  { << >>, << ToCodegen >>, << ToCodegen, ToMini >>, << ToMini, ToCodegen >>,
    << ToCodegen, [from |-> "azure-codegen", to |-> "azure-reasoning", protect |-> {}] >>,
    << [from |-> "azure-codegen", to |-> "gpt-4o", protect |-> {}] >> }

PlanOf(planner, others) ==
  [planner |-> planner, critic |-> planner, implementer |-> others, verifier |-> others]

MCPlanFiles ==
  { [state |-> "missing", models |-> << >>], [state |-> "broken", models |-> << >>],
    [state |-> "file", models |-> PlanOf("azure-reasoning", "azure-reasoning")],
    [state |-> "file", models |-> PlanOf("azure-reasoning", "azure-codegen")],
    [state |-> "file", models |-> PlanOf("gpt-4o", "azure-codegen")] }

=============================================================================

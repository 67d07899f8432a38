------------------------------ MODULE SweBench ------------------------------
(***************************************************************************)
(* The SWE-bench harness, bench/swe_bench/runner.py: for each instance it  *)
(* runs every arm (the router, and each strategy forced), notes a record,  *)
(* and at the end summarises the records and writes results.json.  A live  *)
(* harness under a cross-run cap is one of the processes of CrossRun: its  *)
(* steps on the ledger are those of that module, taken together with what  *)
(* it does besides, and the other processes of CrossRun run beside it.     *)
(***************************************************************************)
EXTENDS Integers, FiniteSets, Sequences, Functions

CONSTANTS
  Processes, Harnesses, WindowCap, Overshoot, Budgets, Breakable, LastWindow,
  MaxRuns,        \* the constants of CrossRun
  OtherRuns,      \* bound on the runs of the other processes
  Bench,          \* the harness modelled here
  Arms,           \* the arms, in the order they run
  InstanceCounts, \* how many instances the list may name (after --n)
  ProblemFiles,   \* contents a --problems-file may have: sequences of lines
  NoFile,         \* no --problems-file
  AdapterErrors   \* what an adapter's error text may contain

Strategies == {"single", "pciv", "fleet"}

\* A line is blank, unusable, or a statement of the problem of an instance.
Statement(id, version) == [kind |-> "statement", id |-> id, version |-> version]
Blank == [kind |-> "blank"]
Bad   == [kind |-> "bad"]

Line  == {Blank, Bad} \cup [kind : {"statement"}, id : Nat, version : Nat \ {0}]

ASSUME CapsAssumption   == WindowCap \in Nat /\ Overshoot \in Nat /\ Budgets \subseteq Nat
ASSUME BoundsAssumption == LastWindow \in Nat \ {0} /\ MaxRuns \in Nat /\ OtherRuns \in Nat
ASSUME BenchAssumption  == Bench \in Harnesses /\ Harnesses \subseteq Processes
ASSUME ArmsAssumption   ==
  /\ Arms \in Seq(Strategies \cup {"router"}) /\ Arms # << >>
  /\ \A i, j \in DOMAIN Arms : Arms[i] = Arms[j] => i = j
ASSUME InputsAssumption ==
  /\ InstanceCounts \subseteq Nat
  /\ ProblemFiles \subseteq Seq(Line) /\ NoFile \notin ProblemFiles
  /\ AdapterErrors \subseteq SUBSET {"iterate", "timeout", "reject"}

VARIABLES
  window, booked, forcedBooked, pc, forced, budget, effective, charged, runs,
  charges, unbooked,  \* the variables of CrossRun
  live,         \* --live
  capped,       \* policy.yaml has a cross_run.cap_usd
  instances,    \* length of the instance list
  file,         \* the --problems-file
  phase,        \* where run() is
  instance,     \* the loop over the instances: the number of the one at work ...
  arm,          \* ... and the loop over the arms in it: the number of the next
  records,      \* arm_records: the records of each arm
  payload       \* results.json

CR == INSTANCE CrossRun

loopVars == << instance, arm, records >>
benchVars == << live, capped, instances, file, phase, loopVars, payload >>
ledgerVars == << window, booked, forcedBooked, charges, unbooked >>
processVars == << pc, forced, budget, effective, charged, runs >>
crossRunVars == << ledgerVars, processVars >>
vars == << crossRunVars, benchVars >>

\* The ledger is opened in live mode, when the policy sets a cap.
Ledgered == live /\ capped

ArmNames == Range(Arms)
NextArm  == Arms[arm]
AllDone  == instance > instances
ArmsRun  == (instance - 1) * Len(Arms) + arm - 1

\* The record of an arm's run; `prompt` and `window` are history: the version of
\* the statement the arm was given (0 for a synthetic one) and the window of its
\* row in the ledger.
Modes == {"none", "budget-exceeded", "iterate-exhausted", "timeout", "reject", "infra-error"}
Record == [instance : Nat, success : BOOLEAN, cost : Nat, mode : Modes,
           prompt : Nat, window : 1 .. LastWindow]

TypeOK ==
  /\ CR!TypeOK
  /\ live \in BOOLEAN /\ capped \in BOOLEAN /\ instances \in InstanceCounts
  /\ file \in ProblemFiles \cup {NoFile}
  /\ phase \in {"start", "arms", "refused", "broken", "written"}
  /\ instance \in 1 .. instances + 1 /\ arm \in DOMAIN Arms
  /\ records \in [ArmNames -> Seq(Record)]
  /\ DOMAIN payload \subseteq {"mode", "n", "summary"}

Init ==
  /\ CR!Init
  /\ live \in BOOLEAN /\ capped \in BOOLEAN /\ instances \in InstanceCounts
  /\ file \in ProblemFiles \cup {NoFile}
  /\ phase = "start" /\ payload = << >>
  /\ instance = 1 /\ arm = 1 /\ records = [a \in ArmNames |-> << >>]

-----------------------------------------------------------------------------
(***************************************************************************)
(* Pure functions of the harness.                                          *)
(***************************************************************************)

\* load_problem_statements: the last statement of an instance counts ...
ProblemOf(lines, id) ==
  LET found == {i \in DOMAIN lines : lines[i].kind = "statement" /\ lines[i].id = id}
  IN  lines[CHOOSE i \in found : \A j \in found : j <= i].version

\* ... and an unusable line, or an instance without a statement, is an error.
Loads(lines) ==
  /\ \A i \in DOMAIN lines : lines[i] # Bad
  /\ \A id \in 1 .. instances :
       \E i \in DOMAIN lines : lines[i].kind = "statement" /\ lines[i].id = id

\* Faulty variant: unknown errors have no bucket.
ClassifyKnown(error) ==
  CASE "budget_exceeded" \in error -> "budget-exceeded"
    [] "timeout" \in error -> "timeout"
    [] OTHER -> "none"

\* _classify_failure: the first word the error contains decides.  A result with
\* no error, here the empty set, has no failure mode.
ClassifyFailure(error) ==
  CASE error = {}                  -> "none"
    [] "budget_exceeded" \in error -> "budget-exceeded"
    [] "iterate" \in error         -> "iterate-exhausted"
    [] "timeout" \in error         -> "timeout"
    [] "reject" \in error          -> "reject"
    [] OTHER                       -> "infra-error"

\* Faulty variant: the values are taken in the order the arms ran.
PercentileUnsorted(values, p) ==
  LET n == Len(values)  k == (n - 1) * p  lo == k \div 100  hi == IF lo + 1 < n THEN lo + 1 ELSE n - 1
  IN  100 * values[lo + 1] + (values[hi + 1] - values[lo + 1]) * (k % 100)

\* sorted(values)[k - 1]: no more than k - 1 values are below it, and k or more
\* are not above it.
Ranked(values, k) ==
  CHOOSE v \in Range(values) :
    /\ Cardinality({i \in DOMAIN values : values[i] < v}) < k
    /\ Cardinality({i \in DOMAIN values : values[i] <= v}) >= k

\* _percentile, p in hundredths, of a list that is not empty; the result is in
\* hundredths as well, as the code rounds it afterwards.
Percentile(values, p) ==
  LET n  == Len(values)
      k  == (n - 1) * p
      lo == k \div 100
      hi == IF lo + 1 < n THEN lo + 1 ELSE n - 1
  IN  100 * Ranked(values, lo + 1)
        + (Ranked(values, hi + 1) - Ranked(values, lo + 1)) * (k % 100)

\* The costs of an arm's runs stand for the tokens and seconds they took.
Measured(recs)  == [i \in DOMAIN recs |-> recs[i].cost]
TotalCost(recs) == FoldFunction(+, 0, Measured(recs))

\* summarise_arm: no record, no rate and no percentile.
SummariseArm(recs) ==
  [n        |-> Len(recs),
   resolved |-> Cardinality({i \in DOMAIN recs : recs[i].success}),
   total    |-> TotalCost(recs),
   p50      |-> IF recs = << >> THEN 0 ELSE Percentile(Measured(recs), 50),
   p95      |-> IF recs = << >> THEN 0 ELSE Percentile(Measured(recs), 95),
   modes    |-> [m \in Modes \ {"none"} |-> Cardinality({i \in DOMAIN recs : recs[i].mode = m})]]

-----------------------------------------------------------------------------
(***************************************************************************)
(* One arm of one instance: run_instance_arm.                              *)
(***************************************************************************)

\* PCIV's error when there is no plan file: none of the words looked for is in it.
ConfigMissing == {"config_missing"}

\* What an error says: that the budget refused, that PCIV has no plan file, or what
\* an adapter raised.
Errors == {{}, {"budget_exceeded"}, ConfigMissing}
            \cup {e \cup {"raised"} : e \in AdapterErrors}

\* How a strategy under a governor capped at `cap` may end, having charged `cost`:
MayEnd(strategy, cap, cost, success, error) ==
     \* refused before its first call,
  \/ cost = 0 /\ ~success /\ error = {"budget_exceeded"}
     \* done, which for a fleet it also is with the cap exceeded,
  \/ cap > 0 /\ (cost <= cap \/ strategy = "fleet") /\ success /\ error = {}
     \* over the cap,
  \/ cap > 0 /\ cost > cap /\ strategy # "fleet" /\ ~success /\ error = {"budget_exceeded"}
     \* admitted, without a plan file, stubbed or live: policy.yaml's is in a checkout
     \* beside the repository, which may be there or not,
  \/ cap > 0 /\ strategy = "pciv" /\ cost = 0 /\ ~success /\ error = ConfigMissing
     \* or with an adapter's error: no stub has one, and the PCIV runner is a stub.
  \/ /\ live /\ cap > 0 /\ strategy # "pciv" /\ (strategy = "single" => cost = 0)
     /\ ~success /\ "raised" \in error

\* _result_to_record, less what no summary reads.
ToRecord(cost, success, error) ==
  [instance |-> instance, success |-> success, cost |-> cost,
   mode |-> ClassifyFailure(error),
   prompt |-> IF file = NoFile THEN 0 ELSE ProblemOf(file, instance),
   window |-> window]

\* The router's arm takes what its policy decides, the others what they force;
\* then it is the next arm's turn, or the next instance's.
ArmRecorded(cap, cost) ==
  /\ \E strategy \in IF NextArm = "router" THEN Strategies ELSE {NextArm},
        success \in BOOLEAN, error \in Errors :
       /\ MayEnd(strategy, cap, cost, success, error)
       /\ records' = [records EXCEPT ![NextArm] = Append(@, ToRecord(cost, success, error))]
  /\ IF arm < Len(Arms)
     THEN arm' = arm + 1 /\ instance' = instance
     ELSE arm' = 1 /\ instance' = instance + 1

-----------------------------------------------------------------------------
(***************************************************************************)
(* run().                                                                  *)
(***************************************************************************)
inputs == << live, capped, instances, file >>

\* Faulty variant: a live run falls back on synthetic problems.
RefusedButSynthetic ==
  \/ file # NoFile /\ ~Loads(file)
  \/ Ledgered /\ CR!WindowRemaining = 0

\* The checks before the first arm: a live run needs its problems, each requested
\* instance a statement, and the window something left.
Refused ==
  \/ live /\ file = NoFile
  \/ file # NoFile /\ ~Loads(file)
  \/ Ledgered /\ CR!WindowRemaining = 0

Refuse ==
  /\ phase = "start" /\ Refused
  /\ phase' = "refused"
  /\ UNCHANGED << crossRunVars, inputs, loopVars, payload >>

\* The first arm's cap is the budget, or what the window has left of it.
Start ==
  /\ phase = "start" /\ ~Refused
  /\ phase' = "arms"
  /\ IF Ledgered /\ ~AllDone
       THEN CR!Admit(Bench)
       ELSE /\ \E b \in Budgets : budget' = [budget EXCEPT ![Bench] = b]
            /\ UNCHANGED << ledgerVars, pc, forced, effective, charged, runs >>
  /\ UNCHANGED << inputs, loopVars, payload >>

\* The running arm makes a call that is billed.
ArmCharges ==
  /\ phase = "arms" /\ CR!Charge(Bench)
  /\ UNCHANGED benchVars

\* The arm's record is appended and its cost recorded in the ledger.
ArmReturns ==
  /\ phase = "arms" /\ Ledgered
  /\ CR!ArmReturns(Bench) /\ ArmRecorded(effective[Bench], charged[Bench])
  /\ UNCHANGED << inputs, phase, payload >>

\* The window is read again, for the next arm or for none.
LookAgain ==
  /\ phase = "arms"
  /\ IF AllDone THEN CR!HarnessEnds(Bench) ELSE CR!ReRead(Bench)
  /\ UNCHANGED benchVars

\* An arm without a ledger.
ArmUnledgered ==
  /\ phase = "arms" /\ ~Ledgered /\ ~AllDone
  /\ \E cost \in 0 .. budget[Bench] + Overshoot : ArmRecorded(budget[Bench], cost)
  /\ UNCHANGED << crossRunVars, inputs, phase, payload >>

Report ==
  [mode    |-> IF live THEN "live" ELSE "stub",
   n       |-> instances,
   summary |-> [i \in DOMAIN Arms |-> SummariseArm(records[Arms[i]])]]

\* Every arm of every instance is done: results.json is written.
Finish ==
  /\ phase = "arms" /\ AllDone /\ pc[Bench] = "idle"
  /\ payload' = Report
  /\ phase' = "written"
  /\ UNCHANGED << crossRunVars, inputs, loopVars >>

\* An exception leaves router.run, or the process is killed: the rows stay, there
\* are no results, and what the arm had charged is in no row.
Break ==
  /\ phase = "arms" /\ phase' = "broken"
  /\ IF pc[Bench] = "running" THEN CR!Breaks(Bench)
     ELSE IF pc[Bench] = "reread" THEN CR!HarnessEnds(Bench)
     ELSE UNCHANGED crossRunVars
  /\ UNCHANGED << inputs, loopVars, payload >>

Harness ==
  \/ Refuse \/ Start \/ ArmCharges \/ ArmReturns \/ LookAgain \/ ArmUnledgered
  \/ Finish \/ Break

\* The other processes under the cap, and the calendar, which matter to a harness
\* with a ledger and until it has ended.
Others ==
  /\ Ledgered /\ phase \in {"start", "arms"}
  /\ \/ \E p \in Processes \ {Bench} : CR!Process(p)
     \/ CR!NextWindow
  /\ runs' <= OtherRuns + ArmsRun + (IF pc[Bench] = "running" THEN 1 ELSE 0)
  /\ UNCHANGED benchVars

\* The harness has ended and nobody else need do anything.
Rest == phase \in {"refused", "broken", "written"} /\ UNCHANGED vars

Next == Harness \/ Others \/ Rest

Spec == Init /\ [][Next]_vars

-----------------------------------------------------------------------------
(***************************************************************************)
(* Properties.                                                             *)
(***************************************************************************)
Sums(f) == FoldFunction(+, 0, f)

\* "The histogram never silently drops failures" (_classify_failure): whatever the
\* strategies' errors say, a missing plan file's included, an arm's failure modes add
\* up to its unresolved runs.
HistogramComplete ==
  phase = "written" => \A i \in DOMAIN Arms :
    LET s == payload.summary[i] IN Sums(s.modes) = s.n - s.resolved

\* A report has for each arm one record of each instance, in order, so the arms are
\* compared on the same problems, and in a live one every prompt was a real one.
ReportComplete ==
  phase = "written" => \A i \in DOMAIN Arms :
    /\ payload.summary[i].n = payload.n
    /\ \A k \in 1 .. payload.n :
         /\ records[Arms[i]][k].instance = k
         /\ payload.mode = "live" => records[Arms[i]][k].prompt > 0

\* The percentiles split the runs as their names say, in order, at any length.
PercentilesSplit ==
  phase = "written" => \A i \in DOMAIN Arms :
    LET s == payload.summary[i]
        costs == Measured(records[Arms[i]])
        Above(x) == Cardinality({k \in DOMAIN costs : 100 * costs[k] > x})
        Below(x) == Cardinality({k \in DOMAIN costs : 100 * costs[k] < x})
    IN  /\ s.p50 <= s.p95
        /\ 2 * Above(s.p50) <= s.n /\ 2 * Below(s.p50) <= s.n
        /\ 20 * Above(s.p95) <= s.n + 18

Row(r) == records[r[1]][r[2]]
Rows   == UNION {{a} \X DOMAIN records[a] : a \in ArmNames}

\* What the harness's rows of window w add up to.
HarnessBooked(w) ==
  FoldFunctionOnSet(+, 0, [r \in Rows |-> Row(r).cost], {r \in Rows : Row(r).window = w})

\* "The four arms cannot collectively breach the cap" (run) but for one call over: as
\* each looks at the window after the one before it has recorded, the rows of the
\* whole harness in a window stay within one overshoot of the cap, with other
\* processes at work and a window that ends in the middle of an arm.
HarnessKeepsCap ==
  Ledgered => \A w \in 1 .. LastWindow : HarnessBooked(w) <= WindowCap + Overshoot

=============================================================================

------------------------------ MODULE CrossRun ------------------------------
(***************************************************************************)
(* The cross-run cap of ADR-0005: operating-system processes that share    *)
(* one PersistentBudgetLedger file.  `budgeteer run` (cli.py) looks at the *)
(* window once, runs its strategy under a governor capped by what is left, *)
(* and records the cost in a `finally`; the live SWE-bench harness         *)
(* (bench/swe_bench/runner.py) does so arm after arm and looks again after *)
(* each.  Nothing is reserved between the look and the record.             *)
(*                                                                         *)
(* The strategy is reduced to what Fleet shows of it: under a governor     *)
(* capped at e it charges nothing when e = 0 and never more than e plus an *)
(* Overshoot that depends on its calls in flight.                          *)
(***************************************************************************)
EXTENDS Integers, FiniteSets, Functions

CONSTANTS
  Processes,    \* processes that open the ledger, the harnesses among them
  Harnesses,
  WindowCap,    \* cross_run.cap_usd
  Overshoot,    \* the most a run charges over its own cap
  Budgets,      \* values of --budget
  Breakable,    \* processes whose run may end in an exception or a kill
  LastWindow,   \* bound on the windows modelled
  MaxRuns       \* bound on the runs and arms started

ASSUME ProcessesAssumption ==
  IsFiniteSet(Processes) /\ Harnesses \subseteq Processes /\ Breakable \subseteq Processes
ASSUME AmountsAssumption   == WindowCap \in Nat /\ Overshoot \in Nat /\ Budgets \subseteq Nat
ASSUME BoundsAssumption    == LastWindow \in Nat \ {0} /\ MaxRuns \in Nat

VARIABLES
  window,       \* the current window (day or month)
  booked,       \* booked[w]: sum of the rows of window w with forced = 0
  forcedBooked, \* forcedBooked[w]: sum of its rows with forced = 1
  pc,           \* pc[p]: where process p is
  forced,       \* p \in forced: p was started with --ignore-cross-run-cap
  budget,       \* budget[p]: its --budget
  effective,    \* effective[p]: hard cap of the governor of p's run
  charged,      \* charged[p]: what p's run has charged so far
  runs,         \* number of runs and arms started
  charges,      \* history: charges[w], the dollars charged during window w ...
  unbooked      \* ... and those of ended runs that no row accounts for

ledgerVars  == << window, booked, forcedBooked >>
historyVars == << charges, unbooked >>
procVars    == << pc, forced, budget, effective, charged, runs >>
vars == << ledgerVars, procVars, historyVars >>

Windows == 1 .. LastWindow

TypeOK ==
  /\ window \in Windows
  /\ booked \in [Windows -> Nat] /\ forcedBooked \in [Windows -> Nat]
  /\ pc \in [Processes -> {"idle", "running", "reread"}]
  /\ forced \subseteq Processes
  /\ budget \in [Processes -> Nat] /\ effective \in [Processes -> Nat]
  /\ charged \in [Processes -> Nat]
  /\ runs \in Nat
  /\ charges \in [Windows -> Nat] /\ unbooked \in Nat

Init ==
  /\ window = 1
  /\ booked = [w \in Windows |-> 0] /\ forcedBooked = [w \in Windows |-> 0]
  /\ pc = [p \in Processes |-> "idle"]
  /\ forced = {}
  /\ budget = [p \in Processes |-> 0] /\ effective = [p \in Processes |-> 0]
  /\ charged = [p \in Processes |-> 0]
  /\ runs = 0
  /\ charges = [w \in Windows |-> 0] /\ unbooked = 0

\* remaining_in_current_window: forced rows count as well.
WindowRemaining ==
  LET spent == booked[window] + forcedBooked[window]
  IN  IF spent < WindowCap THEN WindowCap - spent ELSE 0

Smaller(a, b) == IF a < b THEN a ELSE b

\* Faulty variant: the row holds what is left, not what was spent.
RecordRowLeft(amount) ==
  /\ booked' = [booked EXCEPT ![window] = @ - amount]
  /\ UNCHANGED << window, forcedBooked >>

\* record_spend and force_record write their row in the window of the moment.
\* record_spend may complain of the overshoot; its callers swallow that.
RecordRow(amount) ==
  /\ booked' = [booked EXCEPT ![window] = @ + amount]
  /\ UNCHANGED << window, forcedBooked >>

ForceRecord(amount) ==
  /\ forcedBooked' = [forcedBooked EXCEPT ![window] = @ + amount]
  /\ UNCHANGED << window, booked >>

Ends(p) ==
  /\ pc'        = [pc EXCEPT ![p] = "idle"]
  /\ forced'    = forced \ {p}
  /\ budget'    = [budget EXCEPT ![p] = 0]
  /\ effective' = [effective EXCEPT ![p] = 0]
  /\ charged'   = [charged EXCEPT ![p] = 0]
  /\ UNCHANGED runs

\* p's governor gets the given hard cap and its strategy starts.
Starts(p, cap) ==
  /\ runs < MaxRuns /\ runs' = runs + 1
  /\ pc'        = [pc EXCEPT ![p] = "running"]
  /\ effective' = [effective EXCEPT ![p] = cap]

-----------------------------------------------------------------------------
(***************************************************************************)
(* Faulty variants, used only by the mutants of PROJECT.json.              *)
(***************************************************************************)

\* The run keeps its full --budget whatever is left of the window.
AdmitUncapped(p) ==
  /\ pc[p] = "idle" /\ WindowRemaining > 0
  /\ \E b \in Budgets :
       /\ budget' = [budget EXCEPT ![p] = b]
       /\ Starts(p, b)
  /\ UNCHANGED << ledgerVars, historyVars, forced, charged >>

\* The arm after the first keeps the cap of the first.
ReReadSkipped(p) ==
  /\ pc[p] = "reread"
  /\ Starts(p, effective[p])
  /\ UNCHANGED << ledgerVars, historyVars, forced, budget, charged >>

\* A run over its cap leaves no row.
ReturnsWithinCapOnly(p) ==
  /\ pc[p] = "running" /\ p \notin Harnesses /\ p \notin forced
  /\ IF charged[p] <= WindowRemaining
     THEN RecordRow(charged[p]) ELSE UNCHANGED ledgerVars
  /\ Ends(p)
  /\ UNCHANGED historyVars

-----------------------------------------------------------------------------
\* Midnight, or the end of the month.
NextWindow ==
  /\ window < LastWindow /\ window' = window + 1
  /\ UNCHANGED << booked, forcedBooked, procVars, historyVars >>

\* cli.run and swe_bench.run: the window has something left and caps the run.
\* (An exhausted window ends the process at once, with nothing changed.)
Admit(p) ==
  /\ pc[p] = "idle" /\ WindowRemaining > 0
  /\ \E b \in Budgets :
       /\ budget' = [budget EXCEPT ![p] = b]
       /\ Starts(p, Smaller(b, WindowRemaining))
  /\ UNCHANGED << ledgerVars, historyVars, forced, charged >>

\* cli.run with --ignore-cross-run-cap: --budget alone caps the run.
AdmitForced(p) ==
  /\ pc[p] = "idle" /\ p \notin Harnesses
  /\ forced' = forced \cup {p}
  /\ \E b \in Budgets :
       /\ budget' = [budget EXCEPT ![p] = b]
       /\ Starts(p, b)
  /\ UNCHANGED << ledgerVars, historyVars, charged >>

\* The strategy makes a call; the provider charges one unit or several.
Charge(p) ==
  /\ pc[p] = "running" /\ effective[p] > 0
  /\ \E c \in 1 .. effective[p] + Overshoot - charged[p] :
       /\ charged' = [charged EXCEPT ![p] = @ + c]
       /\ charges' = IF p \in forced THEN charges ELSE [charges EXCEPT ![window] = @ + c]
  /\ UNCHANGED << ledgerVars, pc, forced, budget, effective, runs, unbooked >>

\* router.run returned: the `finally` of cli.run records the result's cost.
Returns(p) ==
  /\ pc[p] = "running" /\ p \notin Harnesses /\ p \notin forced
  /\ RecordRow(charged[p])
  /\ Ends(p)
  /\ UNCHANGED historyVars

ForcedReturns(p) ==
  /\ pc[p] = "running" /\ p \notin Harnesses /\ p \in forced
  /\ ForceRecord(charged[p])
  /\ Ends(p)
  /\ UNCHANGED historyVars

\* An arm of the harness returned: its cost is recorded ...
ArmReturns(p) ==
  /\ pc[p] = "running" /\ p \in Harnesses
  /\ RecordRow(charged[p])
  /\ pc' = [pc EXCEPT ![p] = "reread"]
  /\ charged' = [charged EXCEPT ![p] = 0]
  /\ UNCHANGED << historyVars, forced, budget, effective, runs >>

\* ... and the window read again: the next arm starts under what is left, which
\* may be nothing ...
ReRead(p) ==
  /\ pc[p] = "reread"
  /\ Starts(p, Smaller(budget[p], WindowRemaining))
  /\ UNCHANGED << ledgerVars, historyVars, forced, budget, charged >>

\* ... or that was the last instance's last arm.
HarnessEnds(p) ==
  /\ pc[p] = "reread"
  /\ Ends(p)
  /\ UNCHANGED << ledgerVars, historyVars >>

\* An exception leaves router.run (an interrupt, the fleet's own ledger, a full
\* disk): cli.run records 0.0 and the harness nothing, whatever was charged.  A
\* kill runs no `finally` and has the same effect.
Breaks(p) ==
  /\ pc[p] = "running" /\ p \in Breakable
  /\ Ends(p)
  /\ unbooked' = IF p \in forced THEN unbooked ELSE unbooked + charged[p]
  /\ UNCHANGED << ledgerVars, charges >>

Process(p) ==
  \/ Admit(p) \/ AdmitForced(p) \/ Charge(p) \/ Returns(p) \/ ForcedReturns(p)
  \/ ArmReturns(p) \/ ReRead(p) \/ HarnessEnds(p) \/ Breaks(p)

\* Nobody need start anything.
Rest == (\A p \in Processes : pc[p] = "idle") /\ UNCHANGED vars

Next == NextWindow \/ Rest \/ \E p \in Processes : Process(p)

Spec == Init /\ [][Next]_vars

-----------------------------------------------------------------------------
EachRunsMost == WindowCap + Overshoot

\* However many processes look at the window at once, the rows of a window add
\* up to at most one full cap and overshoot for each (cli.py preflight and
\* `finally`, swe_bench runner): one process alone keeps the cap but for its
\* own overshoot, and two may spend it twice.
WindowBound ==
  \A w \in Windows : booked[w] <= Cardinality(Processes) * EachRunsMost

\* ... and so do the dollars really charged during a window, whenever the runs
\* that charged them began or ended, but for those no row was written for.
RealWindowBound ==
  \A w \in Windows :
    charges[w] <= Cardinality(Processes) * EachRunsMost + unbooked

\* The rows with forced = 0 hold the ordinary runs' charges and no others: each
\* dollar is in one row, in the run still going on, or unbooked for good.
BooksBalance ==
  FoldFunction(+, 0, charges) =
    FoldFunction(+, 0, booked) + unbooked
      + FoldFunctionOnSet(+, 0, charged, {p \in Processes : p \notin forced})

(***************************************************************************)
(* What the repository says of the cap and the code does not do.           *)
(***************************************************************************)

\* ADR-0005:129-131: two invocations "will share the cap via SQLite's WAL +
\* BEGIN IMMEDIATE": together they would stay within it, but for an overshoot
\* of each.
ProcessesShareCap ==
  \A w \in Windows : booked[w] <= WindowCap + Cardinality(Processes) * Overshoot

\* cli.py:415-417: the spend is recorded "on success or crash so a partial run
\* still counts against the window cap".
PartialRunsCount == unbooked = 0

=============================================================================

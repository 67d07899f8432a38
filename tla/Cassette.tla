------------------------------ MODULE Cassette ------------------------------
(***************************************************************************)
(* The live micro-bench of bench/live: one task, recorded by live runs and *)
(* replayed from the file they leave.  A run drives a strategy whose model *)
(* calls go through an adapter: the RecordingAdapter bills the real        *)
(* provider, charges a daily ledger and notes the call; the                *)
(* CassetteAdapter hands the noted calls out again, in order.  Neither     *)
(* takes a lock, and the workers of a fleet call the same adapter object.  *)
(*                                                                         *)
(* The strategies are Fleet and the single-agent one at a coarser grain:   *)
(* a worker takes a shard in one step and settles it in another, which     *)
(* leaves the steps of the two adapters as the interleaving to look at.    *)
(***************************************************************************)
EXTENDS BudgetGovernor, FiniteSets, Sequences, SequencesExt

CONSTANTS
  Workers,      \* worker threads of a fleet run
  NumShards,    \* shards of the task as a fleet runs it
  TextChoices,  \* what the shards' prompts may be, as functions Shards -> texts
  Secretive,    \* texts with something the redaction of save rewrites
  Redacted,     \* ... and what it makes of them
  Models,       \* models, each with the max_tokens it is asked with
  TaskModel,    \* the `model` of the task's YAML file
  Price,        \* Price[m]: cost of one unit of answer
  Sizes,        \* units an answer may have
  TaskCap,      \* cost_cap_usd, the cap of the day's ledger
  PerShard,     \* the governor's projection for one call
  NoFile,       \* stands for a missing cassette
  MaxRuns       \* bound on the runs modelled

Shards == 1 .. NumShards
Texts  == {Redacted} \cup UNION {{t[s] : s \in Shards} : t \in TextChoices}

ASSUME WorkersAssumption == IsFiniteSet(Workers) /\ Workers # {}
ASSUME ShardsAssumption  == NumShards \in Nat \ {0}
ASSUME TextsAssumption   ==
  /\ \A t \in TextChoices : DOMAIN t = Shards
  /\ \A t \in TextChoices, s \in Shards : t[s] # Redacted
ASSUME PricesAssumption  == TaskModel \in Models /\ Price \in [Models -> Nat] /\ Sizes \subseteq Nat
ASSUME AmountsAssumption == TaskCap \in Nat /\ PerShard \in Nat /\ MaxRuns \in Nat

VARIABLES
  strategy,   \* expected_strategy, which the run is forced to
  text,       \* text[s]: the last user message of shard s's request
  phase,      \* what the runner is doing
  model,      \* the model the run's strategy asks and pays for
  ledger,     \* what the task's PersistentBudgetLedger holds of the day
  tape,       \* calls of the cassette being recorded
  totals,     \* its totals.cost_usd
  file,       \* the cassette on disk
  cursor,     \* _cursor of the CassetteAdapter
  claimed,    \* shards handed out: those from 1 to claimed
  abort,      \* the fleet's abort event
  outcome,    \* outcome[s]: the result of shard s
  pc,         \* pc[w]: where worker w is
  mine,       \* mine[w]: w's shard
  answer,     \* answer[w]: units of the answer w was given
  seen,       \* seen[w]: w's reading of totals or of the cursor
  report,     \* the last BenchRunReport
  runs,       \* number of runs started
  source,     \* history: the report of the run that wrote the file
  paid,       \* history: what this run has charged to the ledger
  breached,   \* history: the ledger refused a charge of this run
  handed      \* history: places of the calls a replay handed out

taskVars     == << strategy, text >>
recorderVars == << ledger, tape, totals, paid, breached >>
replayVars   == << cursor, handed >>
poolVars     == << spent, claimed, abort, outcome >>
threadVars   == << pc, mine, answer, seen >>
runnerVars   == << phase, model, file, report, runs, source >>
vars == << taskVars, recorderVars, replayVars, poolVars, threadVars, runnerVars >>

\* A single-agent run is a pool of one thread with one prompt.
Prompts == IF strategy = "single" THEN {1} ELSE Shards

Call   == [text : Texts, model : Models, size : Sizes]
Report == [mode : {"live", "replay"}, success : BOOLEAN, cost : Nat, model : Models,
           asked : SUBSET Texts]

\* A run that has reported nothing yet.
NoReport == [mode |-> "none"]

Locations == {"idle", "next", "call", "charge", "append", "read", "write",
              "advance", "store", "answered", "failed", "returned"}

TypeOK ==
  /\ strategy \in {"single", "fleet"} /\ text \in TextChoices
  /\ phase \in {"idle", "live", "replay"} /\ model \in Models
  /\ spent \in Nat /\ ledger \in Nat /\ totals \in Nat /\ paid \in Nat
  /\ breached \in BOOLEAN /\ abort \in BOOLEAN
  /\ tape \in Seq(Call)
  /\ file \in {NoFile} \cup [calls : Seq(Call), total : Nat]
  /\ cursor \in Nat /\ handed \in Seq(Nat) /\ claimed \in 0 .. NumShards /\ runs \in Nat
  /\ outcome \in [Shards -> {"none", "ok", "failed"}]
  /\ pc     \in [Workers -> Locations]
  /\ mine   \in [Workers -> Shards \cup {0}]
  /\ answer \in [Workers -> Sizes \cup {0}]
  /\ seen   \in [Workers -> Nat]
  /\ report \in Report \cup {NoReport} /\ source \in Report \cup {NoReport}

\* Nothing of a run is left: threads, governor and adapter are new in the next.
AtRest ==
  /\ spent' = 0 /\ claimed' = 0 /\ abort' = FALSE
  /\ outcome' = [s \in Shards |-> "none"]
  /\ pc'     = [w \in Workers |-> "idle"]
  /\ mine'   = [w \in Workers |-> 0]
  /\ answer' = [w \in Workers |-> 0]
  /\ seen'   = [w \in Workers |-> 0]
  /\ tape' = << >> /\ totals' = 0 /\ paid' = 0 /\ breached' = FALSE
  /\ cursor' = 0 /\ handed' = << >>

Init ==
  /\ strategy \in {"single", "fleet"} /\ text \in TextChoices
  /\ phase = "idle" /\ model = TaskModel /\ ledger = 0 /\ file = NoFile
  /\ report = NoReport /\ source = NoReport /\ runs = 0
  /\ spent = 0 /\ claimed = 0 /\ abort = FALSE
  /\ outcome = [s \in Shards |-> "none"]
  /\ pc      = [w \in Workers |-> "idle"]
  /\ mine    = [w \in Workers |-> 0]
  /\ answer  = [w \in Workers |-> 0]
  /\ seen    = [w \in Workers |-> 0]
  /\ tape = << >> /\ totals = 0 /\ paid = 0 /\ breached = FALSE
  /\ cursor = 0 /\ handed = << >>

Running == phase \in {"live", "replay"}

GoTo(w, l) == pc' = [pc EXCEPT ![w] = l]

\* The locals of a call are gone when it returns.
Forget(w) ==
  /\ mine'   = [mine EXCEPT ![w] = 0]
  /\ answer' = [answer EXCEPT ![w] = 0]
  /\ seen'   = [seen EXCEPT ![w] = 0]

\* What a call costs the ledger and the totals, whoever answered it.
TaskCost(size) == Price[TaskModel] * size

CostOf(calls) == FoldFunction(+, 0, [i \in DOMAIN calls |-> TaskCost(calls[i].size)])

\* ... and what the answers of some workers cost.
CostOfAnswers(crew) == FoldFunctionOnSet(+, 0, [w \in Workers |-> TaskCost(answer[w])], crew)

\* Faulty variants: requests are matched on their model alone, or on their text alone.
KeyModelOnly(call) == << call.model >>
KeyTextOnly(call)  == << call.text >>

\* _request_match_key: max_tokens goes with the model, the system prompt is left out.
Key(call) == << call.model, call.text >>

\* The request of worker w, as both adapters serialise it, with an answer.
Recorded(w) == [text |-> text[mine[w]], model |-> model, size |-> answer[w]]

\* save rewrites what looks like a secret, in requests as in answers.
Redact(call) == [call EXCEPT !.text = IF @ \in Secretive THEN Redacted ELSE @]

-----------------------------------------------------------------------------
(***************************************************************************)
(* Faulty variants, used only by the mutants of PROJECT.json.              *)
(***************************************************************************)

\* A refused charge is forgotten and the call noted all the same.
ChargeUnheeded(w) ==
  /\ phase = "live" /\ pc[w] = "charge"
  /\ LET cost == TaskCost(answer[w])
     IN  IF ledger + cost > TaskCap
           THEN breached' = TRUE /\ UNCHANGED << ledger, paid >>
           ELSE ledger' = ledger + cost /\ paid' = paid + cost /\ UNCHANGED breached
  /\ GoTo(w, "append")
  /\ UNCHANGED << taskVars, tape, totals, replayVars, poolVars, mine, answer, seen, runnerVars >>

\* The totals are kept at the price of the model that answered.
WriteTotalsAnswered(w) ==
  /\ pc[w] = "write"
  /\ totals' = seen[w] + Price[model] * answer[w]
  /\ GoTo(w, "answered")
  /\ UNCHANGED << taskVars, ledger, tape, paid, breached, replayVars, poolVars,
                  mine, answer, seen, runnerVars >>

\* The totals are written before the cassette has any.
SavedWithoutTotals == [calls |-> [i \in DOMAIN tape |-> Redact(tape[i])], total |-> 0]

\* A failed shard gets a status Succeeded does not know.
SettleFailedMisnamed(w) ==
  /\ Running /\ pc[w] = "failed"
  /\ outcome' = [outcome EXCEPT ![mine[w]] = "error"]
  /\ GoTo(w, "next")
  /\ Forget(w)
  /\ UNCHANGED << taskVars, recorderVars, replayVars, spent, claimed, abort, runnerVars >>

\* A worker whose call failed waits for another answer.
SettleFailedWaits(w) ==
  /\ pc[w] = "failed"
  /\ UNCHANGED vars

-----------------------------------------------------------------------------
(***************************************************************************)
(* The threads: taking a shard and settling it.                            *)
(***************************************************************************)
\* The next shard, unless the event is set, the cap is near or none is left.  The
\* single-agent strategy has one call to make and has made its check already.
TakeShard(w) ==
  /\ Running /\ pc[w] = "next"
  /\ ~abort /\ CanStart(PerShard) /\ claimed + 1 \in Prompts
  /\ claimed' = claimed + 1
  /\ mine' = [mine EXCEPT ![w] = claimed + 1]
  /\ GoTo(w, "call")
  /\ UNCHANGED << taskVars, recorderVars, replayVars, spent, abort, outcome,
                  answer, seen, runnerVars >>

Stop(w) ==
  /\ Running /\ pc[w] = "next"
  /\ abort \/ ~CanStart(PerShard) \/ claimed + 1 \notin Prompts
  /\ abort' = (abort \/ ~CanStart(PerShard))
  /\ GoTo(w, "returned")
  /\ UNCHANGED << taskVars, recorderVars, replayVars, spent, claimed, outcome,
                  mine, answer, seen, runnerVars >>

\* The adapter answered: the strategy records the cost at its own model's price.
\* A single-agent call over the cap is a failure, a fleet's only stops the pool.
SettleAnswered(w) ==
  /\ Running /\ pc[w] = "answered"
  /\ LET cost == Price[model] * answer[w]
         over == cost > 0 /\ RecordRaises(cost)
     IN  /\ RecordSpend(cost)
         /\ outcome' = [outcome EXCEPT ![mine[w]] =
                          IF strategy = "single" /\ over THEN "failed" ELSE "ok"]
         /\ abort' = (abort \/ over)
         /\ GoTo(w, IF over THEN "returned" ELSE "next")
  /\ Forget(w)
  /\ UNCHANGED << taskVars, recorderVars, replayVars, claimed, runnerVars >>

\* The adapter raised, whatever it was: both strategies catch Exception.
SettleFailed(w) ==
  /\ Running /\ pc[w] = "failed"
  /\ outcome' = [outcome EXCEPT ![mine[w]] = "failed"]
  /\ GoTo(w, "next")
  /\ Forget(w)
  /\ UNCHANGED << taskVars, recorderVars, replayVars, spent, claimed, abort, runnerVars >>

-----------------------------------------------------------------------------
(***************************************************************************)
(* RecordingAdapter.get_response.                                          *)
(***************************************************************************)

\* The real adapter answers or raises.
InnerAnswers(w) ==
  /\ phase = "live" /\ pc[w] = "call"
  /\ \E size \in Sizes : answer' = [answer EXCEPT ![w] = size]
  /\ GoTo(w, "charge")
  /\ UNCHANGED << taskVars, recorderVars, replayVars, poolVars, mine, seen, runnerVars >>

InnerRaises(w) ==
  /\ phase = "live" /\ pc[w] = "call"
  /\ GoTo(w, "failed")
  /\ UNCHANGED << taskVars, recorderVars, replayVars, poolVars, mine, answer, seen, runnerVars >>

\* ledger.charge: one transaction; it raises, and writes nothing, over the cap.
Charge(w) ==
  /\ phase = "live" /\ pc[w] = "charge"
  /\ LET cost == TaskCost(answer[w])
     IN  IF ledger + cost > TaskCap
           THEN breached' = TRUE /\ GoTo(w, "failed") /\ UNCHANGED << ledger, paid >>
           ELSE /\ ledger' = ledger + cost /\ paid' = paid + cost
                /\ GoTo(w, "append") /\ UNCHANGED breached
  /\ UNCHANGED << taskVars, tape, totals, replayVars, poolVars, mine, answer, seen, runnerVars >>

AppendCall(w) ==
  /\ pc[w] = "append"
  /\ tape' = Append(tape, Recorded(w))
  /\ GoTo(w, "read")
  /\ UNCHANGED << taskVars, ledger, totals, paid, breached, replayVars, poolVars,
                  mine, answer, seen, runnerVars >>

\* The new totals are made from the old ones, and put in their place afterwards.
ReadTotals(w) ==
  /\ pc[w] = "read"
  /\ seen' = [seen EXCEPT ![w] = totals]
  /\ GoTo(w, "write")
  /\ UNCHANGED << taskVars, recorderVars, replayVars, poolVars, mine, answer, runnerVars >>

WriteTotals(w) ==
  /\ pc[w] = "write"
  /\ totals' = seen[w] + TaskCost(answer[w])
  /\ GoTo(w, "answered")
  /\ UNCHANGED << taskVars, ledger, tape, paid, breached, replayVars, poolVars,
                  mine, answer, seen, runnerVars >>

-----------------------------------------------------------------------------
(***************************************************************************)
(* CassetteAdapter.get_response.  The cursor is read three times (the      *)
(* test, the subscript, the increment): one that passes the test and finds *)
(* the cursor beyond the last call at the subscript raises as one that     *)
(* fails the test does, so those two readings are one step.                *)
(***************************************************************************)
Matches(w) == cursor < Len(file.calls) /\ Key(file.calls[cursor + 1]) = Key(Recorded(w))

HandOut(w) ==
  /\ phase = "replay" /\ pc[w] = "call" /\ Matches(w)
  /\ answer' = [answer EXCEPT ![w] = file.calls[cursor + 1].size]
  /\ handed' = Append(handed, cursor + 1)
  /\ GoTo(w, "advance")
  /\ UNCHANGED << taskVars, recorderVars, cursor, poolVars, mine, seen, runnerVars >>

\* CassetteMismatch: exhausted, or another request than the recorded one.
Mismatch(w) ==
  /\ phase = "replay" /\ pc[w] = "call" /\ ~Matches(w)
  /\ GoTo(w, "failed")
  /\ UNCHANGED << taskVars, recorderVars, replayVars, poolVars, mine, answer, seen, runnerVars >>

\* self._cursor += 1
ReadCursor(w) ==
  /\ phase = "replay" /\ pc[w] = "advance"
  /\ seen' = [seen EXCEPT ![w] = cursor]
  /\ GoTo(w, "store")
  /\ UNCHANGED << taskVars, recorderVars, replayVars, poolVars, mine, answer, runnerVars >>

StoreCursor(w) ==
  /\ phase = "replay" /\ pc[w] = "store"
  /\ cursor' = seen[w] + 1
  /\ GoTo(w, "answered")
  /\ UNCHANGED << taskVars, recorderVars, handed, poolVars, mine, answer, seen, runnerVars >>

-----------------------------------------------------------------------------
(***************************************************************************)
(* The runner, invoked by hand, one run after the other.                   *)
(***************************************************************************)

\* A fresh Router: its policy settles the model, which may have changed since the
\* last run.  The strategy starts when the cap allows the whole projection.
Starts(mode) ==
  /\ phase = "idle" /\ runs < MaxRuns
  /\ phase' = mode /\ runs' = runs + 1 /\ report' = NoReport
  /\ model' \in Models
  /\ \E crew \in SUBSET Workers :
       /\ IF strategy = "single" THEN Cardinality(crew) = 1 ELSE crew = Workers
       /\ pc' = [w \in Workers |->
                   IF w \in crew /\ CanStart(PerShard * Cardinality(Prompts))
                   THEN "next" ELSE "returned"]
  /\ UNCHANGED << taskVars, recorderVars, replayVars, poolVars, mine, answer, seen,
                  file, source >>

StartLive == Starts("live")

\* No cassette: main returns 2 and nothing changes.
StartReplay == file # NoFile /\ Starts("replay")

Joined == \A w \in Workers : pc[w] = "returned"

\* result.success: something was worked on and nothing failed.
Succeeded == claimed > 0 /\ \A s \in Shards : outcome[s] # "failed"

\* The cost reported is what the strategy recorded on its new governor.
Reported(success) ==
  [mode |-> phase, success |-> success /\ spent <= TaskCap, cost |-> spent,
   model |-> model, asked |-> {text[s] : s \in 1 .. claimed}]

Saved == [calls |-> [i \in DOMAIN tape |-> Redact(tape[i])], total |-> totals]

\* The strategy has returned.  No BudgetExceeded gets as far as run_live, so its
\* handler never runs and the cassette is saved, over an older one, in any case.
FinishLive ==
  /\ phase = "live" /\ Joined
  /\ report' = Reported(Succeeded)
  /\ file' = Saved /\ source' = report'
  /\ phase' = "idle" /\ AtRest
  /\ UNCHANGED << taskVars, ledger, model, runs >>

FinishReplay ==
  /\ phase = "replay" /\ Joined
  /\ report' = Reported(Succeeded /\ spent = file.total)
  /\ phase' = "idle" /\ AtRest
  /\ UNCHANGED << taskVars, ledger, model, file, runs, source >>

\* A run is interrupted, or an exception of the fleet's own ledger leaves it: the
\* day's ledger keeps what was charged and nothing is saved.
Interrupted ==
  /\ Running
  /\ phase' = "idle" /\ AtRest /\ report' = NoReport
  /\ UNCHANGED << taskVars, ledger, model, file, runs, source >>

-----------------------------------------------------------------------------
Thread(w) ==
  \/ TakeShard(w) \/ Stop(w) \/ SettleAnswered(w) \/ SettleFailed(w)
  \/ InnerAnswers(w) \/ InnerRaises(w) \/ Charge(w)
  \/ AppendCall(w) \/ ReadTotals(w) \/ WriteTotals(w)
  \/ HandOut(w) \/ Mismatch(w) \/ ReadCursor(w) \/ StoreCursor(w)

Finish == FinishLive \/ FinishReplay

\* Nobody need start another run.
Rest == phase = "idle" /\ UNCHANGED vars

Next ==
  \/ StartLive \/ StartReplay \/ Finish \/ Interrupted \/ Rest
  \/ \E w \in Workers : Thread(w)

Spec == Init /\ [][Next]_vars

\* Threads are scheduled fairly, an adapter call ends, and the main thread goes on.
FairSpec == Spec /\ WF_vars(Finish) /\ \A w \in Workers : WF_vars(Thread(w))

-----------------------------------------------------------------------------
(***************************************************************************)
(* Properties.                                                             *)
(***************************************************************************)
DistinctTexts == \A s, t \in Prompts : text[s] = text[t] => s = t

\* The ledger and the tape account for the same calls: whatever the threads do and
\* however many charges are refused, a run has charged the calls on its tape and
\* those about to be put there (cassette.py RecordingAdapter.get_response).
TapeIsPaid == paid = CostOf(tape) + CostOfAnswers({w \in Workers : pc[w] = "append"})

\* Two threads may lose an update of the totals but never add to them: they do
\* not exceed the tape's cost, and for a single-agent run they are that cost.
TotalsNeverAhead ==
  /\ totals <= CostOf(tape)
  /\ strategy = "single" /\ (\A w \in Workers : pc[w] \notin {"read", "write"})
       => totals = CostOf(tape)

\* Without a lock, and whatever the order the workers call in, a replay hands out
\* the recorded calls in order, none twice and none left out, as long as no two
\* prompts read the same (cassette.py CassetteAdapter.get_response).
HandedOutInOrder ==
  phase = "replay" /\ DistinctTexts =>
    /\ \A i \in DOMAIN handed : handed[i] = i
    /\ cursor <= Len(handed) /\ Len(handed) <= cursor + 1

\* What the round-trip test shows for one call that went well holds for every
\* single-agent recording, failed, refused or over its cap: the replay reports the
\* same success and the same cost, if the task's model is priced as the policy's,
\* the policy has not changed since and save had nothing to rewrite.
SingleRoundTrip ==
  /\ strategy = "single" /\ report.mode = "replay" /\ report.model = source.model
  /\ Price[source.model] = Price[TaskModel] /\ text[1] \notin Secretive
  => report.success = source.success /\ report.cost = source.cost

\* A stale cassette turns the replay red though the strategies swallow the
\* mismatch: a green one asked only what the recorded run asked, of its model.
GreenMeansFaithful ==
  report.mode = "replay" /\ report.success =>
    /\ report.model = source.model
    /\ report.asked \subseteq source.asked \ Secretive

\* Every run ends, in a report or an exception: a thread that meets a mismatch, a
\* refused charge or the cap does not hold up the others.
RunsEnd == phase # "idle" ~> phase = "idle"

(***************************************************************************)
(* What the repository says of the cassettes and the code does not do.     *)
(***************************************************************************)

\* bench/live/README.md: "On BudgetExceeded the cassette is not written".
BreachWritesNothing == [][source' # source => ~breached]_vars

=============================================================================

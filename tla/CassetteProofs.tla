---------------------------- MODULE CassetteProofs ----------------------------
(***************************************************************************)
(* Theorems about Cassette, for any workers, prompts, models, prices and   *)
(* number of runs.                                                         *)
(***************************************************************************)
EXTENDS Cassette, SumProofs, SequenceTheorems

LEMMA PromptsAreShards == Prompts \subseteq Shards /\ \A s \in Prompts : s \in Nat \ {0}
BY ShardsAssumption DEF Prompts, Shards

LEMMA TextsOfShards ==
  ASSUME TypeOK, NEW s \in Shards
  PROVE  text[s] \in Texts /\ text[s] # Redacted
<1>1. text \in TextChoices
  BY DEF TypeOK
<1>2. {text[x] : x \in Shards} \in {{t[x] : x \in Shards} : t \in TextChoices}
  BY <1>1
<1>3. text[s] \in {text[x] : x \in Shards}
  OBVIOUS
<1> QED
  BY <1>1, <1>2, <1>3, TextsAssumption DEF Texts

LEMMA RedactedIsText == Redacted \in Texts
BY DEF Texts

LEMMA CostTypes ==
  ASSUME NEW m \in Models, NEW size \in Sizes \cup {0}
  PROVE  Price[m] * size \in Nat /\ TaskCost(size) \in Nat
<1>1. Price[m] \in Nat /\ Price[TaskModel] \in Nat /\ size \in Nat
  BY PricesAssumption
<1>2. \A x, y \in Nat : x * y \in Nat
  OBVIOUS
<1> QED
  BY <1>1, <1>2 DEF TaskCost

\* What save writes is a call again.
LEMMA RedactCall ==
  ASSUME NEW call \in Call
  PROVE  /\ Redact(call) \in Call
         /\ Redact(call).model = call.model /\ Redact(call).size = call.size
         /\ Redact(call).text = IF call.text \in Secretive THEN Redacted ELSE call.text
<1> DEFINE t == IF call.text \in Secretive THEN Redacted ELSE call.text
<1>1. t \in Texts /\ call.model \in Models /\ call.size \in Sizes
  <2>1. Redacted \in Texts
    BY RedactedIsText
  <2>2. call.text \in Texts /\ call.model \in Models /\ call.size \in Sizes
    BY DEF Call
  <2> QED
    BY <2>1, <2>2
<1>2. call = [text |-> call.text, model |-> call.model, size |-> call.size]
  BY DEF Call
<1>3. Redact(call) = [text |-> t, model |-> call.model, size |-> call.size]
  BY <1>2 DEF Redact
<1> QED
  BY <1>1, <1>3 DEF Call

(***************************************************************************)
(* The pool.  A thread has a shard exactly while it works on a call, and   *)
(* no two threads have the same; a shard taken and not yet settled is in   *)
(* somebody's hands; between the runs nothing is left of the last one.     *)
(***************************************************************************)
Jobless == {"idle", "next", "returned"}

PoolInv ==
  /\ \A w \in Workers : mine[w] <= claimed /\ (mine[w] # 0 => mine[w] \in Prompts)
  /\ \A v, w \in Workers : mine[v] = mine[w] /\ mine[v] # 0 => v = w
  /\ \A w \in Workers : mine[w] = 0 <=> pc[w] \in Jobless
  /\ \A s \in 1 .. claimed : outcome[s] = "none" => \E w \in Workers : mine[w] = s
  /\ phase = "idle" =>
       /\ claimed = 0 /\ cursor = 0 /\ handed = << >> /\ tape = << >>
       /\ \A w \in Workers : mine[w] = 0
       /\ \A s \in Shards : outcome[s] = "none"

TypeInv == TypeOK /\ PoolInv

\* An answer the adapter has given is one of those it may give, and a replay has a
\* cassette to read and does not record.
AnswerInv ==
  /\ \A w \in Workers : pc[w] \in {"charge", "append"} => answer[w] \in Sizes
  /\ phase = "replay" => /\ file # NoFile
                         /\ \A w \in Workers : pc[w] \notin {"charge", "append", "read", "write"}

LEMMA AnswerStep ==
  ASSUME TypeOK, PoolInv, AnswerInv, [Next]_vars
  PROVE  AnswerInv'
<1> USE DEF taskVars, recorderVars, replayVars, poolVars, threadVars, runnerVars, GoTo
<1>1. CASE StartLive \/ StartReplay
  <2>1. \A w \in Workers : pc'[w] \in Jobless
    BY <1>1 DEF StartLive, StartReplay, Starts, Jobless
  <2>2. phase' = "replay" => file' # NoFile
    BY <1>1 DEF StartLive, StartReplay, Starts
  <2> QED
    BY <2>1, <2>2 DEF AnswerInv, Jobless
<1>2. CASE Finish \/ Interrupted
  <2>1. phase' = "idle" /\ \A w \in Workers : pc'[w] = "idle"
    BY <1>2 DEF Finish, FinishLive, FinishReplay, Interrupted, AtRest
  <2> QED
    BY <2>1 DEF AnswerInv
<1>3. ASSUME NEW w \in Workers, Thread(w) PROVE AnswerInv'
  <2>1. phase' = phase /\ file' = file
    BY <1>3 DEF Thread, TakeShard, Stop, SettleAnswered, SettleFailed, InnerAnswers, InnerRaises,
                Charge, AppendCall, ReadTotals, WriteTotals, HandOut, Mismatch, ReadCursor,
                StoreCursor
  <2>2. CASE InnerAnswers(w)
    BY <2>1, <2>2 DEF InnerAnswers, AnswerInv, TypeOK
  <2>3. CASE Charge(w)
    BY <2>1, <2>3 DEF Charge, AnswerInv, TypeOK
  <2>4. CASE AppendCall(w) \/ ReadTotals(w) \/ WriteTotals(w)
    BY <2>1, <2>4 DEF AppendCall, ReadTotals, WriteTotals, AnswerInv, TypeOK
  <2>5. CASE SettleAnswered(w) \/ SettleFailed(w)
    BY <2>1, <2>5 DEF SettleAnswered, SettleFailed, Forget, AnswerInv, TypeOK
  <2>6. CASE TakeShard(w) \/ Stop(w) \/ InnerRaises(w) \/ Mismatch(w)
    BY <2>1, <2>6 DEF TakeShard, Stop, InnerRaises, Mismatch, AnswerInv, TypeOK
  <2>7. CASE HandOut(w) \/ ReadCursor(w) \/ StoreCursor(w)
    BY <2>1, <2>7 DEF HandOut, ReadCursor, StoreCursor, AnswerInv, TypeOK
  <2> QED
    BY <1>3, <2>2, <2>3, <2>4, <2>5, <2>6, <2>7 DEF Thread
<1>4. CASE UNCHANGED vars
  BY <1>4 DEF vars, AnswerInv
<1> QED
  BY <1>1, <1>2, <1>3, <1>4 DEF Next, Rest

LEMMA TypeInit == Init => TypeInv
<1> SUFFICES ASSUME Init PROVE TypeInv
  OBVIOUS
<1>1. tape \in Seq(Call) /\ handed \in Seq(Nat)
  BY DEF Init
<1>2. TypeOK
  <2>1. /\ strategy \in {"single", "fleet"} /\ text \in TextChoices
        /\ phase \in {"idle", "live", "replay"} /\ model \in Models
    BY PricesAssumption DEF Init
  <2>2. /\ spent \in Nat /\ ledger \in Nat /\ totals \in Nat /\ paid \in Nat
        /\ cursor \in Nat /\ claimed \in 0 .. NumShards /\ runs \in Nat
    BY ShardsAssumption DEF Init
  <2>5. breached \in BOOLEAN /\ abort \in BOOLEAN
    BY DEF Init
  <2>3. /\ outcome \in [Shards -> {"none", "ok", "failed"}]
        /\ pc \in [Workers -> Locations] /\ mine \in [Workers -> Shards \cup {0}]
        /\ answer \in [Workers -> Sizes \cup {0}] /\ seen \in [Workers -> Nat]
    BY DEF Init, Locations
  <2>4. /\ file \in {NoFile} \cup [calls : Seq(Call), total : Nat]
        /\ report \in Report \cup {NoReport} /\ source \in Report \cup {NoReport}
    BY DEF Init
  <2> QED
    BY <1>1, <2>1, <2>2, <2>3, <2>4, <2>5 DEF TypeOK
<1>3. PoolInv
  BY ShardsAssumption DEF Init, PoolInv, Jobless, Shards
<1> QED
  BY <1>2, <1>3 DEF TypeInv

\* A run has ended: whatever it left behind is put away.
LEMMA RestTypes ==
  ASSUME AtRest
  PROVE  /\ spent' \in Nat /\ claimed' \in 0 .. NumShards /\ abort' \in BOOLEAN
         /\ outcome' \in [Shards -> {"none", "ok", "failed"}]
         /\ pc' \in [Workers -> Locations] /\ mine' \in [Workers -> Shards \cup {0}]
         /\ answer' \in [Workers -> Sizes \cup {0}] /\ seen' \in [Workers -> Nat]
         /\ tape' \in Seq(Call) /\ totals' \in Nat /\ paid' \in Nat /\ breached' \in BOOLEAN
         /\ cursor' \in Nat /\ handed' \in Seq(Nat)
         /\ PoolInv'
<1>1. tape' \in Seq(Call) /\ handed' \in Seq(Nat)
  BY DEF AtRest
<1>2. \A w \in Workers : mine'[w] = 0 /\ pc'[w] = "idle"
  BY DEF AtRest
<1>3. claimed' = 0 /\ \A s \in Shards : outcome'[s] = "none"
  BY DEF AtRest
<1>4. PoolInv'
  BY <1>2, <1>3 DEF PoolInv, Jobless, AtRest
<1>5. /\ spent' \in Nat /\ claimed' \in 0 .. NumShards /\ totals' \in Nat /\ paid' \in Nat
      /\ cursor' \in Nat
  BY ShardsAssumption DEF AtRest
<1>6. abort' \in BOOLEAN /\ breached' \in BOOLEAN
  BY DEF AtRest
<1>7. /\ outcome' \in [Shards -> {"none", "ok", "failed"}]
      /\ pc' \in [Workers -> Locations] /\ mine' \in [Workers -> Shards \cup {0}]
      /\ answer' \in [Workers -> Sizes \cup {0}] /\ seen' \in [Workers -> Nat]
  BY DEF AtRest, Locations
<1> QED
  BY <1>1, <1>4, <1>5, <1>6, <1>7

LEMMA ReportTypes ==
  ASSUME TypeOK, Running, NEW success \in BOOLEAN
  PROVE  Reported(success) \in Report
<1>1. {text[s] : s \in 1 .. claimed} \in SUBSET Texts
  <2>1. \A s \in 1 .. claimed : s \in Shards
    BY ShardsAssumption DEF TypeOK, Shards
  <2> QED
    BY <2>1, TextsOfShards
<1>2. phase \in {"live", "replay"} /\ spent \in Nat /\ model \in Models
      /\ (success /\ spent <= TaskCap) \in BOOLEAN
  BY DEF TypeOK, Running
<1> QED
  BY <1>1, <1>2 DEF Reported, Report

LEMMA SavedTypes ==
  ASSUME TypeOK
  PROVE  /\ Saved \in [calls : Seq(Call), total : Nat]
         /\ DOMAIN Saved.calls = DOMAIN tape
         /\ \A i \in DOMAIN tape : tape[i] \in Call /\ Saved.calls[i] = Redact(tape[i])
<1>1. tape \in Seq(Call) /\ totals \in Nat
  BY DEF TypeOK
<1>2. \A i \in DOMAIN tape : tape[i] \in Call /\ Redact(tape[i]) \in Call
  BY <1>1, RedactCall
<1>3. [i \in DOMAIN tape |-> Redact(tape[i])] \in Seq(Call)
  <2>1. PICK n \in Nat : DOMAIN tape = 1 .. n
    BY <1>1
  <2> QED
    BY <1>2, <2>1
<1> QED
  BY <1>1, <1>2, <1>3 DEF Saved

\* What the calls of the two adapters are made of.
LEMMA RecordedTypes ==
  ASSUME TypeInv, NEW w \in Workers, mine[w] # 0
  PROVE  /\ mine[w] \in Shards
         /\ answer[w] \in Sizes => Recorded(w) \in Call
BY TextsOfShards DEF TypeInv, TypeOK, Recorded, Call

LEMMA TypeStep ==
  ASSUME TypeInv, AnswerInv, [Next]_vars
  PROVE  TypeInv'
<1>t. TypeOK /\ PoolInv
  BY DEF TypeInv
<1> USE DEF taskVars, recorderVars, replayVars, poolVars, threadVars, runnerVars, Running, GoTo
<1>1. ASSUME NEW mode \in {"live", "replay"}, Starts(mode) PROVE TypeInv'
  <2>1. pc' \in [Workers -> Locations] /\ \A w \in Workers : pc'[w] \in Jobless
    BY <1>1 DEF Starts, Locations, Jobless
  <2>2. TypeOK'
    BY <1>t, <1>1, <2>1 DEF Starts, TypeOK
  <2>3. PoolInv'
    BY <1>t, <1>1, <2>1 DEF Starts, PoolInv
  <2> QED
    BY <2>2, <2>3 DEF TypeInv
<1>2. ASSUME NEW success \in BOOLEAN, phase # "idle", phase' = "idle", AtRest,
             report' \in {Reported(success), NoReport},
             file' \in {file, Saved}, source' \in {source, report'},
             UNCHANGED << taskVars, ledger, model, runs >>
      PROVE  TypeInv'
  <2>1. report' \in Report \cup {NoReport}
    BY <1>t, <1>2, ReportTypes DEF TypeOK
  <2>2. file' \in {NoFile} \cup [calls : Seq(Call), total : Nat]
    BY <1>t, <1>2, SavedTypes DEF TypeOK
  <2>3. TypeOK'
    BY <1>t, <1>2, <2>1, <2>2, RestTypes DEF TypeOK
  <2> QED
    BY <1>2, <2>3, RestTypes DEF TypeInv
<1>3. CASE FinishLive
  <2>1. Succeeded \in BOOLEAN
    BY DEF Succeeded
  <2> QED
    BY <1>2, <1>3, <2>1 DEF FinishLive
<1>4. CASE FinishReplay
  <2>1. (Succeeded /\ spent = file.total) \in BOOLEAN
    BY DEF Succeeded
  <2> QED
    BY <1>2, <1>4, <2>1 DEF FinishReplay
<1>5. CASE Interrupted
  BY <1>2, <1>5 DEF Interrupted
<1>6. ASSUME NEW w \in Workers, Thread(w) PROVE TypeInv'
  <2>0. /\ mine[w] \in Shards \cup {0} /\ (mine[w] # 0 <=> pc[w] \notin Jobless)
        /\ answer[w] \in Sizes \cup {0} /\ seen[w] \in Nat
    BY <1>t DEF TypeOK, PoolInv
  <2>a. ASSUME NEW l \in Locations \ Jobless, pc' = [pc EXCEPT ![w] = l], pc[w] \notin Jobless,
               UNCHANGED << mine, claimed, outcome, phase, strategy >>
        PROVE  PoolInv'
    <3>1. mine[w] # 0 /\ phase # "idle" /\ Prompts' = Prompts
      BY <1>t, <2>0, <2>a DEF PoolInv, Prompts
    <3>2. pc'[w] = l /\ \A v \in Workers \ {w} : pc'[v] = pc[v]
      BY <1>t, <2>a DEF TypeOK
    <3>3. \A v \in Workers : mine'[v] = 0 <=> pc'[v] \in Jobless
      BY <1>t, <2>0, <2>a, <3>2 DEF PoolInv
    <3> QED
      BY <1>t, <2>a, <3>1, <3>3 DEF PoolInv
  <2>b. ASSUME NEW l \in {"next", "returned"}, pc' = [pc EXCEPT ![w] = l], pc[w] \notin Jobless,
               mine' = [mine EXCEPT ![w] = 0],
               NEW x \in {"ok", "failed"}, outcome' = [outcome EXCEPT ![mine[w]] = x],
               UNCHANGED << claimed, phase, strategy >>
        PROVE  PoolInv'
    <3>1. mine[w] # 0 /\ mine[w] \in Shards /\ phase # "idle" /\ Prompts' = Prompts
      BY <1>t, <2>0, <2>b DEF PoolInv, Prompts
    <3>2. /\ pc'[w] = l /\ mine'[w] = 0
          /\ \A v \in Workers \ {w} : pc'[v] = pc[v] /\ mine'[v] = mine[v]
      BY <1>t, <2>b DEF TypeOK
    <3>3. \A v \in Workers : mine'[v] = 0 <=> pc'[v] \in Jobless
      BY <1>t, <3>2 DEF PoolInv, Jobless
    <3>4. \A v \in Workers : mine'[v] <= claimed /\ (mine'[v] # 0 => mine'[v] \in Prompts)
      BY <1>t, <3>2 DEF PoolInv, TypeOK
    <3>5. \A u, v \in Workers : mine'[u] = mine'[v] /\ mine'[u] # 0 => u = v
      BY <1>t, <3>2 DEF PoolInv
    <3>6. ASSUME NEW s \in 1 .. claimed, outcome'[s] = "none" PROVE \E v \in Workers : mine'[v] = s
      <4>1. s # mine[w] /\ outcome[s] = "none"
        BY <1>t, <2>b, <3>1, <3>6 DEF TypeOK
      <4> QED
        BY <1>t, <3>2, <4>1 DEF PoolInv
    <3> QED
      BY <2>b, <3>1, <3>3, <3>4, <3>5, <3>6 DEF PoolInv
  <2>1. CASE TakeShard(w)
    <3>1. claimed + 1 \in Prompts /\ claimed + 1 \in Shards /\ mine[w] = 0 /\ claimed \in Nat
      BY <1>t, <2>0, <2>1, PromptsAreShards, ShardsAssumption DEF TakeShard, Jobless, TypeOK
    <3>2. TypeOK'
      BY <1>t, <2>1, <3>1 DEF TakeShard, TypeOK, Locations, Shards
    <3>3. /\ mine'[w] = claimed + 1 /\ pc'[w] = "call" /\ Prompts' = Prompts
          /\ \A v \in Workers \ {w} : pc'[v] = pc[v] /\ mine'[v] = mine[v]
      BY <1>t, <2>1, <3>1 DEF TakeShard, TypeOK, Prompts
    <3>4. \A v \in Workers : mine[v] \in Nat /\ mine[v] <= claimed
      BY <1>t, ShardsAssumption DEF PoolInv, TypeOK, Shards
    <3>5. \A v \in Workers : mine'[v] = 0 <=> pc'[v] \in Jobless
      BY <1>t, <3>1, <3>3 DEF PoolInv, Jobless
    <3>6. \A v \in Workers : mine'[v] <= claimed' /\ (mine'[v] # 0 => mine'[v] \in Prompts')
      BY <1>t, <2>1, <3>1, <3>3, <3>4 DEF TakeShard, PoolInv
    <3>7. \A u, v \in Workers : mine'[u] = mine'[v] /\ mine'[u] # 0 => u = v
      BY <1>t, <3>1, <3>3, <3>4 DEF PoolInv
    <3>8. \A s \in 1 .. claimed' : outcome'[s] = "none" => \E v \in Workers : mine'[v] = s
      <4> SUFFICES ASSUME NEW s \in 1 .. claimed + 1, outcome[s] = "none"
                   PROVE  \E v \in Workers : mine'[v] = s
        BY <2>1 DEF TakeShard
      <4>1. CASE s = claimed + 1
        BY <3>3, <4>1
      <4>2. CASE s # claimed + 1
        <5>1. PICK v \in Workers : mine[v] = s
          BY <1>t, <3>1, <4>2 DEF PoolInv
        <5> QED
          BY <3>1, <3>3, <5>1
      <4> QED
        BY <4>1, <4>2
    <3> QED
      BY <2>1, <3>2, <3>5, <3>6, <3>7, <3>8 DEF TakeShard, TypeInv, PoolInv
  <2>2. CASE Stop(w)
    BY <1>t, <2>0, <2>2 DEF Stop, TypeInv, TypeOK, PoolInv, Prompts, Jobless, Locations
  <2>3. CASE SettleAnswered(w)
    <3>1. mine[w] \in Shards /\ Price[model] * answer[w] \in Nat
      BY <1>t, <2>0, <2>3, CostTypes DEF SettleAnswered, TypeOK, Jobless
    <3>2. TypeOK'
      BY <1>t, <2>3, <3>1 DEF SettleAnswered, Forget, RecordSpend, TypeOK, Locations
    <3>3. \E l \in {"next", "returned"} : pc' = [pc EXCEPT ![w] = l]
      BY <2>3 DEF SettleAnswered
    <3>4. \E x \in {"ok", "failed"} : outcome' = [outcome EXCEPT ![mine[w]] = x]
      BY <2>3 DEF SettleAnswered
    <3> QED
      BY <2>3, <2>b, <3>2, <3>3, <3>4 DEF SettleAnswered, Forget, TypeInv, Jobless
  <2>4. CASE SettleFailed(w)
    <3>1. mine[w] \in Shards
      BY <2>0, <2>4 DEF SettleFailed, Jobless
    <3>2. TypeOK'
      BY <1>t, <2>4, <3>1 DEF SettleFailed, Forget, TypeOK, Locations
    <3> QED
      BY <2>4, <2>b, <3>2 DEF SettleFailed, Forget, TypeInv, Jobless
  <2>5. CASE InnerAnswers(w)
    <3>1. TypeOK'
      BY <1>t, <2>0, <2>5 DEF InnerAnswers, TypeOK, Locations
    <3> QED
      BY <1>t, <2>5, <2>a, <3>1 DEF InnerAnswers, TypeInv, Locations, Jobless
  <2>6. CASE InnerRaises(w)
    <3>1. TypeOK'
      BY <1>t, <2>0, <2>6 DEF InnerRaises, TypeOK, Locations
    <3> QED
      BY <1>t, <2>6, <2>a, <3>1 DEF InnerRaises, TypeInv, Locations, Jobless
  <2>7. CASE Charge(w)
    <3>1. TaskCost(answer[w]) \in Nat
      BY <1>t, <2>0, CostTypes DEF TypeOK
    <3>2. TypeOK'
      <4>1. breached' \in BOOLEAN
        BY <1>t, <2>7 DEF Charge, TypeOK
      <4>2. ledger' \in Nat /\ paid' \in Nat
        BY <1>t, <2>7, <3>1 DEF Charge, TypeOK
      <4>3. pc' \in [Workers -> Locations]
        BY <1>t, <2>7, ZenonT(60) DEF Charge, TypeOK, Locations
      <4> QED
        BY <1>t, <2>7, <4>1, <4>2, <4>3 DEF Charge, TypeOK
    <3>3. \E l \in {"append", "failed"} : pc' = [pc EXCEPT ![w] = l]
      BY <2>7 DEF Charge
    <3> QED
      BY <2>7, <2>a, <3>2, <3>3 DEF Charge, TypeInv, Locations, Jobless
  <2>8. CASE AppendCall(w)
    <3>1. Recorded(w) \in Call
      BY <2>0, <2>8, RecordedTypes DEF AppendCall, AnswerInv, Jobless
    <3>2. tape' \in Seq(Call)
      BY <1>t, <2>8, <3>1 DEF AppendCall, TypeOK
    <3>3. TypeOK'
      BY <1>t, <2>8, <3>2 DEF AppendCall, TypeOK, Locations
    <3> QED
      BY <1>t, <2>8, <2>a, <3>3 DEF AppendCall, TypeInv, Locations, Jobless
  <2>9. CASE ReadTotals(w)
    <3>1. TypeOK'
      BY <1>t, <2>0, <2>9 DEF ReadTotals, TypeOK, Locations
    <3> QED
      BY <1>t, <2>9, <2>a, <3>1 DEF ReadTotals, TypeInv, Locations, Jobless
  <2>10. CASE WriteTotals(w)
    <3>1. TaskCost(answer[w]) \in Nat
      BY <1>t, <2>0, CostTypes DEF TypeOK
    <3>2. TypeOK'
      BY <1>t, <2>0, <2>10, <3>1 DEF WriteTotals, TypeOK, Locations
    <3> QED
      BY <1>t, <2>10, <2>a, <3>2 DEF WriteTotals, TypeInv, Locations, Jobless
  <2>11. CASE HandOut(w)
    <3>1. file.calls[cursor + 1] \in Call
      <4>1. file \in [calls : Seq(Call), total : Nat]
        BY <1>t, <2>11 DEF HandOut, AnswerInv, TypeOK
      <4>2. file.calls \in Seq(Call) /\ cursor \in Nat /\ cursor < Len(file.calls)
        BY <1>t, <2>11, <4>1 DEF HandOut, Matches, TypeOK
      <4> QED
        BY <4>2
    <3>2. file.calls[cursor + 1].size \in Sizes
      BY <3>1 DEF Call
    <3>3. handed' \in Seq(Nat)
      BY <1>t, <2>11 DEF HandOut, TypeOK
    <3>4. TypeOK'
      BY <1>t, <2>11, <3>2, <3>3 DEF HandOut, TypeOK, Locations
    <3> QED
      BY <1>t, <2>11, <2>a, <3>4 DEF HandOut, TypeInv, Locations, Jobless
  <2>12. CASE Mismatch(w)
    <3>1. TypeOK'
      BY <1>t, <2>0, <2>12 DEF Mismatch, TypeOK, Locations
    <3> QED
      BY <1>t, <2>12, <2>a, <3>1 DEF Mismatch, TypeInv, Locations, Jobless
  <2>13. CASE ReadCursor(w)
    <3>1. TypeOK'
      BY <1>t, <2>0, <2>13 DEF ReadCursor, TypeOK, Locations
    <3> QED
      BY <1>t, <2>13, <2>a, <3>1 DEF ReadCursor, TypeInv, Locations, Jobless
  <2>14. CASE StoreCursor(w)
    <3>1. TypeOK'
      BY <1>t, <2>0, <2>14 DEF StoreCursor, TypeOK, Locations
    <3> QED
      BY <1>t, <2>14, <2>a, <3>1 DEF StoreCursor, TypeInv, Locations, Jobless
  <2> QED
    BY <1>6, <2>1, <2>2, <2>3, <2>4, <2>5, <2>6, <2>7, <2>8, <2>9, <2>10, <2>11, <2>12, <2>13,
       <2>14 DEF Thread
<1>7. CASE UNCHANGED vars
  BY <1>t, <1>7 DEF vars, TypeInv, TypeOK, PoolInv, Prompts
<1> QED
  BY <1>1, <1>3, <1>4, <1>5, <1>6, <1>7 DEF Next, StartLive, StartReplay, Finish, Rest

\* Every variable keeps to its type.
THEOREM CassetteTypeCorrect == Spec => []TypeOK
<1>1. Init => TypeInv /\ AnswerInv
  BY TypeInit DEF Init, AnswerInv
<1>2. TypeInv /\ AnswerInv /\ [Next]_vars => TypeInv' /\ AnswerInv'
  BY TypeStep, AnswerStep DEF TypeInv
<1>3. TypeInv => TypeOK
  BY DEF TypeInv
<1> QED
  BY <1>1, <1>2, <1>3, PTL DEF Spec

-----------------------------------------------------------------------------
(***************************************************************************)
(* The order of a replay.  A worker between a call it was handed and the   *)
(* cursor's increment had the prompt of the call at the cursor; with       *)
(* prompts that differ only the worker of that shard has it, so there is   *)
(* never more than one such worker, and nobody else moves the cursor or is *)
(* handed a call until it has stored its increment.                        *)
(***************************************************************************)
Advancing(w) == pc[w] \in {"advance", "store"}

OrderInv ==
  phase = "replay" /\ DistinctTexts =>
    /\ \A i \in DOMAIN handed : handed[i] = i
    /\ \A w \in Workers : Advancing(w) =>
         Matches(w) /\ (pc[w] = "store" => seen[w] = cursor)
    /\ Len(handed) = IF \E w \in Workers : Advancing(w) THEN cursor + 1 ELSE cursor

\* Two workers that match the call at the cursor are one.
LEMMA OneMatch ==
  ASSUME TypeInv, DistinctTexts, NEW v \in Workers, NEW w \in Workers,
         pc[v] \notin Jobless, pc[w] \notin Jobless, Matches(v), Matches(w)
  PROVE  v = w
<1>1. text[mine[v]] = text[mine[w]]
  BY DEF Matches, Key, Recorded
<1>2. mine[v] # 0 /\ mine[v] \in Prompts /\ mine[w] \in Prompts
  BY DEF TypeInv, PoolInv
<1>3. mine[v] = mine[w]
  BY <1>1, <1>2 DEF DistinctTexts
<1> QED
  BY <1>2, <1>3 DEF TypeInv, PoolInv

LEMMA OrderStep ==
  ASSUME TypeInv, AnswerInv, OrderInv, [Next]_vars
  PROVE  OrderInv'
<1>t. TypeOK /\ PoolInv /\ TypeOK' /\ PoolInv'
  BY TypeStep DEF TypeInv
<1> USE DEF taskVars, recorderVars, replayVars, poolVars, threadVars, runnerVars, GoTo
<1>1. CASE StartLive \/ StartReplay
  <2>1. \A w \in Workers : pc'[w] \in Jobless
    BY <1>1 DEF StartLive, StartReplay, Starts, Jobless
  <2>2. cursor' = 0 /\ handed' = << >>
    BY <1>t, <1>1 DEF StartLive, StartReplay, Starts, PoolInv
  <2> QED
    BY <2>1, <2>2 DEF OrderInv, Advancing, Jobless
<1>2. CASE Finish \/ Interrupted
  BY <1>2 DEF Finish, FinishLive, FinishReplay, Interrupted, OrderInv
<1>3. ASSUME NEW w \in Workers, Thread(w) PROVE OrderInv'
  <2>1. phase' = phase /\ file' = file /\ model' = model /\ text' = text /\ strategy' = strategy
    BY <1>3 DEF Thread, TakeShard, Stop, SettleAnswered, SettleFailed, InnerAnswers, InnerRaises,
                Charge, AppendCall, ReadTotals, WriteTotals, HandOut, Mismatch, ReadCursor,
                StoreCursor
  <2>2. \A v \in Workers \ {w} :
          pc'[v] = pc[v] /\ mine'[v] = mine[v] /\ answer'[v] = answer[v] /\ seen'[v] = seen[v]
    BY <1>t, <1>3, ZenonT(60)
       DEF Thread, TakeShard, Stop, SettleAnswered, SettleFailed, InnerAnswers, InnerRaises,
           Charge, AppendCall, ReadTotals, WriteTotals, HandOut, Mismatch, ReadCursor,
           StoreCursor, Forget, TypeOK
  <2> SUFFICES ASSUME phase = "replay", DistinctTexts
               PROVE  /\ \A i \in DOMAIN handed' : handed'[i] = i
                      /\ \A v \in Workers : Advancing(v)' =>
                           Matches(v)' /\ (pc'[v] = "store" => seen'[v] = cursor')
                      /\ Len(handed') = IF \E v \in Workers : Advancing(v)' THEN cursor' + 1
                                        ELSE cursor'
    BY <2>1 DEF OrderInv, DistinctTexts, Prompts
  <2>3. \A v \in Workers \ {w} : cursor' = cursor => (Matches(v)' <=> Matches(v))
    BY <2>1, <2>2 DEF Matches, Key, Recorded
  <2>4. /\ cursor \in Nat /\ handed \in Seq(Nat)
        /\ \A i \in DOMAIN handed : handed[i] = i
        /\ \A v \in Workers : Advancing(v) => Matches(v) /\ (pc[v] = "store" => seen[v] = cursor)
        /\ Len(handed) = IF \E v \in Workers : Advancing(v) THEN cursor + 1 ELSE cursor
    BY <1>t DEF OrderInv, TypeOK
  <2>5. CASE HandOut(w)
    <3>1. Matches(w) /\ pc[w] = "call" /\ handed' = Append(handed, cursor + 1) /\ cursor' = cursor
          /\ mine' = mine
      BY <2>5 DEF HandOut
    <3>2. \A v \in Workers : ~Advancing(v)
      <4> SUFFICES ASSUME NEW v \in Workers, Advancing(v) PROVE FALSE
        OBVIOUS
      <4>1. v = w
        BY <2>4, <3>1, OneMatch DEF Advancing, Jobless
      <4> QED
        BY <3>1, <4>1 DEF Advancing
    <3>3. Len(handed) = cursor
      BY <2>4, <3>2
    <3>4. Len(handed') = cursor + 1 /\ \A i \in DOMAIN handed' : handed'[i] = i
      BY <2>4, <3>1, <3>3
    <3>5. pc'[w] = "advance" /\ Matches(w)'
      BY <1>t, <2>1, <2>5, <3>1 DEF HandOut, Matches, Key, Recorded, TypeOK
    <3> QED
      BY <2>2, <3>1, <3>2, <3>4, <3>5 DEF Advancing
  <2>6. CASE ReadCursor(w)
    <3>1. /\ pc[w] = "advance" /\ pc'[w] = "store" /\ seen'[w] = cursor
          /\ cursor' = cursor /\ handed' = handed /\ mine' = mine
      BY <1>t, <2>6 DEF ReadCursor, TypeOK
    <3>2. Matches(w)'
      BY <2>1, <2>4, <3>1 DEF Advancing, Matches, Key, Recorded
    <3> QED
      BY <2>2, <2>3, <2>4, <3>1, <3>2 DEF Advancing
  <2>7. CASE StoreCursor(w)
    <3>1. /\ pc[w] = "store" /\ pc'[w] = "answered" /\ cursor' = seen[w] + 1 /\ handed' = handed
      BY <1>t, <2>7 DEF StoreCursor, TypeOK
    <3>2. Matches(w) /\ seen[w] = cursor /\ Len(handed) = cursor + 1
      BY <2>4, <3>1 DEF Advancing
    <3>3. ASSUME NEW v \in Workers \ {w} PROVE ~Advancing(v)
      BY <2>4, <3>1, <3>2, OneMatch DEF Advancing, Jobless
    <3> QED
      BY <2>2, <2>4, <3>1, <3>2, <3>3 DEF Advancing
  <2>8. CASE ~HandOut(w) /\ ~ReadCursor(w) /\ ~StoreCursor(w)
    <3>1. cursor' = cursor /\ handed' = handed
      BY <1>3, <2>8
         DEF Thread, TakeShard, Stop, SettleAnswered, SettleFailed, InnerAnswers, InnerRaises,
             Charge, AppendCall, ReadTotals, WriteTotals, Mismatch
    <3>2. pc[w] \notin {"advance", "store"} /\ pc'[w] \notin {"advance", "store"}
      BY <1>t, <1>3, <2>8
         DEF Thread, TakeShard, Stop, SettleAnswered, SettleFailed, InnerAnswers, InnerRaises,
             Charge, AppendCall, ReadTotals, WriteTotals, Mismatch, TypeOK
    <3> QED
      BY <2>2, <2>3, <2>4, <3>1, <3>2 DEF Advancing
  <2> QED
    BY <2>5, <2>6, <2>7, <2>8
<1>4. CASE UNCHANGED vars
  BY <1>4 DEF vars, OrderInv, DistinctTexts, Prompts, Advancing, Matches, Key, Recorded
<1> QED
  BY <1>1, <1>2, <1>3, <1>4 DEF Next, Rest

\* Whatever order the workers call in, a replay hands out the recorded calls in
\* order, none twice and none left out, if no two prompts read the same.
THEOREM ReplayKeepsOrder == Spec => []HandedOutInOrder
<1>1. Init => TypeInv /\ AnswerInv /\ OrderInv
  BY TypeInit DEF Init, AnswerInv, OrderInv
<1>2. TypeInv /\ AnswerInv /\ OrderInv /\ [Next]_vars => TypeInv' /\ AnswerInv' /\ OrderInv'
  BY TypeStep, AnswerStep, OrderStep DEF TypeInv
<1>3. TypeInv /\ OrderInv => HandedOutInOrder
  BY DEF TypeInv, TypeOK, OrderInv, HandedOutInOrder
<1> QED
  BY <1>1, <1>2, <1>3, PTL DEF Spec

-----------------------------------------------------------------------------
(***************************************************************************)
(* What a green replay vouches for.  The tape holds prompts the run has    *)
(* asked, of its model; the file holds the tape with the secrets rewritten *)
(* into something no prompt reads; so a prompt that matched a call of the  *)
(* file was asked by the run that wrote it and was not rewritten.          *)
(***************************************************************************)
Asked == {text[s] : s \in 1 .. claimed}

\* Some call of the cassette answers shard s's request.
Covered(s) == \E i \in DOMAIN file.calls :
                file.calls[i].text = text[s] /\ file.calls[i].model = model

TapeInv ==
  phase = "live" => \A i \in DOMAIN tape : tape[i].model = model /\ tape[i].text \in Asked

FileInv ==
  file # NoFile =>
    /\ source \in Report
    /\ \A i \in DOMAIN file.calls :
         /\ file.calls[i].model = source.model
         /\ file.calls[i].text = Redacted \/ file.calls[i].text \in source.asked \ Secretive

ReplayInv ==
  phase = "replay" =>
    /\ \A s \in Shards : outcome[s] = "ok" => Covered(s)
    /\ \A w \in Workers : pc[w] \in {"advance", "store", "answered"} => Covered(mine[w])

GreenInv == TapeInv /\ FileInv /\ ReplayInv /\ GreenMeansFaithful

LEMMA FileTypes ==
  ASSUME TypeOK, file # NoFile
  PROVE  /\ file \in [calls : Seq(Call), total : Nat] /\ file.calls \in Seq(Call)
         /\ \A i \in DOMAIN file.calls : file.calls[i] \in Call
<1>1. file \in [calls : Seq(Call), total : Nat]
  BY DEF TypeOK
<1>2. file.calls \in Seq(Call)
  BY <1>1
<1> QED
  BY <1>1, <1>2

\* What a live run saves keeps FileInv.
LEMMA SavedFile ==
  ASSUME TypeInv, TapeInv, FinishLive
  PROVE  FileInv'
<1>t. TypeOK /\ PoolInv /\ phase = "live"
  BY DEF TypeInv, FinishLive
<1>1. Reported(Succeeded) \in Report
  BY <1>t, ReportTypes DEF Running, Succeeded
<1>2. /\ source' = Reported(Succeeded) /\ file' = Saved
      /\ source'.model = model /\ source'.asked = Asked
  BY DEF FinishLive, Reported, Asked
<1>3. ASSUME NEW i \in DOMAIN file'.calls
      PROVE  /\ file'.calls[i].model = source'.model
             /\ file'.calls[i].text = Redacted \/ file'.calls[i].text \in source'.asked \ Secretive
  <2>1. i \in DOMAIN tape /\ tape[i] \in Call /\ file'.calls[i] = Redact(tape[i])
    BY <1>t, <1>2, SavedTypes
  <2>2. tape[i].model = model /\ tape[i].text \in Asked
    BY <1>t, <2>1 DEF TapeInv
  <2>3. /\ file'.calls[i].model = model
        /\ file'.calls[i].text = IF tape[i].text \in Secretive THEN Redacted ELSE tape[i].text
    BY <2>1, <2>2, RedactCall
  <2> QED
    BY <1>2, <2>2, <2>3
<1> QED
  BY <1>1, <1>2, <1>3 DEF FileInv

\* A run that succeeds has settled everything it took, and nothing with a failure.
LEMMA SucceededCovers ==
  ASSUME TypeInv, ReplayInv, phase = "replay", Joined, Succeeded
  PROVE  1 \in 1 .. claimed /\ \A s \in 1 .. claimed : s \in Shards /\ Covered(s)
<1>t. TypeOK /\ PoolInv /\ claimed \in 0 .. NumShards
  BY DEF TypeInv, TypeOK
<1>1. 1 \in 1 .. claimed
  BY <1>t, ShardsAssumption DEF Succeeded
<1>2. ASSUME NEW s \in 1 .. claimed PROVE s \in Shards /\ Covered(s)
  <2>1. s \in Shards
    BY <1>t, ShardsAssumption DEF Shards
  <2>2. outcome[s] # "none"
    <3>1. \A w \in Workers : mine[w] = 0
      BY <1>t DEF Joined, PoolInv, Jobless
    <3>2. s # 0
      BY <1>t
    <3> QED
      BY <1>t, <3>1, <3>2 DEF PoolInv
  <2>3. outcome[s] = "ok"
    BY <1>t, <2>1, <2>2 DEF TypeOK, Succeeded
  <2> QED
    BY <2>1, <2>3 DEF ReplayInv
<1> QED
  BY <1>1, <1>2

LEMMA GreenReplay ==
  ASSUME TypeInv, AnswerInv, FileInv, ReplayInv, FinishReplay, report'.success
  PROVE  report'.model = source'.model /\ report'.asked \subseteq source'.asked \ Secretive
<1>t. TypeOK /\ PoolInv /\ phase = "replay" /\ Joined /\ source' = source /\ file # NoFile
  BY DEF TypeInv, FinishReplay, AnswerInv
<1>1. /\ report'.success = ((Succeeded /\ spent = file.total) /\ spent <= TaskCap)
      /\ report'.model = model /\ report'.asked = Asked
  BY DEF FinishReplay, Reported, Asked
<1>2. 1 \in 1 .. claimed /\ \A s \in 1 .. claimed : s \in Shards /\ Covered(s)
  BY <1>t, <1>1, SucceededCovers
<1>3. report'.model = source'.model
  BY <1>t, <1>1, <1>2 DEF Covered, FileInv
<1>4. ASSUME NEW s \in 1 .. claimed PROVE text[s] \in source'.asked \ Secretive
  <2>1. text[s] # Redacted
    BY <1>t, <1>2, TextsOfShards
  <2> QED
    BY <1>t, <1>2, <2>1 DEF Covered, FileInv
<1> QED
  BY <1>1, <1>3, <1>4 DEF Asked

LEMMA GreenStep ==
  ASSUME TypeInv, AnswerInv, GreenInv, [Next]_vars
  PROVE  GreenInv'
<1>t. TypeOK /\ PoolInv /\ TypeOK' /\ PoolInv'
  BY TypeStep DEF TypeInv
<1> USE DEF taskVars, recorderVars, replayVars, poolVars, threadVars, runnerVars, GoTo
<1>1. CASE StartLive \/ StartReplay
  <2>1. \A w \in Workers : pc'[w] \in Jobless
    BY <1>1 DEF StartLive, StartReplay, Starts, Jobless
  <2>2. /\ tape' = << >> /\ file' = file /\ source' = source /\ report' = NoReport
        /\ \A s \in Shards : outcome'[s] = "none"
    BY <1>t, <1>1 DEF StartLive, StartReplay, Starts, PoolInv
  <2>3. TapeInv' /\ ReplayInv'
    BY <2>1, <2>2 DEF TapeInv, ReplayInv, Jobless
  <2>4. FileInv' /\ GreenMeansFaithful'
    BY <2>2 DEF GreenInv, FileInv, GreenMeansFaithful, NoReport
  <2> QED
    BY <2>3, <2>4 DEF GreenInv
<1>2. CASE FinishLive
  <2>1. FileInv'
    BY <1>2, SavedFile DEF GreenInv
  <2>2. report'.mode = "live" /\ phase' = "idle"
    BY <1>2 DEF FinishLive, Reported
  <2> QED
    BY <2>1, <2>2 DEF GreenInv, TapeInv, ReplayInv, GreenMeansFaithful
<1>3. CASE FinishReplay
  <2>1. GreenMeansFaithful'
    BY <1>3, GreenReplay DEF GreenInv, GreenMeansFaithful
  <2>2. phase' = "idle" /\ file' = file /\ source' = source
    BY <1>3 DEF FinishReplay
  <2> QED
    BY <2>1, <2>2 DEF GreenInv, TapeInv, FileInv, ReplayInv
<1>4. CASE Interrupted
  BY <1>4 DEF Interrupted, GreenInv, TapeInv, FileInv, ReplayInv, GreenMeansFaithful, NoReport
<1>5. ASSUME NEW w \in Workers, Thread(w) PROVE GreenInv'
  <2>1. /\ phase' = phase /\ file' = file /\ model' = model /\ text' = text
        /\ source' = source /\ report' = report
    BY <1>5 DEF Thread, TakeShard, Stop, SettleAnswered, SettleFailed, InnerAnswers, InnerRaises,
                Charge, AppendCall, ReadTotals, WriteTotals, HandOut, Mismatch, ReadCursor,
                StoreCursor
  <2>2. FileInv' /\ GreenMeansFaithful'
    BY <2>1 DEF GreenInv, FileInv, GreenMeansFaithful
  <2>3. \A s : Covered(s) => Covered(s)'
    BY <2>1 DEF Covered
  <2>4. claimed' \in {claimed, claimed + 1} /\ claimed \in Nat
    BY <1>t, <1>5, ShardsAssumption
       DEF Thread, TakeShard, Stop, SettleAnswered, SettleFailed, InnerAnswers, InnerRaises,
           Charge, AppendCall, ReadTotals, WriteTotals, HandOut, Mismatch, ReadCursor,
           StoreCursor, TypeOK
  <2>5. Asked \subseteq Asked'
    BY <2>1, <2>4 DEF Asked
  <2>6. TapeInv'
    <3>1. CASE AppendCall(w)
      <4>1. mine[w] \in 1 .. claimed
        BY <1>t, <2>4, <3>1 DEF AppendCall, PoolInv, Jobless, TypeOK, Shards
      <4>2. Recorded(w).model = model /\ Recorded(w).text \in Asked
        BY <4>1 DEF Recorded, Asked
      <4>3. tape \in Seq(Call) /\ tape' = Append(tape, Recorded(w))
        BY <1>t, <3>1 DEF AppendCall, TypeOK
      <4>4. \A i \in DOMAIN tape' : (i \in DOMAIN tape /\ tape'[i] = tape[i]) \/ tape'[i] = Recorded(w)
        BY <4>3
      <4> QED
        BY <2>1, <2>5, <4>2, <4>4 DEF GreenInv, TapeInv
    <3>2. CASE ~AppendCall(w)
      <4>1. tape' = tape
        BY <1>5, <3>2
           DEF Thread, TakeShard, Stop, SettleAnswered, SettleFailed, InnerAnswers, InnerRaises,
               Charge, ReadTotals, WriteTotals, HandOut, Mismatch, ReadCursor, StoreCursor
      <4> QED
        BY <2>1, <2>5, <4>1 DEF GreenInv, TapeInv
    <3> QED
      BY <3>1, <3>2
  <2>7. ReplayInv'
    <3> SUFFICES ASSUME phase = "replay"
                 PROVE  /\ \A s \in Shards : outcome'[s] = "ok" => Covered(s)
                        /\ \A v \in Workers : pc'[v] \in {"advance", "store", "answered"} =>
                             Covered(mine'[v])
      BY <2>1, <2>3 DEF ReplayInv
    <3>1. /\ \A s \in Shards : outcome[s] = "ok" => Covered(s)
          /\ \A v \in Workers : pc[v] \in {"advance", "store", "answered"} => Covered(mine[v])
      BY DEF GreenInv, ReplayInv
    <3>2. CASE HandOut(w)
      <4>1. Covered(mine[w])
        <5>1. file.calls \in Seq(Call) /\ cursor \in Nat
          BY <1>t, FileTypes DEF AnswerInv, TypeOK
        <5>2. cursor + 1 \in DOMAIN file.calls
          BY <3>2, <5>1 DEF HandOut, Matches
        <5>3. file.calls[cursor + 1].text = text[mine[w]] /\ file.calls[cursor + 1].model = model
          BY <3>2 DEF HandOut, Matches, Key, Recorded
        <5> QED
          BY <5>2, <5>3 DEF Covered
      <4> QED
        BY <1>t, <3>1, <3>2, <4>1 DEF HandOut, TypeOK
    <3>3. CASE SettleAnswered(w)
      <4>1. Covered(mine[w])
        BY <3>1, <3>3 DEF SettleAnswered
      <4>2. \A s \in Shards : outcome'[s] = "ok" => s = mine[w] \/ outcome[s] = "ok"
        BY <1>t, <3>3 DEF SettleAnswered, TypeOK
      <4>3. \A v \in Workers : pc'[v] \in {"advance", "store", "answered"} =>
              v # w /\ pc[v] = pc'[v] /\ mine'[v] = mine[v]
        BY <1>t, <3>3 DEF SettleAnswered, Forget, TypeOK
      <4> QED
        BY <3>1, <4>1, <4>2, <4>3
    <3>4. CASE SettleFailed(w)
      BY <1>t, <3>1, <3>4 DEF SettleFailed, Forget, TypeOK
    <3>5. CASE ~HandOut(w) /\ ~SettleAnswered(w) /\ ~SettleFailed(w)
      <4>1. outcome' = outcome
        BY <1>5, <3>5
           DEF Thread, TakeShard, Stop, InnerAnswers, InnerRaises, Charge, AppendCall, ReadTotals,
               WriteTotals, Mismatch, ReadCursor, StoreCursor
      <4>2. \A v \in Workers : pc'[v] \in {"advance", "store", "answered"} =>
              pc[v] \in {"advance", "store", "answered"} /\ mine'[v] = mine[v]
        BY <1>t, <1>5, <3>5, ZenonT(60)
           DEF Thread, TakeShard, Stop, InnerAnswers, InnerRaises, Charge, AppendCall, ReadTotals,
               WriteTotals, Mismatch, ReadCursor, StoreCursor, AnswerInv, TypeOK
      <4> QED
        BY <3>1, <4>1, <4>2
    <3> QED
      BY <3>2, <3>3, <3>4, <3>5
  <2> QED
    BY <2>2, <2>6, <2>7 DEF GreenInv
<1>6. CASE UNCHANGED vars
  BY <1>6 DEF vars, GreenInv, TapeInv, FileInv, ReplayInv, GreenMeansFaithful, Asked, Covered
<1> QED
  BY <1>1, <1>2, <1>3, <1>4, <1>5, <1>6 DEF Next, Finish, Rest

\* A green replay asked only what the recorded run asked, of the same model,
\* though the strategies swallow the mismatch exception.
THEOREM GreenIsFaithful == Spec => []GreenMeansFaithful
<1>1. Init => TypeInv /\ AnswerInv /\ GreenInv
  BY TypeInit
     DEF Init, AnswerInv, GreenInv, TapeInv, FileInv, ReplayInv, GreenMeansFaithful, NoReport
<1>2. TypeInv /\ AnswerInv /\ GreenInv /\ [Next]_vars => TypeInv' /\ AnswerInv' /\ GreenInv'
  BY TypeStep, AnswerStep, GreenStep DEF TypeInv
<1>3. GreenInv => GreenMeansFaithful
  BY DEF GreenInv
<1> QED
  BY <1>1, <1>2, <1>3, PTL DEF Spec


(***************************************************************************)
(* The books of a recording.  What a run has charged is what the tape      *)
(* costs and what the threads are about to put there.  The totals trail    *)
(* the tape by the calls noted and not yet counted; a thread that read     *)
(* them before another wrote holds an old value, and an old value is low.  *)
(***************************************************************************)
At(places) == {w \in Workers : pc[w] \in places}

Costs == [w \in Workers |-> TaskCost(answer[w])]

Outlay(places) == SumOver(Costs, At(places))

Uncounted == {"read", "write"}

CallCosts(calls) == [i \in DOMAIN calls |-> TaskCost(calls[i].size)]

LEMMA CostOfIsSum ==
  ASSUME NEW calls
  PROVE  CostOf(calls) = SumOver(CallCosts(calls), DOMAIN calls)
<1>1. CostOf(calls) = SumOver(CallCosts(calls), DOMAIN CallCosts(calls))
  BY Zenon DEF CostOf, FoldFunction, SumOver, CallCosts
<1>2. DOMAIN CallCosts(calls) = DOMAIN calls
  BY DEF CallCosts
<1> QED
  BY <1>1, <1>2

LEMMA CostOfNone == CostOf(<< >>) = 0
<1>1. DOMAIN << >> = {}
  OBVIOUS
<1> QED
  BY <1>1, CostOfIsSum, SumOfNone

LEMMA CostAppended ==
  ASSUME NEW calls \in Seq(Call), NEW call \in Call
  PROVE  /\ CostOf(calls) \in Nat
         /\ CostOf(Append(calls, call)) = CostOf(calls) + TaskCost(call.size)
<1> DEFINE last == Len(calls) + 1
           S == 1 .. Len(calls)
           T == 1 .. last
           longer == Append(calls, call)
           f == CallCosts(calls)
           g == CallCosts(longer)
<1>1. /\ Len(calls) \in Nat /\ DOMAIN calls = S /\ DOMAIN longer = T
      /\ \A i \in S : calls[i] \in Call /\ longer[i] = calls[i]
      /\ longer[last] = call
  BY AppendProperties, LenProperties, ElementOfSeq
<1>2. \A c \in Call : TaskCost(c.size) \in Nat
  <2> TAKE c \in Call
  <2>1. c.size \in Sizes \cup {0} /\ TaskModel \in Models
    BY PricesAssumption DEF Call
  <2> QED
    BY <2>1, CostTypes
<1>3. last \notin S /\ T = S \cup {last}
  BY <1>1
<1>4. \A i \in S : f[i] = TaskCost(calls[i].size) /\ g[i] = TaskCost(calls[i].size)
  BY <1>1, <1>3 DEF CallCosts
<1>5. g[last] = TaskCost(call.size)
  BY <1>1, <1>3 DEF CallCosts
<1>6. IsFiniteSet(S)
  <2>1. 1 \in Int /\ Len(calls) \in Int
    BY <1>1
  <2> QED
    BY <2>1, FS_Interval
<1>7. CostOf(calls) = SumOver(f, S) /\ CostOf(longer) = SumOver(g, T)
  BY <1>1, CostOfIsSum
<1>8. (\A i \in S : f[i] \in Nat /\ g[i] = f[i]) /\ g[last] \in Nat
  BY <1>1, <1>2, <1>4, <1>5
<1> HIDE DEF f, g, S, T, last
<1>9. SumOver(f, S) \in Nat
  BY <1>6, <1>8, SumType
<1>10. SumOver(g, S \cup {last}) = SumOver(f, S) + g[last]
  BY <1>3, <1>6, <1>8, SumGrows
<1> QED
  BY <1>3, <1>5, <1>7, <1>9, <1>10

LEMMA TapeCost ==
  ASSUME TypeOK
  PROVE  CostOf(tape) \in Nat
<1>1. tape \in Seq(Call)
  BY DEF TypeOK
<1>2. CASE tape = << >>
  BY <1>2, CostOfNone
<1>3. CASE tape # << >>
  <2>1. tape[1] \in Call
    BY <1>1, <1>3
  <2> QED
    BY <1>1, <2>1, CostAppended
<1> QED
  BY <1>2, <1>3

LEMMA AnswerCosts ==
  ASSUME TypeOK
  PROVE  \A w \in Workers : TaskCost(answer[w]) \in Nat
<1>1. TaskModel \in Models /\ \A w \in Workers : answer[w] \in Sizes \cup {0}
  BY PricesAssumption DEF TypeOK
<1> QED
  BY <1>1, CostTypes

LEMMA OutlayOfAppend ==
  CostOfAnswers({w \in Workers : pc[w] = "append"}) = Outlay({"append"})
<1>1. {w \in Workers : pc[w] = "append"} = At({"append"})
  BY DEF At
<1>2. CostOfAnswers(At({"append"})) = Outlay({"append"})
  BY Zenon DEF CostOfAnswers, Outlay, SumOver, Costs
<1> QED
  BY <1>1, <1>2

LEMMA OutlayType ==
  ASSUME TypeOK, NEW places
  PROVE  Outlay(places) \in Nat
<1>1. At(places) \subseteq Workers /\ IsFiniteSet(At(places))
  BY WorkersAssumption, FS_Subset DEF At
<1>2. \A w \in At(places) : Costs[w] \in Nat
  BY <1>1, AnswerCosts DEF Costs
<1> QED
  BY <1>1, <1>2, SumType DEF Outlay

LEMMA OutlayJoins ==
  ASSUME TypeOK, TypeOK', NEW places, NEW w \in Workers,
         pc[w] \notin places, pc'[w] \in places,
         \A v \in Workers \ {w} : pc'[v] = pc[v] /\ answer'[v] = answer[v]
  PROVE  /\ Outlay(places) \in Nat
         /\ Outlay(places)' = Outlay(places) + TaskCost(answer'[w])
<1> DEFINE f == Costs
           g == Costs'
           S == At(places)
           T == At(places)'
<1>1. T = S \cup {w} /\ w \notin S /\ S \subseteq Workers
  BY DEF At
<1>2. IsFiniteSet(S)
  BY <1>1, WorkersAssumption, FS_Subset
<1>3. /\ \A v \in S : f[v] \in Nat /\ g[v] = f[v]
      /\ g[w] = TaskCost(answer'[w]) /\ g[w] \in Nat
  <2>1. TaskModel \in Models /\ \A v \in Workers : answer'[v] \in Sizes \cup {0}
    BY PricesAssumption DEF TypeOK
  <2>2. \A v \in Workers : TaskCost(answer'[v]) \in Nat
    BY <2>1, CostTypes
  <2> QED
    BY <1>1, <2>2, AnswerCosts DEF Costs
<1>4. Outlay(places) = SumOver(f, S) /\ Outlay(places)' = SumOver(g, T)
  BY DEF Outlay
<1> HIDE DEF f, g, S, T
<1>5. SumOver(f, S) \in Nat
  BY <1>2, <1>3, SumType
<1>6. SumOver(g, S \cup {w}) = SumOver(f, S) + g[w]
  BY <1>1, <1>2, <1>3, SumGrows
<1> QED
  BY <1>1, <1>3, <1>4, <1>5, <1>6

LEMMA OutlayLeaves ==
  ASSUME TypeOK, NEW places, NEW w \in Workers, pc[w] \in places, pc'[w] \notin places,
         \A v \in Workers \ {w} : pc'[v] = pc[v] /\ answer'[v] = answer[v]
  PROVE  /\ Outlay(places)' \in Nat
         /\ Outlay(places) = Outlay(places)' + TaskCost(answer[w])
<1> DEFINE f == Costs
           g == Costs'
           S == At(places)
           T == At(places)'
<1>1. T = S \ {w} /\ w \in S /\ S \subseteq Workers
  BY DEF At
<1>2. IsFiniteSet(S) /\ IsFiniteSet(S \ {w})
  BY <1>1, WorkersAssumption, FS_Subset
<1>3. \A v \in S : f[v] \in Nat
  BY <1>1, AnswerCosts DEF Costs
<1>4. \A v \in S \ {w} : f[v] \in Nat /\ g[v] = f[v]
  BY <1>1, AnswerCosts DEF Costs
<1>5. f[w] = TaskCost(answer[w])
  BY <1>1 DEF Costs
<1>6. Outlay(places) = SumOver(f, S) /\ Outlay(places)' = SumOver(g, T)
  BY DEF Outlay
<1> HIDE DEF f, g, S, T
<1>7. SumOver(f, S \ {w}) \in Nat /\ SumOver(f, S) = f[w] + SumOver(f, S \ {w})
  BY <1>1, <1>2, <1>3, SumSplit
<1>8. SumOver(g, S \ {w}) = SumOver(f, S \ {w})
  BY <1>2, <1>4, SumAgrees
<1>9. TaskCost(answer[w]) \in Nat
  BY AnswerCosts
<1> QED
  BY <1>1, <1>6, <1>7, <1>8, <1>9, <1>5

LEMMA OutlayStays ==
  ASSUME TypeOK, NEW places,
         \A v \in Workers : /\ pc'[v] \in places <=> pc[v] \in places
                            /\ pc[v] \in places => answer'[v] = answer[v]
  PROVE  Outlay(places) \in Nat /\ Outlay(places)' = Outlay(places)
<1> DEFINE f == Costs
           g == Costs'
           S == At(places)
           T == At(places)'
<1>1. T = S /\ S \subseteq Workers /\ \A v \in S : answer'[v] = answer[v]
  BY DEF At
<1>2. IsFiniteSet(S)
  BY <1>1, WorkersAssumption, FS_Subset
<1>3. \A v \in S : f[v] \in Nat /\ g[v] = f[v]
  BY <1>1, AnswerCosts DEF Costs
<1>4. Outlay(places) = SumOver(f, S) /\ Outlay(places)' = SumOver(g, T)
  BY DEF Outlay
<1> HIDE DEF f, g, S, T
<1>5. SumOver(f, S) \in Nat /\ SumOver(g, S) = SumOver(f, S)
  BY <1>2, <1>3, SumType, SumAgrees
<1> QED
  BY <1>1, <1>4, <1>5

LEMMA NoOutlay ==
  ASSUME NEW places, \A w \in Workers : pc[w] \notin places
  PROVE  Outlay(places) = 0
<1>1. At(places) = {}
  BY DEF At
<1> QED
  BY <1>1, SumOfNone DEF Outlay

\* A single-agent run has one call under way at most.
LEMMA OneCall ==
  ASSUME TypeInv, strategy = "single", NEW v \in Workers, NEW w \in Workers,
         pc[v] \notin Jobless, pc[w] \notin Jobless
  PROVE  v = w
BY DEF TypeInv, PoolInv, Prompts

PaidInv ==
  /\ phase # "live" => tape = << >> /\ paid = 0
  /\ paid = CostOf(tape) + Outlay({"append"})

CountedInv ==
  /\ phase # "live" => totals = 0
  /\ totals + Outlay(Uncounted) <= CostOf(tape)
  /\ \A w \in Workers : pc[w] = "write" => seen[w] + Outlay(Uncounted) <= CostOf(tape)
  /\ strategy = "single" =>
       /\ totals + Outlay(Uncounted) = CostOf(tape)
       /\ \A w \in Workers : pc[w] = "write" => seen[w] + Outlay(Uncounted) = CostOf(tape)

\* A run that starts and one that has ended have nothing on their books.
LEMMA BooksEmpty ==
  ASSUME tape = << >>, paid = 0, totals = 0,
         \A w \in Workers : pc[w] \notin {"append", "read", "write"}
  PROVE  PaidInv /\ CountedInv
<1>1. Outlay({"append"}) = 0 /\ Outlay(Uncounted) = 0
  BY NoOutlay DEF Uncounted
<1>2. CostOf(tape) = 0
  BY CostOfNone
<1> QED
  BY <1>1, <1>2 DEF PaidInv, CountedInv

BooksAreEmpty == tape = << >> /\ paid = 0 /\ totals = 0 /\
                 \A w \in Workers : pc[w] \notin {"append", "read", "write"}

LEMMA EmptyStep == BooksAreEmpty' => PaidInv' /\ CountedInv'
<1>1. BooksAreEmpty => PaidInv /\ CountedInv
  BY BooksEmpty DEF BooksAreEmpty
<1> QED
  BY <1>1, PTL

\* A thread outside the ledger, the tape and the totals.
LEMMA BooksUntouched ==
  ASSUME TypeOK, PaidInv, CountedInv, UNCHANGED << phase, strategy, tape, totals, paid >>,
         \A v \in Workers :
           /\ \A l \in {"append", "read", "write"} : pc'[v] = l <=> pc[v] = l
           /\ pc[v] \in {"append", "read", "write"} =>
                answer'[v] = answer[v] /\ seen'[v] = seen[v]
  PROVE  PaidInv' /\ CountedInv'
<1>1. Outlay({"append"})' = Outlay({"append"})
  BY OutlayStays
<1>2. Outlay(Uncounted)' = Outlay(Uncounted)
  BY OutlayStays DEF Uncounted
<1>3. CostOf(tape') = CostOf(tape)
  OBVIOUS
<1>4. PaidInv'
  BY <1>1, <1>3 DEF PaidInv
<1>5. \A v \in Workers : pc'[v] = "write" => pc[v] = "write" /\ seen'[v] = seen[v]
  OBVIOUS
<1>6. CountedInv'
  BY <1>2, <1>3, <1>5 DEF CountedInv
<1> QED
  BY <1>4, <1>6

LEMMA BooksCharge ==
  ASSUME TypeInv, TypeInv', AnswerInv, PaidInv, CountedInv, NEW w \in Workers, Charge(w)
  PROVE  PaidInv' /\ CountedInv'
<1> USE DEF taskVars, recorderVars, replayVars, poolVars, threadVars, runnerVars, GoTo
<1>t. TypeOK /\ TypeOK'
  BY DEF TypeInv
<1>1. /\ phase = "live" /\ pc[w] = "charge"
      /\ UNCHANGED << phase, strategy, tape, totals, answer, seen >>
      /\ pc'[w] \in {"failed", "append"}
      /\ \A v \in Workers \ {w} : pc'[v] = pc[v]
  BY <1>t DEF Charge, TypeOK
<1>2. CASE pc'[w] = "failed"
  <2>1. paid' = paid
    BY <1>t, <1>1, <1>2 DEF Charge, TypeOK
  <2> QED
    BY <1>t, <1>1, <1>2, <2>1, BooksUntouched
<1>3. CASE pc'[w] = "append"
  <2>1. paid' = paid + TaskCost(answer[w])
    BY <1>t, <1>1, <1>3 DEF Charge, TypeOK
  <2>2. /\ Outlay({"append"}) \in Nat
        /\ Outlay({"append"})' = Outlay({"append"}) + TaskCost(answer[w])
    BY <1>t, <1>1, <1>3, OutlayJoins
  <2>3. Outlay(Uncounted)' = Outlay(Uncounted)
    BY <1>t, <1>1, <1>3, OutlayStays DEF Uncounted
  <2>4. TaskCost(answer[w]) \in Nat /\ CostOf(tape') = CostOf(tape) /\ CostOf(tape) \in Nat
    <3>1. CostOf(tape) \in Nat
      BY <1>t, TapeCost
    <3> QED
      BY <1>t, <1>1, <3>1, AnswerCosts
  <2>5. PaidInv'
    BY <1>1, <2>1, <2>2, <2>4 DEF PaidInv
  <2>6. \A v \in Workers : pc'[v] = "write" => pc[v] = "write"
    BY <1>1, <1>3
  <2>7. CountedInv'
    BY <1>1, <2>3, <2>4, <2>6 DEF CountedInv
  <2> QED
    BY <2>5, <2>7
<1> QED
  BY <1>1, <1>2, <1>3

LEMMA BooksAppend ==
  ASSUME TypeInv, TypeInv', AnswerInv, PaidInv, CountedInv, NEW w \in Workers, AppendCall(w)
  PROVE  PaidInv' /\ CountedInv'
<1> USE DEF taskVars, recorderVars, replayVars, poolVars, threadVars, runnerVars, GoTo
<1>t. TypeOK /\ TypeOK' /\ PoolInv
  BY DEF TypeInv
<1>1. /\ pc[w] = "append" /\ pc'[w] = "read"
      /\ UNCHANGED << phase, strategy, paid, totals, answer, seen >>
      /\ tape' = Append(tape, Recorded(w))
      /\ \A v \in Workers \ {w} : pc'[v] = pc[v]
  BY <1>t DEF AppendCall, TypeOK
<1>2. phase = "live"
  BY <1>t, <1>1 DEF TypeOK, PoolInv, AnswerInv, Jobless
<1> DEFINE cost == TaskCost(answer[w])
<1>3. /\ CostOf(tape) \in Nat /\ CostOf(tape') = CostOf(tape) + cost /\ cost \in Nat
  <2>1. Recorded(w) \in Call /\ Recorded(w).size = answer[w]
    BY <1>t, <1>1, RecordedTypes DEF PoolInv, AnswerInv, Recorded, Jobless
  <2>2. tape \in Seq(Call)
    BY <1>t DEF TypeOK
  <2> QED
    BY <1>t, <1>1, <2>1, <2>2, CostAppended, AnswerCosts
<1>4. /\ Outlay({"append"})' \in Nat
      /\ Outlay({"append"}) = Outlay({"append"})' + cost
  BY <1>t, <1>1, OutlayLeaves
<1>5. Outlay(Uncounted) \in Nat /\ Outlay(Uncounted)' = Outlay(Uncounted) + cost
  BY <1>t, <1>1, OutlayJoins DEF Uncounted
<1> HIDE DEF cost
<1>6. PaidInv'
  BY <1>1, <1>2, <1>3, <1>4 DEF PaidInv
<1>7. \A v \in Workers : pc'[v] = "write" => pc[v] = "write" /\ seen[v] \in Nat
  BY <1>t, <1>1 DEF TypeOK
<1>8. totals \in Nat
  BY <1>t DEF TypeOK
<1>9. totals' + Outlay(Uncounted)' <= CostOf(tape')
      /\ (strategy = "single" => totals' + Outlay(Uncounted)' = CostOf(tape'))
  <2>1. totals + Outlay(Uncounted) <= CostOf(tape)
        /\ (strategy = "single" => totals + Outlay(Uncounted) = CostOf(tape))
    BY DEF CountedInv
  <2> QED
    BY <1>1, <1>3, <1>5, <1>8, <2>1
<1>10. ASSUME NEW v \in Workers, pc'[v] = "write"
       PROVE  /\ seen[v] + Outlay(Uncounted)' <= CostOf(tape')
              /\ strategy = "single" => seen[v] + Outlay(Uncounted)' = CostOf(tape')
  <2>1. /\ seen[v] + Outlay(Uncounted) <= CostOf(tape)
        /\ strategy = "single" => seen[v] + Outlay(Uncounted) = CostOf(tape)
    BY <1>7, <1>10 DEF CountedInv
  <2> QED
    BY <1>3, <1>5, <1>7, <1>10, <2>1
<1>11. CountedInv'
  BY <1>1, <1>2, <1>9, <1>10 DEF CountedInv
<1> QED
  BY <1>6, <1>11

LEMMA BooksRead ==
  ASSUME TypeInv, AnswerInv, PaidInv, CountedInv, NEW w \in Workers, ReadTotals(w)
  PROVE  PaidInv' /\ CountedInv'
<1> USE DEF taskVars, recorderVars, replayVars, poolVars, threadVars, runnerVars, GoTo
<1>t. TypeOK
  BY DEF TypeInv
<1>1. /\ pc[w] = "read" /\ pc'[w] = "write" /\ seen'[w] = totals
      /\ UNCHANGED << phase, strategy, paid, tape, totals, answer >>
      /\ \A v \in Workers \ {w} : pc'[v] = pc[v] /\ seen'[v] = seen[v]
  BY <1>t DEF ReadTotals, TypeOK
<1>2. Outlay({"append"})' = Outlay({"append"})
  BY <1>t, <1>1, OutlayStays
<1>3. Outlay(Uncounted)' = Outlay(Uncounted)
  BY <1>t, <1>1, OutlayStays DEF Uncounted
<1>4. CostOf(tape') = CostOf(tape)
  BY <1>1
<1>5. PaidInv'
  BY <1>1, <1>2, <1>4 DEF PaidInv
<1>6. \A v \in Workers : pc'[v] = "write" =>
        seen'[v] = totals \/ (pc[v] = "write" /\ seen'[v] = seen[v])
  BY <1>1
<1>7. CountedInv'
  BY <1>1, <1>3, <1>4, <1>6 DEF CountedInv
<1> QED
  BY <1>5, <1>7

LEMMA BooksWrite ==
  ASSUME TypeInv, AnswerInv, PaidInv, CountedInv, NEW w \in Workers, WriteTotals(w)
  PROVE  PaidInv' /\ CountedInv'
<1> USE DEF taskVars, recorderVars, replayVars, poolVars, threadVars, runnerVars, GoTo
<1>t. TypeOK /\ PoolInv
  BY DEF TypeInv
<1> DEFINE cost == TaskCost(answer[w])
<1>1. /\ pc[w] = "write" /\ pc'[w] = "answered" /\ totals' = seen[w] + cost
      /\ UNCHANGED << phase, strategy, paid, tape, answer, seen >>
      /\ \A v \in Workers \ {w} : pc'[v] = pc[v]
  BY <1>t DEF WriteTotals, TypeOK
<1>2. phase = "live"
  BY <1>t, <1>1 DEF TypeOK, PoolInv, AnswerInv, Jobless
<1>3. Outlay({"append"})' = Outlay({"append"})
  BY <1>t, <1>1, OutlayStays
<1>4. Outlay(Uncounted)' \in Nat /\ Outlay(Uncounted) = Outlay(Uncounted)' + cost
  BY <1>t, <1>1, OutlayLeaves DEF Uncounted
<1>5. cost \in Nat /\ \A v \in Workers : seen[v] \in Nat
  BY <1>t, AnswerCosts DEF TypeOK
<1>6. CostOf(tape') = CostOf(tape) /\ CostOf(tape) \in Nat
  BY <1>t, <1>1, TapeCost
<1>7. \A v \in Workers : pc'[v] = "write" => pc[v] = "write" /\ v # w
  BY <1>1
<1>8. strategy = "single" => \A v \in Workers : pc'[v] # "write"
  BY <1>1, <1>7, OneCall DEF Jobless
<1> HIDE DEF cost
<1>9. PaidInv'
  BY <1>1, <1>2, <1>3, <1>6 DEF PaidInv
<1>10. CountedInv'
  BY <1>1, <1>2, <1>4, <1>5, <1>6, <1>7, <1>8 DEF CountedInv
<1> QED
  BY <1>9, <1>10

LEMMA BooksStep ==
  ASSUME TypeInv, TypeInv', AnswerInv, PaidInv, CountedInv, [Next]_vars
  PROVE  PaidInv' /\ CountedInv'
<1> USE DEF taskVars, recorderVars, replayVars, poolVars, threadVars, runnerVars, GoTo
<1>t. TypeOK /\ PoolInv
  BY DEF TypeInv
<1>1. CASE StartLive \/ StartReplay
  <2>1. tape' = << >> /\ paid' = 0 /\ totals' = 0
    BY <1>1 DEF StartLive, StartReplay, Starts, PaidInv, CountedInv
  <2>2. \A w \in Workers : pc'[w] \in Jobless
    BY <1>1 DEF StartLive, StartReplay, Starts, Jobless
  <2> QED
    BY <2>1, <2>2, EmptyStep DEF BooksAreEmpty, Jobless
<1>2. CASE Finish \/ Interrupted
  <2>1. BooksAreEmpty'
    BY <1>2 DEF Finish, FinishLive, FinishReplay, Interrupted, AtRest, BooksAreEmpty
  <2> QED
    BY <2>1, EmptyStep
<1>3. ASSUME NEW w \in Workers, Thread(w) PROVE PaidInv' /\ CountedInv'
  <2>1. CASE Charge(w)
    BY <2>1, BooksCharge
  <2>2. CASE AppendCall(w)
    BY <2>2, BooksAppend
  <2>3. CASE ReadTotals(w)
    BY <2>3, BooksRead
  <2>4. CASE WriteTotals(w)
    BY <2>4, BooksWrite
  <2>5. CASE TakeShard(w) \/ Stop(w) \/ SettleAnswered(w) \/ SettleFailed(w) \/ InnerAnswers(w)
             \/ InnerRaises(w) \/ HandOut(w) \/ Mismatch(w) \/ ReadCursor(w) \/ StoreCursor(w)
    <3>1. UNCHANGED << phase, strategy, tape, totals, paid >>
      BY <2>5 DEF TakeShard, Stop, SettleAnswered, SettleFailed, InnerAnswers, InnerRaises,
                  HandOut, Mismatch, ReadCursor, StoreCursor
    <3>2. /\ pc[w] \notin {"append", "read", "write"} /\ pc'[w] \notin {"append", "read", "write"}
          /\ \A v \in Workers \ {w} : pc'[v] = pc[v] /\ answer'[v] = answer[v] /\ seen'[v] = seen[v]
      <4>1. CASE TakeShard(w) \/ Stop(w) \/ InnerRaises(w) \/ Mismatch(w)
        BY <1>t, <4>1 DEF TakeShard, Stop, InnerRaises, Mismatch, TypeOK
      <4>2. CASE SettleAnswered(w) \/ SettleFailed(w)
        BY <1>t, <4>2 DEF SettleAnswered, SettleFailed, Forget, TypeOK
      <4>3. CASE InnerAnswers(w) \/ HandOut(w) \/ ReadCursor(w) \/ StoreCursor(w)
        BY <1>t, <4>3 DEF InnerAnswers, HandOut, ReadCursor, StoreCursor, TypeOK
      <4> QED
        BY <2>5, <4>1, <4>2, <4>3
    <3> QED
      BY <1>t, <3>1, <3>2, BooksUntouched
  <2> QED
    BY <1>3, <2>1, <2>2, <2>3, <2>4, <2>5 DEF Thread
<1>4. CASE UNCHANGED vars
  BY <1>t, <1>4, BooksUntouched DEF vars
<1> QED
  BY <1>1, <1>2, <1>3, <1>4 DEF Next, Finish, Rest

LEMMA BooksInit == Init => PaidInv /\ CountedInv
<1>1. Init => tape = << >> /\ paid = 0 /\ totals = 0 /\
              \A w \in Workers : pc[w] \notin {"append", "read", "write"}
  BY DEF Init
<1> QED
  BY <1>1, BooksEmpty

\* Whatever the threads do and however many charges are refused, a run has charged
\* the day's ledger with the calls on its tape and those about to be put there.
THEOREM TapeAlwaysPaid == Spec => []TapeIsPaid
<1>1. Init => TypeInv /\ AnswerInv /\ PaidInv /\ CountedInv
  BY TypeInit, BooksInit DEF Init, AnswerInv
<1>2. TypeInv /\ AnswerInv /\ PaidInv /\ CountedInv /\ [Next]_vars =>
        TypeInv' /\ AnswerInv' /\ PaidInv' /\ CountedInv'
  BY TypeStep, AnswerStep, BooksStep DEF TypeInv
<1>3. PaidInv => TapeIsPaid
  BY OutlayOfAppend DEF PaidInv, TapeIsPaid
<1> QED
  BY <1>1, <1>2, <1>3, PTL DEF Spec

LEMMA TotalsRight == TypeOK /\ CountedInv => TotalsNeverAhead
<1> SUFFICES ASSUME TypeOK, CountedInv PROVE TotalsNeverAhead
  OBVIOUS
<1>1. totals \in Nat /\ Outlay(Uncounted) \in Nat /\ CostOf(tape) \in Nat
  <2>1. Outlay(Uncounted) \in Nat
    BY OutlayType
  <2> QED
    BY <2>1, TapeCost DEF TypeOK
<1>2. (\A w \in Workers : pc[w] \notin {"read", "write"}) => Outlay(Uncounted) = 0
  BY NoOutlay DEF Uncounted
<1> QED
  BY <1>1, <1>2 DEF CountedInv, TotalsNeverAhead

\* Threads may lose an update of the totals and never add to them; a single-agent
\* recording's totals are what its tape costs.
THEOREM TotalsStayBehind == Spec => []TotalsNeverAhead
<1>1. Init => TypeInv /\ AnswerInv /\ PaidInv /\ CountedInv
  BY TypeInit, BooksInit DEF Init, AnswerInv
<1>2. TypeInv /\ AnswerInv /\ PaidInv /\ CountedInv /\ [Next]_vars =>
        TypeInv' /\ AnswerInv' /\ PaidInv' /\ CountedInv'
  BY TypeStep, AnswerStep, BooksStep DEF TypeInv
<1>3. TypeInv /\ CountedInv => TotalsNeverAhead
  BY TotalsRight DEF TypeInv
<1> QED
  BY <1>1, <1>2, <1>3, PTL DEF Spec

(***************************************************************************)
(* The round trip of a single-agent recording.  Its run makes one call at  *)
(* most; the recording leaves that call and what it came to, or nothing,   *)
(* and a replay by the same model can only meet the same.                  *)
(***************************************************************************)
StartAllowed == HardCap > 0 /\ PerShard <= HardCap

\* The one call as it is noted, and what has come of it when it is settled.
Noted(size) == [text |-> text[1], model |-> model, size |-> size]

SettledWith(size) ==
  /\ spent = Price[model] * size
  /\ outcome[1] = IF spent > HardCap THEN "failed" ELSE "ok"

SettledByFailure == outcome[1] = "failed" /\ spent = 0

Hit(size) ==
  /\ file.calls # << >> /\ Key(file.calls[1]) = << model, text[1] >>
  /\ file.calls[1].size = size

Miss == file.calls = << >> \/ Key(file.calls[1]) # << model, text[1] >>

SingleRun ==
  /\ claimed \in {0, 1} /\ (claimed = 1 => StartAllowed)
  /\ phase = "idle" => spent = 0 /\ abort = FALSE
  /\ claimed = 0 => spent = 0 /\ tape = << >> /\ cursor = 0 /\ outcome[1] = "none"
  /\ claimed = 0 /\ phase # "idle" /\ StartAllowed =>
       ~ abort /\ \E w \in Workers : pc[w] = "next"
  /\ outcome[1] = "none" => spent = 0
  /\ \A s \in Shards \ {1} : outcome[s] = "none"
  /\ \A w \in Workers : pc[w] \notin Jobless => outcome[1] = "none"

SingleRecording ==
  phase = "live" =>
    /\ \A w \in Workers : pc[w] \in {"call", "charge", "append", "failed"} => tape = << >>
    /\ \A w \in Workers : pc[w] \in {"read", "write", "answered"} =>
         answer[w] \in Sizes /\ tape = << Noted(answer[w]) >>
    /\ outcome[1] # "none" =>
         \/ tape = << >> /\ SettledByFailure
         \/ \E size \in Sizes : tape = << Noted(size) >> /\ SettledWith(size)

SingleReplay ==
  phase = "replay" =>
    /\ \A w \in Workers : pc[w] \in {"call", "advance", "store"} => cursor = 0
    /\ \A w \in Workers : pc[w] \in {"advance", "store", "answered"} => Hit(answer[w])
    /\ \A w \in Workers : pc[w] = "failed" => Miss
    /\ outcome[1] # "none" =>
         \/ Miss /\ SettledByFailure
         \/ \E size \in Sizes \cup {0} : Hit(size) /\ SettledWith(size)

\* The call of the recorded run as save leaves it.
Kept(size) == Redact([text |-> text[1], model |-> source.model, size |-> size])

SingleFile ==
  file # NoFile =>
    /\ source # NoReport
    /\ \/ file.calls = << >> /\ source.success = FALSE /\ source.cost = 0
       \/ \E size \in Sizes :
            /\ file.calls = << Kept(size) >> /\ file.total = TaskCost(size)
            /\ StartAllowed /\ source.cost = Price[source.model] * size
            /\ source.success = (source.cost <= HardCap /\ source.cost <= TaskCap)

SingleInv ==
  strategy = "single" => SingleRun /\ SingleRecording /\ SingleReplay /\ SingleFile

LEMMA SingleFacts ==
  ASSUME TypeInv, strategy = "single"
  PROVE  /\ 1 \in Shards /\ Prompts = {1} /\ Cardinality(Prompts) = 1
         /\ spent = 0 => (CanStart(PerShard) <=> StartAllowed)
         /\ \A w \in Workers : mine[w] \in {0, 1} /\ (mine[w] = 1 <=> pc[w] \notin Jobless)
         /\ \A w \in Workers : pc[w] \notin Jobless => Recorded(w) = Noted(answer[w])
<1>1. 1 \in Shards /\ Prompts = {1} /\ Cardinality(Prompts) = 1
  BY ShardsAssumption, FS_Singleton DEF Shards, Prompts
<1>2. spent = 0 => (CanStart(PerShard) <=> StartAllowed)
  BY HardCapAssumption, AmountsAssumption DEF CanStart, Remaining, StartAllowed
<1>3. \A w \in Workers : mine[w] \in {0, 1} /\ (mine[w] = 1 <=> pc[w] \notin Jobless)
  BY <1>1 DEF TypeInv, PoolInv
<1>4. \A w \in Workers : pc[w] \notin Jobless => Recorded(w) = Noted(answer[w])
  BY <1>3 DEF Recorded, Noted
<1> QED
  BY <1>1, <1>2, <1>3, <1>4

\* While the call is under way nobody else does anything that matters.
LEMMA OthersJobless ==
  ASSUME TypeInv, strategy = "single", NEW w \in Workers, pc[w] \notin Jobless
  PROVE  claimed # 0 /\ \A v \in Workers \ {w} : pc[v] \in Jobless
<1>1. mine[w] = 1 /\ mine[w] <= claimed
  BY SingleFacts DEF TypeInv, PoolInv
<1> QED
  BY <1>1, OneCall

LEMMA AnswerPriced ==
  ASSUME TypeOK, NEW w \in Workers
  PROVE  Price[model] * answer[w] \in Nat
<1>1. model \in Models /\ answer[w] \in Sizes \cup {0}
  BY DEF TypeOK
<1> QED
  BY <1>1, CostTypes

\* The call recorded at the governor: nothing has been spent before it.
LEMMA CallSettles ==
  ASSUME TypeInv, strategy = "single", spent = 0, NEW w \in Workers, SettleAnswered(w)
  PROVE  /\ spent' = Price[model] * answer[w]
         /\ outcome'[1] = IF spent' > HardCap THEN "failed" ELSE "ok"
<1>t. TypeOK
  BY DEF TypeInv
<1>1. mine[w] = 1 /\ 1 \in Shards
  BY SingleFacts DEF SettleAnswered, Jobless
<1> DEFINE cost == Price[model] * answer[w]
           over == cost > 0 /\ RecordRaises(cost)
<1>2. cost \in Nat
  BY <1>t, AnswerPriced
<1>3. spent' = spent + cost /\ outcome' = [outcome EXCEPT ![mine[w]] = IF over THEN "failed" ELSE "ok"]
  BY DEF SettleAnswered, RecordSpend
<1>4. outcome'[1] = IF over THEN "failed" ELSE "ok"
  BY <1>t, <1>1, <1>3 DEF TypeOK
<1> HIDE DEF cost
<1>5. over <=> cost > HardCap
  BY <1>2, HardCapAssumption DEF RecordRaises
<1>6. spent' = cost
  BY <1>2, <1>3
<1> QED
  BY <1>4, <1>5, <1>6 DEF cost

LEMMA SingleRunStep ==
  ASSUME TypeInv, strategy = "single", SingleRun, NEW w \in Workers, Thread(w)
  PROVE  SingleRun'
<1> USE DEF taskVars, recorderVars, replayVars, poolVars, threadVars, runnerVars, GoTo, Running
<1>t. TypeOK /\ PoolInv /\ 1 \in Shards /\ Prompts = {1}
  BY SingleFacts DEF TypeInv
<1>1. phase' = phase /\ phase # "idle"
  <2>1. phase' = phase
    BY DEF Thread, TakeShard, Stop, SettleAnswered, SettleFailed, InnerAnswers, InnerRaises,
           Charge, AppendCall, ReadTotals, WriteTotals, HandOut, Mismatch, ReadCursor, StoreCursor
  <2>2. pc[w] \notin Jobless => phase # "idle"
    BY <1>t DEF PoolInv
  <2> QED
    BY <2>1, <2>2
       DEF Thread, TakeShard, Stop, SettleAnswered, SettleFailed, InnerAnswers, InnerRaises, Charge,
           AppendCall, ReadTotals, WriteTotals, HandOut, Mismatch, ReadCursor, StoreCursor, Jobless
<1>2. \A v \in Workers \ {w} : pc'[v] = pc[v]
  BY <1>t DEF Thread, TakeShard, Stop, SettleAnswered, SettleFailed, InnerAnswers, InnerRaises,
              Charge, AppendCall, ReadTotals, WriteTotals, HandOut, Mismatch, ReadCursor,
              StoreCursor, TypeOK
<1>3. CASE TakeShard(w)
  <2>1. claimed = 0 /\ claimed' = 1 /\ outcome[1] = "none" /\ outcome' = outcome /\ spent' = spent
    BY <1>t, <1>3 DEF TakeShard, SingleRun
  <2>2. StartAllowed
    BY <1>3, <2>1, SingleFacts DEF TakeShard, SingleRun
  <2> QED
    BY <1>1, <2>1, <2>2 DEF SingleRun
<1>4. CASE Stop(w)
  <2>1. claimed = 0 => ~ StartAllowed
    <3> SUFFICES ASSUME claimed = 0, StartAllowed PROVE FALSE
      OBVIOUS
    <3>1. ~ abort /\ CanStart(PerShard)
      BY <1>1, SingleFacts DEF SingleRun
    <3>2. claimed + 1 \in Prompts
      BY <1>t
    <3> QED
      BY <1>4, <3>1, <3>2 DEF Stop
  <2>2. UNCHANGED << claimed, spent, tape, cursor, outcome >> /\ pc'[w] = "returned"
    BY <1>t, <1>4 DEF Stop, TypeOK
  <2> QED
    BY <1>1, <1>2, <2>1, <2>2 DEF SingleRun, Jobless
<1>5. CASE SettleAnswered(w) \/ SettleFailed(w)
  <2>1. pc[w] \notin Jobless
    BY <1>5 DEF SettleAnswered, SettleFailed, Jobless
  <2>2. claimed' = claimed /\ claimed = 1 /\ \A v \in Workers \ {w} : pc[v] \in Jobless
    BY <1>5, <2>1, OthersJobless DEF SettleAnswered, SettleFailed, SingleRun
  <2>3. pc'[w] \in Jobless
    BY <1>t, <1>5 DEF SettleAnswered, SettleFailed, TypeOK, Jobless
  <2>4. outcome'[1] # "none" /\ \A s \in Shards \ {1} : outcome'[s] = outcome[s]
    <3>1. mine[w] = 1
      BY <2>1, SingleFacts
    <3> QED
      BY <1>t, <1>5, <3>1 DEF SettleAnswered, SettleFailed, TypeOK
  <2> QED
    BY <1>1, <1>2, <2>2, <2>3, <2>4 DEF SingleRun
<1>6. CASE ~ (TakeShard(w) \/ Stop(w) \/ SettleAnswered(w) \/ SettleFailed(w))
  <2>1. UNCHANGED << claimed, spent, abort, outcome >> /\ pc[w] \notin Jobless
    BY <1>6 DEF Thread, InnerAnswers, InnerRaises, Charge, AppendCall, ReadTotals, WriteTotals,
                HandOut, Mismatch, ReadCursor, StoreCursor, Jobless
  <2>2. claimed = 1 /\ outcome[1] = "none"
    BY <2>1, OthersJobless DEF SingleRun
  <2> QED
    BY <1>1, <2>1, <2>2 DEF SingleRun
<1> QED
  BY <1>3, <1>4, <1>5, <1>6

LEMMA SingleRecordingStep ==
  ASSUME TypeInv, TypeInv', AnswerInv, strategy = "single", SingleRun, SingleRecording,
         NEW w \in Workers, Thread(w)
  PROVE  SingleRecording'
<1> USE DEF taskVars, recorderVars, replayVars, poolVars, threadVars, runnerVars, GoTo, Running
<1>t. TypeOK /\ PoolInv /\ 1 \in Shards
  BY SingleFacts DEF TypeInv
<1>1. UNCHANGED << phase, model, text >>
  BY DEF Thread, TakeShard, Stop, SettleAnswered, SettleFailed, InnerAnswers, InnerRaises,
         Charge, AppendCall, ReadTotals, WriteTotals, HandOut, Mismatch, ReadCursor, StoreCursor
<1> SUFFICES ASSUME phase = "live" PROVE SingleRecording'
  BY <1>1 DEF SingleRecording
<1>2. \A v \in Workers \ {w} : pc'[v] = pc[v] /\ answer'[v] = answer[v]
  BY <1>t DEF Thread, TakeShard, Stop, SettleAnswered, SettleFailed, InnerAnswers, InnerRaises,
              Charge, AppendCall, ReadTotals, WriteTotals, HandOut, Mismatch, ReadCursor,
              StoreCursor, Forget, TypeOK
<1>3. \A size : Noted(size)' = Noted(size)
  BY <1>1 DEF Noted
<1>4. CASE TakeShard(w)
  <2>1. claimed = 0 /\ tape = << >> /\ outcome[1] = "none"
    BY <1>t, <1>4, SingleFacts DEF TakeShard, SingleRun
  <2>2. UNCHANGED << tape, outcome >> /\ pc'[w] = "call"
    BY <1>t, <1>4 DEF TakeShard, TypeOK
  <2>3. \A v \in Workers \ {w} : pc[v] \in Jobless
    BY <2>1, OthersJobless
  <2> QED
    BY <1>2, <2>1, <2>2, <2>3 DEF SingleRecording, Jobless
<1>5. CASE Stop(w)
  <2>1. UNCHANGED << tape, outcome, spent >> /\ pc'[w] = "returned"
    BY <1>t, <1>5 DEF Stop, TypeOK
  <2> QED
    BY <1>1, <1>2, <1>3, <2>1 DEF SingleRecording, SettledWith, SettledByFailure
<1>6. ASSUME pc[w] \notin Jobless, pc'[w] \in Jobless,
             \/ tape' = << >> /\ SettledByFailure'
             \/ \E size \in Sizes : tape' = << Noted(size) >> /\ SettledWith(size)'
      PROVE  SingleRecording'
  <2>1. \A v \in Workers : pc'[v] \in Jobless
    BY <1>2, <1>6, OthersJobless
  <2>2. \A v \in Workers : pc'[v] \notin {"call", "charge", "append", "failed", "read", "write",
                                          "answered"}
    BY <2>1 DEF Jobless
  <2> QED
    BY <1>3, <1>6, <2>2 DEF SingleRecording
<1>7. CASE SettleAnswered(w)
  <2>1. pc[w] = "answered" /\ tape' = tape /\ spent = 0
    BY <1>7 DEF SettleAnswered, SingleRun, Jobless
  <2>2. answer[w] \in Sizes /\ tape = << Noted(answer[w]) >>
    BY <2>1 DEF SingleRecording
  <2>3. ASSUME NEW size \in Sizes, size = answer[w] PROVE SettledWith(size)'
    <3>1. /\ spent' = Price[model] * size
          /\ outcome'[1] = IF spent' > HardCap THEN "failed" ELSE "ok"
      BY <1>7, <2>1, <2>3, CallSettles
    <3> QED
      BY <1>1, <3>1 DEF SettledWith
  <2>4. pc[w] \notin Jobless /\ pc'[w] \in Jobless
    BY <1>t, <1>7 DEF SettleAnswered, TypeOK, Jobless
  <2> QED
    BY <1>6, <2>1, <2>2, <2>3, <2>4
<1>8. CASE SettleFailed(w)
  <2>1. pc[w] = "failed" /\ tape = << >> /\ tape' = tape /\ spent = 0 /\ spent' = spent
    BY <1>8 DEF SettleFailed, SingleRun, SingleRecording, Jobless
  <2>2. outcome'[1] = "failed" /\ pc'[w] = "next"
    <3>1. mine[w] = 1
      BY <2>1, SingleFacts DEF Jobless
    <3> QED
      BY <1>t, <1>8, <3>1 DEF SettleFailed, TypeOK
  <2> QED
    BY <1>6, <2>1, <2>2 DEF SettledByFailure, Jobless
<1>9. ASSUME pc[w] \notin Jobless, outcome' = outcome,
             pc'[w] \in {"call", "charge", "append", "failed"} => tape' = << >>,
             pc'[w] \in {"read", "write", "answered"} =>
               answer'[w] \in Sizes /\ tape' = << Noted(answer'[w]) >>
      PROVE  SingleRecording'
  <2>1. outcome[1] = "none"
    BY <1>9 DEF SingleRun
  <2>2. \A v \in Workers \ {w} : pc'[v] \in Jobless
    BY <1>2, <1>9, OthersJobless
  <2>3. \A v \in Workers : pc'[v] \in {"call", "charge", "append", "failed"} => tape' = << >>
    BY <1>9, <2>2 DEF Jobless
  <2>4. \A v \in Workers : pc'[v] \in {"read", "write", "answered"} =>
          answer'[v] \in Sizes /\ tape' = << Noted(answer'[v]) >>
    BY <1>9, <2>2 DEF Jobless
  <2>5. \A v \in Workers : Noted(answer[v])' = Noted(answer'[v])
    BY <1>1 DEF Noted
  <2> QED
    BY <1>9, <2>1, <2>3, <2>4, <2>5 DEF SingleRecording
<1>10. CASE InnerAnswers(w) \/ InnerRaises(w) \/ Charge(w)
  <2>1. /\ pc[w] \in {"call", "charge"} /\ pc'[w] \in {"charge", "append", "failed"}
        /\ outcome' = outcome /\ tape' = tape
    BY <1>t, <1>10 DEF InnerAnswers, InnerRaises, Charge, TypeOK
  <2> QED
    BY <1>9, <2>1 DEF SingleRecording, Jobless
<1>11. CASE AppendCall(w)
  <2>1. /\ pc[w] = "append" /\ pc'[w] = "read" /\ outcome' = outcome /\ answer' = answer
        /\ tape = << >> /\ tape' = Append(tape, Recorded(w)) /\ answer[w] \in Sizes
    BY <1>t, <1>11 DEF AppendCall, TypeOK, SingleRecording, AnswerInv
  <2>2. Recorded(w) = Noted(answer[w])
    BY <2>1, SingleFacts DEF Jobless
  <2> QED
    BY <1>9, <2>1, <2>2 DEF Jobless
<1>12. CASE ReadTotals(w) \/ WriteTotals(w)
  <2>1. /\ pc[w] \in {"read", "write"} /\ pc'[w] \in {"write", "answered"}
        /\ outcome' = outcome /\ tape' = tape /\ answer' = answer
    BY <1>t, <1>12 DEF ReadTotals, WriteTotals, TypeOK
  <2> QED
    BY <1>9, <2>1 DEF SingleRecording, Jobless
<1> QED
  BY <1>4, <1>5, <1>7, <1>8, <1>10, <1>11, <1>12
     DEF Thread, HandOut, Mismatch, ReadCursor, StoreCursor

LEMMA SingleReplayStep ==
  ASSUME TypeInv, TypeInv', AnswerInv, strategy = "single", SingleRun, SingleReplay,
         NEW w \in Workers, Thread(w)
  PROVE  SingleReplay'
<1> USE DEF taskVars, recorderVars, replayVars, poolVars, threadVars, runnerVars, GoTo, Running
<1>t. TypeOK /\ PoolInv /\ 1 \in Shards
  BY SingleFacts DEF TypeInv
<1>1. UNCHANGED << phase, model, text, file >>
  BY DEF Thread, TakeShard, Stop, SettleAnswered, SettleFailed, InnerAnswers, InnerRaises,
         Charge, AppendCall, ReadTotals, WriteTotals, HandOut, Mismatch, ReadCursor, StoreCursor
<1> SUFFICES ASSUME phase = "replay" PROVE SingleReplay'
  BY <1>1 DEF SingleReplay
<1>2. \A v \in Workers \ {w} : pc'[v] = pc[v] /\ answer'[v] = answer[v]
  BY <1>t DEF Thread, TakeShard, Stop, SettleAnswered, SettleFailed, InnerAnswers, InnerRaises,
              Charge, AppendCall, ReadTotals, WriteTotals, HandOut, Mismatch, ReadCursor,
              StoreCursor, Forget, TypeOK
<1>3. /\ Miss' = Miss /\ \A size : Hit(size)' = Hit(size)
      /\ \A v \in Workers : Hit(answer[v])' = Hit(answer'[v])
  BY <1>1 DEF Miss, Hit, Key
<1>4. CASE TakeShard(w)
  <2>1. claimed = 0 /\ cursor = 0 /\ outcome[1] = "none"
    BY <1>t, <1>4, SingleFacts DEF TakeShard, SingleRun
  <2>2. UNCHANGED << cursor, outcome >> /\ pc'[w] = "call"
    BY <1>t, <1>4 DEF TakeShard, TypeOK
  <2>3. \A v \in Workers \ {w} : pc[v] \in Jobless
    BY <2>1, OthersJobless
  <2> QED
    BY <1>2, <2>1, <2>2, <2>3 DEF SingleReplay, Jobless
<1>5. CASE Stop(w)
  <2>1. UNCHANGED << cursor, outcome, spent >> /\ pc'[w] = "returned"
    BY <1>t, <1>5 DEF Stop, TypeOK
  <2> QED
    BY <1>1, <1>2, <1>3, <2>1 DEF SingleReplay, SettledWith, SettledByFailure
<1>6. ASSUME pc[w] \notin Jobless, pc'[w] \in Jobless,
             \/ Miss /\ SettledByFailure'
             \/ \E size \in Sizes \cup {0} : Hit(size) /\ SettledWith(size)'
      PROVE  SingleReplay'
  <2>1. \A v \in Workers : pc'[v] \in Jobless
    BY <1>2, <1>6, OthersJobless
  <2>2. \A v \in Workers : pc'[v] \notin {"call", "advance", "store", "answered", "failed"}
    BY <2>1 DEF Jobless
  <2> QED
    BY <1>3, <1>6, <2>2 DEF SingleReplay
<1>7. CASE SettleAnswered(w)
  <2>1. pc[w] = "answered" /\ spent = 0 /\ answer[w] \in Sizes \cup {0}
    BY <1>t, <1>7 DEF SettleAnswered, SingleRun, Jobless, TypeOK
  <2>2. Hit(answer[w])
    BY <2>1 DEF SingleReplay
  <2>3. ASSUME NEW size \in Sizes \cup {0}, size = answer[w] PROVE SettledWith(size)'
    <3>1. /\ spent' = Price[model] * size
          /\ outcome'[1] = IF spent' > HardCap THEN "failed" ELSE "ok"
      BY <1>7, <2>1, <2>3, CallSettles
    <3> QED
      BY <1>1, <3>1 DEF SettledWith
  <2>4. pc[w] \notin Jobless /\ pc'[w] \in Jobless
    BY <1>t, <1>7 DEF SettleAnswered, TypeOK, Jobless
  <2> QED
    BY <1>6, <2>1, <2>2, <2>3, <2>4
<1>8. CASE SettleFailed(w)
  <2>1. pc[w] = "failed" /\ Miss /\ spent = 0 /\ spent' = spent
    BY <1>8 DEF SettleFailed, SingleRun, SingleReplay, Jobless
  <2>2. outcome'[1] = "failed" /\ pc'[w] = "next"
    <3>1. mine[w] = 1
      BY <2>1, SingleFacts DEF Jobless
    <3> QED
      BY <1>t, <1>8, <3>1 DEF SettleFailed, TypeOK
  <2> QED
    BY <1>6, <2>1, <2>2 DEF SettledByFailure, Jobless
<1>9. ASSUME pc[w] \notin Jobless, outcome' = outcome,
             pc'[w] \in {"call", "advance", "store"} => cursor' = 0,
             pc'[w] \in {"advance", "store", "answered"} => Hit(answer'[w]),
             pc'[w] = "failed" => Miss
      PROVE  SingleReplay'
  <2>1. outcome[1] = "none"
    BY <1>9 DEF SingleRun
  <2>2. \A v \in Workers \ {w} : pc'[v] \in Jobless
    BY <1>2, <1>9, OthersJobless
  <2>3. \A v \in Workers : pc'[v] \in {"call", "advance", "store"} => cursor' = 0
    BY <1>9, <2>2 DEF Jobless
  <2>4. \A v \in Workers : pc'[v] \in {"advance", "store", "answered"} => Hit(answer'[v])
    BY <1>9, <2>2 DEF Jobless
  <2>5. \A v \in Workers : pc'[v] = "failed" => Miss
    BY <1>9, <2>2 DEF Jobless
  <2>6. \A v \in Workers : pc'[v] \in {"advance", "store", "answered"} => Hit(answer[v])'
    BY <1>3, <2>4
  <2> QED
    BY <1>3, <1>9, <2>1, <2>3, <2>5, <2>6 DEF SingleReplay
<1>10. ASSUME pc[w] = "call", cursor = 0
       PROVE  /\ Matches(w) => Hit(file.calls[1].size)
              /\ ~ Matches(w) => Miss
  <2>1. Key(Recorded(w)) = << model, text[1] >>
    <3>1. mine[w] = 1
      BY <1>10, SingleFacts DEF Jobless
    <3> QED
      BY <3>1 DEF Key, Recorded
  <2>2. file.calls \in Seq(Call)
    BY <1>t, FileTypes DEF AnswerInv
  <2> QED
    BY <1>10, <2>1, <2>2 DEF Matches, Hit, Miss
<1>11. CASE HandOut(w)
  <2>1. /\ pc[w] = "call" /\ pc'[w] = "advance" /\ outcome' = outcome /\ cursor' = cursor
        /\ answer'[w] = file.calls[cursor + 1].size /\ Matches(w)
    BY <1>t, <1>11 DEF HandOut, TypeOK
  <2>2. cursor = 0
    BY <2>1 DEF SingleReplay
  <2> QED
    BY <1>9, <1>10, <2>1, <2>2 DEF Jobless
<1>12. CASE Mismatch(w)
  <2>1. pc[w] = "call" /\ pc'[w] = "failed" /\ outcome' = outcome /\ cursor = 0 /\ ~ Matches(w)
    BY <1>t, <1>12 DEF Mismatch, SingleReplay, TypeOK
  <2> QED
    BY <1>9, <1>10, <2>1 DEF Jobless
<1>13. CASE ReadCursor(w) \/ StoreCursor(w)
  <2>1. /\ pc[w] \in {"advance", "store"} /\ pc'[w] \in {"store", "answered"}
        /\ pc'[w] = "store" => cursor' = cursor
        /\ outcome' = outcome /\ answer' = answer
    BY <1>t, <1>13 DEF ReadCursor, StoreCursor, TypeOK
  <2> QED
    BY <1>9, <2>1 DEF SingleReplay, Jobless
<1> QED
  BY <1>4, <1>5, <1>7, <1>8, <1>11, <1>12, <1>13
     DEF Thread, InnerAnswers, InnerRaises, Charge, AppendCall, ReadTotals, WriteTotals, AnswerInv

LEMMA SingleStarts ==
  ASSUME TypeInv, strategy = "single", SingleRun, SingleFile,
         NEW mode \in {"live", "replay"}, Starts(mode)
  PROVE  SingleRun' /\ SingleRecording' /\ SingleReplay' /\ SingleFile'
<1> USE DEF taskVars, recorderVars, replayVars, poolVars, threadVars, runnerVars
<1>t. TypeOK /\ PoolInv /\ 1 \in Shards /\ Prompts = {1} /\ Cardinality(Prompts) = 1
  BY SingleFacts DEF TypeInv
<1>1. /\ spent = 0 /\ abort = FALSE /\ claimed = 0 /\ cursor = 0 /\ tape = << >>
      /\ outcome[1] = "none"
  BY <1>t DEF Starts, PoolInv, SingleRun
<1>2. UNCHANGED << spent, abort, claimed, cursor, tape, outcome, file, source, text >>
      /\ phase' = mode
  BY DEF Starts
<1>3. PICK crew \in SUBSET Workers :
        /\ Cardinality(crew) = 1
        /\ pc' = [w \in Workers |->
                    IF w \in crew /\ CanStart(PerShard * Cardinality(Prompts))
                    THEN "next" ELSE "returned"]
  BY DEF Starts
<1>4. \A w \in Workers : pc'[w] \in Jobless
  BY <1>3 DEF Jobless
<1>5. StartAllowed => \E w \in Workers : pc'[w] = "next"
  <2> SUFFICES ASSUME StartAllowed PROVE \E w \in Workers : pc'[w] = "next"
    OBVIOUS
  <2>1. PICK w : w \in crew
    BY <1>3, FS_EmptySet
  <2>2. PerShard * Cardinality(Prompts) = PerShard
    BY <1>t, AmountsAssumption
  <2>3. CanStart(PerShard * Cardinality(Prompts))
    BY <1>1, <2>2, SingleFacts
  <2> QED
    BY <1>3, <2>1, <2>3
<1>6. SingleRun'
  BY <1>1, <1>2, <1>4, <1>5 DEF SingleRun
<1>7. SingleRecording' /\ SingleReplay'
  <2>1. \A w \in Workers : pc'[w] \notin {"call", "charge", "append", "failed", "read", "write",
                                          "answered", "advance", "store"}
    BY <1>4 DEF Jobless
  <2> QED
    BY <1>1, <1>2, <2>1 DEF SingleRecording, SingleReplay
<1>8. SingleFile'
  BY <1>2 DEF SingleFile, Kept
<1> QED
  BY <1>6, <1>7, <1>8

\* The run has ended: it took its prompt unless it was not allowed to start, and
\* what it took is settled.
LEMMA SingleEnds ==
  ASSUME TypeInv, strategy = "single", SingleRun, Running, Joined
  PROVE  /\ claimed = 0 => ~ StartAllowed
         /\ claimed = 1 => outcome[1] \in {"ok", "failed"}
         /\ Succeeded = (claimed = 1 /\ outcome[1] = "ok")
<1>t. TypeOK /\ PoolInv /\ 1 \in Shards /\ claimed \in {0, 1}
  BY SingleFacts DEF TypeInv, SingleRun
<1>1. claimed = 0 => ~ StartAllowed
  BY DEF SingleRun, Joined, Running
<1>2. claimed = 1 => outcome[1] \in {"ok", "failed"}
  <2> SUFFICES ASSUME claimed = 1, outcome[1] = "none" PROVE FALSE
    BY <1>t DEF TypeOK
  <2>1. 1 \in 1 .. claimed
    OBVIOUS
  <2>2. PICK w \in Workers : mine[w] = 1
    BY <1>t, <2>1 DEF PoolInv
  <2> QED
    BY <2>2, SingleFacts DEF Joined, Jobless
<1>3. Succeeded = (claimed = 1 /\ outcome[1] = "ok")
  <2>1. \A s \in Shards \ {1} : outcome[s] # "failed"
    BY <1>t DEF SingleRun
  <2>2. Succeeded \in BOOLEAN
    BY DEF Succeeded
  <2>3. Succeeded <=> claimed = 1 /\ outcome[1] # "failed"
    BY <1>t, <2>1 DEF Succeeded
  <2> QED
    BY <1>2, <2>2, <2>3
<1> QED
  BY <1>1, <1>2, <1>3

LEMMA SingleSaved ==
  ASSUME TypeInv, strategy = "single", CountedInv, SingleRun, SingleRecording, FinishLive
  PROVE  SingleFile'
<1>t. TypeOK /\ 1 \in Shards /\ phase = "live" /\ Joined /\ Running
  BY SingleFacts DEF TypeInv, FinishLive, Running
<1>1. /\ source' = Reported(Succeeded) /\ file' = Saved /\ source' # NoReport
      /\ source'.cost = spent /\ source'.model = model /\ text' = text
      /\ source'.success = (Succeeded /\ spent <= TaskCap)
  BY DEF FinishLive, Reported, NoReport, taskVars
<1>2. Succeeded = (claimed = 1 /\ outcome[1] = "ok")
  BY <1>t, SingleEnds
<1>3. totals = CostOf(tape) /\ Saved.total = totals
  <2>1. totals = CostOf(tape)
    <3>1. \A w \in Workers : pc[w] \notin {"read", "write"}
      BY <1>t DEF Joined
    <3> QED
      BY <1>t, <3>1, TotalsRight DEF TotalsNeverAhead
  <2> QED
    BY <2>1 DEF Saved
<1>4. CASE tape = << >> /\ (outcome[1] = "none" \/ SettledByFailure)
  <2>1. file'.calls = << >>
    BY <1>1, <1>4 DEF Saved
  <2>2. spent = 0 /\ outcome[1] # "ok"
    BY <1>4 DEF SingleRun, SettledByFailure
  <2>3. source'.success = FALSE /\ source'.cost = 0
    BY <1>1, <1>2, <2>2
  <2> QED
    BY <1>1, <2>1, <2>3 DEF SingleFile
<1>5. ASSUME NEW size \in Sizes, tape = << Noted(size) >>, SettledWith(size)
      PROVE  SingleFile'
  <2>1. Noted(size) \in Call
    BY <1>t, TextsOfShards DEF Noted, Call, TypeOK
  <2>2. file'.calls = << Redact(Noted(size)) >>
    BY <1>1, <1>5 DEF Saved
  <2>3. file'.total = TaskCost(size)
    <3>1. << >> \in Seq(Call) /\ << Noted(size) >> = Append(<< >>, Noted(size))
      OBVIOUS
    <3>2. CostOf(<< Noted(size) >>) = CostOf(<< >>) + TaskCost(size)
      <4>1. Noted(size).size = size
        BY DEF Noted
      <4> QED
        BY <2>1, <3>1, <4>1, CostAppended
    <3>3. TaskCost(size) \in Nat
      BY <1>t, CostTypes DEF TypeOK
    <3> QED
      BY <1>1, <1>3, <1>5, <3>2, <3>3, CostOfNone
  <2>4. claimed = 1 /\ StartAllowed
    BY <1>5 DEF SingleRun
  <2>5. spent = Price[model] * size /\ spent \in Nat
    BY <1>t, <1>5 DEF SettledWith, TypeOK
  <2>6. source'.success = (spent <= HardCap /\ spent <= TaskCap)
    <3>1. outcome[1] = "ok" <=> spent <= HardCap
      BY <1>5, <2>5, HardCapAssumption DEF SettledWith
    <3>2. Succeeded = (spent <= HardCap)
      BY <1>2, <2>4, <3>1
    <3> QED
      BY <1>1, <3>2
  <2>7. Kept(size)' = Redact(Noted(size))
    BY <1>1 DEF Kept, Noted, Redact
  <2> QED
    BY <1>1, <2>2, <2>3, <2>4, <2>5, <2>6, <2>7 DEF SingleFile
<1>6. CASE claimed = 0
  BY <1>4, <1>6 DEF SingleRun
<1>7. CASE claimed = 1
  <2>1. outcome[1] # "none"
    BY <1>t, <1>7, SingleEnds
  <2> QED
    BY <1>t, <1>4, <1>5, <2>1 DEF SingleRecording
<1> QED
  BY <1>6, <1>7 DEF SingleRun

LEMMA SingleReplayed ==
  ASSUME TypeInv, AnswerInv, strategy = "single", SingleRun, SingleReplay, SingleFile,
         FinishReplay, model = source.model, Price[source.model] = Price[TaskModel],
         text[1] \notin Secretive
  PROVE  report'.success = source.success /\ report'.cost = source.cost
<1>t. TypeOK /\ 1 \in Shards /\ phase = "replay" /\ Joined /\ Running /\ file # NoFile
  BY SingleFacts DEF TypeInv, FinishReplay, Running, AnswerInv
<1>1. /\ report'.cost = spent
      /\ report'.success = ((Succeeded /\ spent = file.total) /\ spent <= TaskCap)
  BY DEF FinishReplay, Reported
<1>2. Succeeded = (claimed = 1 /\ outcome[1] = "ok")
  BY <1>t, SingleEnds
<1>3. CASE file.calls = << >> /\ source.success = FALSE /\ source.cost = 0
  <2>1. outcome[1] # "ok" /\ spent = 0
    BY <1>t, <1>3 DEF SingleRun, SingleReplay, Hit, SettledByFailure
  <2> QED
    BY <1>1, <1>2, <1>3, <2>1
<1>4. ASSUME NEW size \in Sizes, file.calls = << Kept(size) >>, file.total = TaskCost(size),
             StartAllowed, source.cost = Price[source.model] * size,
             source.success = (source.cost <= HardCap /\ source.cost <= TaskCap)
      PROVE  report'.success = source.success /\ report'.cost = source.cost
  <2>1. claimed = 1 /\ outcome[1] # "none"
    BY <1>t, <1>4, SingleEnds DEF SingleRun
  <2>2. /\ file.calls # << >> /\ file.calls[1].size = size
        /\ Key(file.calls[1]) = << model, text[1] >>
    <3>1. Kept(size) = [text |-> text[1], model |-> source.model, size |-> size]
      BY DEF Kept, Redact
    <3> QED
      BY <1>4, <3>1 DEF Key
  <2>3. SettledWith(size)
    BY <1>t, <2>1, <2>2 DEF SingleReplay, Miss, Hit
  <2>4. spent = source.cost /\ spent = file.total /\ spent \in Nat
    BY <1>t, <1>4, <2>3 DEF SettledWith, TaskCost, TypeOK
  <2>5. outcome[1] = "ok" <=> spent <= HardCap
    BY <2>3, <2>4, HardCapAssumption DEF SettledWith
  <2>6. Succeeded = (spent <= HardCap)
    BY <1>2, <2>1, <2>5
  <2> QED
    BY <1>1, <1>4, <2>4, <2>6
<1> QED
  BY <1>t, <1>3, <1>4 DEF SingleFile

LEMMA SingleRest ==
  ASSUME strategy = "single", AtRest, phase' = "idle", TypeInv'
  PROVE  SingleRun' /\ SingleRecording' /\ SingleReplay'
<1>1. 1 \in Shards
  BY ShardsAssumption DEF Shards
<1>2. /\ spent' = 0 /\ abort' = FALSE /\ claimed' = 0 /\ cursor' = 0 /\ tape' = << >>
      /\ \A s \in Shards : outcome'[s] = "none"
      /\ \A w \in Workers : pc'[w] = "idle"
  BY DEF AtRest
<1>3. SingleRun'
  BY <1>1, <1>2 DEF SingleRun, Jobless
<1>4. SingleRecording' /\ SingleReplay'
  BY DEF SingleRecording, SingleReplay
<1> QED
  BY <1>3, <1>4

LEMMA SingleStep ==
  ASSUME TypeInv, TypeInv', AnswerInv, CountedInv, SingleInv, SingleRoundTrip, [Next]_vars
  PROVE  SingleInv' /\ SingleRoundTrip'
<1> USE DEF taskVars, recorderVars, replayVars, poolVars, threadVars, runnerVars
<1>1. strategy' = strategy /\ text' = text
  BY DEF Next, StartLive, StartReplay, Starts, Finish, FinishLive, FinishReplay, Interrupted, Rest,
         Thread, TakeShard, Stop, SettleAnswered, SettleFailed, InnerAnswers, InnerRaises,
         Charge, AppendCall, ReadTotals, WriteTotals, HandOut, Mismatch, ReadCursor, StoreCursor,
         vars
<1>2. CASE strategy # "single"
  BY <1>1, <1>2 DEF SingleInv, SingleRoundTrip
<1>3. CASE strategy = "single"
  <2>1. SingleRun /\ SingleRecording /\ SingleReplay /\ SingleFile
    BY <1>3 DEF SingleInv
  <2>2. CASE StartLive \/ StartReplay
    <3>1. SingleInv'
      BY <1>3, <2>1, <2>2, SingleStarts DEF StartLive, StartReplay, SingleInv
    <3>2. report' = NoReport
      BY <2>2 DEF StartLive, StartReplay, Starts
    <3> QED
      BY <3>1, <3>2 DEF SingleRoundTrip, NoReport
  <2>3. CASE FinishLive
    <3>1. SingleFile'
      BY <1>3, <2>1, <2>3, SingleSaved
    <3>2. SingleRun' /\ SingleRecording' /\ SingleReplay'
      BY <1>3, <2>3, SingleRest DEF FinishLive
    <3>3. report'.mode = "live"
      BY <2>3 DEF FinishLive, Reported
    <3> QED
      BY <3>1, <3>2, <3>3 DEF SingleInv, SingleRoundTrip
  <2>4. CASE FinishReplay
    <3>1. SingleRun' /\ SingleRecording' /\ SingleReplay'
      BY <1>3, <2>4, SingleRest DEF FinishReplay
    <3>2. UNCHANGED << file, source, text, model >>
      BY <2>4 DEF FinishReplay
    <3>3. SingleFile'
      BY <2>1, <3>2 DEF SingleFile, Kept
    <3>4. report'.model = model
      BY <2>4 DEF FinishReplay, Reported
    <3>5. SingleRoundTrip'
      BY <1>3, <2>1, <2>4, <3>2, <3>4, SingleReplayed DEF SingleRoundTrip
    <3> QED
      BY <3>1, <3>3, <3>5 DEF SingleInv
  <2>5. CASE Interrupted
    <3>1. SingleRun' /\ SingleRecording' /\ SingleReplay'
      BY <1>3, <2>5, SingleRest DEF Interrupted
    <3>2. UNCHANGED << file, source, text >> /\ report' = NoReport
      BY <2>5 DEF Interrupted
    <3>3. SingleFile'
      BY <2>1, <3>2 DEF SingleFile, Kept
    <3> QED
      BY <3>1, <3>2, <3>3 DEF SingleInv, SingleRoundTrip, NoReport
  <2>6. ASSUME NEW w \in Workers, Thread(w) PROVE SingleInv' /\ SingleRoundTrip'
    <3>1. UNCHANGED << file, source, text, report >>
      BY <2>6 DEF Thread, TakeShard, Stop, SettleAnswered, SettleFailed, InnerAnswers, InnerRaises,
                  Charge, AppendCall, ReadTotals, WriteTotals, HandOut, Mismatch, ReadCursor,
                  StoreCursor
    <3>2. SingleFile' /\ SingleRoundTrip'
      BY <1>1, <2>1, <3>1 DEF SingleFile, Kept, SingleRoundTrip
    <3>3. SingleRun' /\ SingleRecording' /\ SingleReplay'
      BY <1>3, <2>1, <2>6, SingleRunStep, SingleRecordingStep, SingleReplayStep
    <3> QED
      BY <3>2, <3>3 DEF SingleInv
  <2>7. CASE UNCHANGED vars
    BY <2>1, <2>7 DEF vars, SingleInv, SingleRoundTrip, SingleRun, SingleRecording, SingleReplay,
                      SingleFile, Kept, Noted, SettledWith, SettledByFailure, Hit, Miss
  <2> QED
    BY <2>2, <2>3, <2>4, <2>5, <2>6, <2>7 DEF Next, Finish, Rest
<1> QED
  BY <1>2, <1>3

LEMMA SingleInit == Init => SingleInv /\ SingleRoundTrip
<1> SUFFICES ASSUME Init PROVE SingleInv /\ SingleRoundTrip
  OBVIOUS
<1>1. 1 \in Shards
  BY ShardsAssumption DEF Shards
<1>2. SingleRun
  BY <1>1 DEF Init, SingleRun, Jobless
<1>3. SingleRecording /\ SingleReplay /\ SingleFile /\ SingleRoundTrip
  BY DEF Init, SingleRecording, SingleReplay, SingleFile, SingleRoundTrip, NoReport
<1> QED
  BY <1>2, <1>3 DEF SingleInv

\* Every single-agent recording, whether its call went well, failed, was refused or
\* went over the cap, is replayed to the same success at the same cost, provided the
\* model and its price are as they were and save had nothing to rewrite.
THEOREM RecordingsRoundTrip == Spec => []SingleRoundTrip
<1> DEFINE Inv == TypeInv /\ AnswerInv /\ PaidInv /\ CountedInv /\ SingleInv /\ SingleRoundTrip
<1>1. Init => Inv
  BY TypeInit, BooksInit, SingleInit DEF Init, AnswerInv
<1>2. Inv /\ [Next]_vars => Inv'
  BY TypeStep, AnswerStep, BooksStep, SingleStep DEF TypeInv
<1>3. Inv => SingleRoundTrip
  OBVIOUS
<1> QED
  BY <1>1, <1>2, <1>3, PTL DEF Spec

=============================================================================

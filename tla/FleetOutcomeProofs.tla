-------------------------- MODULE FleetOutcomeProofs --------------------------
(***************************************************************************)
(* Further theorems about Fleet: what a run has charged, cleaned up and    *)
(* worked on when it ends.                                                 *)
(***************************************************************************)
EXTENDS FleetProofs, SumProofs

LEMMA WorkersCounted == N \in Nat
BY WorkersAssumption, FS_CardinalityType DEF N

-----------------------------------------------------------------------------
(***************************************************************************)
(* What is billed.  Between a provider's charge and record_spend the       *)
(* governor lags behind by the bills in the workers' hands (Due), and for  *)
(* good by the answers an exception has lost.  Slack is what a worker      *)
(* leaves of one full call: nothing before its answer or after a loss, the *)
(* rest of the call while it holds a bill, all of it otherwise.  A worker  *)
(* at its preflight has all of it, so one more call fits under the bound.  *)
(***************************************************************************)
Unanswered == {w \in Workers : pc[w] \in {"claim", "provision", "call"}}

Lost(w) == pc[w] = "raised" \/ (pc[w] = "cleanup" /\ exit[w] = "raised")

Holds(w) == pc[w] \in {"complete", "record"}

Due == [w \in Workers |-> IF Holds(w) THEN bill[w] ELSE 0]

Slack == [w \in Workers |->
            IF w \in Unanswered \/ Lost(w) THEN 0
            ELSE IF Holds(w) THEN MaxCost - bill[w] ELSE MaxCost]

BillInv ==
  /\ phase = "start" => billed = spent
  /\ \A w \in Workers : pc[w] = "record" => exit[w] = "check"
  /\ spent + SumOver(Due, Workers) <= billed
  /\ billed + Cardinality(Unanswered) * MaxCost + SumOver(Slack, Workers)
       <= spent + N * MaxCost
  /\ Admitted => billed + Cardinality(Unanswered) * MaxCost <= HardCap - PerShard + N * MaxCost

LEMMA BillTypes ==
  ASSUME TypeOK, TypeOK'
  PROVE  /\ Due \in [Workers -> Nat] /\ Slack \in [Workers -> Nat]
         /\ Due' \in [Workers -> Nat] /\ Slack' \in [Workers -> Nat]
<1>1. \A w \in Workers : bill[w] \in Costs /\ bill'[w] \in Costs
  BY DEF TypeOK
<1> QED
  BY <1>1, MaxCostAssumption DEF Due, Slack, Costs

LEMMA UnansweredFinite ==
  /\ IsFiniteSet(Unanswered) /\ Cardinality(Unanswered) \in Nat
  /\ IsFiniteSet(Unanswered') /\ Cardinality(Unanswered') \in Nat
<1>1. Unanswered \in SUBSET Workers /\ Unanswered' \in SUBSET Workers
  BY DEF Unanswered
<1> QED
  BY <1>1, WorkersAssumption, FS_Subset, FS_CardinalityType

\* The calls still to be answered change by the worker that moves.
LEMMA UnansweredStep ==
  ASSUME TypeOK, TypeOK', NEW w \in Workers, \A v \in Workers \ {w} : pc'[v] = pc[v]
  PROVE  Cardinality(Unanswered') * MaxCost =
           Cardinality(Unanswered) * MaxCost
             - (IF w \in Unanswered THEN MaxCost ELSE 0)
             + (IF w \in Unanswered' THEN MaxCost ELSE 0)
<1> DEFINE k == Cardinality(Unanswered)
           j == Cardinality(Unanswered')
<1>0. k \in Nat /\ j \in Nat
  BY UnansweredFinite
<1>1. CASE w \in Unanswered /\ w \notin Unanswered'
  <2>1. Unanswered' = Unanswered \ {w}
    BY <1>1 DEF Unanswered
  <2>2. j = k - 1
    BY <1>1, <2>1, UnansweredFinite, FS_RemoveElement
  <2> HIDE DEF k, j
  <2> QED
    BY <1>0, <1>1, <2>2, MaxCostAssumption DEF k, j
<1>2. CASE w \notin Unanswered /\ w \in Unanswered'
  <2>1. Unanswered' = Unanswered \cup {w}
    BY <1>2 DEF Unanswered
  <2>2. j = k + 1
    BY <1>2, <2>1, UnansweredFinite, FS_AddElement
  <2> HIDE DEF k, j
  <2> QED
    BY <1>0, <1>2, <2>2, MaxCostAssumption DEF k, j
<1>3. CASE w \in Unanswered <=> w \in Unanswered'
  <2>1. Unanswered' = Unanswered
    BY <1>3 DEF Unanswered
  <2> QED
    BY <1>0, <1>3, <2>1, MaxCostAssumption
<1> QED
  BY <1>1, <1>2, <1>3

\* What a worker's step must keep in balance for BillInv to survive it.
Balanced(w) ==
  /\ spent' - spent <= billed' - billed + Due[w] - Due'[w]
  /\ billed' - billed + (IF w \in Unanswered' THEN MaxCost ELSE 0) + Slack'[w]
       <= spent' - spent + (IF w \in Unanswered THEN MaxCost ELSE 0) + Slack[w]

LEMMA SlackIsLeft ==
  ASSUME NEW charged \in Nat, NEW calls \in Nat, NEW left \in Nat, NEW recorded \in Nat,
         NEW n \in Nat, NEW cap \in Nat, NEW share \in Nat,
         charged + calls + left <= recorded + n, recorded + share <= cap
  PROVE  charged + calls <= cap - share + n
OBVIOUS

LEMMA CallsTraded ==
  ASSUME NEW before \in Nat, NEW after \in Nat, NEW calls \in Nat,
         NEW fewer \in Nat, NEW more \in Nat, NEW n \in Nat, NEW cap \in Nat,
         NEW share \in Nat, after + more <= before + fewer, before + calls <= cap - share + n
  PROVE  after + (calls - fewer + more) <= cap - share + n
OBVIOUS

LEMMA BalancedSteps ==
  ASSUME TypeOK, TypeOK', BillInv, NEW w \in Workers, Balanced(w),
         \A v \in Workers \ {w} : pc'[v] = pc[v] /\ exit'[v] = exit[v] /\ bill'[v] = bill[v],
         pc'[w] = "record" => exit'[w] = "check",
         phase = "running", phase' = "running",
         \/ billed' + (IF w \in Unanswered' THEN MaxCost ELSE 0)
              <= billed + (IF w \in Unanswered THEN MaxCost ELSE 0)
         \/ spent' + PerShard <= HardCap
  PROVE  BillInv'
<1> DEFINE k == Cardinality(Unanswered) * MaxCost
           j == Cardinality(Unanswered') * MaxCost
           out == IF w \in Unanswered THEN MaxCost ELSE 0
           out2 == IF w \in Unanswered' THEN MaxCost ELSE 0
           n == N * MaxCost
           t == SumOver(Due, Workers)
           s == SumOver(Slack, Workers)
<1>1. j = k - out + out2 /\ k \in Nat /\ j \in Nat /\ out \in Nat /\ out2 \in Nat /\ n \in Nat
  BY UnansweredStep, UnansweredFinite, MaxCostAssumption, WorkersCounted
<1>2. /\ Due \in [Workers -> Nat] /\ Slack \in [Workers -> Nat]
      /\ Due' \in [Workers -> Nat] /\ Slack' \in [Workers -> Nat]
  BY BillTypes
<1>3. \A x \in Workers \ {w} : Due'[x] = Due[x] /\ Slack'[x] = Slack[x]
  BY DEF Due, Slack, Holds, Lost, Unanswered
<1>4. /\ Due[w] \in Nat /\ Due'[w] \in Nat /\ Slack[w] \in Nat /\ Slack'[w] \in Nat
      /\ spent \in Nat /\ spent' \in Nat /\ billed \in Nat /\ billed' \in Nat
  BY <1>2 DEF TypeOK
<1>5. /\ t \in Nat /\ SumOver(Due', Workers) \in Nat
      /\ SumOver(Due', Workers) = t - Due[w] + Due'[w]
  <2>1. \A x \in Workers : Due[x] \in Nat /\ Due'[x] \in Nat
    BY <1>2
  <2> QED
    BY <1>3, <2>1, WorkersAssumption, SumChanges, SumType
<1>6. /\ s \in Nat /\ SumOver(Slack', Workers) \in Nat
      /\ SumOver(Slack', Workers) = s - Slack[w] + Slack'[w]
  <2>1. \A x \in Workers : Slack[x] \in Nat /\ Slack'[x] \in Nat
    BY <1>2
  <2> QED
    BY <1>3, <2>1, WorkersAssumption, SumChanges, SumType
<1>7. spent + t <= billed /\ billed + k + s <= spent + n
  BY DEF BillInv
<1>8. billed + k <= HardCap - PerShard + n
  BY DEF BillInv, Admitted
<1> HIDE DEF k, j, out, out2, n, t, s
<1>9. spent' + (t - Due[w] + Due'[w]) <= billed'
  BY <1>4, <1>5, <1>7 DEF Balanced
<1>10. billed' - billed + out2 + Slack'[w] <= spent' - spent + out + Slack[w]
  BY DEF Balanced, out, out2
<1>11. billed' + j + (s - Slack[w] + Slack'[w]) <= spent' + n
  BY <1>1, <1>4, <1>6, <1>7, <1>10
<1>12. billed' + j <= HardCap - PerShard + n
  <2>1. CASE billed' + out2 <= billed + out
    <3>1. /\ billed \in Nat /\ billed' \in Nat /\ k \in Nat /\ out \in Nat /\ out2 \in Nat
          /\ n \in Nat
      BY <1>1, <1>4
    <3> QED
      BY <1>1, <1>8, <2>1, <3>1, HardCapAssumption, PerShardAssumption, CallsTraded
  <2>2. CASE spent' + PerShard <= HardCap
    <3>1. PICK r \in Nat : billed' + j + r <= spent' + n
      BY <1>6, <1>11
    <3>2. billed' \in Nat /\ spent' \in Nat /\ j \in Nat /\ n \in Nat
      BY <1>1, <1>4
    <3> QED
      BY <2>2, <3>1, <3>2, HardCapAssumption, PerShardAssumption, SlackIsLeft
  <2> QED
    BY <2>1, <2>2 DEF out, out2
<1>13. \A x \in Workers : pc'[x] = "record" => exit'[x] = "check"
  BY DEF BillInv
<1> QED
  <2>1. spent' + SumOver(Due', Workers) <= billed'
    BY <1>5, <1>9
  <2>2. billed' + j + SumOver(Slack', Workers) <= spent' + n
    BY <1>6, <1>11
  <2> QED
    BY <1>12, <1>13, <2>1, <2>2 DEF BillInv, Admitted, j, n, N

\* Before the pool starts the governor has heard of every dollar.
LEMMA BillInvInit == Init => BillInv
<1> SUFFICES ASSUME Init PROVE BillInv
  OBVIOUS
<1>1. \A w \in Workers : pc[w] = "idle" /\ exit[w] = "check"
  BY DEF Init
<1>2. Unanswered = {} /\ \A w \in Workers : Due[w] = 0 /\ Slack[w] = MaxCost
  BY <1>1 DEF Due, Slack, Holds, Lost, Unanswered
<1>3. SumOver(Due, Workers) = 0 /\ SumOver(Slack, Workers) = N * MaxCost
  BY <1>2, SumOfZeros, SumOfEqual, MaxCostAssumption, WorkersAssumption DEF N
<1>4. Cardinality(Unanswered) = 0 /\ 0 * MaxCost = 0 /\ N * MaxCost \in Nat
  BY <1>2, FS_EmptySet, WorkersCounted, MaxCostAssumption
<1>5. spent \in Nat /\ billed = spent /\ phase = "start"
  BY InitialSpendsAssumption DEF Init
<1> QED
  BY <1>1, <1>3, <1>4, <1>5 DEF BillInv, Admitted

\* A step that moves no worker between the groups above, and charges nothing.
LEMMA BillInvKept ==
  ASSUME BillInv, Due' = Due, Slack' = Slack, Unanswered' = Unanswered, spent' = spent,
         billed' = billed, Admitted' => Admitted, phase' # "start",
         \A w \in Workers : pc'[w] = "record" => exit'[w] = "check"
  PROVE  BillInv'
BY DEF BillInv, N

LEMMA BillInvStep ==
  ASSUME TypeInv, OwnInv, BillInv, [Next]_vars
  PROVE  BillInv'
<1>t. TypeOK /\ TypeOK' /\ NoResidue
  BY TypeInvInductive DEF TypeInv
<1> USE DEF governorVars, mainVars, resultVars, workerVars, At, GoTo
<1>1. CASE Reject
  BY <1>1 DEF Reject, BillInv, Admitted, Due, Slack, Holds, Lost, Unanswered
<1>2. CASE Launch \/ LaunchRaises
  <2>1. /\ spent <= HardCap - PerShard /\ phase = "start" /\ phase' # "start"
        /\ spent' = spent /\ billed' = billed /\ billed = spent
    BY <1>t, <1>2, ProjectedCoversShare, HardCapAssumption, PerShardAssumption
       DEF Launch, LaunchRaises, CanStart, Remaining, TypeOK, BillInv
  <2>2. \A w \in Workers : pc[w] = "idle" /\ pc'[w] \in {"idle", "check"}
    BY <1>2, <2>1 DEF Launch, LaunchRaises, OwnInv
  <2>3. Unanswered = {} /\ Unanswered' = {} /\ Due' = Due /\ Slack' = Slack
    BY <2>2 DEF Due, Slack, Holds, Lost, Unanswered
  <2>4. Cardinality(Unanswered') = 0 /\ 0 * MaxCost = 0 /\ N * MaxCost \in Nat
    BY <2>3, FS_EmptySet, WorkersCounted, MaxCostAssumption
  <2>5. billed' + Cardinality(Unanswered') * MaxCost <= HardCap - PerShard + N * MaxCost
    BY <1>t, <2>1, <2>4, HardCapAssumption, PerShardAssumption DEF TypeOK
  <2> QED
    BY <2>1, <2>2, <2>3, <2>5 DEF BillInv, N
<1>3. CASE Aggregate \/ FinalizeRaises \/ Raise
  <2>1. spent' = spent
    BY <1>t, <1>3 DEF Aggregate, FinalizeRaises, Raise, RecordSpend, Residue, NoResidue, TypeOK
  <2>2. pc' = pc /\ exit' = exit /\ bill' = bill /\ billed' = billed /\ Admitted /\ phase' # "start"
    BY <1>3 DEF Aggregate, FinalizeRaises, Raise, Joined, Admitted
  <2>3. Due' = Due /\ Slack' = Slack /\ Unanswered' = Unanswered
    BY <2>2 DEF Due, Slack, Holds, Lost, Unanswered
  <2>4. \A w \in Workers : pc'[w] = "record" => exit'[w] = "check"
    BY <2>2 DEF BillInv
  <2> QED
    BY <2>1, <2>2, <2>3, <2>4, BillInvKept
<1>4. ASSUME NEW w \in Workers, Worker(w) PROVE BillInv'
  <2>0. /\ phase = "running" /\ phase' = "running"
        /\ \A v \in Workers \ {w} : pc'[v] = pc[v] /\ exit'[v] = exit[v] /\ bill'[v] = bill[v]
    BY <1>t, <1>4
       DEF Worker, CheckAbort, Preflight, Stop, ClaimShard, ClaimNone, ClaimRaises, Provision,
           ProvisionRaises, Answer, AdapterRaises, Complete, Fail, SettleRaises, Record, Cleanup,
           TypeOK
  <2>1. /\ Due[w] = IF Holds(w) THEN bill[w] ELSE 0
        /\ Due'[w] = IF Holds(w)' THEN bill'[w] ELSE 0
        /\ Slack[w] = IF w \in Unanswered \/ Lost(w) THEN 0
                      ELSE IF Holds(w) THEN MaxCost - bill[w] ELSE MaxCost
        /\ Slack'[w] = IF w \in Unanswered' \/ Lost(w)' THEN 0
                       ELSE IF Holds(w)' THEN MaxCost - bill'[w] ELSE MaxCost
        /\ w \in Unanswered <=> pc[w] \in {"claim", "provision", "call"}
        /\ w \in Unanswered' <=> pc'[w] \in {"claim", "provision", "call"}
    BY DEF Due, Slack, Unanswered
  <2>2. /\ bill[w] \in Nat /\ bill[w] <= MaxCost /\ bill'[w] \in Nat /\ bill'[w] <= MaxCost
        /\ spent \in Nat /\ spent' \in Nat /\ billed \in Nat /\ billed' \in Nat
    BY <1>t, MaxCostAssumption DEF TypeOK, Costs
  <2> USE MaxCostAssumption, HardCapAssumption, PerShardAssumption DEF Balanced, Holds, Lost
  <2> DEFINE Kept ==
        /\ Balanced(w) /\ (pc'[w] = "record" => exit'[w] = "check")
        /\ \/ billed' + (IF w \in Unanswered' THEN MaxCost ELSE 0)
                <= billed + (IF w \in Unanswered THEN MaxCost ELSE 0)
           \/ spent' + PerShard <= HardCap
  <2>3. ASSUME CheckAbort(w) PROVE Kept
    BY <1>t, <2>1, <2>2, <2>3 DEF CheckAbort, TypeOK
  <2>4. ASSUME Preflight(w) PROVE Kept
    BY <1>t, <2>1, <2>2, <2>4 DEF Preflight, CanStart, Remaining, TypeOK
  <2>5. ASSUME Stop(w) PROVE Kept
    BY <1>t, <2>1, <2>2, <2>5 DEF Stop, TypeOK
  <2>6. ASSUME ClaimShard(w) \/ ClaimNone(w) \/ ClaimRaises(w) PROVE Kept
    <3>1. CASE ClaimShard(w)
      BY <1>t, <2>1, <2>2, <3>1 DEF ClaimShard, TypeOK
    <3>2. CASE ClaimNone(w)
      BY <1>t, <2>1, <2>2, <3>2 DEF ClaimNone, TypeOK
    <3>3. CASE ClaimRaises(w)
      BY <1>t, <2>1, <2>2, <3>3 DEF ClaimRaises, TypeOK
    <3> QED
      BY <2>6, <3>1, <3>2, <3>3
  <2>7. ASSUME Provision(w) \/ ProvisionRaises(w) PROVE Kept
    <3>1. CASE Provision(w)
      BY <1>t, <2>1, <2>2, <3>1 DEF Provision, TypeOK
    <3>2. CASE ProvisionRaises(w)
      BY <1>t, <2>1, <2>2, <3>2 DEF ProvisionRaises, TypeOK
    <3> QED
      BY <2>7, <3>1, <3>2
  <2>8. ASSUME Answer(w) PROVE Kept
    BY <1>t, <2>1, <2>2, <2>8 DEF Answer, TypeOK, Costs
  <2>9. ASSUME AdapterRaises(w) \/ Fail(w) \/ SettleRaises(w) PROVE Kept
    <3>1. CASE AdapterRaises(w)
      BY <1>t, <2>1, <2>2, <3>1 DEF AdapterRaises, TypeOK
    <3>2. CASE Fail(w)
      BY <1>t, <2>1, <2>2, <3>2 DEF Fail, TypeOK
    <3>3. CASE SettleRaises(w)
      BY <1>t, <2>1, <2>2, <3>3 DEF SettleRaises, TypeOK
    <3> QED
      BY <2>9, <3>1, <3>2, <3>3
  <2>10. ASSUME Complete(w) PROVE Kept
    BY <1>t, <2>1, <2>2, <2>10 DEF Complete, TypeOK
  <2>11. ASSUME Record(w) PROVE Kept
    BY <1>t, <2>1, <2>2, <2>11 DEF Record, RecordSpend, BillInv, TypeOK
  <2>12. ASSUME Cleanup(w) PROVE Kept
    BY <1>t, <2>1, <2>2, <2>12 DEF Cleanup, TypeOK
  <2>13. Kept
    BY <1>4, <2>3, <2>4, <2>5, <2>6, <2>7, <2>8, <2>9, <2>10, <2>11, <2>12 DEF Worker
  <2> QED
    BY <1>t, <2>0, <2>13, BalancedSteps
<1>5. CASE UNCHANGED vars
  BY <1>5 DEF vars, BillInv, Admitted, Due, Slack, Holds, Lost, Unanswered
<1> QED
  BY <1>1, <1>2, <1>3, <1>4, <1>5 DEF Next, Main, Idle

NeverAhead == spent <= billed

LEMMA RecordedIsBilled == TypeOK /\ BillInv => NeverAhead
<1> SUFFICES ASSUME TypeOK, BillInv PROVE NeverAhead
  OBVIOUS
<1>1. \A w \in Workers : Due[w] \in Nat
  BY MaxCostAssumption DEF Due, Costs, TypeOK
<1>2. SumOver(Due, Workers) \in Nat /\ spent \in Nat /\ billed \in Nat
  BY <1>1, SumType, WorkersAssumption DEF TypeOK
<1>3. spent + SumOver(Due, Workers) <= billed
  BY DEF BillInv
<1> QED
  BY <1>2, <1>3 DEF NeverAhead

\* The provider charges at most one call per worker beyond what was recorded at
\* the last admission, whatever exceptions lose on the way; and the governor
\* never records a dollar the provider has not charged.
THEOREM RealSpendIsBounded == Spec => []RealSpendBound
<1>1. Init => OwnInv /\ BillInv
  BY BillInvInit DEF Init, RowsInit, OwnInv
<1>2. TypeInv /\ OwnInv /\ BillInv /\ [Next]_vars => OwnInv' /\ BillInv'
  BY OwnInvStep, BillInvStep
<1>3. TypeInv /\ BillInv => RealSpendBound
  <2> SUFFICES ASSUME TypeInv, BillInv PROVE RealSpendBound
    OBVIOUS
  <2> DEFINE k == Cardinality(Unanswered) * MaxCost
             n == N * MaxCost
  <2>1. k \in Nat /\ n \in Nat /\ spent \in Nat /\ billed \in Nat
    BY UnansweredFinite, WorkersCounted, MaxCostAssumption DEF TypeInv, TypeOK
  <2>3. Admitted => billed + k <= HardCap - PerShard + n
    BY DEF BillInv
  <2> HIDE DEF k, n
  <2>4. spent <= billed
    BY RecordedIsBilled DEF TypeInv, NeverAhead
  <2>5. Admitted => billed <= HardCap - PerShard + n
    BY <2>1, <2>3, HardCapAssumption, PerShardAssumption
  <2> QED
    BY <2>4, <2>5 DEF RealSpendBound, n, N
<1> QED
  BY <1>1, <1>2, <1>3, TypeInvInductive, PTL DEF Spec

-----------------------------------------------------------------------------
(***************************************************************************)
(* Worktrees.  On a file system that does not fail, a directory exists     *)
(* only for the shard in a worker's hands, between its provision and its   *)
(* cleanup; a worker that has returned or raised holds nothing.            *)
(***************************************************************************)
TreeInv ==
  /\ \A t \in trees : /\ held[t[1]] = t[2]
                      /\ pc[t[1]] \in {"call", "complete", "fail", "record", "stop", "cleanup"}
  /\ phase # "running" => trees = {}

LEMMA TreeInvStep ==
  ASSUME TypeInv, TreeInv, [Next]_vars, "disk" \notin Faults
  PROVE  TreeInv'
<1>t. TypeOK /\ TypeOK' /\ HandsFull
  BY TypeInvInductive DEF TypeInv
<1> USE DEF governorVars, mainVars, resultVars, workerVars, At, GoTo
<1>1. CASE Main
  <2>1. trees' = trees /\ phase' \in {"rejected", "running", "raised", "finished"}
    BY <1>1 DEF Main, Reject, Launch, LaunchRaises, Aggregate, FinalizeRaises, Raise
  <2>2. CASE phase = "start"
    BY <2>1, <2>2 DEF TreeInv
  <2>3. CASE phase # "start"
    <3>1. trees = {}
      <4>1. phase = "running" /\ \A w \in Workers : pc[w] \in {"returned", "raised"}
        BY <1>1, <2>3
           DEF Main, Reject, Launch, LaunchRaises, Aggregate, FinalizeRaises, Raise, Joined
      <4>2. ASSUME NEW t \in trees PROVE FALSE
        <5>1. t[1] \in Workers
          BY <1>t, <4>2 DEF TypeOK
        <5>2. pc[t[1]] \in {"call", "complete", "fail", "record", "stop", "cleanup"}
          BY <4>2 DEF TreeInv
        <5> QED
          BY <4>1, <5>1, <5>2
      <4> QED
        BY <4>2
    <3> QED
      BY <2>1, <3>1 DEF TreeInv
  <2> QED
    BY <2>2, <2>3
<1>2. ASSUME NEW w \in Workers, Worker(w) PROVE TreeInv'
  <2>0. phase = "running" /\ phase' = "running"
    BY <1>2
       DEF Worker, CheckAbort, Preflight, Stop, ClaimShard, ClaimNone, ClaimRaises, Provision,
           ProvisionRaises, Answer, AdapterRaises, Complete, Fail, SettleRaises, Record, Cleanup
  <2>1. \A t \in trees : t[1] \in Workers /\ t[2] \in Shards /\ t = << t[1], t[2] >>
    BY <1>t DEF TypeOK
  <2>2. CASE CheckAbort(w) \/ Preflight(w) \/ ClaimNone(w) \/ ClaimRaises(w)
    BY <1>t, <2>0, <2>1, <2>2 DEF CheckAbort, Preflight, ClaimNone, ClaimRaises, TreeInv, TypeOK
  <2>3. CASE Stop(w)
    BY <1>t, <2>0, <2>1, <2>3 DEF Stop, TreeInv, TypeOK, Shards
  <2>4. CASE ClaimShard(w)
    BY <1>t, <2>0, <2>1, <2>4 DEF ClaimShard, TreeInv, TypeOK
  <2>5. CASE Provision(w)
    <3>1. /\ trees' = trees \cup {<< w, held[w] >>} /\ held' = held
          /\ pc' = [pc EXCEPT ![w] = "call"]
      BY <2>5 DEF Provision
    <3>2. pc'[w] = "call" /\ \A v \in Workers \ {w} : pc'[v] = pc[v]
      BY <1>t, <3>1 DEF TypeOK
    <3>3. ASSUME NEW t \in trees'
          PROVE  /\ held'[t[1]] = t[2]
                 /\ pc'[t[1]] \in {"call", "complete", "fail", "record", "stop", "cleanup"}
      BY <2>1, <3>1, <3>2 DEF TreeInv
    <3> QED
      BY <2>0, <3>3 DEF TreeInv
  <2>6. CASE ProvisionRaises(w)
    BY <2>6 DEF ProvisionRaises
  <2>7. CASE Answer(w) \/ AdapterRaises(w) \/ Complete(w) \/ Fail(w) \/ SettleRaises(w) \/ Record(w)
    BY <1>t, <2>0, <2>1, <2>7, ZenonT(60)
       DEF Answer, AdapterRaises, Complete, Fail, SettleRaises, Record, TreeInv, TypeOK
  <2>8. CASE Cleanup(w)
    <3>1. /\ trees' = trees \ {<< w, held[w] >>} /\ held' = [held EXCEPT ![w] = 0]
          /\ pc' = [pc EXCEPT ![w] = exit[w]]
      BY <2>8 DEF Cleanup
    <3>2. \A v \in Workers \ {w} : pc'[v] = pc[v] /\ held'[v] = held[v]
      BY <1>t, <3>1 DEF TypeOK
    <3>3. \A t \in trees' : t[1] # w
      BY <2>1, <3>1 DEF TreeInv
    <3>4. ASSUME NEW t \in trees'
          PROVE  /\ held'[t[1]] = t[2]
                 /\ pc'[t[1]] \in {"call", "complete", "fail", "record", "stop", "cleanup"}
      BY <2>1, <3>1, <3>2, <3>3 DEF TreeInv
    <3> QED
      BY <2>0, <3>4 DEF TreeInv
  <2> QED
    BY <1>2, <2>2, <2>3, <2>4, <2>5, <2>6, <2>7, <2>8 DEF Worker
<1>3. CASE UNCHANGED vars
  BY <1>3 DEF vars, TreeInv
<1> QED
  BY <1>1, <1>2, <1>3 DEF Next, Idle

\* No worktree outlives the run, unless the file system itself refused.
THEOREM WorktreesAreReturned == Spec => []WorktreesReturned
<1> DEFINE Inv == "disk" \notin Faults => TreeInv
<1>1. Init => Inv
  BY DEF Init, TreeInv
<1>2. TypeInv /\ Inv /\ [Next]_vars => Inv'
  BY TreeInvStep
<1>3. Inv => WorktreesReturned
  BY DEF WorktreesReturned, TreeInv, Ended
<1> QED
  BY <1>1, <1>2, <1>3, TypeInvInductive, PTL DEF Spec

-----------------------------------------------------------------------------
(***************************************************************************)
(* Nothing is left over.  When calls keep to their share, a shard nobody   *)
(* has claimed is still affordable, so no worker stops while there is one; *)
(* and a claimed shard is in its owner's hands until it is settled, or its *)
(* owner's thread is dying of an exception.                                *)
(***************************************************************************)
Resigned(w) == pc[w] \in {"stop", "returned"} \/ exit[w] = "returned"

QueueInv ==
  /\ EstimateHolds /\ Pending # {} => ~abort /\ \A w \in Workers : ~Resigned(w)
  /\ phase = "start" => Pending = {} /\ ~abort /\ \A w \in Workers : ~Resigned(w)
  /\ PerShard = 0 /\ EstimateHolds /\ phase = "running" => spent < HardCap

SettleInv ==
  /\ phase \in {"running", "finished"} =>
       \A s \in Shards :
         /\ status[s] # "absent"
         /\ status[s] = "in_progress" =>
              /\ owner[s] \in Workers
              /\ \/ /\ held[owner[s]] = s
                    /\ pc[owner[s]] \in {"provision", "call", "complete", "fail"}
                 \/ Lost(owner[s])
  /\ phase = "finished" => \A w \in Workers : pc[w] = "returned"

LEMMA PendingIsAffordable ==
  ASSUME TypeInv, BillInv, CapInv, QueueInv, EstimateHolds, phase = "running", Pending # {}
  PROVE  CanStart(PerShard)
<1> DEFINE k == Cardinality(Unbilled)
<1>1. Unbilled # {} /\ k \in Nat
  BY UnbilledFinite DEF Pending, Unbilled
<1>2. k # 0
  BY <1>1, UnbilledFinite, FS_EmptySet
<1>3. 1 * PerShard <= k * PerShard /\ 1 * PerShard = PerShard /\ k * PerShard \in Nat
  BY <1>1, <1>2, PerShardAssumption, MulMonotonic
<1>4. billed + k * PerShard <= HardCap
  BY DEF CapInv, Admitted
<1>5. spent \in Nat /\ billed \in Nat /\ spent <= billed
  BY RecordedIsBilled DEF TypeInv, TypeOK, NeverAhead
<1>6. spent + PerShard <= HardCap
  <2> DEFINE m == k * PerShard
  <2>1. m \in Nat /\ PerShard <= m /\ billed + m <= HardCap
    BY <1>3, <1>4
  <2> HIDE DEF m
  <2> QED
    BY <1>5, <2>1, HardCapAssumption, PerShardAssumption
<1> QED
  BY <1>5, <1>6, HardCapAssumption, PerShardAssumption DEF CanStart, Remaining, QueueInv

LEMMA Between ==
  ASSUME NEW recorded \in Nat, NEW charged \in Nat, NEW ahead \in Nat, NEW cap \in Nat,
         recorded <= charged, charged + ahead <= cap
  PROVE  recorded <= cap
OBVIOUS

LEMMA QueueInvStep ==
  ASSUME TypeInv, BillInv, BillInv', CapInv, CapInv', QueueInv, [Next]_vars
  PROVE  QueueInv'
<1>t. TypeOK /\ TypeOK' /\ NoResidue
  BY TypeInvInductive DEF TypeInv
<1> USE DEF governorVars, rows, mainVars, resultVars, workerVars, At, GoTo, Resigned, EstimateHolds
<1>1. CASE Reject \/ LaunchRaises
  <2>1. CASE Reject
    BY <2>1 DEF Reject, QueueInv, Pending
  <2>2. CASE LaunchRaises
    BY <2>2 DEF LaunchRaises, QueueInv, Pending
  <2> QED
    BY <1>1, <2>1, <2>2
<1>2. CASE Launch
  <2>1. spent < HardCap
    BY <1>t, <1>2, HardCapAssumption DEF Launch, CanStart, Remaining, TypeOK
  <2> QED
    BY <1>2, <2>1 DEF Launch, QueueInv, TypeOK
<1>3. CASE Aggregate \/ FinalizeRaises \/ Raise
  BY <1>t, <1>3
     DEF Aggregate, FinalizeRaises, Raise, Joined, QueueInv, Pending, RecordSpend, Residue,
         NoResidue, TypeOK
<1>4. ASSUME NEW w \in Workers, Worker(w) PROVE QueueInv'
  <2>0. phase = "running" /\ phase' = "running"
    BY <1>4
       DEF Worker, CheckAbort, Preflight, Stop, ClaimShard, ClaimNone, ClaimRaises, Provision,
           ProvisionRaises, Answer, AdapterRaises, Complete, Fail, SettleRaises, Record, Cleanup
  <2>1. Pending' \subseteq Pending
    BY <1>t, <1>4
       DEF Worker, CheckAbort, Preflight, Stop, ClaimShard, ClaimNone, ClaimRaises, Provision,
           ProvisionRaises, Answer, AdapterRaises, Complete, Fail, SettleRaises, Record, Cleanup,
           Claim, CompleteShard, FailShard, Pending, TypeOK, RowsTypeOK
  <2>2. PerShard = 0 /\ EstimateHolds => spent' = spent
    <3>1. CASE Record(w)
      BY <1>t, <3>1, MaxCostAssumption DEF Record, RecordSpend, TypeOK, Costs
    <3>2. CASE ~Record(w)
      BY <1>4, <3>2
         DEF Worker, CheckAbort, Preflight, Stop, ClaimShard, ClaimNone, ClaimRaises, Provision,
             ProvisionRaises, Answer, AdapterRaises, Complete, Fail, SettleRaises, Cleanup
    <3> QED
      BY <3>1, <3>2
  <2>3. ASSUME EstimateHolds, Pending' # {}
        PROVE  ~abort' /\ \A v \in Workers : ~Resigned(v)'
    <3>1. ~abort /\ \A v \in Workers : ~Resigned(v)
      BY <2>1, <2>3 DEF QueueInv
    <3>2. CanStart(PerShard)
      BY <2>0, <2>1, <2>3, PendingIsAffordable
    <3>3. spent' <= HardCap
      <4>1. PICK m \in Nat : billed' + m <= HardCap
        BY <2>0, <2>3, UnbilledFinite, PerShardAssumption DEF CapInv, Admitted
      <4>2. NeverAhead'
        BY <1>t, RecordedIsBilled, PTL
      <4>3. spent' \in Nat /\ billed' \in Nat
        BY <1>t DEF TypeOK
      <4> QED
        BY <4>1, <4>2, <4>3, HardCapAssumption, Between DEF NeverAhead
    <3>4. CASE Record(w)
      <4>1. ~RecordRaises(bill[w])
        BY <1>t, <3>3, <3>4, HardCapAssumption DEF Record, RecordRaises, RecordSpend, TypeOK
      <4> QED
        BY <1>t, <3>1, <3>4, <4>1 DEF Record, TypeOK
    <3>5. CASE ClaimNone(w)
      BY <2>1, <2>3, <3>5 DEF ClaimNone
    <3>6. CASE CheckAbort(w) \/ Preflight(w) \/ Stop(w) \/ ClaimShard(w) \/ ClaimRaises(w)
      BY <1>t, <3>1, <3>2, <3>6 DEF CheckAbort, Preflight, Stop, ClaimShard, ClaimRaises, TypeOK
    <3>7. CASE Provision(w) \/ ProvisionRaises(w) \/ Answer(w) \/ AdapterRaises(w)
      BY <1>t, <3>1, <3>7 DEF Provision, ProvisionRaises, Answer, AdapterRaises, TypeOK
    <3>8. CASE Complete(w) \/ Fail(w) \/ SettleRaises(w) \/ Cleanup(w)
      BY <1>t, <3>1, <3>8 DEF Complete, Fail, SettleRaises, Cleanup, TypeOK
    <3> QED
      BY <1>4, <3>4, <3>5, <3>6, <3>7, <3>8 DEF Worker
  <2> QED
    BY <2>0, <2>2, <2>3 DEF QueueInv
<1>5. CASE UNCHANGED vars
  BY <1>5 DEF vars, QueueInv, Pending
<1> QED
  BY <1>1, <1>2, <1>3, <1>4, <1>5 DEF Next, Main, Idle

LEMMA SettleInvStep ==
  ASSUME TypeInv, OwnInv, SettleInv, [Next]_vars
  PROVE  SettleInv'
<1>t. TypeOK /\ TypeOK' /\ HandsFull
  BY TypeInvInductive DEF TypeInv
<1> USE DEF governorVars, rows, mainVars, resultVars, workerVars, At, GoTo, Lost, RowsTypeOK
<1>1. CASE Reject \/ LaunchRaises \/ Raise \/ FinalizeRaises
  BY <1>1 DEF Reject, LaunchRaises, Raise, FinalizeRaises, SettleInv
<1>2. CASE Launch
  BY <1>2 DEF Launch, AddShards, SettleInv
<1>3. CASE Aggregate
  BY <1>3 DEF Aggregate, Joined, SettleInv
<1>4. ASSUME NEW w \in Workers, Worker(w) PROVE SettleInv'
  <2>0. phase = "running" /\ phase' = "running"
    BY <1>4
       DEF Worker, CheckAbort, Preflight, Stop, ClaimShard, ClaimNone, ClaimRaises, Provision,
           ProvisionRaises, Answer, AdapterRaises, Complete, Fail, SettleRaises, Record, Cleanup
  <2>1. \A s \in Shards :
          /\ status[s] # "absent"
          /\ status[s] = "in_progress" =>
               /\ owner[s] \in Workers
               /\ \/ /\ held[owner[s]] = s
                     /\ pc[owner[s]] \in {"provision", "call", "complete", "fail"}
                  \/ Lost(owner[s])
    BY <2>0 DEF SettleInv
  <2>2. \A v \in Workers \ {w} : pc'[v] = pc[v] /\ exit'[v] = exit[v] /\ held'[v] = held[v]
    BY <1>t, <1>4
       DEF Worker, CheckAbort, Preflight, Stop, ClaimShard, ClaimNone, ClaimRaises, Provision,
           ProvisionRaises, Answer, AdapterRaises, Complete, Fail, SettleRaises, Record, Cleanup,
           TypeOK
  <2> DEFINE Working == {"provision", "call", "complete", "fail"}
             Mine(s) == held[w] = s /\ pc[w] \in Working
  <2>3. ASSUME status' = status, owner' = owner,
               \A s \in Shards : Mine(s) \/ Lost(w) => Mine(s)' \/ Lost(w)'
        PROVE  SettleInv'
    BY <2>0, <2>1, <2>2, <2>3 DEF SettleInv
  <2>4. ASSUME NEW x \in {"done", "error"}, status' = [status EXCEPT ![held[w]] = x], owner' = owner,
               pc[w] \in {"complete", "fail"}, held[w] \in Shards
        PROVE  SettleInv'
    <3>1. status'[held[w]] = x /\ \A s \in Shards \ {held[w]} : status'[s] = status[s]
      BY <1>t, <2>4 DEF TypeOK
    <3>2. \A s \in Shards : status'[s] = "in_progress" => status[s] = "in_progress" /\ owner[s] # w
      BY <2>1, <2>4, <3>1
    <3> QED
      BY <2>0, <2>1, <2>2, <2>4, <3>1, <3>2 DEF SettleInv
  <2>5. CASE CheckAbort(w) \/ Preflight(w) \/ ClaimNone(w)
    <3>1. CASE CheckAbort(w)
      BY <1>t, <2>3, <3>1 DEF CheckAbort, TypeOK
    <3>2. CASE Preflight(w)
      BY <1>t, <2>3, <3>2 DEF Preflight, TypeOK
    <3>3. CASE ClaimNone(w)
      BY <1>t, <2>3, <3>3 DEF ClaimNone, TypeOK
    <3> QED
      BY <2>5, <3>1, <3>2, <3>3
  <2>6. CASE Stop(w) \/ ClaimRaises(w)
    <3>1. CASE Stop(w)
      BY <1>t, <2>3, <3>1 DEF Stop, TypeOK
    <3>2. CASE ClaimRaises(w)
      BY <1>t, <2>3, <3>2 DEF ClaimRaises, TypeOK
    <3> QED
      BY <2>6, <3>1, <3>2
  <2>7. CASE ClaimShard(w)
    <3>1. PICK s \in Shards : Claim(s, w) /\ held' = [held EXCEPT ![w] = s]
      BY <2>7 DEF ClaimShard
    <3>2. held'[w] = s /\ pc'[w] = "provision" /\ status'[s] = "in_progress" /\ owner'[s] = w
      BY <1>t, <2>7, <3>1 DEF ClaimShard, Claim, TypeOK
    <3>3. \A t \in Shards \ {s} : status'[t] = status[t] /\ owner'[t] = owner[t]
      BY <1>t, <3>1 DEF Claim, TypeOK
    <3>4. \A t \in Shards : status[t] = "in_progress" => owner[t] # w
      BY <2>1, <2>7 DEF ClaimShard
    <3> QED
      BY <2>0, <2>1, <2>2, <3>2, <3>3, <3>4 DEF SettleInv
  <2>8. CASE Provision(w)
    BY <1>t, <2>3, <2>8 DEF Provision, TypeOK
  <2>9. CASE ProvisionRaises(w)
    BY <1>t, <2>3, <2>9 DEF ProvisionRaises, TypeOK
  <2>10. CASE Answer(w)
    BY <1>t, <2>3, <2>10 DEF Answer, TypeOK
  <2>11. CASE AdapterRaises(w)
    BY <1>t, <2>3, <2>11 DEF AdapterRaises, TypeOK
  <2>12. CASE Complete(w) \/ Fail(w)
    <3>1. held[w] \in Shards
      BY <1>t, <2>12 DEF Complete, Fail, HandsFull, AtWork, TypeOK
    <3> QED
      BY <2>4, <2>12, <3>1 DEF Complete, Fail, CompleteShard, FailShard
  <2>13. CASE SettleRaises(w)
    BY <1>t, <2>3, <2>13 DEF SettleRaises, TypeOK
  <2>14. CASE Record(w)
    BY <1>t, <2>3, <2>14 DEF Record, TypeOK
  <2>15. CASE Cleanup(w)
    BY <1>t, <2>3, <2>15 DEF Cleanup, TypeOK
  <2> QED
    BY <1>4, <2>5, <2>6, <2>7, <2>8, <2>9, <2>10, <2>11, <2>12, <2>13, <2>14, <2>15 DEF Worker
<1>5. CASE UNCHANGED vars
  BY <1>5 DEF vars, SettleInv
<1> QED
  BY <1>1, <1>2, <1>3, <1>4, <1>5 DEF Next, Main, Idle

\* When calls keep to their share, a run that returns a result has worked on
\* every shard: the per-shard preflight never ends it early.
THEOREM EstimateFinishesShards == Spec => []EstimateLeavesNothing
<1> DEFINE Inv == OwnInv /\ BillInv /\ CapInv /\ QueueInv /\ SettleInv
<1>1. Init => Inv
  BY BillInvInit
     DEF Init, RowsInit, OwnInv, CapInv, Admitted, QueueInv, Resigned, Pending, SettleInv
<1>2. TypeInv /\ Inv /\ [Next]_vars => Inv'
  BY OwnInvStep, BillInvStep, CapInvStep, QueueInvStep, SettleInvStep
<1>3. TypeInv /\ Inv => EstimateLeavesNothing
  <2> SUFFICES ASSUME TypeOK, QueueInv, SettleInv, EstimateHolds, phase = "finished",
                      NEW s \in Shards
               PROVE  status[s] \in {"done", "error"}
    BY DEF EstimateLeavesNothing, TypeInv
  <2>1. \A w \in Workers : pc[w] = "returned"
    BY DEF SettleInv
  <2>2. Pending = {}
    BY <2>1, WorkersAssumption DEF QueueInv, Resigned
  <2>3. status[s] # "absent" /\ status[s] # "in_progress"
    BY <2>1 DEF SettleInv, Lost
  <2> QED
    BY <2>2, <2>3 DEF Pending, TypeOK, RowsTypeOK, ShardStatus
<1> QED
  BY <1>1, <1>2, <1>3, TypeInvInductive, PTL DEF Spec

-----------------------------------------------------------------------------
(***************************************************************************)
(* Rows and results.  A row is settled in the step that appends its result *)
(* and by the worker whose row it is; a settled row is never touched again *)
(* because nobody else has the shard in hand and no claim returns it.      *)
(***************************************************************************)
Settled(s) == status[s] \in {"done", "error"}

Faithful(w, i) ==
  LET r == results[w][i]
  IN  /\ status[r.shard] = IF r.ok THEN "done" ELSE "error"
      /\ owner[r.shard] = w /\ rowCost[r.shard] = r.cost
      /\ \A j \in DOMAIN results[w] : results[w][j].shard = r.shard => i = j

Reported(s) == \E i \in DOMAIN results[owner[s]] : results[owner[s]][i].shard = s

ResultInv ==
  /\ \A w \in Workers : \A i \in DOMAIN results[w] : Faithful(w, i)
  /\ \A s \in Shards : IF Settled(s) THEN owner[s] \in Workers /\ Reported(s) ELSE rowCost[s] = 0
  /\ phase = "start" => \A s \in Shards : status[s] = "absent"

\* A worker settles the row in its hands and appends the matching result.
LEMMA SettleKeepsResults ==
  ASSUME TypeInv, OwnInv, ResultInv, phase' # "start", NEW w \in Workers, NEW ok \in BOOLEAN,
         NEW c \in Costs, pc[w] \in {"complete", "fail"}, AddResult(w, ok, c),
         owner' = owner, status' = [status EXCEPT ![held[w]] = IF ok THEN "done" ELSE "error"],
         rowCost' = [rowCost EXCEPT ![held[w]] = c]
  PROVE  ResultInv'
<1> DEFINE s == held[w]
           r == [shard |-> s, ok |-> ok, cost |-> c]
           n == Len(results[w])
<1>1. TypeOK /\ s \in Shards /\ status[s] = "in_progress" /\ owner[s] = w /\ ~Settled(s)
  BY DEF TypeInv, TypeOK, HandsFull, AtWork, OwnInv, Owns, Settled, Shards
<1>2. results[w] \in Seq(Result) /\ n \in Nat /\ r \in Result
  <2>1. results[w] \in Seq(Result)
    BY <1>1 DEF TypeOK
  <2>2. r \in Result
    BY <1>1 DEF Result
  <2> QED
    BY <2>1, <2>2
<1>3. results' = [results EXCEPT ![w] = Append(results[w], r)]
  BY DEF AddResult
<1>4. results'[w] = Append(results[w], r) /\ \A v \in Workers \ {w} : results'[v] = results[v]
  BY <1>1, <1>3 DEF TypeOK
<1>5. /\ DOMAIN results[w] = 1 .. n /\ DOMAIN results'[w] = 1 .. n + 1
      /\ results'[w][n + 1] = r /\ \A i \in 1 .. n : results'[w][i] = results[w][i]
  BY <1>2, <1>4
<1>6. /\ status'[s] = (IF ok THEN "done" ELSE "error") /\ rowCost'[s] = c /\ owner'[s] = w
      /\ \A t \in Shards \ {s} : /\ status'[t] = status[t] /\ rowCost'[t] = rowCost[t]
                                /\ owner'[t] = owner[t]
  BY <1>1 DEF TypeOK, RowsTypeOK
<1>7. ASSUME NEW v \in Workers, NEW i \in DOMAIN results[v]
      PROVE  results[v][i].shard \in Shards \ {s}
  <2>1. results[v] \in Seq(Result)
    BY <1>1 DEF TypeOK
  <2>2. results[v][i] \in Result
    BY <2>1
  <2>3. results[v][i].shard \in Shards
    BY <2>2 DEF Result
  <2>4. status[results[v][i].shard] \in {"done", "error"}
    BY DEF ResultInv, Faithful
  <2> QED
    BY <1>1, <2>3, <2>4
<1>8. ASSUME NEW v \in Workers, NEW i \in DOMAIN results'[v] PROVE Faithful(v, i)'
  <2>1. CASE v # w
    <3>1. results'[v] = results[v]
      BY <1>4, <2>1
    <3>2. Faithful(v, i) /\ results[v][i].shard \in Shards \ {s}
      BY <1>7, <3>1 DEF ResultInv
    <3> QED
      BY <1>6, <3>1, <3>2 DEF Faithful
  <2>2. CASE v = w /\ i \in 1 .. n
    <3>1. Faithful(w, i) /\ results[w][i].shard \in Shards \ {s}
      BY <1>5, <1>7, <2>2 DEF ResultInv
    <3>2. results'[w][i] = results[w][i]
      BY <1>5, <2>2
    <3>3. ASSUME NEW j \in DOMAIN results'[w], results'[w][j].shard = results'[w][i].shard
          PROVE  i = j
      <4>1. results'[w][j].shard # s
        BY <3>1, <3>2, <3>3
      <4>2. j \in 1 .. n
        BY <1>2, <1>5, <4>1
      <4> QED
        BY <1>5, <3>1, <3>2, <3>3, <4>2 DEF Faithful
    <3>4. /\ status'[results'[w][i].shard] = IF results'[w][i].ok THEN "done" ELSE "error"
          /\ owner'[results'[w][i].shard] = w
          /\ rowCost'[results'[w][i].shard] = results'[w][i].cost
      BY <1>6, <3>1, <3>2 DEF Faithful
    <3> QED
      BY <2>2, <3>3, <3>4 DEF Faithful
  <2>3. CASE v = w /\ i = n + 1
    <3>1. ASSUME NEW j \in DOMAIN results'[w], results'[w][j].shard = s PROVE i = j
      <4>1. ASSUME j \in 1 .. n PROVE FALSE
        BY <1>5, <1>7, <3>1, <4>1
      <4> QED
        BY <1>2, <1>5, <2>3, <4>1
    <3> QED
      BY <1>5, <1>6, <2>3, <3>1 DEF Faithful
  <2> QED
    BY <1>2, <1>5, <2>1, <2>2, <2>3
<1>9. ASSUME NEW t \in Shards
      PROVE  IF Settled(t)' THEN owner'[t] \in Workers /\ Reported(t)' ELSE rowCost'[t] = 0
  <2>1. CASE t = s
    <3>1. n + 1 \in DOMAIN results'[owner'[s]] /\ results'[owner'[s]][n + 1].shard = s
      BY <1>2, <1>5, <1>6
    <3> QED
      BY <1>6, <2>1, <3>1 DEF Settled, Reported
  <2>2. CASE t # s /\ ~Settled(t)
    BY <1>6, <2>2 DEF ResultInv, Settled
  <2>3. CASE t # s /\ Settled(t)
    <3>1. owner[t] \in Workers
      BY <2>3 DEF ResultInv
    <3>2. PICK i \in DOMAIN results[owner[t]] : results[owner[t]][i].shard = t
      BY <2>3 DEF ResultInv, Reported
    <3>3. i \in DOMAIN results'[owner[t]] /\ results'[owner[t]][i] = results[owner[t]][i]
      <4>1. CASE owner[t] = w
        BY <1>2, <1>5, <3>2, <4>1
      <4>2. CASE owner[t] # w
        BY <1>4, <3>1, <3>2, <4>2
      <4> QED
        BY <4>1, <4>2
    <3> QED
      BY <1>6, <2>3, <3>1, <3>2, <3>3 DEF Settled, Reported
  <2> QED
    BY <2>1, <2>2, <2>3
<1> QED
  BY <1>8, <1>9 DEF ResultInv

\* A step that appends nothing and settles nothing.
LEMMA OtherStepsKeepResults ==
  ASSUME TypeOK, ResultInv, results' = results, rowCost' = rowCost, phase' # "start",
         \A s \in Shards : IF Settled(s) THEN status'[s] = status[s] /\ owner'[s] = owner[s]
                           ELSE ~Settled(s)'
  PROVE  ResultInv'
<1>1. ASSUME NEW v \in Workers, NEW i \in DOMAIN results[v] PROVE Faithful(v, i)'
  <2>1. results[v] \in Seq(Result)
    BY DEF TypeOK
  <2>2. results[v][i] \in Result
    BY <2>1
  <2>3. results[v][i].shard \in Shards
    BY <2>2 DEF Result
  <2>4. Faithful(v, i)
    BY DEF ResultInv
  <2> QED
    BY <2>3, <2>4 DEF Faithful, Settled
<1>2. ASSUME NEW t \in Shards
      PROVE  IF Settled(t)' THEN owner'[t] \in Workers /\ Reported(t)' ELSE rowCost'[t] = 0
  BY DEF ResultInv, Settled, Reported
<1> QED
  BY <1>1, <1>2 DEF ResultInv

LEMMA ResultInvStep ==
  ASSUME TypeInv, OwnInv, ResultInv, [Next]_vars
  PROVE  ResultInv'
<1>t. TypeOK /\ TypeOK' /\ HandsFull
  BY TypeInvInductive DEF TypeInv
<1> USE DEF governorVars, rows, mainVars, resultVars, workerVars, At, GoTo, RowsTypeOK, Settled
<1>1. CASE Main
  BY <1>t, <1>1, OtherStepsKeepResults
     DEF Main, Reject, Launch, LaunchRaises, AddShards, Aggregate, FinalizeRaises, Joined, Raise,
         ResultInv
<1>2. ASSUME NEW w \in Workers, Worker(w) PROVE ResultInv'
  <2>1. CASE Complete(w)
    <3>1. bill[w] \in Costs
      BY <1>t DEF TypeOK
    <3> QED
      BY <2>1, <3>1, SettleKeepsResults DEF Complete, CompleteShard
  <2>2. CASE Fail(w)
    <3>1. held[w] \in Shards /\ status[held[w]] = "in_progress" /\ 0 \in Costs
      BY <1>t, <2>2, MaxCostAssumption DEF Fail, TypeOK, HandsFull, AtWork, OwnInv, Costs
    <3>2. rowCost[held[w]] = 0
      BY <3>1 DEF ResultInv
    <3>3. rowCost' = [rowCost EXCEPT ![held[w]] = 0]
      BY <1>t, <2>2, <3>2 DEF Fail, FailShard, TypeOK
    <3> QED
      BY <2>2, <3>1, <3>3, SettleKeepsResults DEF Fail, FailShard
  <2>3. CASE ClaimShard(w)
    BY <1>t, <2>3, OtherStepsKeepResults DEF ClaimShard, Claim, IsNextPending, Pending, TypeOK
  <2>4. CASE ~Complete(w) /\ ~Fail(w) /\ ~ClaimShard(w)
    BY <1>t, <1>2, <2>4, OtherStepsKeepResults
       DEF Worker, CheckAbort, Preflight, Stop, ClaimNone, ClaimRaises, Provision,
           ProvisionRaises, Answer, AdapterRaises, SettleRaises, Record, Cleanup
  <2> QED
    BY <2>1, <2>2, <2>3, <2>4
<1>3. CASE UNCHANGED vars
  BY <1>3 DEF vars, ResultInv, Faithful, Reported
<1> QED
  BY <1>1, <1>2, <1>3 DEF Next, Idle

\* The ledger's rows and the workers' lists tell the same story at every moment.
THEOREM RowsMatchResults == Spec => []OneResultPerShard
<1>1. Init => OwnInv /\ ResultInv
  BY DEF Init, RowsInit, OwnInv, ResultInv, Settled
<1>2. TypeInv /\ OwnInv /\ ResultInv /\ [Next]_vars => OwnInv' /\ ResultInv'
  BY OwnInvStep, ResultInvStep
<1>3. ResultInv => OneResultPerShard
  BY DEF ResultInv, OneResultPerShard, Faithful, Settled, Reported
<1> QED
  BY <1>1, <1>2, <1>3, TypeInvInductive, PTL DEF Spec

-----------------------------------------------------------------------------
(***************************************************************************)
(* The books.  What the results cost is what the workers have recorded and *)
(* still will (Owed); it is also the sum of the rows' cost column.  As     *)
(* long as no exception has lost an answer, the governor lags behind the   *)
(* provider by exactly the bills in the workers' hands.                    *)
(***************************************************************************)
Owed == [w \in Workers |-> IF pc[w] = "record" THEN bill[w] ELSE 0]

BooksInv ==
  /\ phase \in {"start", "rejected"} => spent = base /\ reported = 0
  /\ Admitted => base < HardCap
  /\ phase \in {"start", "running"} => reported = 0
  /\ phase = "finished" =>
       reported = totalCost /\ \A w \in Workers : pc[w] = "returned"
  /\ spent + SumOver(Owed, Workers) = base + totalCost
  /\ (\A w \in Workers : ~Lost(w)) => billed = spent + SumOver(Due, Workers)

RowsInv == totalCost = SumOver(rowCost, Shards)

LEMMA BooksTypes ==
  ASSUME TypeOK
  PROVE  /\ \A w \in Workers : Owed[w] \in Nat /\ Due[w] \in Nat
         /\ SumOver(Owed, Workers) \in Nat /\ SumOver(Due, Workers) \in Nat
<1>1. \A w \in Workers : Owed[w] \in Nat /\ Due[w] \in Nat
  BY MaxCostAssumption DEF Owed, Due, TypeOK, Costs
<1> QED
  BY <1>1, SumType, WorkersAssumption

\* A worker's step keeps the books when what it records, owes and adds to the
\* results agree, and, unless it loses an answer, what it is charged and holds.
LEMMA BookedSteps ==
  ASSUME TypeOK, TypeOK', BooksInv, NEW w \in Workers,
         phase = "running", phase' = "running", base' = base, reported' = reported,
         \A v \in Workers \ {w} : pc'[v] = pc[v] /\ exit'[v] = exit[v] /\ bill'[v] = bill[v],
         spent' + Owed'[w] + totalCost = spent + Owed[w] + totalCost',
         ~Lost(w)' => ~Lost(w) /\ billed' + spent + Due[w] = billed + spent' + Due'[w]
  PROVE  BooksInv'
<1>1. /\ \A v \in Workers : Owed[v] \in Nat /\ Due[v] \in Nat
      /\ SumOver(Owed, Workers) \in Nat /\ SumOver(Due, Workers) \in Nat
  BY BooksTypes
<1>2. Owed'[w] \in Nat /\ Due'[w] \in Nat
  BY MaxCostAssumption DEF Owed, Due, TypeOK, Costs
<1>3. \A v \in Workers \ {w} : Owed'[v] = Owed[v] /\ Due'[v] = Due[v] /\ (Lost(v)' <=> Lost(v))
  BY DEF Owed, Due, Holds, Lost
<1>4. SumOver(Owed', Workers) = SumOver(Owed, Workers) - Owed[w] + Owed'[w]
  BY <1>1, <1>2, <1>3, SumChanges, WorkersAssumption
<1>5. SumOver(Due', Workers) = SumOver(Due, Workers) - Due[w] + Due'[w]
  BY <1>1, <1>2, <1>3, SumChanges, WorkersAssumption
<1>6. /\ spent \in Nat /\ spent' \in Nat /\ billed \in Nat /\ billed' \in Nat /\ base \in Nat
      /\ totalCost \in Nat /\ totalCost' \in Nat
      /\ Owed[w] \in Nat /\ Due[w] \in Nat
  BY <1>1 DEF TypeOK
<1>7. spent + SumOver(Owed, Workers) = base + totalCost
  BY DEF BooksInv
<1>8. spent' + SumOver(Owed', Workers) = base + totalCost'
  BY <1>1, <1>2, <1>4, <1>6, <1>7
<1>9. ASSUME \A v \in Workers : ~Lost(v)' PROVE billed' = spent' + SumOver(Due', Workers)
  <2>1. \A v \in Workers : ~Lost(v)
    BY <1>3, <1>9
  <2>2. billed = spent + SumOver(Due, Workers)
    BY <2>1 DEF BooksInv
  <2>3. billed' + spent + Due[w] = billed + spent' + Due'[w]
    BY <1>9
  <2>4. PICK due \in Nat, old \in Nat, new \in Nat, recorded \in Nat, recorded2 \in Nat, charged2 \in Nat :
          /\ due = SumOver(Due, Workers) /\ old = Due[w] /\ new = Due'[w]
          /\ recorded = spent /\ recorded2 = spent' /\ charged2 = billed'
    BY <1>1, <1>2, <1>6
  <2>5. charged2 + recorded + old = recorded + due + recorded2 + new
    BY <2>2, <2>3, <2>4
  <2>6. charged2 = recorded2 + (due - old + new)
    BY <2>5
  <2> QED
    BY <1>5, <2>4, <2>6
<1> QED
  BY <1>8, <1>9 DEF BooksInv, Admitted

\* A step of the main thread moves no worker that holds or owes anything.
LEMMA BooksKept ==
  ASSUME BooksInv, Owed' = Owed, Due' = Due, \A w \in Workers : Lost(w)' <=> Lost(w),
         spent' = spent, billed' = billed, base' = base, totalCost' = totalCost
  PROVE  /\ spent' + SumOver(Owed, Workers)' = base' + totalCost'
         /\ (\A w \in Workers : ~Lost(w)') => billed' = spent' + SumOver(Due, Workers)'
BY DEF BooksInv

LEMMA BooksInvInit == Init => BooksInv /\ RowsInv
<1> SUFFICES ASSUME Init PROVE BooksInv /\ RowsInv
  OBVIOUS
<1>1. \A w \in Workers : Owed[w] = 0 /\ Due[w] = 0
  BY DEF Init, Owed, Due, Holds
<1>2. SumOver(Owed, Workers) = 0 /\ SumOver(Due, Workers) = 0
  BY <1>1, SumOfZeros, WorkersAssumption
<1>3. \A s \in Shards : rowCost[s] = 0
  BY DEF Init, RowsInit
<1>4. IsFiniteSet(Shards)
  BY NumShardsAssumption, FS_Interval DEF Shards
<1>5. SumOver(rowCost, Shards) = 0
  BY <1>3, <1>4, SumOfZeros
<1>6. phase = "start" /\ spent = base /\ billed = base /\ reported = 0 /\ totalCost = 0 /\ base \in Nat
  BY InitialSpendsAssumption DEF Init
<1> QED
  BY <1>2, <1>5, <1>6 DEF BooksInv, RowsInv, Admitted

LEMMA BooksInvStep ==
  ASSUME TypeInv, OwnInv, BillInv, BooksInv, [Next]_vars
  PROVE  BooksInv'
<1>t. TypeOK /\ TypeOK' /\ NoResidue
  BY TypeInvInductive DEF TypeInv
<1> USE DEF governorVars, mainVars, resultVars, workerVars, At, GoTo
<1>1. CASE Reject
  <2>1. Owed' = Owed /\ Due' = Due /\ \A w \in Workers : Lost(w)' <=> Lost(w)
    BY <1>1 DEF Reject, Owed, Due, Holds, Lost
  <2> QED
    BY <1>1, <2>1, BooksKept DEF Reject, BooksInv, Admitted
<1>2. CASE Launch \/ LaunchRaises
  <2>1. \A w \in Workers : pc[w] = "idle" /\ pc'[w] \in {"idle", "check"}
    BY <1>2 DEF Launch, LaunchRaises, OwnInv
  <2>2. Owed' = Owed /\ Due' = Due /\ \A w \in Workers : Lost(w)' <=> Lost(w)
    BY <2>1 DEF Owed, Due, Holds, Lost
  <2>3. base < HardCap /\ phase = "start" /\ reported = 0
    BY <1>t, <1>2, HardCapAssumption
       DEF Launch, LaunchRaises, CanStart, Remaining, BooksInv, TypeOK
  <2>4. /\ spent' = spent /\ billed' = billed /\ base' = base /\ totalCost' = totalCost
        /\ reported' = reported /\ phase' \in {"running", "raised"}
    BY <1>2, <2>1 DEF Launch, LaunchRaises
  <2> QED
    BY <2>2, <2>3, <2>4, BooksKept DEF BooksInv, Admitted
<1>3. CASE Aggregate \/ FinalizeRaises \/ Raise
  <2>1. /\ spent' = spent
        /\ phase = "running" /\ phase' \in {"finished", "raised"}
        /\ phase' = "finished" => reported' = totalCost /\ \A w \in Workers : pc[w] = "returned"
        /\ pc' = pc /\ exit' = exit /\ bill' = bill /\ billed' = billed /\ base' = base
        /\ totalCost' = totalCost
    BY <1>t, <1>3 DEF Aggregate, FinalizeRaises, Raise, Joined, RecordSpend, Residue, NoResidue, TypeOK
  <2>2. Owed' = Owed /\ Due' = Due /\ \A w \in Workers : Lost(w)' <=> Lost(w)
    BY <2>1 DEF Owed, Due, Holds, Lost
  <2> QED
    BY <2>1, <2>2, BooksKept DEF BooksInv, Admitted
<1>4. ASSUME NEW w \in Workers, Worker(w) PROVE BooksInv'
  <2>0. /\ phase = "running" /\ phase' = "running" /\ base' = base /\ reported' = reported
        /\ \A v \in Workers \ {w} : pc'[v] = pc[v] /\ exit'[v] = exit[v] /\ bill'[v] = bill[v]
    BY <1>t, <1>4
       DEF Worker, CheckAbort, Preflight, Stop, ClaimShard, ClaimNone, ClaimRaises, Provision,
           ProvisionRaises, Answer, AdapterRaises, Complete, Fail, SettleRaises, Record, Cleanup,
           TypeOK
  <2>1. /\ Owed[w] = IF pc[w] = "record" THEN bill[w] ELSE 0
        /\ Owed'[w] = IF pc'[w] = "record" THEN bill'[w] ELSE 0
        /\ Due[w] = IF Holds(w) THEN bill[w] ELSE 0
        /\ Due'[w] = IF Holds(w)' THEN bill'[w] ELSE 0
    BY DEF Owed, Due
  <2>2. /\ bill[w] \in Nat /\ bill'[w] \in Nat
        /\ spent \in Nat /\ spent' \in Nat /\ billed \in Nat /\ billed' \in Nat
        /\ totalCost \in Nat /\ totalCost' \in Nat
    BY <1>t, MaxCostAssumption DEF TypeOK, Costs
  <2> DEFINE Kept ==
        /\ spent' + Owed'[w] + totalCost = spent + Owed[w] + totalCost'
        /\ ~Lost(w)' => ~Lost(w) /\ billed' + spent + Due[w] = billed + spent' + Due'[w]
  <2> USE DEF Holds, Lost
  <2>3. ASSUME Record(w) PROVE Kept
    BY <1>t, <2>1, <2>2, <2>3 DEF Record, RecordSpend, BillInv, TypeOK
  <2>4. ASSUME Complete(w) PROVE Kept
    <3>1. /\ pc[w] = "complete" /\ exit'[w] = "check" /\ bill'[w] = bill[w]
          /\ pc'[w] = IF bill[w] > 0 THEN "record" ELSE "cleanup"
          /\ spent' = spent /\ billed' = billed /\ totalCost' = totalCost + bill[w]
      BY <1>t, <2>4 DEF Complete, AddResult, TypeOK
    <3>2. Owed[w] = 0 /\ Owed'[w] = bill[w] /\ Due[w] = bill[w] /\ Due'[w] = bill[w]
      BY <2>1, <2>2, <3>1
    <3> QED
      BY <2>2, <3>1, <3>2
  <2>5. ASSUME Answer(w) PROVE Kept
    BY <1>t, <2>1, <2>2, <2>5 DEF Answer, TypeOK, Costs
  <2>6. ASSUME Fail(w) PROVE Kept
    BY <1>t, <2>1, <2>2, <2>6 DEF Fail, AddResult, TypeOK
  <2>7. ASSUME SettleRaises(w) PROVE Kept
    BY <1>t, <2>1, <2>2, <2>7 DEF SettleRaises, TypeOK
  <2>8. ASSUME Cleanup(w) PROVE Kept
    BY <1>t, <2>1, <2>2, <2>8 DEF Cleanup, TypeOK
  <2>9. ASSUME CheckAbort(w) \/ Preflight(w) \/ Stop(w) PROVE Kept
    BY <1>t, <2>1, <2>2, <2>9 DEF CheckAbort, Preflight, Stop, TypeOK
  <2>10. ASSUME ClaimShard(w) \/ ClaimNone(w) \/ ClaimRaises(w) PROVE Kept
    BY <1>t, <2>1, <2>2, <2>10 DEF ClaimShard, ClaimNone, ClaimRaises, TypeOK
  <2>11. ASSUME Provision(w) \/ ProvisionRaises(w) \/ AdapterRaises(w) PROVE Kept
    BY <1>t, <2>1, <2>2, <2>11 DEF Provision, ProvisionRaises, AdapterRaises, TypeOK
  <2>12. Kept
    BY <1>4, <2>3, <2>4, <2>5, <2>6, <2>7, <2>8, <2>9, <2>10, <2>11 DEF Worker
  <2> QED
    BY <1>t, <2>0, <2>12, BookedSteps
<1>5. CASE UNCHANGED vars
  BY <1>5 DEF vars, BooksInv, Admitted, Owed, Due, Holds, Lost
<1> QED
  BY <1>1, <1>2, <1>3, <1>4, <1>5 DEF Next, Main, Idle

\* The worker that settles a row was the first to, so the row's cost was 0.
LEMMA RowsInvStep ==
  ASSUME TypeInv, OwnInv, ResultInv, RowsInv, [Next]_vars
  PROVE  RowsInv'
<1>t. TypeOK /\ TypeOK' /\ HandsFull
  BY TypeInvInductive DEF TypeInv
<1> USE DEF governorVars, rows, mainVars, resultVars, workerVars, At, GoTo
<1>1. CASE Main \/ UNCHANGED vars
  <2>1. rowCost' = rowCost /\ totalCost' = totalCost
    BY <1>1 DEF Main, Reject, Launch, LaunchRaises, AddShards, Aggregate, FinalizeRaises, Raise, vars
  <2> QED
    BY <2>1 DEF RowsInv
<1>2. ASSUME NEW w \in Workers, Worker(w) PROVE RowsInv'
  <2>1. CASE Complete(w)
    <3> DEFINE s == held[w]
    <3>1. s \in Shards /\ rowCost[s] = 0 /\ bill[w] \in Nat /\ totalCost \in Nat
      <4>1. s \in Shards /\ status[s] = "in_progress"
        BY <1>t, <2>1 DEF Complete, HandsFull, AtWork, OwnInv, TypeOK
      <4>2. rowCost[s] = 0
        BY <4>1 DEF ResultInv, Settled
      <4> QED
        BY <1>t, <4>1, <4>2, MaxCostAssumption DEF TypeOK, Costs
    <3>2. /\ \A x \in Shards : rowCost[x] \in Nat
          /\ rowCost'[s] = bill[w] /\ \A x \in Shards \ {s} : rowCost'[x] = rowCost[x]
          /\ totalCost' = totalCost + bill[w]
      BY <1>t, <2>1, <3>1, MaxCostAssumption
         DEF Complete, CompleteShard, AddResult, TypeOK, RowsTypeOK, Costs
    <3>3. IsFiniteSet(Shards)
      BY NumShardsAssumption, FS_Interval DEF Shards
    <3> HIDE DEF s
    <3>4. SumOver(rowCost', Shards) = SumOver(rowCost, Shards) - rowCost[s] + rowCost'[s]
      BY <3>1, <3>2, <3>3, SumChanges
    <3> QED
      BY <3>1, <3>2, <3>4 DEF RowsInv, Shards
  <2>2. CASE ~Complete(w)
    <3>1. rowCost' = rowCost
      BY <1>2, <2>2
         DEF Worker, CheckAbort, Preflight, Stop, ClaimShard, Claim, ClaimNone, ClaimRaises, Provision,
             ProvisionRaises, Answer, AdapterRaises, Fail, FailShard, SettleRaises, Record, Cleanup
    <3>2. totalCost' = totalCost
      BY <1>t, <1>2, <2>2
         DEF Worker, CheckAbort, Preflight, Stop, ClaimShard, ClaimNone, ClaimRaises, Provision,
             ProvisionRaises, Answer, AdapterRaises, Fail, AddResult, SettleRaises, Record, Cleanup,
             TypeOK
    <3> QED
      BY <3>1, <3>2 DEF RowsInv, Shards
  <2> QED
    BY <2>1, <2>2
<1> QED
  BY <1>1, <1>2 DEF Next, Idle

FullInv == OwnInv /\ BillInv /\ ResultInv /\ BooksInv /\ RowsInv

LEMMA FullInvInductive ==
  /\ Init => FullInv
  /\ TypeInv /\ FullInv /\ [Next]_vars => FullInv'
<1>1. Init => FullInv
  BY BillInvInit, BooksInvInit DEF FullInv, Init, RowsInit, OwnInv, ResultInv, Settled
<1>2. TypeInv /\ FullInv /\ [Next]_vars => FullInv'
  BY OwnInvStep, BillInvStep, ResultInvStep, BooksInvStep, RowsInvStep DEF FullInv
<1> QED
  BY <1>1, <1>2

\* With nobody holding or owing anything, the run has recorded what its results
\* cost and, unless an answer was lost, what the provider has charged.
LEMMA NothingOutstanding ==
  ASSUME TypeOK, BooksInv, \A w \in Workers : pc[w] = "returned"
  PROVE  spent = base + totalCost /\ billed = spent
<1>1. \A w \in Workers : Owed[w] = 0 /\ Due[w] = 0 /\ ~Lost(w)
  BY DEF Owed, Due, Holds, Lost
<1>2. SumOver(Owed, Workers) = 0 /\ SumOver(Due, Workers) = 0
  BY <1>1, SumOfZeros, WorkersAssumption
<1> QED
  BY <1>1, <1>2 DEF BooksInv, TypeOK

\* When execute returns a result, its cost is the sum of the ledger's cost
\* column, and the governor has recorded all the provider has charged.
THEOREM BooksCloseInAgreement == Spec => []AccountsAgree
<1>1. TypeInv /\ FullInv => AccountsAgree
  <2> SUFFICES ASSUME TypeInv, FullInv, phase = "finished"
               PROVE  reported = FoldFunction(+, 0, rowCost) /\ billed = spent
    BY DEF AccountsAgree
  <2>1. TypeOK /\ BooksInv /\ RowsInv
    BY DEF TypeInv, FullInv
  <2>2. FoldFunction(+, 0, rowCost) = SumOver(rowCost, Shards)
    BY <2>1 DEF FoldFunction, SumOver, TypeOK, RowsTypeOK
  <2>3. reported = totalCost /\ \A w \in Workers : pc[w] = "returned"
    BY <2>1 DEF BooksInv
  <2> QED
    BY <2>1, <2>2, <2>3, NothingOutstanding DEF RowsInv
<1> QED
  BY <1>1, FullInvInductive, TypeInvInductive, PTL DEF Spec

-----------------------------------------------------------------------------
(***************************************************************************)
(* The contract.  Every step of the fleet is one of StrategyContract's, or *)
(* changes nothing it speaks of.                                           *)
(***************************************************************************)
LEMMA StepIsContractStep ==
  ASSUME TypeInv, FullInv, FullInv', [Next]_vars
  PROVE  [Contract!Next]_(Contract!vars)
<1>t. TypeOK /\ TypeOK' /\ BooksInv /\ BooksInv' /\ NoResidue
  BY TypeInvInductive DEF TypeInv, FullInv
<1>1. spent' >= spent /\ spent \in Nat /\ spent' \in Nat
  BY <1>t, SpendGrows DEF TypeOK
<1> USE DEF governorVars, mainVars, resultVars, workerVars, At, GoTo,
            Contract!Next, Contract!vars, Contract!Charge, Contract!Return, Contract!Raise,
            Contract!Spends
<1>2. CASE Reject
  BY <1>1, <1>2, <1>t DEF Reject, BooksInv, TypeOK
<1>3. CASE Launch
  BY <1>3 DEF Launch
<1>4. CASE LaunchRaises
  BY <1>1, <1>4 DEF LaunchRaises
<1>5. CASE Aggregate
  <2>1. spent' = spent /\ base' = base /\ phase = "running" /\ phase' = "finished"
    BY <1>t, <1>5 DEF Aggregate, Joined, RecordSpend, Residue, NoResidue, TypeOK
  <2>2. \A w \in Workers : pc[w] = "returned"
    BY <1>5 DEF Aggregate, Joined
  <2>3. reported' = totalCost /\ spent = base + totalCost
    BY <1>t, <1>5, <2>2, NothingOutstanding DEF Aggregate
  <2>4. reported' = spent' - base
    BY <1>t, <2>1, <2>3 DEF TypeOK
  <2> QED
    BY <1>1, <2>1, <2>4
<1>6. CASE FinalizeRaises \/ Raise
  <2>1. /\ spent' = spent /\ base' = base /\ reported' = reported
        /\ phase = "running" /\ phase' = "raised"
    BY <1>t, <1>6 DEF FinalizeRaises, Raise, Joined, RecordSpend, Residue, NoResidue, TypeOK
  <2> QED
    BY <1>1, <2>1
<1>7. ASSUME NEW w \in Workers, Worker(w) PROVE Contract!Charge
  <2>1. phase = "running" /\ phase' = "running" /\ base' = base /\ reported' = reported
    BY <1>7
       DEF Worker, CheckAbort, Preflight, Stop, ClaimShard, ClaimNone, ClaimRaises, Provision,
           ProvisionRaises, Answer, AdapterRaises, Complete, Fail, SettleRaises, Record, Cleanup
  <2>2. base < HardCap
    BY <1>t, <2>1 DEF BooksInv, Admitted
  <2> QED
    BY <1>1, <2>1, <2>2
<1>8. CASE UNCHANGED vars
  BY <1>8 DEF vars
<1> QED
  BY <1>2, <1>3, <1>4, <1>5, <1>6, <1>7, <1>8 DEF Next, Main, Idle

\* A fleet keeps the strategies' contract: whatever its threads do, the result
\* reports what they have recorded between them, and nothing is recorded on a
\* cap that was exhausted before the run (fleet.py _execute).
THEOREM FleetKeepsContract == Spec => ImplementsContract
<1>1. Init => Contract!Init
  BY DEF Init, Contract!Init
<1>2. TypeInv /\ FullInv /\ FullInv' /\ [Next]_vars => [Contract!Next]_(Contract!vars)
  BY StepIsContractStep
<1> QED
  BY <1>1, <1>2, FullInvInductive, TypeInvInductive, PTL
     DEF Spec, ImplementsContract, Contract!Spec

=============================================================================

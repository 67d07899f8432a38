----------------------------- MODULE FleetProofs -----------------------------
(***************************************************************************)
(* Theorems about Fleet, for any number of workers and shards and any      *)
(* prices.                                                                 *)
(***************************************************************************)
EXTENDS Fleet, FiniteSetTheorems, TLAPS

(***************************************************************************)
(* The type invariant is not inductive alone: the backstop of _execute     *)
(* records a difference that must not be negative, and a worker must have  *)
(* a shard in hand where it provisions or settles one.                     *)
(***************************************************************************)
NoResidue == totalCost = alreadyRecorded

AtWork == {"provision", "call", "complete", "fail", "record", "cleanup"}

HandsFull == \A w \in Workers : pc[w] \in AtWork => held[w] # 0

TypeInv == TypeOK /\ NoResidue /\ HandsFull

\* A result appended to a worker's list keeps the lists' type.
LEMMA AppendResult ==
  ASSUME results \in [Workers -> Seq(Result)], NEW w \in Workers,
         NEW ok \in BOOLEAN, NEW cost \in Costs, held[w] \in Shards,
         AddResult(w, ok, cost)
  PROVE  results' \in [Workers -> Seq(Result)]
<1> DEFINE r == [shard |-> held[w], ok |-> ok, cost |-> cost]
<1>1. r \in Result
  BY DEF Result
<1>2. Append(results[w], r) \in Seq(Result)
  BY <1>1
<1>3. results' = [results EXCEPT ![w] = Append(results[w], r)]
  BY DEF AddResult
<1> QED
  BY <1>2, <1>3

LEMMA TypeInvInductive ==
  /\ Init => TypeInv
  /\ TypeInv /\ [Next]_vars => TypeInv'
<1>1. Init => TypeInv
  <2> SUFFICES ASSUME Init PROVE TypeInv
    OBVIOUS
  <2>1. spent \in Nat /\ billed \in Nat /\ base \in Nat
    BY InitialSpendsAssumption DEF Init
  <2>2. RowsTypeOK
    BY MaxCostAssumption DEF Init, RowsInit, RowsTypeOK, ShardStatus, Costs
  <2>3. bill \in [Workers -> Costs]
    BY MaxCostAssumption DEF Init, Costs
  <2>4. results \in [Workers -> Seq(Result)]
    BY DEF Init
  <2> QED
    BY <2>1, <2>2, <2>3, <2>4
       DEF Init, TypeInv, TypeOK, Locations, NoResidue, HandsFull, AtWork
<1>2. TypeInv /\ [Next]_vars => TypeInv'
  <2> SUFFICES ASSUME TypeInv, [Next]_vars PROVE TypeInv'
    OBVIOUS
  <2> USE MaxCostAssumption
      DEF TypeInv, NoResidue, HandsFull, AtWork, TypeOK, RowsTypeOK, governorVars, rows, mainVars, resultVars, workerVars,
          Locations, ShardStatus, Costs, At, GoTo
  <2>1. CASE Reject
    BY <2>1 DEF Reject
  <2>2. CASE Launch
    BY <2>2 DEF Launch, AddShards
  <2>3. CASE LaunchRaises
    BY <2>3 DEF LaunchRaises
  <2>4. CASE Aggregate
    BY <2>4 DEF Aggregate, Joined, Residue, RecordSpend
  <2>5. CASE FinalizeRaises
    BY <2>5 DEF FinalizeRaises, Joined, Residue, RecordSpend
  <2>6. CASE Raise
    BY <2>6 DEF Raise
  <2>7. ASSUME NEW w \in Workers, CheckAbort(w) PROVE TypeInv'
    BY <2>7 DEF CheckAbort
  <2>8. ASSUME NEW w \in Workers, Preflight(w) PROVE TypeInv'
    BY <2>8 DEF Preflight
  <2>9. ASSUME NEW w \in Workers, Stop(w) PROVE TypeInv'
    BY <2>9 DEF Stop
  <2>10. ASSUME NEW w \in Workers, ClaimShard(w) PROVE TypeInv'
    BY <2>10, NumShardsAssumption, SMTT(40) DEF ClaimShard, Claim, Shards
  <2>11. ASSUME NEW w \in Workers, ClaimNone(w) PROVE TypeInv'
    BY <2>11 DEF ClaimNone, Pending
  <2>12. ASSUME NEW w \in Workers, ClaimRaises(w) PROVE TypeInv'
    BY <2>12 DEF ClaimRaises
  <2>13. ASSUME NEW w \in Workers, Provision(w) PROVE TypeInv'
    BY <2>13 DEF Provision
  <2>14. ASSUME NEW w \in Workers, ProvisionRaises(w) PROVE TypeInv'
    BY <2>14 DEF ProvisionRaises
  <2>15. ASSUME NEW w \in Workers, Answer(w) PROVE TypeInv'
    BY <2>15 DEF Answer
  <2>16. ASSUME NEW w \in Workers, AdapterRaises(w) PROVE TypeInv'
    BY <2>16 DEF AdapterRaises
  <2>17. ASSUME NEW w \in Workers, Complete(w) PROVE TypeInv'
    <3>1. held[w] \in Shards /\ bill[w] \in Costs
      BY <2>17 DEF Complete
    <3>2. results' \in [Workers -> Seq(Result)]
      BY <2>17, <3>1, AppendResult DEF Complete
    <3> QED
      BY <2>17, <3>1, <3>2 DEF Complete, CompleteShard, AddResult
  <2>18. ASSUME NEW w \in Workers, Fail(w) PROVE TypeInv'
    <3>1. held[w] \in Shards /\ 0 \in Costs
      BY <2>18 DEF Fail
    <3>2. results' \in [Workers -> Seq(Result)]
      BY <2>18, <3>1, AppendResult DEF Fail
    <3> QED
      BY <2>18, <3>1, <3>2 DEF Fail, FailShard, AddResult
  <2>19. ASSUME NEW w \in Workers, SettleRaises(w) PROVE TypeInv'
    BY <2>19 DEF SettleRaises
  <2>20. ASSUME NEW w \in Workers, Record(w) PROVE TypeInv'
    BY <2>20 DEF Record, RecordSpend
  <2>21. ASSUME NEW w \in Workers, Cleanup(w) PROVE TypeInv'
    BY <2>21 DEF Cleanup
  <2>22. CASE UNCHANGED vars
    BY <2>22 DEF vars
  <2> QED
    BY <2>1, <2>2, <2>3, <2>4, <2>5, <2>6, <2>7, <2>8, <2>9, <2>10, <2>11, <2>12, <2>13,
       <2>14, <2>15, <2>16, <2>17, <2>18, <2>19, <2>20, <2>21, <2>22
       DEF Next, Main, Worker, Idle
<1> QED
  BY <1>1, <1>2

\* Every variable keeps to its type.
THEOREM TypeCorrect == Spec => []TypeOK
<1>1. TypeInv => TypeOK
  BY DEF TypeInv
<1> QED
  BY <1>1, TypeInvInductive, PTL DEF Spec

-----------------------------------------------------------------------------
(***************************************************************************)
(* The overshoot.  A worker past its preflight may still add one call to   *)
(* the spend, so the workers in flight are charged in advance: with that   *)
(* the bound is inductive, because a preflight passes only while the share *)
(* fits and there are no more workers than Workers.                        *)
(***************************************************************************)
InFlightAt == {"claim", "provision", "call", "complete", "fail", "record"}

InFlight == {w \in Workers : pc[w] \in InFlightAt}

N == Cardinality(Workers)

SpendInv ==
  Admitted => spent + Cardinality(InFlight) * MaxCost <= HardCap - PerShard + N * MaxCost

LEMMA MulMonotonic ==
  ASSUME NEW a \in Nat, NEW b \in Nat, NEW m \in Nat, a <= b
  PROVE  a * m <= b * m
<1>1. PICK d \in Nat : b = a + d
  <2>1. b - a \in Nat /\ b = a + (b - a)
    OBVIOUS
  <2> QED
    BY <2>1
<1>2. b * m = a * m + d * m
  BY <1>1
<1>3. d * m \in Nat /\ a * m \in Nat
  BY <1>1
<1> QED
  BY <1>2, <1>3

LEMMA InFlightFinite ==
  /\ N \in Nat \ {0}
  /\ IsFiniteSet(InFlight) /\ Cardinality(InFlight) \in Nat /\ Cardinality(InFlight) <= N
  /\ IsFiniteSet(InFlight') /\ Cardinality(InFlight') \in Nat /\ Cardinality(InFlight') <= N
<1>1. N \in Nat /\ (N = 0 <=> Workers = {})
  BY WorkersAssumption, FS_CardinalityType, FS_EmptySet DEF N
<1>2. InFlight \in SUBSET Workers /\ InFlight' \in SUBSET Workers
  BY DEF InFlight
<1>3. \A S \in SUBSET Workers :
        IsFiniteSet(S) /\ Cardinality(S) \in Nat /\ Cardinality(S) <= N
  BY WorkersAssumption, FS_Subset, FS_CardinalityType DEF N
<1> QED
  BY <1>1, <1>2, <1>3, WorkersAssumption

\* A step that neither records spend nor puts a worker in flight.
LEMMA FlightShrinks ==
  ASSUME TypeOK, SpendInv, spent' = spent, Admitted' => Admitted,
         InFlight' \subseteq InFlight
  PROVE  SpendInv'
<1>1. Cardinality(InFlight') <= Cardinality(InFlight)
  BY InFlightFinite, FS_Subset
<1>2. Cardinality(InFlight') * MaxCost <= Cardinality(InFlight) * MaxCost
  BY <1>1, InFlightFinite, MaxCostAssumption, MulMonotonic
<1>3. /\ Cardinality(InFlight) * MaxCost \in Nat /\ Cardinality(InFlight') * MaxCost \in Nat
      /\ N * MaxCost \in Nat
  BY InFlightFinite, MaxCostAssumption
<1>4. CASE ~Admitted'
  BY <1>4 DEF SpendInv
<1>5. CASE Admitted'
  <2>1. spent + Cardinality(InFlight) * MaxCost <= HardCap - PerShard + N * MaxCost
    BY <1>5 DEF SpendInv
  <2>2. spent' + Cardinality(InFlight') * MaxCost <= HardCap - PerShard + N * MaxCost
    BY <1>2, <1>3, <2>1, HardCapAssumption, PerShardAssumption DEF TypeOK
  <2> QED
    BY <2>2 DEF SpendInv, N
<1> QED
  BY <1>4, <1>5

\* A step that leaves the recorded spend a share below the cap.
LEMMA SpendFits ==
  ASSUME spent' \in Nat, spent' <= HardCap - PerShard
  PROVE  SpendInv'
<1>1. Cardinality(InFlight') * MaxCost <= N * MaxCost
  BY InFlightFinite, MaxCostAssumption, MulMonotonic
<1>2. Cardinality(InFlight') * MaxCost \in Nat /\ N * MaxCost \in Nat
  BY InFlightFinite, MaxCostAssumption
<1>3. spent' + Cardinality(InFlight') * MaxCost <= HardCap - PerShard + N * MaxCost
  BY <1>1, <1>2, HardCapAssumption, PerShardAssumption
<1> QED
  BY <1>3 DEF SpendInv, N

LEMMA ProjectedCoversShare == Projected \in Nat /\ PerShard <= Projected
<1>1. 1 * PerShard <= NumShards * PerShard
  BY NumShardsAssumption, PerShardAssumption, MulMonotonic
<1> QED
  BY <1>1, NumShardsAssumption, PerShardAssumption DEF Projected

LEMMA SpendInvStep ==
  ASSUME TypeInv, SpendInv, [Next]_vars
  PROVE  SpendInv'
<1>t. TypeOK /\ TypeOK' /\ NoResidue
  BY TypeInvInductive DEF TypeInv
<1> USE DEF governorVars, rows, mainVars, resultVars, workerVars, Admitted, At, GoTo,
            InFlight, InFlightAt
<1>1. CASE Reject
  BY <1>1 DEF Reject, SpendInv
<1>2. CASE Launch
  <2>1. spent' \in Nat /\ spent' <= HardCap - Projected
    BY <1>t, <1>2, ProjectedCoversShare, HardCapAssumption DEF Launch, CanStart, Remaining, TypeOK
  <2> QED
    BY <2>1, ProjectedCoversShare, SpendFits, HardCapAssumption, PerShardAssumption
<1>3. CASE LaunchRaises
  <2>1. spent' \in Nat /\ spent' <= HardCap - Projected
    BY <1>t, <1>3, ProjectedCoversShare, HardCapAssumption
       DEF LaunchRaises, CanStart, Remaining, TypeOK
  <2> QED
    BY <2>1, ProjectedCoversShare, SpendFits, HardCapAssumption, PerShardAssumption
<1>4. CASE Aggregate \/ FinalizeRaises
  <2>1. spent' = spent
    BY <1>t, <1>4
       DEF Aggregate, FinalizeRaises, RecordSpend, Residue, NoResidue, TypeOK
  <2> QED
    BY <1>t, <1>4, <2>1, FlightShrinks DEF Aggregate, FinalizeRaises, Joined
<1>5. CASE Raise
  BY <1>t, <1>5, FlightShrinks DEF Raise
<1>6. ASSUME NEW w \in Workers, Worker(w) PROVE SpendInv'
  <2>1. CASE CheckAbort(w)
    BY <1>t, <2>1, FlightShrinks DEF CheckAbort, TypeOK
  <2>2. CASE Preflight(w)
    <3>1. CASE CanStart(PerShard)
      <4>1. spent' \in Nat /\ spent' <= HardCap - PerShard
        BY <1>t, <2>2, <3>1, HardCapAssumption, PerShardAssumption
           DEF Preflight, CanStart, Remaining, TypeOK
      <4> QED
        BY <4>1, SpendFits
    <3>2. CASE ~CanStart(PerShard)
      BY <1>t, <2>2, <3>2, FlightShrinks DEF Preflight, TypeOK
    <3> QED
      BY <3>1, <3>2
  <2>3. CASE Stop(w)
    BY <1>t, <2>3, FlightShrinks DEF Stop, TypeOK
  <2>4. CASE ClaimShard(w) \/ ClaimNone(w) \/ ClaimRaises(w)
    BY <1>t, <2>4, FlightShrinks DEF ClaimShard, ClaimNone, ClaimRaises, TypeOK
  <2>5. CASE Provision(w) \/ ProvisionRaises(w)
    BY <1>t, <2>5, FlightShrinks DEF Provision, ProvisionRaises, TypeOK
  <2>6. CASE Answer(w) \/ AdapterRaises(w)
    BY <1>t, <2>6, FlightShrinks DEF Answer, AdapterRaises, TypeOK
  <2>7. CASE Complete(w) \/ Fail(w) \/ SettleRaises(w)
    BY <1>t, <2>7, FlightShrinks DEF Complete, Fail, SettleRaises, TypeOK
  <2>8. CASE Record(w)
    <3>1. spent' = spent + bill[w] /\ bill[w] \in Nat /\ bill[w] <= MaxCost
      BY <1>t, <2>8, MaxCostAssumption DEF Record, RecordSpend, TypeOK, Costs
    <3>2. w \in InFlight /\ InFlight' = InFlight \ {w} /\ Admitted
      BY <1>t, <2>8 DEF Record, TypeOK
    <3>3. Cardinality(InFlight') = Cardinality(InFlight) - 1
      BY <3>2, InFlightFinite, FS_RemoveElement
    <3>4. Cardinality(InFlight') * MaxCost = Cardinality(InFlight) * MaxCost - MaxCost
      BY <3>3, InFlightFinite, MaxCostAssumption
    <3>5. spent + Cardinality(InFlight) * MaxCost <= HardCap - PerShard + N * MaxCost
      BY <3>2 DEF SpendInv
    <3>6. Cardinality(InFlight) * MaxCost \in Nat /\ N * MaxCost \in Nat
      BY InFlightFinite, MaxCostAssumption
    <3>7. spent' + Cardinality(InFlight') * MaxCost <= HardCap - PerShard + N * MaxCost
      <4> DEFINE k == Cardinality(InFlight) * MaxCost
                 j == Cardinality(InFlight') * MaxCost
                 n == N * MaxCost
      <4>1. spent \in Nat /\ k \in Nat /\ n \in Nat /\ j = k - MaxCost
        BY <1>t, <3>4, <3>6 DEF TypeOK
      <4>2. spent + k <= HardCap - PerShard + n
        BY <3>5
      <4> HIDE DEF k, j, n
      <4>3. spent' + j <= HardCap - PerShard + n
        BY <3>1, <4>1, <4>2, HardCapAssumption, PerShardAssumption, MaxCostAssumption
      <4> QED
        BY <4>3 DEF j, n
    <3> QED
      BY <3>7 DEF SpendInv, N
  <2>9. CASE Cleanup(w)
    <3>1. pc' = [pc EXCEPT ![w] = exit[w]] /\ exit[w] \notin InFlightAt
      BY <1>t, <2>9 DEF Cleanup, TypeOK
    <3>2. InFlight' \subseteq InFlight
      BY <1>t, <3>1 DEF TypeOK
    <3>3. spent' = spent /\ phase' = phase
      BY <2>9 DEF Cleanup
    <3> QED
      BY <1>t, <3>2, <3>3, FlightShrinks
  <2> QED
    BY <1>6, <2>1, <2>2, <2>3, <2>4, <2>5, <2>6, <2>7, <2>8, <2>9 DEF Worker
<1>7. CASE UNCHANGED vars
  BY <1>t, <1>7, FlightShrinks DEF vars
<1> QED
  BY <1>1, <1>2, <1>3, <1>4, <1>5, <1>6, <1>7 DEF Next, Main, Idle

\* Recorded spend never passes the cap by more than the calls in flight at the
\* last preflight that passed: at most one per worker.
THEOREM SpendIsBounded == Spec => []SpendBound
<1>1. Init => SpendInv
  BY DEF Init, SpendInv, Admitted
<1>2. TypeInv /\ SpendInv /\ [Next]_vars => SpendInv'
  BY SpendInvStep
<1>3. TypeInv /\ SpendInv => SpendBound
  <2> SUFFICES ASSUME TypeInv, SpendInv, Admitted
               PROVE  spent <= HardCap - PerShard + N * MaxCost
    BY DEF SpendBound, N
  <2>1. Cardinality(InFlight) * MaxCost \in Nat /\ N * MaxCost \in Nat
    BY InFlightFinite, MaxCostAssumption
  <2> QED
    BY <2>1, HardCapAssumption, PerShardAssumption DEF SpendInv, TypeInv, TypeOK
<1> QED
  BY <1>1, <1>2, <1>3, TypeInvInductive, PTL DEF Spec

-----------------------------------------------------------------------------
(***************************************************************************)
(* The abort event.  It is set only by a worker that saw a preflight fail  *)
(* or the cap passed; spend only grows, so no preflight passes afterwards. *)
(***************************************************************************)
AbortInv ==
  abort \/ (\E w \in Workers : pc[w] = "stop") => ~CanStart(PerShard)

LEMMA SpendGrows ==
  ASSUME TypeInv, [Next]_vars
  PROVE  spent' \in Nat /\ spent' >= spent
<1>t. TypeOK /\ TypeOK' /\ NoResidue
  BY TypeInvInductive DEF TypeInv
<1> USE DEF governorVars
<1>1. CASE Main
  BY <1>t, <1>1 DEF Main, Reject, Launch, LaunchRaises, Aggregate, FinalizeRaises, Raise,
                    RecordSpend, Residue, NoResidue, TypeOK
<1>2. ASSUME NEW w \in Workers, Worker(w) PROVE spent' >= spent
  <2>1. CASE Record(w)
    BY <1>t, <2>1, MaxCostAssumption DEF Record, RecordSpend, TypeOK, Costs
  <2>2. CASE ~Record(w)
    <3>1. spent' = spent
      BY <1>2, <2>2
       DEF Worker, CheckAbort, Preflight, Stop, ClaimShard, ClaimNone, ClaimRaises, Provision,
           ProvisionRaises, Answer, AdapterRaises, Complete, Fail, SettleRaises, Cleanup
    <3> QED
      BY <1>t, <3>1 DEF TypeOK
  <2> QED
    BY <2>1, <2>2
<1>3. CASE UNCHANGED vars
  BY <1>t, <1>3 DEF vars, TypeOK
<1> QED
  BY <1>t, <1>1, <1>2, <1>3 DEF Next, Idle, TypeOK

LEMMA CannotStartAgain ==
  ASSUME TypeInv, [Next]_vars, ~CanStart(PerShard)
  PROVE  ~CanStart(PerShard)'
BY SpendGrows, HardCapAssumption, PerShardAssumption DEF CanStart, Remaining, TypeInv, TypeOK

LEMMA AbortInvStep ==
  ASSUME TypeInv, AbortInv, [Next]_vars
  PROVE  AbortInv'
<1>t. TypeOK /\ TypeOK'
  BY TypeInvInductive DEF TypeInv
<1> USE DEF workerVars, At, GoTo
<1>1. CASE ~CanStart(PerShard)
  BY <1>1, CannotStartAgain DEF AbortInv
<1>2. CASE CanStart(PerShard)
  <2>0. ~abort /\ \A w \in Workers : pc[w] # "stop"
    BY <1>2 DEF AbortInv
  <2>1. CASE Main
    BY <1>t, <2>0, <2>1 DEF Main, Reject, Launch, LaunchRaises, Aggregate, FinalizeRaises, Raise,
                            AbortInv
  <2>2. ASSUME NEW w \in Workers, Worker(w) PROVE AbortInv'
    <3>1. CASE Record(w)
      <4>1. RecordRaises(bill[w]) => ~CanStart(PerShard)'
        BY <1>t, <3>1, HardCapAssumption, MaxCostAssumption
           DEF Record, RecordSpend, RecordRaises, CanStart, Remaining, TypeOK, Costs
      <4> QED
        BY <1>t, <2>0, <3>1, <4>1 DEF Record, AbortInv, TypeOK
    <3>2. CASE Cleanup(w)
      BY <1>t, <2>0, <3>2 DEF Cleanup, AbortInv, TypeOK
    <3>3. CASE Preflight(w)
      BY <1>t, <1>2, <2>0, <3>3 DEF Preflight, AbortInv, TypeOK
    <3>4. CASE CheckAbort(w) \/ Stop(w) \/ ClaimShard(w) \/ ClaimNone(w) \/ ClaimRaises(w)
      BY <1>t, <2>0, <3>4 DEF CheckAbort, Stop, ClaimShard, ClaimNone, ClaimRaises, AbortInv, TypeOK
    <3>5. CASE Provision(w) \/ ProvisionRaises(w) \/ Answer(w) \/ AdapterRaises(w)
      BY <1>t, <2>0, <3>5
         DEF Provision, ProvisionRaises, Answer, AdapterRaises, AbortInv, TypeOK
    <3>6. CASE Complete(w) \/ Fail(w) \/ SettleRaises(w)
      BY <1>t, <2>0, <3>6 DEF Complete, Fail, SettleRaises, AbortInv, TypeOK
    <3> QED
      BY <2>2, <3>1, <3>2, <3>3, <3>4, <3>5, <3>6 DEF Worker
  <2>3. CASE UNCHANGED vars
    BY <2>0, <2>3 DEF vars, AbortInv
  <2> QED
    BY <2>1, <2>2, <2>3 DEF Next, Idle
<1> QED
  BY <1>1, <1>2

\* Once the abort event is set, no worker is admitted to a claim any more.
THEOREM AbortIsFinal == Spec => NoAdmissionAfterAbort
<1>1. Init => AbortInv
  BY DEF Init, AbortInv
<1>2. TypeInv /\ AbortInv /\ [Next]_vars => AbortInv'
  BY AbortInvStep
<1>3. TypeInv /\ AbortInv /\ [Next]_vars
      => [abort => \A w \in Workers : pc'[w] = "claim" => pc[w] = "claim"]_vars
  <2> SUFFICES ASSUME TypeInv, AbortInv, Next, abort, NEW w \in Workers, pc'[w] = "claim"
               PROVE  pc[w] = "claim"
    OBVIOUS
  <2>1. ~CanStart(PerShard) /\ TypeOK
    BY DEF AbortInv, TypeInv
  <2> USE DEF workerVars, At, GoTo
  <2>2. CASE Main
    BY <2>1, <2>2 DEF Main, Reject, Launch, LaunchRaises, Aggregate, FinalizeRaises, Raise
  <2>3. ASSUME NEW v \in Workers, Worker(v) PROVE pc[w] = "claim"
    BY <2>1, <2>3
       DEF Worker, CheckAbort, Preflight, Stop, ClaimShard, ClaimNone, ClaimRaises, Provision,
           ProvisionRaises, Answer, AdapterRaises, Complete, Fail, SettleRaises, Record,
           Cleanup, TypeOK
  <2>4. CASE Idle
    BY <2>4 DEF Idle, vars
  <2> QED
    BY <2>2, <2>3, <2>4 DEF Next
<1> QED
  BY <1>1, <1>2, <1>3, TypeInvInductive, PTL DEF Spec, NoAdmissionAfterAbort

\* The residue block never records anything and never ends a run.
THEOREM BackstopNeverFires == Spec => BackstopIsNoOp
<1>1. TypeInv /\ [Next]_vars
      => [phase' = "finished" => spent' = spent /\ runStatus' # "budget_exceeded"]_vars
  <2> SUFFICES ASSUME TypeInv, Next, phase' = "finished", ~UNCHANGED vars
               PROVE  spent' = spent /\ runStatus' # "budget_exceeded"
    OBVIOUS
  <2>1. Residue = 0 /\ spent \in Nat
    BY DEF TypeInv, TypeOK, NoResidue, Residue
  <2>2. phase # "finished" => Aggregate
    BY DEF Next, Main, Idle, Ended, Worker, Reject, Launch, LaunchRaises, FinalizeRaises, Raise,
           CheckAbort, Preflight, Stop, ClaimShard, ClaimNone, ClaimRaises, Provision,
           ProvisionRaises, Answer, AdapterRaises, Complete, Fail, SettleRaises, Record,
           Cleanup, mainVars, At
  <2>3. phase # "finished"
    BY DEF Next, Main, Idle, Worker, Reject, Launch, LaunchRaises, Aggregate, FinalizeRaises, Raise,
           Joined, CheckAbort, Preflight, Stop, ClaimShard, ClaimNone, ClaimRaises, Provision,
           ProvisionRaises, Answer, AdapterRaises, Complete, Fail, SettleRaises, Record,
           Cleanup, mainVars, At
  <2> QED
    BY <2>1, <2>2, <2>3 DEF Aggregate, RecordSpend
<1> QED
  BY <1>1, TypeInvInductive, PTL DEF Spec, BackstopIsNoOp

-----------------------------------------------------------------------------
(***************************************************************************)
(* Ownership.  The row of the shard in a worker's hands names that worker, *)
(* so no two workers hold one shard, and it cannot be claimed again.       *)
(***************************************************************************)
Owns(w) == owner[held[w]] = w /\ status[held[w]] \in {"in_progress", "done", "error"}

OwnInv ==
  /\ \A w \in Workers : held[w] # 0 => Owns(w)
  /\ \A w \in Workers : pc[w] \in {"provision", "call", "complete", "fail"} =>
       status[held[w]] = "in_progress"
  /\ \A w \in Workers : pc[w] \in {"idle", "check", "preflight", "claim", "returned", "raised"} =>
       held[w] = 0
  /\ phase = "start" => \A w \in Workers : pc[w] = "idle"

LEMMA OwnInvStep ==
  ASSUME TypeInv, OwnInv, [Next]_vars
  PROVE  OwnInv'
<1>t. TypeOK /\ TypeOK' /\ HandsFull
  BY TypeInvInductive DEF TypeInv
<1> USE DEF governorVars, rows, mainVars, resultVars, workerVars, At, GoTo, RowsTypeOK, Owns,
            HandsFull, AtWork
<1>1. CASE Main
  BY <1>t, <1>1 DEF Main, Reject, Launch, LaunchRaises, AddShards, Aggregate, FinalizeRaises,
                    Joined, Raise, OwnInv, TypeOK
<1>2. ASSUME NEW w \in Workers, Worker(w) PROVE OwnInv'
  <2>1. CASE CheckAbort(w) \/ Preflight(w) \/ Stop(w) \/ ClaimNone(w) \/ ClaimRaises(w)
    BY <1>t, <2>1 DEF CheckAbort, Preflight, Stop, ClaimNone, ClaimRaises, OwnInv, TypeOK
  <2>2. CASE ClaimShard(w)
    <3>1. PICK s \in Shards : Claim(s, w) /\ held' = [held EXCEPT ![w] = s]
      BY <2>2 DEF ClaimShard
    <3>2. status[s] = "pending" /\ s # 0
      BY <3>1 DEF Claim, IsNextPending, Pending, Shards
    <3>3. \A v \in Workers : held[v] # s
      BY <3>2 DEF OwnInv
    <3>4. held[w] = 0 /\ pc' = [pc EXCEPT ![w] = "provision"] /\ phase' = phase /\ phase = "running"
      BY <2>2 DEF ClaimShard, OwnInv
    <3>5. /\ status' = [status EXCEPT ![s] = "in_progress"]
          /\ owner' = [owner EXCEPT ![s] = w]
      BY <3>1 DEF Claim
    <3>6. \A v \in Workers \ {w} : held'[v] = held[v] /\ held[v] # s /\ pc'[v] = pc[v]
      BY <1>t, <3>1, <3>3, <3>4 DEF TypeOK
    <3>7. held'[w] = s /\ status'[s] = "in_progress" /\ owner'[s] = w /\ pc'[w] = "provision"
      BY <1>t, <3>1, <3>4, <3>5 DEF TypeOK
    <3>8. \A t \in Shards \ {s} : status'[t] = status[t] /\ owner'[t] = owner[t]
      BY <1>t, <3>5 DEF TypeOK
    <3>9. \A v \in Workers : held[v] \in Shards \cup {0}
      BY <1>t DEF TypeOK
    <3> QED
      <4>1. \A v \in Workers : pc[v] \in AtWork => held[v] # 0
        BY <1>t
      <4>2. \A v \in Workers \ {w} : held[v] # 0 =>
              status'[held[v]] = status[held[v]] /\ owner'[held[v]] = owner[held[v]]
        BY <3>6, <3>8, <3>9
      <4>3. \A v \in Workers \ {w} : held[v] # 0 => Owns(v)
        BY DEF OwnInv
      <4>4. \A v \in Workers : held'[v] # 0 => Owns(v)'
        BY <3>6, <3>7, <4>2, <4>3
      <4>5. \A v \in Workers : pc'[v] \in {"provision", "call", "complete", "fail"} =>
              status'[held'[v]] = "in_progress"
        BY <3>6, <3>7, <4>1, <4>2 DEF OwnInv
      <4> QED
        BY <3>4, <3>6, <3>7, <4>4, <4>5 DEF OwnInv
  <2>3. CASE Provision(w) \/ ProvisionRaises(w) \/ Answer(w) \/ AdapterRaises(w)
    <3>1. CASE Provision(w)
      BY <1>t, <3>1 DEF Provision, OwnInv, TypeOK
    <3>2. CASE ProvisionRaises(w)
      BY <1>t, <3>2 DEF ProvisionRaises, OwnInv, TypeOK
    <3>3. CASE Answer(w) \/ AdapterRaises(w)
      BY <1>t, <3>3 DEF Answer, AdapterRaises, OwnInv, TypeOK
    <3> QED
      BY <2>3, <3>1, <3>2, <3>3
  <2>4. CASE Complete(w) \/ Fail(w)
    <3>1. /\ held' = held /\ owner' = owner /\ phase' = phase /\ phase = "running"
          /\ held[w] # 0 /\ held[w] \in Shards
      BY <1>t, <2>4 DEF Complete, Fail, CompleteShard, FailShard, TypeOK
    <3>2. \E l \in {"record", "cleanup"} : pc' = [pc EXCEPT ![w] = l]
      BY <2>4 DEF Complete, Fail
    <3>3. \E x \in {"done", "error"} : status' = [status EXCEPT ![held[w]] = x]
      BY <2>4 DEF Complete, Fail, CompleteShard, FailShard
    <3>4. \A v \in Workers \ {w} : held[v] # 0 => held[v] # held[w]
      BY <3>1 DEF OwnInv
    <3>5. \A v \in Workers \ {w} : pc'[v] = pc[v] /\ (held[v] # 0 => status'[held[v]] = status[held[v]])
      BY <1>t, <3>2, <3>3, <3>4 DEF TypeOK
    <3>6. pc'[w] \in {"record", "cleanup"} /\ status'[held[w]] \in {"done", "error"}
      BY <1>t, <3>1, <3>2, <3>3 DEF TypeOK
    <3> QED
      <4>1. \A v \in Workers : held'[v] # 0 => Owns(v)'
        BY <3>1, <3>5, <3>6 DEF OwnInv
      <4>2. \A v \in Workers : pc'[v] \in {"provision", "call", "complete", "fail"} =>
              status'[held'[v]] = "in_progress"
        BY <1>t, <3>1, <3>5, <3>6 DEF OwnInv
      <4> QED
        BY <3>1, <3>5, <3>6, <4>1, <4>2 DEF OwnInv
  <2>5. CASE SettleRaises(w) \/ Record(w)
    BY <1>t, <2>5 DEF SettleRaises, Record, OwnInv, TypeOK
  <2>6. CASE Cleanup(w)
    BY <1>t, <2>6 DEF Cleanup, OwnInv, TypeOK
  <2> QED
    BY <1>2, <2>1, <2>2, <2>3, <2>4, <2>5, <2>6 DEF Worker
<1>3. CASE UNCHANGED vars
  BY <1>3 DEF vars, OwnInv
<1> QED
  BY <1>1, <1>2, <1>3 DEF Next, Idle

-----------------------------------------------------------------------------
(***************************************************************************)
(* The cap under an honest estimate.  Shards that nobody has been charged  *)
(* for yet are charged their share in advance; since a shard has one owner *)
(* and leaves this set when its call is answered, the total never passes   *)
(* what the preflight on the whole run admitted.                           *)
(***************************************************************************)
BeforeAnswer == {"provision", "call"}

Unbilled ==
  {s \in Shards : \/ status[s] \in {"absent", "pending"}
                  \/ \E w \in Workers : held[w] = s /\ pc[w] \in BeforeAnswer}

CapInv ==
  EstimateHolds =>
    /\ phase = "start" => billed = spent
    /\ Admitted => billed + Cardinality(Unbilled) * PerShard <= HardCap

LEMMA UnbilledFinite ==
  /\ IsFiniteSet(Unbilled) /\ Cardinality(Unbilled) \in Nat
  /\ IsFiniteSet(Unbilled') /\ Cardinality(Unbilled') \in Nat /\ Cardinality(Unbilled') <= NumShards
<1>1. IsFiniteSet(Shards) /\ Cardinality(Shards) = NumShards
  BY NumShardsAssumption, FS_Interval DEF Shards
<1>2. Unbilled \in SUBSET Shards /\ Unbilled' \in SUBSET Shards
  BY DEF Unbilled
<1> QED
  BY <1>1, <1>2, FS_Subset, FS_CardinalityType

\* A step that charges nothing and leaves no more shards to be charged for.
LEMMA UnbilledShrinks ==
  ASSUME TypeOK, CapInv, billed' = billed, Admitted' => Admitted, phase' # "start",
         Unbilled' \subseteq Unbilled
  PROVE  CapInv'
<1> DEFINE k == Cardinality(Unbilled) * PerShard
           j == Cardinality(Unbilled') * PerShard
<1>1. Cardinality(Unbilled') <= Cardinality(Unbilled)
  BY UnbilledFinite, FS_Subset
<1>2. j <= k /\ j \in Nat /\ k \in Nat
  BY <1>1, UnbilledFinite, PerShardAssumption, MulMonotonic
<1>3. EstimateHolds /\ Admitted' => billed + k <= HardCap
  BY DEF CapInv
<1> HIDE DEF k, j
<1>4. EstimateHolds /\ Admitted' => billed' + j <= HardCap
  BY <1>2, <1>3, HardCapAssumption DEF TypeOK
<1> QED
  BY <1>4 DEF CapInv, j, EstimateHolds

LEMMA CapInvStep ==
  ASSUME TypeInv, OwnInv, CapInv, [Next]_vars
  PROVE  CapInv'
<1>t. TypeOK /\ TypeOK' /\ NoResidue
  BY TypeInvInductive DEF TypeInv
<1> USE DEF governorVars, rows, mainVars, resultVars, workerVars, At, GoTo, RowsTypeOK, Admitted,
            BeforeAnswer
<1>1. CASE Reject
  BY <1>1 DEF Reject, CapInv, EstimateHolds
<1>2. CASE Launch \/ LaunchRaises
  <2> DEFINE j == Cardinality(Unbilled') * PerShard
  <2>1. spent <= HardCap - Projected /\ phase = "start" /\ phase' # "start" /\ billed' = billed
    BY <1>t, <1>2, ProjectedCoversShare, HardCapAssumption
       DEF Launch, LaunchRaises, CanStart, Remaining, TypeOK
  <2>2. j <= Projected /\ j \in Nat
    <3>1. Cardinality(Unbilled') * PerShard <= NumShards * PerShard
      BY UnbilledFinite, NumShardsAssumption, PerShardAssumption, MulMonotonic
    <3> QED
      BY <3>1, UnbilledFinite, NumShardsAssumption, PerShardAssumption DEF Projected
  <2> HIDE DEF j
  <2>3. EstimateHolds => billed' + j <= HardCap
    BY <1>t, <2>1, <2>2, ProjectedCoversShare, HardCapAssumption DEF CapInv, TypeOK
  <2> QED
    BY <2>1, <2>3 DEF CapInv, j, EstimateHolds
<1>3. CASE Aggregate \/ FinalizeRaises \/ Raise
  <2>1. Unbilled' = Unbilled
    BY <1>3 DEF Aggregate, FinalizeRaises, Raise, Unbilled
  <2> QED
    BY <1>t, <1>3, <2>1, UnbilledShrinks DEF Aggregate, FinalizeRaises, Raise, Joined
<1>4. ASSUME NEW w \in Workers, Worker(w) PROVE CapInv'
  <2>0. phase = "running" /\ phase' = "running"
    BY <1>4
       DEF Worker, CheckAbort, Preflight, Stop, ClaimShard, ClaimNone, ClaimRaises, Provision,
           ProvisionRaises, Answer, AdapterRaises, Complete, Fail, SettleRaises, Record, Cleanup
  <2>1. CASE Answer(w)
    <3> DEFINE s == held[w]
               k == Cardinality(Unbilled) * PerShard
               j == Cardinality(Unbilled') * PerShard
    <3>1. s \in Shards /\ status[s] = "in_progress" /\ s \in Unbilled
      BY <1>t, <2>1 DEF Answer, OwnInv, Unbilled, TypeOK, TypeInv, HandsFull, AtWork
    <3>2. \A v \in Workers \ {w} : held[v] # s
      BY <3>1 DEF OwnInv, Owns, Shards
    <3>3. held' = held /\ status' = status /\ pc' = [pc EXCEPT ![w] = "complete"]
      BY <2>1 DEF Answer
    <3>4. Unbilled' = Unbilled \ {s}
      BY <1>t, <3>1, <3>2, <3>3 DEF Unbilled, TypeOK
    <3>5. Cardinality(Unbilled') = Cardinality(Unbilled) - 1
      BY <3>1, <3>4, UnbilledFinite, FS_RemoveElement
    <3>6. j = k - PerShard /\ k \in Nat
      BY <3>5, UnbilledFinite, PerShardAssumption
    <3>7. EstimateHolds => billed + k <= HardCap
      BY <2>0 DEF CapInv
    <3>8. \E c \in 0 .. MaxCost : billed' = billed + c
      BY <2>1 DEF Answer, Costs
    <3> HIDE DEF k, j
    <3>9. EstimateHolds => billed' + j <= HardCap
      BY <1>t, <3>6, <3>7, <3>8, HardCapAssumption, PerShardAssumption, MaxCostAssumption
         DEF TypeOK, EstimateHolds
    <3> QED
      BY <2>0, <3>9 DEF CapInv, j, EstimateHolds
  <2>2. CASE ClaimShard(w)
    <3>1. PICK s \in Shards : Claim(s, w) /\ held' = [held EXCEPT ![w] = s]
      BY <2>2 DEF ClaimShard
    <3>2. status[s] = "pending" /\ status' = [status EXCEPT ![s] = "in_progress"]
      BY <3>1 DEF Claim, IsNextPending, Pending
    <3>3. pc' = [pc EXCEPT ![w] = "provision"] /\ billed' = billed
      BY <2>2 DEF ClaimShard
    <3>4. \A t \in Shards \ {s} : status'[t] = status[t]
      BY <1>t, <3>2 DEF TypeOK
    <3>5. \A v \in Workers \ {w} : held'[v] = held[v] /\ pc'[v] = pc[v]
      BY <1>t, <3>1, <3>3 DEF TypeOK
    <3>6. held'[w] = s
      BY <1>t, <3>1 DEF TypeOK
    <3>7. Unbilled' \subseteq Unbilled
      BY <3>2, <3>4, <3>5, <3>6 DEF Unbilled
    <3> QED
      BY <1>t, <2>0, <3>3, <3>7, UnbilledShrinks
  <2>3. CASE ~Answer(w) /\ ~ClaimShard(w)
    <3>1. billed' = billed
      BY <1>4, <2>3
         DEF Worker, CheckAbort, Preflight, Stop, ClaimNone, ClaimRaises, Provision,
             ProvisionRaises, AdapterRaises, Complete, Fail, SettleRaises, Record, Cleanup
    <3>2. \A s \in Shards : status'[s] \in {"absent", "pending"} => status[s] \in {"absent", "pending"}
      BY <1>t, <1>4, <2>3
         DEF Worker, CheckAbort, Preflight, Stop, ClaimNone, ClaimRaises, Provision,
             ProvisionRaises, AdapterRaises, Complete, Fail, SettleRaises, Record, Cleanup,
             CompleteShard, FailShard, TypeOK
    <3>3. \A v \in Workers : \A s \in Shards :
            held'[v] = s /\ pc'[v] \in BeforeAnswer => held[v] = s /\ pc[v] \in BeforeAnswer
      BY <1>t, <1>4, <2>3, ZenonT(60)
         DEF Worker, CheckAbort, Preflight, Stop, ClaimNone, ClaimRaises, Provision,
             ProvisionRaises, AdapterRaises, Complete, Fail, SettleRaises, Record, Cleanup,
             TypeOK, Shards
    <3>4. Unbilled' \subseteq Unbilled
      BY <3>2, <3>3 DEF Unbilled
    <3> QED
      BY <1>t, <2>0, <3>1, <3>4, UnbilledShrinks
  <2> QED
    BY <2>1, <2>2, <2>3
<1>5. CASE UNCHANGED vars
  BY <1>5 DEF vars, CapInv, Unbilled, EstimateHolds
<1> QED
  BY <1>1, <1>2, <1>3, <1>4, <1>5 DEF Next, Main, Idle

\* As long as no call costs more than its share, what the provider charges never
\* passes the cap, although no worker reserves anything.
THEOREM EstimateKeepsCap == Spec => []CapHeldByEstimate
<1>1. Init => OwnInv /\ CapInv
  BY DEF Init, RowsInit, OwnInv, CapInv, Admitted
<1>2. TypeInv /\ OwnInv /\ CapInv /\ [Next]_vars => OwnInv' /\ CapInv'
  BY OwnInvStep, CapInvStep
<1>3. TypeInv /\ CapInv => CapHeldByEstimate
  <2> SUFFICES ASSUME TypeInv, CapInv, EstimateHolds, Admitted
               PROVE  billed <= HardCap
    BY DEF CapHeldByEstimate
  <2> DEFINE k == Cardinality(Unbilled) * PerShard
  <2>1. k \in Nat
    BY UnbilledFinite, PerShardAssumption
  <2>2. billed + k <= HardCap /\ billed \in Nat
    BY DEF CapInv, TypeInv, TypeOK
  <2> HIDE DEF k
  <2> QED
    BY <2>1, <2>2, HardCapAssumption
<1> QED
  BY <1>1, <1>2, <1>3, TypeInvInductive, PTL DEF Spec

=============================================================================

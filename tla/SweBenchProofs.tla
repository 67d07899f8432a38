--------------------------- MODULE SweBenchProofs ---------------------------
(***************************************************************************)
(* Theorems about SweBench, for any list of arms and instances, any        *)
(* problems file, any cap and any other processes under it.                *)
(***************************************************************************)
EXTENDS SweBench, SumProofs, SequenceTheorems

\* Induction in the form of a largest number (SumProofs!LeastNumber).
LEMMA LargestNumber ==
  ASSUME NEW n \in Nat, NEW S \in SUBSET (1 .. n), S # {}
  PROVE  \E i \in S : \A j \in S : j <= i
<1> DEFINE D == {n - i : i \in S}
<1>1. D \in SUBSET Nat /\ D # {}
  <2>1. \A i \in S : n - i \in Nat
    OBVIOUS
  <2> QED
    BY <2>1
<1>2. PICK d \in D : \A e \in D : d <= e
  BY <1>1, LeastNumber
<1>3. PICK i \in S : d = n - i
  OBVIOUS
<1>4. ASSUME NEW j \in S PROVE j <= i
  BY <1>2, <1>3
<1> QED
  BY <1>4

-----------------------------------------------------------------------------
(***************************************************************************)
(* The pure functions.                                                     *)
(***************************************************************************)

\* A file that loads has a statement for each instance, and its last one is real.
LEMMA ProblemsAreReal ==
  ASSUME instances \in Nat, file \in ProblemFiles, Loads(file), NEW id \in 1 .. instances
  PROVE  ProblemOf(file, id) \in Nat \ {0}
<1> DEFINE found == {i \in DOMAIN file : file[i].kind = "statement" /\ file[i].id = id}
           last  == CHOOSE i \in found : \A j \in found : j <= i
<1>1. file \in Seq(Line)
  BY InputsAssumption
<1>2. found # {} /\ found \in SUBSET (1 .. Len(file)) /\ Len(file) \in Nat
  BY <1>1 DEF Loads
<1>3. \E i \in found : \A j \in found : j <= i
  BY <1>2, LargestNumber
<1>4. last \in found
  BY <1>3
<1>5. file[last] \in Line /\ file[last].kind = "statement"
  BY <1>1, <1>4
<1>6. file[last].version \in Nat \ {0}
  BY <1>5 DEF Line, Blank, Bad
<1> QED
  BY <1>6 DEF ProblemOf

\* Every error has a bucket, and nothing else has.
LEMMA BucketsComplete ==
  ASSUME NEW error
  PROVE  ClassifyFailure(error) \in Modes /\ (ClassifyFailure(error) = "none" <=> error = {})
BY DEF ClassifyFailure, Modes

\* A run is a success when it has no error.
LEMMA SuccessHasNoError ==
  ASSUME NEW strategy, NEW cap, NEW cost, NEW success \in BOOLEAN, NEW error,
         MayEnd(strategy, cap, cost, success, error)
  PROVE  success <=> error = {}
BY DEF MayEnd, ConfigMissing

-----------------------------------------------------------------------------
(***************************************************************************)
(* The ledger's processes keep their types.                                *)
(***************************************************************************)

LEMMA RowType ==
  ASSUME CR!TypeOK, NEW p \in Processes, CR!RecordRow(charged[p]) \/ CR!ForceRecord(charged[p])
  PROVE  /\ window' = window
         /\ booked' \in [CR!Windows -> Nat] /\ forcedBooked' \in [CR!Windows -> Nat]
<1>1. charged[p] \in Nat
  BY DEF CR!TypeOK
<1> QED
  BY <1>1 DEF CR!TypeOK, CR!RecordRow, CR!ForceRecord

LEMMA RemainingType ==
  ASSUME CR!TypeOK
  PROVE  CR!WindowRemaining \in Nat /\ CR!WindowRemaining <= WindowCap
BY CapsAssumption DEF CR!TypeOK, CR!WindowRemaining

LEMMA EndsType ==
  ASSUME CR!TypeOK, NEW p \in Processes, CR!Ends(p)
  PROVE  /\ pc' \in [Processes -> {"idle", "running", "reread"}]
         /\ forced' \subseteq Processes
         /\ budget' \in [Processes -> Nat] /\ effective' \in [Processes -> Nat]
         /\ charged' \in [Processes -> Nat]
         /\ runs' \in Nat
BY DEF CR!TypeOK, CR!Ends

LEMMA StartsType ==
  ASSUME CR!TypeOK, NEW p \in Processes, NEW cap \in Nat, CR!Starts(p, cap)
  PROVE  /\ pc' \in [Processes -> {"idle", "running", "reread"}]
         /\ effective' \in [Processes -> Nat]
         /\ runs' \in Nat
BY DEF CR!TypeOK, CR!Starts

LEMMA LedgerTypeStep ==
  ASSUME CR!TypeOK, NEW p \in Processes, CR!Process(p)
  PROVE  CR!TypeOK'
<1> USE DEF CR!ledgerVars, CR!historyVars
<1>1. ASSUME CR!Admit(p) \/ CR!AdmitForced(p) PROVE CR!TypeOK'
  <2>1. PICK b \in Budgets, cap \in Nat :
          budget' = [budget EXCEPT ![p] = b] /\ CR!Starts(p, cap)
    BY <1>1, RemainingType, CapsAssumption DEF CR!Admit, CR!AdmitForced, CR!Smaller
  <2>2. b \in Nat
    BY CapsAssumption
  <2> QED
    BY <1>1, <2>1, <2>2, StartsType DEF CR!Admit, CR!AdmitForced, CR!TypeOK
<1>2. CASE CR!Charge(p)
  <2>1. PICK c \in 1 .. effective[p] + Overshoot - charged[p] :
          /\ charged' = [charged EXCEPT ![p] = @ + c]
          /\ charges' = IF p \in forced THEN charges ELSE [charges EXCEPT ![window] = @ + c]
    BY <1>2 DEF CR!Charge
  <2>2. c \in Nat
    BY CapsAssumption DEF CR!TypeOK
  <2>3. charged' \in [Processes -> Nat] /\ charges' \in [CR!Windows -> Nat]
    BY <2>1, <2>2 DEF CR!TypeOK
  <2> QED
    BY <1>2, <2>3 DEF CR!Charge, CR!TypeOK
<1>3. CASE CR!Returns(p) \/ CR!ForcedReturns(p)
  BY <1>3, RowType, EndsType DEF CR!Returns, CR!ForcedReturns, CR!TypeOK
<1>4. CASE CR!ArmReturns(p)
  BY <1>4, RowType DEF CR!ArmReturns, CR!TypeOK
<1>5. CASE CR!ReRead(p)
  <2>1. CR!Smaller(budget[p], CR!WindowRemaining) \in Nat
    BY RemainingType DEF CR!Smaller, CR!TypeOK
  <2> QED
    BY <1>5, <2>1, StartsType DEF CR!ReRead, CR!TypeOK
<1>6. CASE CR!HarnessEnds(p)
  BY <1>6, EndsType DEF CR!HarnessEnds, CR!TypeOK
<1>7. CASE CR!Breaks(p)
  BY <1>7, EndsType DEF CR!Breaks, CR!TypeOK
<1> QED
  BY <1>1, <1>2, <1>3, <1>4, <1>5, <1>6, <1>7 DEF CR!Process

-----------------------------------------------------------------------------
(***************************************************************************)
(* The loops: where the harness is, and what its records hold.             *)
(***************************************************************************)

\* Past its first checks, the run has the problems it needs.
Ready == (live => file # NoFile) /\ (file # NoFile => Loads(file))

LoopInv ==
  /\ pc[Bench] # "idle" => Ledgered /\ phase = "arms"
  /\ pc[Bench] = "running" => ~AllDone
  /\ AllDone => arm = 1
  /\ phase \in {"arms", "broken", "written"} => Ready

\* What a record says of its run.
Honest(rec) ==
  /\ rec.success <=> rec.mode = "none"
  /\ live => rec.prompt > 0

\* An arm has a record of each instance it ran, in order.
RecordsInv ==
  \A i \in DOMAIN Arms :
    /\ Len(records[Arms[i]]) = IF i < arm THEN instance ELSE instance - 1
    /\ \A k \in DOMAIN records[Arms[i]] :
         records[Arms[i]][k].instance = k /\ Honest(records[Arms[i]][k])

ReportInv == phase = "written" => AllDone /\ payload = Report

BenchInv == TypeOK /\ LoopInv /\ RecordsInv /\ ReportInv

\* What ArmRecorded does, whatever the strategy did.
Recorded(rec) ==
  /\ rec \in Record
  /\ records' = [records EXCEPT ![NextArm] = Append(@, rec)]
  /\ rec.instance = instance /\ rec.window = window
  /\ Honest(rec)

LEMMA InstancesType == TypeOK => instances \in Nat
BY InputsAssumption DEF TypeOK

LEMMA ArmLeavesRecord ==
  ASSUME TypeOK, Ready, ~AllDone, NEW cap, NEW cost \in Nat, ArmRecorded(cap, cost)
  PROVE  \E rec \in Record : Recorded(rec) /\ rec.cost = cost
<1>1. PICK strategy \in IF NextArm = "router" THEN Strategies ELSE {NextArm},
           success \in BOOLEAN, error \in Errors :
         /\ MayEnd(strategy, cap, cost, success, error)
         /\ records' = [records EXCEPT ![NextArm] = Append(@, ToRecord(cost, success, error))]
  BY DEF ArmRecorded
<1> DEFINE rec == ToRecord(cost, success, error)
<1>2. instance \in Nat /\ instance \in 1 .. instances /\ instances \in Nat
  BY InstancesType DEF TypeOK, AllDone
<1>3. /\ rec.prompt \in Nat
      /\ file # NoFile => rec.prompt \in Nat \ {0}
  <2>1. CASE file = NoFile
    BY <2>1 DEF ToRecord
  <2>2. CASE file # NoFile
    <3>1. ProblemOf(file, instance) \in Nat \ {0}
      BY <1>2, <2>2, ProblemsAreReal DEF Ready, TypeOK
    <3> QED
      BY <2>2, <3>1 DEF ToRecord
  <2> QED
    BY <2>1, <2>2
<1>4. rec.mode \in Modes /\ (rec.mode = "none" <=> error = {})
  BY BucketsComplete DEF ToRecord
<1>5. success <=> error = {}
  BY <1>1, SuccessHasNoError
<1>6. window \in 1 .. LastWindow
  BY DEF TypeOK, CR!TypeOK, CR!Windows
<1>7. rec = [instance |-> instance, success |-> success, cost |-> cost,
             mode |-> rec.mode, prompt |-> rec.prompt, window |-> window]
  BY DEF ToRecord
<1>8. rec \in Record
  BY <1>2, <1>3, <1>4, <1>6, <1>7 DEF Record
<1>9. rec.success = success
  BY DEF ToRecord
<1>10. rec.cost = cost /\ rec.instance = instance /\ rec.window = window
  BY DEF ToRecord
<1> HIDE DEF rec
<1>11. Honest(rec)
  BY <1>3, <1>4, <1>5, <1>9 DEF Honest, Ready
<1>12. records' = [records EXCEPT ![NextArm] = Append(@, rec)]
  BY <1>1 DEF rec
<1> QED
  BY <1>8, <1>10, <1>11, <1>12 DEF Recorded

LEMMA OneOrTheOther ==
  ASSUME NEW n \in Nat, NEW k \in 1 .. n
  PROVE  k < n \/ k = n
OBVIOUS

\* The counters after an arm.
LEMMA NextTurn ==
  ASSUME TypeOK, ~AllDone, NEW cap, NEW cost, ArmRecorded(cap, cost)
  PROVE  /\ instance \in Nat /\ instance <= instances /\ instances \in Nat
         /\ Len(Arms) \in Nat /\ Len(Arms) >= 1 /\ DOMAIN Arms = 1 .. Len(Arms) /\ arm \in 1 .. Len(Arms)
         /\ \/ arm < Len(Arms) /\ arm' = arm + 1 /\ instance' = instance
            \/ arm = Len(Arms) /\ arm' = 1 /\ instance' = instance + 1
<1>1. Len(Arms) \in Nat /\ Len(Arms) >= 1 /\ DOMAIN Arms = 1 .. Len(Arms)
  BY ArmsAssumption
<1>2. instance \in Nat /\ instance <= instances /\ instances \in Nat /\ arm \in 1 .. Len(Arms)
  BY <1>1, InstancesType DEF TypeOK, AllDone
<1>3. IF arm < Len(Arms) THEN arm' = arm + 1 /\ instance' = instance
                         ELSE arm' = 1 /\ instance' = instance + 1
  BY DEF ArmRecorded
<1>4. CASE arm < Len(Arms)
  BY <1>1, <1>2, <1>3, <1>4
<1>5. CASE ~ (arm < Len(Arms))
  <2>1. arm = Len(Arms)
    BY <1>1, <1>2, <1>5, OneOrTheOther
  <2> QED
    BY <1>1, <1>2, <1>3, <1>5, <2>1
<1> QED
  BY <1>4, <1>5

LEMMA TurnInBounds ==
  ASSUME NEW n \in Nat, NEW m \in Nat, NEW i \in 1 .. m, NEW k \in 1 .. n, NEW i2, NEW k2,
         \/ k < n /\ k2 = k + 1 /\ i2 = i
         \/ k = n /\ k2 = 1 /\ i2 = i + 1
  PROVE  i2 \in 1 .. m + 1 /\ k2 \in 1 .. n /\ (i2 > m => k2 = 1)
OBVIOUS

\* The types of what belongs to the harness alone.
LoopType ==
  /\ instance \in 1 .. instances + 1 /\ arm \in DOMAIN Arms
  /\ records \in [ArmNames -> Seq(Record)]

LEMMA RecordedType ==
  ASSUME TypeOK, ~AllDone, NEW cap, NEW cost, ArmRecorded(cap, cost), NEW rec, Recorded(rec),
         instances' = instances
  PROVE  LoopType' /\ (AllDone' => arm' = 1)
<1>1. NextArm \in ArmNames
  BY DEF NextArm, ArmNames, Range, TypeOK
<1>2. Append(records[NextArm], rec) \in Seq(Record)
  BY <1>1, AppendProperties DEF Recorded, TypeOK
<1>3. records' \in [ArmNames -> Seq(Record)]
  BY <1>1, <1>2 DEF Recorded, TypeOK
<1>4. /\ instance \in 1 .. instances /\ instances \in Nat
      /\ Len(Arms) \in Nat /\ arm \in 1 .. Len(Arms) /\ DOMAIN Arms = 1 .. Len(Arms)
      /\ \/ arm < Len(Arms) /\ arm' = arm + 1 /\ instance' = instance
         \/ arm = Len(Arms) /\ arm' = 1 /\ instance' = instance + 1
  BY NextTurn DEF TypeOK
<1>5. /\ instance' \in 1 .. instances' + 1 /\ arm' \in DOMAIN Arms
      /\ AllDone' => arm' = 1
  BY <1>4, TurnInBounds DEF AllDone
<1> QED
  BY <1>3, <1>5 DEF LoopType

\* Only the arm that ran has a new record, at the end.
LEMMA RecordedInOrder ==
  ASSUME TypeOK, ~AllDone, NEW cap, NEW cost, ArmRecorded(cap, cost), NEW rec, Recorded(rec),
         live' = live, RecordsInv
  PROVE  RecordsInv'
<1> SUFFICES ASSUME NEW i \in DOMAIN Arms
             PROVE  /\ Len(records'[Arms[i]]) = IF i < arm' THEN instance' ELSE instance' - 1
                    /\ \A k \in DOMAIN records'[Arms[i]] :
                         records'[Arms[i]][k].instance = k /\ Honest(records'[Arms[i]][k])
  BY DEF RecordsInv, Honest
<1> DEFINE old == records[Arms[i]]
           new == records'[Arms[i]]
<1>1. /\ Len(Arms) \in Nat /\ Len(Arms) >= 1 /\ i \in 1 .. Len(Arms) /\ arm \in 1 .. Len(Arms)
      /\ instance \in Nat
      /\ \/ arm < Len(Arms) /\ arm' = arm + 1 /\ instance' = instance
         \/ arm = Len(Arms) /\ arm' = 1 /\ instance' = instance + 1
  BY NextTurn
<1>2. /\ Arms[i] \in ArmNames /\ NextArm \in ArmNames /\ old \in Seq(Record)
  BY DEF NextArm, ArmNames, Range, TypeOK
<1>3. /\ Len(old) = IF i < arm THEN instance ELSE instance - 1
      /\ \A k \in DOMAIN old : old[k].instance = k /\ Honest(old[k])
  BY DEF RecordsInv
<1>4. CASE i = arm
  <2>1. new = Append(old, rec)
    BY <1>2, <1>4 DEF Recorded, NextArm, TypeOK
  <2>2. /\ Len(new) = Len(old) + 1 /\ new[Len(old) + 1] = rec
        /\ \A k \in 1 .. Len(old) : new[k] = old[k]
        /\ DOMAIN new = 1 .. Len(old) + 1 /\ DOMAIN old = 1 .. Len(old) /\ Len(old) \in Nat
    <3>1. rec \in Record
      BY DEF Recorded
    <3> HIDE DEF old, new
    <3> QED
      BY <1>2, <2>1, <3>1, AppendProperties, LenProperties
  <2>3. Len(old) = instance - 1
    BY <1>3, <1>4, <1>1
  <2>4. rec.instance = instance /\ Honest(rec)
    BY DEF Recorded
  <2> HIDE DEF old, new
  <2>5. Len(new) = IF i < arm' THEN instance' ELSE instance' - 1
    BY <1>1, <1>4, <2>2, <2>3
  <2>6. ASSUME NEW k \in DOMAIN new PROVE new[k].instance = k /\ Honest(new[k])
    <3>1. CASE k = Len(old) + 1
      BY <3>1, <1>1, <2>2, <2>3, <2>4
    <3>2. CASE k # Len(old) + 1
      <4>1. k \in 1 .. Len(old)
        BY <3>2, <2>2
      <4> QED
        BY <4>1, <1>3, <2>2
    <3> QED
      BY <3>1, <3>2
  <2> QED
    BY <2>5, <2>6 DEF new
<1>5. CASE i # arm
  <2>1. Arms[i] # NextArm
    BY <1>5, ArmsAssumption DEF NextArm, TypeOK
  <2>2. new = old
    BY <1>2, <2>1 DEF Recorded, TypeOK
  <2>3. (IF i < arm' THEN instance' ELSE instance' - 1) = (IF i < arm THEN instance ELSE instance - 1)
    BY <1>1, <1>5
  <2> QED
    BY <1>3, <2>2, <2>3
<1> QED
  BY <1>4, <1>5

\* A step that leaves the loops alone.
LEMMA LoopsKept ==
  ASSUME BenchInv, UNCHANGED << inputs, loopVars >>
  PROVE  /\ LoopType' /\ RecordsInv'
         /\ Ready' <=> Ready
         /\ Ledgered' <=> Ledgered
         /\ AllDone' <=> AllDone
         /\ Report' = Report
         /\ arm' = arm
<1>1. /\ live' = live /\ capped' = capped /\ instances' = instances /\ file' = file
      /\ instance' = instance /\ arm' = arm /\ records' = records
  BY DEF inputs, loopVars
<1>2. LoopType'
  BY <1>1 DEF BenchInv, TypeOK, LoopType
<1>3. RecordsInv'
  BY <1>1 DEF BenchInv, RecordsInv, Honest
<1>4. Ready' <=> Ready
  BY <1>1 DEF Ready, Loads
<1>5. (Ledgered' <=> Ledgered) /\ (AllDone' <=> AllDone)
  BY <1>1 DEF Ledgered, AllDone
<1>6. Report' = Report
  BY <1>1 DEF Report
<1> QED
  BY <1>1, <1>2, <1>3, <1>4, <1>5, <1>6

\* Another process leaves the harness's run alone.
Apart ==
  /\ pc'[Bench] = pc[Bench] /\ charged'[Bench] = charged[Bench]
  /\ effective'[Bench] = effective[Bench]
  /\ Bench \in forced' <=> Bench \in forced

LEMMA OthersApart ==
  ASSUME CR!TypeOK, NEW p \in Processes \ {Bench}, CR!Process(p)
  PROVE  Apart
<1>1. ASSUME CR!Ends(p) PROVE Apart
  BY <1>1 DEF CR!TypeOK, Apart, CR!Ends
<1>2. ASSUME NEW cap, CR!Starts(p, cap)
      PROVE  pc'[Bench] = pc[Bench] /\ effective'[Bench] = effective[Bench]
  BY <1>2 DEF CR!TypeOK, CR!Starts
<1>3. CASE CR!Admit(p)
  BY <1>2, <1>3 DEF CR!Admit, Apart
<1>4. CASE CR!AdmitForced(p)
  BY <1>2, <1>4 DEF CR!AdmitForced, Apart
<1>5. CASE CR!Charge(p)
  BY <1>5 DEF CR!Charge, CR!TypeOK, Apart
<1>6. CASE CR!Returns(p) \/ CR!ForcedReturns(p) \/ CR!HarnessEnds(p) \/ CR!Breaks(p)
  BY <1>1, <1>6 DEF CR!Returns, CR!ForcedReturns, CR!HarnessEnds, CR!Breaks
<1>7. CASE CR!ArmReturns(p)
  BY <1>7 DEF CR!ArmReturns, CR!TypeOK, Apart
<1>8. CASE CR!ReRead(p)
  BY <1>2, <1>8 DEF CR!ReRead, Apart
<1> QED
  BY <1>3, <1>4, <1>5, <1>6, <1>7, <1>8 DEF CR!Process

LEMMA BenchIsProcess == Bench \in Processes
BY BenchAssumption

\* Where the harness's own steps leave it.
LEMMA BenchMoves ==
  ASSUME CR!TypeOK
  PROVE  /\ CR!Admit(Bench) => pc'[Bench] = "running"
         /\ CR!Charge(Bench) => pc[Bench] = "running" /\ pc'[Bench] = "running"
         /\ CR!ArmReturns(Bench) => pc[Bench] = "running" /\ pc'[Bench] = "reread"
         /\ CR!ReRead(Bench) => pc[Bench] = "reread" /\ pc'[Bench] = "running"
         /\ CR!HarnessEnds(Bench) => pc[Bench] = "reread" /\ pc'[Bench] = "idle"
         /\ CR!Breaks(Bench) => pc[Bench] = "running" /\ pc'[Bench] = "idle"
<1> USE BenchIsProcess DEF CR!TypeOK, CR!Ends, CR!Starts
<1>1. CR!Admit(Bench) => pc'[Bench] = "running"
  BY DEF CR!Admit
<1>2. CR!Charge(Bench) => pc[Bench] = "running" /\ pc'[Bench] = "running"
  BY DEF CR!Charge
<1>3. CR!ArmReturns(Bench) => pc[Bench] = "running" /\ pc'[Bench] = "reread"
  BY DEF CR!ArmReturns
<1>4. CR!ReRead(Bench) => pc[Bench] = "reread" /\ pc'[Bench] = "running"
  BY DEF CR!ReRead
<1>5. CR!HarnessEnds(Bench) => pc[Bench] = "reread" /\ pc'[Bench] = "idle"
  BY DEF CR!HarnessEnds
<1>6. CR!Breaks(Bench) => pc[Bench] = "running" /\ pc'[Bench] = "idle"
  BY DEF CR!Breaks
<1> QED
  BY <1>1, <1>2, <1>3, <1>4, <1>5, <1>6

\* The ledger's variables keep their types.
LEMMA CrossRunStep ==
  ASSUME TypeOK, [Next]_vars
  PROVE  CR!TypeOK'
<1>1. CASE UNCHANGED crossRunVars
  BY <1>1 DEF TypeOK, CR!TypeOK, crossRunVars, ledgerVars, processVars
<1>2. ASSUME NEW p \in Processes, CR!Process(p) PROVE CR!TypeOK'
  BY <1>2, LedgerTypeStep DEF TypeOK
<1>3. CASE CR!NextWindow
  BY <1>3, BoundsAssumption
     DEF TypeOK, CR!TypeOK, CR!NextWindow, CR!procVars, CR!historyVars, CR!Windows
<1>4. CASE Start
  <2>1. CASE Ledgered /\ ~AllDone
    BY <1>2, <1>4, <2>1, BenchIsProcess DEF Start, CR!Process
  <2>2. CASE ~(Ledgered /\ ~AllDone)
    <3>1. PICK b \in Budgets : budget' = [budget EXCEPT ![Bench] = b]
      BY <1>4, <2>2 DEF Start
    <3>2. budget' \in [Processes -> Nat]
      BY <3>1, CapsAssumption DEF TypeOK, CR!TypeOK
    <3> QED
      BY <1>4, <2>2, <3>2 DEF Start, TypeOK, CR!TypeOK, ledgerVars
  <2> QED
    BY <2>1, <2>2
<1>5. CASE Others
  BY <1>2, <1>3, <1>5 DEF Others
<1>6. CASE Harness
  BY <1>1, <1>2, <1>4, <1>6, BenchIsProcess
     DEF Harness, Refuse, ArmCharges, ArmReturns, LookAgain, ArmUnledgered, Finish, Break,
         CR!Process
<1> QED
  BY <1>1, <1>5, <1>6 DEF Next, Rest, vars

\* The invariant of the loops is preserved by each of the harness's steps.
LEMMA BenchInvStep ==
  ASSUME BenchInv, [Next]_vars
  PROVE  BenchInv'
<1> USE DEF inputs
<1>1. TypeOK /\ LoopInv /\ RecordsInv /\ ReportInv /\ CR!TypeOK
  BY DEF BenchInv, TypeOK
<1>2. CR!TypeOK'
  BY <1>1, CrossRunStep
<1>3. UNCHANGED inputs
  BY DEF Next, Harness, Others, Rest, Refuse, Start, ArmCharges, ArmReturns, LookAgain,
         ArmUnledgered, Finish, Break, benchVars, vars
<1>4. Ledgered' <=> Ledgered
  BY <1>3 DEF Ledgered
<1>5. ASSUME ~AllDone, Ready, NEW cap, NEW cost \in Nat, ArmRecorded(cap, cost)
      PROVE  LoopType' /\ RecordsInv' /\ Ready' /\ (AllDone' => arm' = 1)
  <2>1. PICK rec : Recorded(rec)
    BY <1>1, <1>5, ArmLeavesRecord
  <2> QED
    BY <1>1, <1>3, <1>5, <2>1, RecordedType, RecordedInOrder DEF Ready, Loads
<1>6. ASSUME UNCHANGED loopVars
      PROVE  /\ LoopType' /\ RecordsInv' /\ arm' = arm /\ Report' = Report
             /\ (Ready' <=> Ready) /\ (AllDone' <=> AllDone)
  BY <1>3, <1>6, LoopsKept
<1> DEFINE PhaseType == phase' \in {"start", "arms", "refused", "broken", "written"}
           PayloadType == DOMAIN payload' \subseteq {"mode", "n", "summary"}
           Kept == LoopType' /\ LoopInv' /\ RecordsInv' /\ ReportInv' /\ PhaseType /\ PayloadType
<1>7. ASSUME Kept PROVE BenchInv'
  BY <1>1, <1>2, <1>3, <1>7 DEF BenchInv, TypeOK, LoopType
<1>8. ASSUME UNCHANGED << loopVars, payload >>, phase' \in {"arms", "broken", "refused"},
             phase' # "refused" => Ready,
             pc'[Bench] # "idle" => Ledgered /\ phase' = "arms",
             pc'[Bench] = "running" => ~AllDone
      PROVE  Kept
  <2>1. LoopInv'
    BY <1>1, <1>4, <1>6, <1>8 DEF LoopInv
  <2>2. ReportInv' /\ PhaseType /\ PayloadType
    BY <1>1, <1>8 DEF ReportInv, TypeOK
  <2> QED
    BY <1>6, <1>8, <2>1, <2>2
<1>9. CASE UNCHANGED << pc, benchVars >>
  <2>1. LoopInv' /\ ReportInv'
    BY <1>1, <1>4, <1>6, <1>9 DEF LoopInv, ReportInv, benchVars
  <2>2. PhaseType /\ PayloadType
    BY <1>1, <1>9 DEF benchVars, TypeOK
  <2> QED
    BY <1>6, <1>7, <1>9, <2>1, <2>2 DEF benchVars
<1>10. CASE Refuse
  <2>1. Kept
    BY <1>1, <1>8, <1>10 DEF Refuse, LoopInv, crossRunVars, processVars
  <2> QED
    BY <1>7, <2>1
<1>11. CASE Start
  <2>1. Ready /\ phase' = "arms" /\ UNCHANGED << loopVars, payload >> /\ pc[Bench] = "idle"
    BY <1>1, <1>11 DEF Start, Refused, Ready, LoopInv
  <2>2. CASE Ledgered /\ ~AllDone
    BY <1>7, <1>8, <2>1, <2>2
  <2>3. CASE ~(Ledgered /\ ~AllDone)
    <3>1. pc' = pc
      BY <1>11, <2>3 DEF Start
    <3> QED
      BY <1>7, <1>8, <2>1, <3>1
  <2> QED
    BY <2>2, <2>3
<1>12. CASE ArmCharges
  <2>1. pc[Bench] = "running" /\ pc'[Bench] = "running" /\ UNCHANGED benchVars /\ phase = "arms"
    BY <1>1, <1>12, BenchMoves DEF ArmCharges
  <2> QED
    BY <1>1, <1>7, <1>8, <2>1 DEF LoopInv, benchVars
<1>13. CASE LookAgain
  <2>1. UNCHANGED benchVars /\ phase = "arms" /\ pc[Bench] = "reread"
        /\ pc'[Bench] = IF AllDone THEN "idle" ELSE "running"
    BY <1>1, <1>13, BenchMoves DEF LookAgain
  <2> QED
    BY <1>1, <1>7, <1>8, <2>1 DEF LoopInv, benchVars
<1>14. CASE Break
  <2>1. UNCHANGED << loopVars, payload >> /\ phase' = "broken" /\ phase = "arms"
        /\ pc'[Bench] = "idle"
    <3>1. pc[Bench] \in {"idle", "running", "reread"}
      BY <1>1, BenchIsProcess DEF CR!TypeOK
    <3> QED
      BY <1>1, <1>14, <3>1, BenchMoves DEF Break, crossRunVars, processVars
  <2> QED
    BY <1>1, <1>7, <1>8, <2>1 DEF LoopInv
<1>15. CASE Finish
  <2>1. UNCHANGED loopVars /\ phase' = "written" /\ phase = "arms" /\ pc' = pc
        /\ pc[Bench] = "idle" /\ payload' = Report /\ AllDone
    BY <1>15 DEF Finish, crossRunVars, processVars
  <2>2. LoopInv'
    BY <1>1, <1>4, <1>6, <2>1 DEF LoopInv
  <2>3. ReportInv' /\ PhaseType
    BY <1>6, <2>1 DEF ReportInv
  <2>4. PayloadType
    BY <2>1 DEF Report
  <2> QED
    BY <1>6, <1>7, <2>1, <2>2, <2>3, <2>4
<1>16. CASE ArmReturns \/ ArmUnledgered
  <2>1. /\ phase = "arms" /\ phase' = phase /\ payload' = payload
        /\ pc'[Bench] # "idle" => Ledgered
        /\ pc'[Bench] # "running" /\ ~AllDone
    <3>1. CASE ArmReturns
      BY <1>1, <3>1, BenchMoves DEF ArmReturns, LoopInv
    <3>2. CASE ArmUnledgered
      BY <1>1, <3>2 DEF ArmUnledgered, LoopInv, crossRunVars, processVars
    <3> QED
      BY <1>16, <3>1, <3>2
  <2>2. PICK cap \in Nat, cost \in Nat : ArmRecorded(cap, cost)
    <3>1. effective[Bench] \in Nat /\ charged[Bench] \in Nat /\ budget[Bench] \in Nat
      BY <1>1, BenchIsProcess DEF CR!TypeOK
    <3>2. \A cost \in 0 .. budget[Bench] + Overshoot : cost \in Nat
      BY <3>1, CapsAssumption
    <3> QED
      BY <1>16, <3>1, <3>2 DEF ArmReturns, ArmUnledgered
  <2>3. LoopType' /\ RecordsInv' /\ Ready' /\ (AllDone' => arm' = 1)
    BY <1>1, <1>5, <2>1, <2>2 DEF LoopInv
  <2>4. LoopInv' /\ ReportInv' /\ PhaseType /\ PayloadType
    BY <1>1, <1>4, <2>1, <2>3 DEF LoopInv, ReportInv, TypeOK
  <2> QED
    BY <1>7, <2>3, <2>4
<1>17. CASE Others
  <2>1. UNCHANGED benchVars /\ pc'[Bench] = pc[Bench] /\ Ledgered
    <3>1. CASE CR!NextWindow
      BY <1>17, <3>1 DEF Others, CR!NextWindow, CR!procVars
    <3>2. ASSUME NEW p \in Processes \ {Bench}, CR!Process(p) PROVE <2>1
      BY <1>1, <1>17, <3>2, OthersApart DEF Others, Apart
    <3> QED
      BY <1>17, <3>1, <3>2 DEF Others
  <2>2. LoopInv' /\ ReportInv'
    BY <1>1, <1>4, <1>6, <2>1 DEF LoopInv, ReportInv, benchVars
  <2>3. PhaseType /\ PayloadType
    BY <1>1, <2>1 DEF benchVars, TypeOK
  <2> QED
    BY <1>6, <1>7, <2>1, <2>2, <2>3 DEF benchVars
<1>18. CASE Rest \/ UNCHANGED vars
  BY <1>9, <1>18 DEF Rest, vars, crossRunVars, processVars
<1> QED
  BY <1>10, <1>11, <1>12, <1>13, <1>14, <1>15, <1>16, <1>17, <1>18 DEF Next, Harness

LEMMA BenchInvInit == Init => BenchInv
<1> SUFFICES ASSUME Init PROVE BenchInv
  OBVIOUS
<1>1. CR!TypeOK
  BY BoundsAssumption DEF Init, CR!Init, CR!TypeOK, CR!Windows
<1>2. /\ instances \in Nat /\ Len(Arms) \in Nat /\ Len(Arms) >= 1
      /\ DOMAIN Arms = 1 .. Len(Arms)
  BY InputsAssumption, ArmsAssumption DEF Init
<1>3. instance \in 1 .. instances + 1 /\ arm \in DOMAIN Arms
  BY <1>2 DEF Init
<1>4. records \in [ArmNames -> Seq(Record)]
  BY DEF Init
<1>5. TypeOK
  BY <1>1, <1>3, <1>4 DEF Init, TypeOK
<1>6. LoopInv
  BY BenchIsProcess DEF Init, CR!Init, LoopInv
<1>7. RecordsInv
  <2> SUFFICES ASSUME NEW i \in DOMAIN Arms
               PROVE  /\ Len(records[Arms[i]]) = IF i < arm THEN instance ELSE instance - 1
                      /\ DOMAIN records[Arms[i]] = {}
    BY DEF RecordsInv
  <2>1. records[Arms[i]] = << >>
    BY DEF Init, ArmNames, Range
  <2>2. ~ (i < arm) /\ instance - 1 = 0
    BY <1>2 DEF Init
  <2> QED
    BY <2>1, <2>2
<1>8. ReportInv
  BY DEF Init, ReportInv
<1> QED
  BY <1>5, <1>6, <1>7, <1>8 DEF BenchInv

LEMMA BenchInvInductive == Spec => []BenchInv
<1>1. BenchInv /\ [Next]_vars => BenchInv'
  BY BenchInvStep
<1> QED
  BY <1>1, BenchInvInit, PTL DEF Spec

\* Every reachable state of the harness and of the processes beside it has its
\* type: a record's mode is one of the buckets, its instance a number, and the
\* loops stay in their ranges (runner.py run).
THEOREM BenchTypeCorrect == Spec => []TypeOK
<1>1. BenchInv => TypeOK
  BY DEF BenchInv
<1> QED
  BY <1>1, BenchInvInductive, PTL

\* Whatever the cap, the other processes and the arms' errors do, a report that is
\* written has every arm's record of every instance, in order, and a live one no
\* synthetic prompt (runner.py run, load_problem_statements).
THEOREM ReportIsComplete == Spec => []ReportComplete
<1>1. BenchInv => ReportComplete
  <2> SUFFICES ASSUME BenchInv, phase = "written", NEW i \in DOMAIN Arms
               PROVE  /\ payload.summary[i].n = payload.n
                      /\ \A k \in 1 .. payload.n :
                           /\ records[Arms[i]][k].instance = k
                           /\ payload.mode = "live" => records[Arms[i]][k].prompt > 0
    BY DEF ReportComplete
  <2> DEFINE recs == records[Arms[i]]
  <2>1. payload = Report /\ AllDone /\ arm = 1
    BY DEF BenchInv, ReportInv, LoopInv
  <2>2. /\ payload.n = instances /\ (payload.mode = "live" => live)
        /\ payload.summary[i] = SummariseArm(recs)
    BY <2>1 DEF Report
  <2>3. payload.summary[i].n = Len(recs)
    BY <2>2 DEF SummariseArm
  <2>4. instances \in Nat /\ instance = instances + 1
    BY <2>1, InstancesType DEF BenchInv, TypeOK, AllDone
  <2>5. i \in 1 .. Len(Arms) /\ Len(Arms) \in Nat
    BY ArmsAssumption
  <2>6. /\ Len(recs) = IF i < arm THEN instance ELSE instance - 1
        /\ \A k \in DOMAIN recs : recs[k].instance = k /\ Honest(recs[k])
    BY DEF BenchInv, RecordsInv
  <2>7. recs \in Seq(Record)
    BY DEF BenchInv, TypeOK, ArmNames, Range
  <2> HIDE DEF recs
  <2>8. Len(recs) = instances
    BY <2>1, <2>4, <2>5, <2>6
  <2>9. DOMAIN recs = 1 .. instances
    BY <2>7, <2>8
  <2> QED
    BY <2>2, <2>3, <2>6, <2>8, <2>9 DEF Honest, recs
<1> QED
  BY <1>1, BenchInvInductive, PTL

-----------------------------------------------------------------------------
(***************************************************************************)
(* The failure histogram.                                                  *)
(***************************************************************************)

\* The elements of S with a class in C are as many as those of each, summed up.
Members(S, class, C) == {x \in S : class[x] \in C}

LEMMA SumOfClasses ==
  ASSUME NEW S, IsFiniteSet(S), NEW C, IsFiniteSet(C), NEW class, NEW size,
         \A c \in C : size[c] = Cardinality(Members(S, class, {c}))
  PROVE  SumOver(size, C) = Cardinality(Members(S, class, C))
<1> DEFINE In(D) == Members(S, class, D)
           Wrong == {D \in SUBSET C : SumOver(size, D) # Cardinality(In(D))}
<1>1. ASSUME NEW D \in Wrong, \A E \in Wrong : E \subseteq D => E = D PROVE FALSE
  <2>1. \A c \in C : size[c] \in Nat
    <3> TAKE c \in C
    <3>1. Members(S, class, {c}) \in SUBSET S
      BY DEF Members
    <3> QED
      BY <3>1, FS_Subset, FS_CardinalityType
  <2>2. IsFiniteSet(D) /\ D \in SUBSET C
    BY FS_Subset
  <2>3. CASE D = {}
    <3>1. In(D) = {}
      BY <2>3 DEF Members
    <3> QED
      BY <2>3, <3>1, SumOfNone, FS_EmptySet
  <2>4. ASSUME NEW c \in D PROVE FALSE
    <3>1. SumOver(size, D \ {c}) = Cardinality(In(D \ {c}))
      BY <1>1, <2>4
    <3>2. /\ SumOver(size, D \ {c}) \in Nat
          /\ SumOver(size, D) = size[c] + SumOver(size, D \ {c})
      BY <2>1, <2>2, <2>4, SumSplit
    <3> DEFINE Of == In({c})
    <3>3. /\ In(D) = In(D \ {c}) \cup Of /\ In(D \ {c}) \cap Of = {}
          /\ In(D \ {c}) \in SUBSET S /\ Of \in SUBSET S
      BY <2>4 DEF Members
    <3>4. size[c] = Cardinality(Of) /\ c \in C
      BY <2>2, <2>4
    <3> HIDE DEF In, Of
    <3>5. IsFiniteSet(In(D \ {c})) /\ IsFiniteSet(Of)
      BY <3>3, FS_Subset
    <3>6. Cardinality(In(D)) = Cardinality(In(D \ {c})) + Cardinality(Of) - Cardinality({})
      <4>1. Cardinality(In(D \ {c}) \cup Of) =
              Cardinality(In(D \ {c})) + Cardinality(Of) - Cardinality(In(D \ {c}) \cap Of)
        BY <3>5, FS_Union
      <4> QED
        BY <3>3, <4>1
    <3>7. Cardinality({}) = 0 /\ Cardinality(In(D \ {c})) \in Nat /\ Cardinality(Of) \in Nat
      BY <3>5, FS_EmptySet, FS_CardinalityType
    <3>8. SumOver(size, D) = Cardinality(In(D))
      BY <3>1, <3>2, <3>4, <3>6, <3>7
    <3> QED
      BY <1>1, <3>8 DEF In
  <2> QED
    BY <2>3, <2>4
<1>2. Wrong \in SUBSET (SUBSET C)
  OBVIOUS
<1>3. Wrong = {}
  <2> HIDE DEF Wrong
  <2> QED
    BY <1>1, <1>2, SmallestSubset
<1>4. C \in SUBSET C
  OBVIOUS
<1> QED
  BY <1>3, <1>4

\* "The histogram never silently drops failures" (runner.py _classify_failure):
\* in any report each arm's failure modes add up to its unresolved runs, those of
\* a PCIV without a plan file, whose error has no word of the classifier, included.
THEOREM HistogramIsComplete == Spec => []HistogramComplete
<1>1. BenchInv => HistogramComplete
  <2> SUFFICES ASSUME BenchInv, phase = "written", NEW i \in DOMAIN Arms
               PROVE  LET s == payload.summary[i] IN Sums(s.modes) = s.n - s.resolved
    BY DEF HistogramComplete
  <2> DEFINE recs     == records[Arms[i]]
             failures == Modes \ {"none"}
             mode     == [k \in DOMAIN recs |-> recs[k].mode]
             s        == SummariseArm(recs)
             resolved == {k \in DOMAIN recs : recs[k].success}
             failed   == Members(DOMAIN recs, mode, failures)
  <2>1. payload.summary[i] = s
    BY DEF BenchInv, ReportInv, Report
  <2>2. recs \in Seq(Record)
    BY DEF BenchInv, TypeOK, ArmNames, Range
  <2>3. /\ DOMAIN recs = 1 .. Len(recs) /\ Len(recs) \in Nat
        /\ \A k \in DOMAIN recs : recs[k] \in Record
    BY <2>2
  <2>4. \A k \in DOMAIN recs : recs[k].success <=> recs[k].mode = "none"
    BY DEF BenchInv, RecordsInv, Honest
  <2>5. /\ s.n = Len(recs) /\ s.resolved = Cardinality(resolved)
        /\ s.modes = [m \in failures |-> Cardinality({k \in DOMAIN recs : recs[k].mode = m})]
    BY DEF SummariseArm
  <2>6. IsFiniteSet(DOMAIN recs) /\ Cardinality(DOMAIN recs) = Len(recs)
    BY <2>3, FS_Interval
  <2>7. IsFiniteSet(failures)
    <3>1. IsFiniteSet({"budget-exceeded"} \cup {"iterate-exhausted"})
      BY FS_Singleton, FS_AddElement
    <3>2. IsFiniteSet({"timeout"} \cup {"reject"})
      BY FS_Singleton, FS_AddElement
    <3>3. IsFiniteSet((({"budget-exceeded"} \cup {"iterate-exhausted"})
                         \cup ({"timeout"} \cup {"reject"})) \cup {"infra-error"})
      BY <3>1, <3>2, FS_Union, FS_AddElement
    <3>4. failures = (({"budget-exceeded"} \cup {"iterate-exhausted"})
                        \cup ({"timeout"} \cup {"reject"})) \cup {"infra-error"}
      BY DEF Modes
    <3> QED
      BY <3>3, <3>4
  <2>8. Sums(s.modes) = SumOver(s.modes, failures)
    <3>1. DOMAIN s.modes = failures
      BY <2>5
    <3> HIDE DEF s, failures
    <3> QED
      BY <3>1 DEF Sums, FoldFunction, SumOver
  <2>9. \A m \in failures : s.modes[m] = Cardinality(Members(DOMAIN recs, mode, {m}))
    <3> TAKE m \in failures
    <3>1. {k \in DOMAIN recs : recs[k].mode = m} = Members(DOMAIN recs, mode, {m})
      BY DEF Members
    <3> HIDE DEF s, mode, failures
    <3> QED
      BY <2>5, <3>1
  <2>10. resolved \in SUBSET DOMAIN recs /\ failed = DOMAIN recs \ resolved
    BY <2>3, <2>4 DEF Record, Members
  <2> HIDE DEF s, recs, mode, failures, resolved
  <2>11. SumOver(s.modes, failures) = Cardinality(failed)
    BY <2>6, <2>7, <2>9, SumOfClasses
  <2> HIDE DEF failed
  <2>12. Cardinality(failed) = Cardinality(DOMAIN recs) - Cardinality(resolved)
    <3>1. DOMAIN recs \cap resolved = resolved
      BY <2>10
    <3>2. Cardinality(DOMAIN recs \ resolved)
            = Cardinality(DOMAIN recs) - Cardinality(DOMAIN recs \cap resolved)
      BY <2>6, FS_Difference
    <3> QED
      BY <2>10, <3>1, <3>2
  <2> QED
    BY <2>1, <2>5, <2>6, <2>8, <2>11, <2>12
<1> QED
  BY <1>1, BenchInvInductive, PTL

-----------------------------------------------------------------------------
(***************************************************************************)
(* The cap of the window.                                                  *)
(***************************************************************************)
Costs     == [r \in Rows |-> Row(r).cost]
RowsOf(w) == {r \in Rows : Row(r).window = w}
NewRow    == << NextArm, Len(records[NextArm]) + 1 >>

BookedAsSum == \A w : HarnessBooked(w) = SumOver(Costs, RowsOf(w))

LEMMA BookedIsSum == BookedAsSum
BY DEF BookedAsSum, HarnessBooked, SumOver, Costs, RowsOf

LEMMA RowsTyped ==
  ASSUME TypeOK
  PROVE  \A r \in Rows : /\ r[1] \in ArmNames /\ r[2] \in DOMAIN records[r[1]]
                          /\ Row(r) \in Record /\ Costs[r] = Row(r).cost /\ Costs[r] \in Nat
<1> TAKE r \in Rows
<1>1. r[1] \in ArmNames /\ r[2] \in DOMAIN records[r[1]]
  BY DEF Rows
<1>2. Row(r) \in Record
  BY <1>1 DEF Row, TypeOK
<1>3. Costs[r] = Row(r).cost
  BY DEF Costs
<1> QED
  BY <1>1, <1>2, <1>3 DEF Record

LEMMA BookedType ==
  ASSUME TypeOK, IsFiniteSet(Rows), NEW w
  PROVE  HarnessBooked(w) \in Nat
<1>1. RowsOf(w) \in SUBSET Rows
  BY DEF RowsOf
<1>2. IsFiniteSet(RowsOf(w)) /\ \A r \in RowsOf(w) : Costs[r] \in Nat
  BY <1>1, RowsTyped, FS_Subset
<1> QED
  BY <1>2, SumType, BookedIsSum DEF BookedAsSum

\* A record is one more row, of the window and the cost it says.
LEMMA RowAppended ==
  ASSUME TypeOK, NEW rec, Recorded(rec), NEW new, new = NewRow
  PROVE  /\ new \notin Rows /\ Rows' = Rows \cup {new}
         /\ \A r \in Rows : Row(r)' = Row(r)
         /\ Row(new)' = rec
<1> DEFINE old == records[NextArm]
<1>1. NextArm \in ArmNames
  BY DEF NextArm, ArmNames, Range, TypeOK
<1>2. /\ old \in Seq(Record) /\ rec \in Record
      /\ records' = [records EXCEPT ![NextArm] = Append(old, rec)]
  BY <1>1 DEF Recorded, TypeOK
<1>3. records'[NextArm] = Append(old, rec) /\ \A a \in ArmNames \ {NextArm} : records'[a] = records[a]
  BY <1>1, <1>2 DEF TypeOK
<1>4. /\ Len(old) \in Nat /\ DOMAIN old = 1 .. Len(old)
      /\ DOMAIN Append(old, rec) = 1 .. Len(old) + 1
      /\ Append(old, rec)[Len(old) + 1] = rec
      /\ \A k \in 1 .. Len(old) : Append(old, rec)[k] = old[k]
  <2> HIDE DEF old
  <2> QED
    BY <1>2, AppendProperties, LenProperties
<1>5. new = << NextArm, Len(old) + 1 >>
  BY DEF NewRow
<1>6. ArmNames' = ArmNames
  BY DEF ArmNames
<1>7. new \notin Rows
  BY <1>4, <1>5 DEF Rows
<1>8. Rows' = Rows \cup {new}
  <2>1. DOMAIN records'[NextArm] = DOMAIN old \cup {Len(old) + 1}
    BY <1>3, <1>4
  <2>2. \A r : r \in Rows' <=> \E a \in ArmNames : r \in {a} \X DOMAIN records'[a]
    BY <1>6 DEF Rows
  <2>3. \A r : r \in Rows <=> \E a \in ArmNames : r \in {a} \X DOMAIN records[a]
    BY DEF Rows
  <2>4. \A r : r \in {NextArm} \X DOMAIN records'[NextArm]
                <=> r \in {NextArm} \X DOMAIN old \/ r = new
    BY <2>1, <1>5
  <2> QED
    BY <1>1, <1>3, <2>2, <2>3, <2>4
<1>9. Row(new)' = rec
  BY <1>3, <1>4, <1>5 DEF Row
<1>10. ASSUME NEW r \in Rows PROVE Row(r)' = Row(r)
  BY <1>3, <1>4, RowsTyped, SMTT(40) DEF Row
<1> QED
  BY <1>7, <1>8, <1>9, <1>10

LEMMA BookedGrows ==
  ASSUME TypeOK, IsFiniteSet(Rows), NEW rec, Recorded(rec), NEW w
  PROVE  /\ IsFiniteSet(Rows')
         /\ HarnessBooked(w)' = HarnessBooked(w) + (IF rec.window = w THEN rec.cost ELSE 0)
<1>0. PICK new : new = NewRow
  OBVIOUS
<1> DEFINE rows == RowsOf(w)
           more == RowsOf(w)'
           old  == Costs
           cost == Costs'
<1>1. rec.cost \in Nat
  BY DEF Recorded, Record
<1>2. /\ new \notin Rows /\ Rows' = Rows \cup {new}
      /\ \A r \in Rows : Row(r)' = Row(r)
      /\ Row(new)' = rec
  BY <1>0, RowAppended
<1>3. IsFiniteSet(Rows')
  BY <1>2, FS_AddElement
<1>4. \A r \in Rows' : cost[r] = Row(r)'.cost
  BY DEF Costs
<1>5. cost[new] = rec.cost
  BY <1>2, <1>4
<1>6. \A r \in Rows : old[r] \in Nat /\ cost[r] = old[r]
  BY <1>2, <1>4, RowsTyped
<1>7. more = {r \in Rows' : Row(r)'.window = w}
  BY DEF RowsOf
<1>8. rows = {r \in Rows : Row(r).window = w} /\ rows \in SUBSET Rows
  BY DEF RowsOf
<1>9. IsFiniteSet(rows)
  BY <1>8, FS_Subset
<1>10. HarnessBooked(w) = SumOver(old, rows) /\ HarnessBooked(w)' = SumOver(cost, more)
  <2>1. BookedAsSum'
    BY BookedIsSum, PTL
  <2> QED
    BY <2>1, BookedIsSum DEF BookedAsSum
<1> HIDE DEF rows, more, old, cost
<1>11. SumOver(old, rows) \in Nat
  BY <1>6, <1>8, <1>9, SumType
<1>12. CASE rec.window = w
  <2>1. more = rows \cup {new} /\ new \notin rows
    BY <1>2, <1>7, <1>8, <1>12
  <2>2. SumOver(cost, rows \cup {new}) = SumOver(old, rows) + cost[new]
    BY <1>1, <1>5, <1>6, <1>8, <1>9, <2>1, SumGrows
  <2> QED
    BY <1>3, <1>5, <1>10, <1>12, <2>1, <2>2
<1>13. CASE rec.window # w
  <2>1. more = rows
    BY <1>2, <1>7, <1>8, <1>13
  <2>2. SumOver(cost, rows) = SumOver(old, rows)
    BY <1>6, <1>8, <1>9, SumAgrees
  <2> QED
    BY <1>3, <1>10, <1>11, <1>13, <2>1, <2>2
<1> QED
  BY <1>12, <1>13

\* What the running arm may still charge.
Reach == IF effective[Bench] = 0 THEN 0 ELSE effective[Bench] + Overshoot

\* The arm at work keeps to its cap and overshoot, ...
ArmInBounds ==
  /\ Bench \notin forced
  /\ effective[Bench] <= WindowCap
  /\ IF pc[Bench] = "running" THEN charged[Bench] <= Reach ELSE charged[Bench] = 0

\* ... every row of the harness is one of the ledger's, which has none in a window
\* to come, ...
RowsInLedger ==
  Ledgered => \A w \in 1 .. LastWindow :
    HarnessBooked(w) <= booked[w] /\ (w > window => booked[w] = 0)

\* ... and there is room in the window for what the arm may still charge.
RoomLeft ==
  Ledgered /\ pc[Bench] = "running" => HarnessBooked(window) + Reach <= WindowCap + Overshoot

CapInv == IsFiniteSet(Rows) /\ ArmInBounds /\ RowsInLedger /\ RoomLeft /\ HarnessKeepsCap

\* What the window has left caps the arm, whose rows are among the window's.
LEMMA RoomForArm ==
  ASSUME NEW cap \in Nat, NEW over \in Nat, NEW rows \in Nat, NEW others \in Nat,
         NEW ownForced \in Nat, NEW asked \in Nat, rows <= others, rows <= cap + over,
         NEW left, left = IF others + ownForced < cap THEN cap - (others + ownForced) ELSE 0,
         NEW eff, eff = IF asked < left THEN asked ELSE left
  PROVE  /\ eff \in Nat /\ eff <= cap
         /\ rows + (IF eff = 0 THEN 0 ELSE eff + over) <= cap + over
<1>1. CASE others + ownForced < cap
  BY <1>1
<1>2. CASE ~ (others + ownForced < cap)
  BY <1>2
<1> QED
  BY <1>1, <1>2

LEMMA ArmStarts ==
  ASSUME TypeOK, CapInv, Ledgered, NEW asked \in Nat,
         effective' = [effective EXCEPT ![Bench] = CR!Smaller(asked, CR!WindowRemaining)]
  PROVE  /\ effective'[Bench] <= WindowCap
         /\ HarnessBooked(window) + Reach' <= WindowCap + Overshoot
<1>1. /\ window \in 1 .. LastWindow /\ booked[window] \in Nat /\ forcedBooked[window] \in Nat
      /\ HarnessBooked(window) \in Nat
  BY BookedType DEF TypeOK, CR!TypeOK, CR!Windows, CapInv
<1>2. HarnessBooked(window) <= booked[window] /\ HarnessBooked(window) <= WindowCap + Overshoot
  <2>1. RowsInLedger /\ HarnessKeepsCap
    BY DEF CapInv
  <2>2. HarnessBooked(window) <= booked[window]
    BY <1>1, <2>1 DEF RowsInLedger
  <2>3. HarnessBooked(window) <= WindowCap + Overshoot
    BY <1>1, <2>1 DEF HarnessKeepsCap
  <2> QED
    BY <2>2, <2>3
<1>3. effective'[Bench] = CR!Smaller(asked, CR!WindowRemaining)
  BY BenchIsProcess DEF TypeOK, CR!TypeOK
<1>4. CR!WindowRemaining = IF booked[window] + forcedBooked[window] < WindowCap
                           THEN WindowCap - (booked[window] + forcedBooked[window]) ELSE 0
  BY DEF CR!WindowRemaining
<1>5. effective'[Bench] = IF asked < CR!WindowRemaining THEN asked ELSE CR!WindowRemaining
  BY <1>3 DEF CR!Smaller
<1>6. /\ effective'[Bench] <= WindowCap
      /\ HarnessBooked(window) + (IF effective'[Bench] = 0 THEN 0 ELSE effective'[Bench] + Overshoot)
           <= WindowCap + Overshoot
  BY <1>1, <1>2, <1>4, <1>5, RoomForArm, CapsAssumption, SMTT(40)
<1> QED
  BY <1>6 DEF Reach

\* The ledger's rows only grow, and in the window of the moment.
Grown ==
  /\ window' = window
  /\ \A w \in 1 .. LastWindow :
       /\ booked'[w] \in Nat /\ booked[w] <= booked'[w]
       /\ w > window => booked'[w] = booked[w]

LEMMA BooksGrow ==
  ASSUME CR!TypeOK, NEW p \in Processes, CR!Process(p)
  PROVE  Grown
<1>1. /\ window \in 1 .. LastWindow /\ booked \in [1 .. LastWindow -> Nat]
      /\ LastWindow \in Nat /\ charged[p] \in Nat
  BY BoundsAssumption DEF CR!TypeOK, CR!Windows
<1>2. ASSUME CR!RecordRow(charged[p]) PROVE Grown
  <2>1. window' = window /\ booked' = [booked EXCEPT ![window] = booked[window] + charged[p]]
    BY <1>2 DEF CR!RecordRow
  <2> QED
    BY <1>1, <2>1 DEF Grown
<1>3. ASSUME UNCHANGED << window, booked >> PROVE Grown
  BY <1>1, <1>3 DEF Grown
<1>4. CASE CR!Returns(p) \/ CR!ArmReturns(p)
  BY <1>2, <1>4 DEF CR!Returns, CR!ArmReturns
<1>5. CASE CR!ForcedReturns(p)
  BY <1>3, <1>5 DEF CR!ForcedReturns, CR!ForceRecord
<1>6. CASE CR!Admit(p) \/ CR!AdmitForced(p) \/ CR!Charge(p)
  BY <1>3, <1>6 DEF CR!Admit, CR!AdmitForced, CR!Charge, CR!ledgerVars
<1>7. CASE CR!ReRead(p) \/ CR!HarnessEnds(p) \/ CR!Breaks(p)
  BY <1>3, <1>7 DEF CR!ReRead, CR!HarnessEnds, CR!Breaks, CR!ledgerVars
<1> QED
  BY <1>4, <1>5, <1>6, <1>7 DEF CR!Process

\* A step without a record leaves the rows as they are.
LEMMA RowsKept ==
  ASSUME IsFiniteSet(Rows), UNCHANGED records
  PROVE  IsFiniteSet(Rows') /\ \A w : HarnessBooked(w)' = HarnessBooked(w)
<1>1. Rows' = Rows
  BY DEF Rows, ArmNames
<1>2. Costs' = Costs
  BY <1>1 DEF Costs, Row
<1>3. \A w : RowsOf(w)' = RowsOf(w)
  BY <1>1 DEF RowsOf, Row
<1>4. BookedAsSum'
  BY BookedIsSum, PTL
<1> QED
  BY <1>1, <1>2, <1>3, <1>4, BookedIsSum DEF BookedAsSum

\* A step of another process, or of the calendar, or of the harness, that leaves
\* the harness's arm and rows alone.
LEMMA CapKept ==
  ASSUME TypeOK, CapInv, UNCHANGED records, Ledgered' <=> Ledgered, Apart, Grown
  PROVE  CapInv'
<1>1. /\ IsFiniteSet(Rows) /\ ArmInBounds /\ RowsInLedger /\ RoomLeft /\ HarnessKeepsCap
      /\ \A w : HarnessBooked(w) \in Nat
  BY BookedType DEF CapInv
<1>2. IsFiniteSet(Rows') /\ \A w : HarnessBooked(w)' = HarnessBooked(w)
  BY <1>1, RowsKept
<1>3. ArmInBounds' /\ Reach' = Reach
  BY <1>1 DEF ArmInBounds, Reach, Apart
<1>4. ASSUME Ledgered, NEW w \in 1 .. LastWindow
      PROVE  HarnessBooked(w)' <= booked'[w] /\ (w > window' => booked'[w] = 0)
  <2>1. HarnessBooked(w) <= booked[w] /\ booked[w] <= booked'[w] /\ booked'[w] \in Nat
    BY <1>1, <1>4 DEF RowsInLedger, Grown
  <2>2. booked[w] \in Nat /\ HarnessBooked(w) \in Nat /\ HarnessBooked(w)' = HarnessBooked(w)
    BY <1>1, <1>2 DEF TypeOK, CR!TypeOK, CR!Windows
  <2>3. w > window' => booked'[w] = 0
    BY <1>1, <1>4 DEF RowsInLedger, Grown
  <2> QED
    BY <2>1, <2>2, <2>3
<1>5. RowsInLedger'
  BY <1>4 DEF RowsInLedger
<1>6. RoomLeft'
  BY <1>1, <1>2, <1>3 DEF RoomLeft, Apart, Grown
<1>7. HarnessKeepsCap'
  BY <1>1, <1>2 DEF HarnessKeepsCap
<1> QED
  BY <1>2, <1>3, <1>5, <1>6, <1>7 DEF CapInv

\* Midnight: the arm at work has the whole of a new window for its row.
LEMMA CapAtMidnight ==
  ASSUME TypeOK, CapInv, CR!NextWindow, UNCHANGED records, Ledgered' <=> Ledgered
  PROVE  CapInv'
<1>1. /\ IsFiniteSet(Rows) /\ ArmInBounds /\ RowsInLedger /\ RoomLeft /\ HarnessKeepsCap
      /\ \A w : HarnessBooked(w) \in Nat
  BY BookedType DEF CapInv
<1>2. IsFiniteSet(Rows') /\ \A w : HarnessBooked(w)' = HarnessBooked(w)
  BY <1>1, RowsKept
<1>3. /\ pc' = pc /\ forced' = forced /\ effective' = effective /\ charged' = charged
      /\ booked' = booked
      /\ window \in 1 .. LastWindow /\ LastWindow \in Nat /\ window < LastWindow
      /\ window' = window + 1
  BY BoundsAssumption DEF CR!NextWindow, CR!procVars, TypeOK, CR!TypeOK, CR!Windows
<1>4. ArmInBounds' /\ Reach' = Reach
  BY <1>1, <1>3 DEF ArmInBounds, Reach
<1>5. RowsInLedger'
  BY <1>1, <1>2, <1>3 DEF RowsInLedger
<1>6. RoomLeft'
  <2> SUFFICES ASSUME Ledgered, pc[Bench] = "running", NEW next, next = window'
               PROVE  HarnessBooked(next) + Reach <= WindowCap + Overshoot
    BY <1>2, <1>3, <1>4 DEF RoomLeft
  <2>1. next \in 1 .. LastWindow /\ next > window
    BY <1>3
  <2>2. HarnessBooked(next) <= booked[next] /\ booked[next] = 0
    BY <1>1, <2>1 DEF RowsInLedger
  <2>3. HarnessBooked(next) \in Nat
    BY <1>1
  <2>4. Reach <= WindowCap + Overshoot /\ Reach \in Nat
    BY <1>1, BenchIsProcess, CapsAssumption DEF Reach, ArmInBounds, TypeOK, CR!TypeOK
  <2> QED
    BY <2>2, <2>3, <2>4
<1>7. HarnessKeepsCap'
  BY <1>1, <1>2 DEF HarnessKeepsCap
<1> QED
  BY <1>2, <1>4, <1>5, <1>6, <1>7 DEF CapInv

\* An arm's row takes no more than the room there was.
LEMMA CapWithRow ==
  ASSUME TypeOK, CapInv, NEW rec, Recorded(rec), rec.cost = charged[Bench], Ledgered,
         Ledgered' <=> Ledgered, CR!ArmReturns(Bench)
  PROVE  CapInv'
<1>1. /\ IsFiniteSet(Rows) /\ ArmInBounds /\ RowsInLedger /\ RoomLeft /\ HarnessKeepsCap
      /\ \A w : HarnessBooked(w) \in Nat
  BY BookedType DEF CapInv
<1>2. /\ pc[Bench] = "running" /\ pc'[Bench] = "reread" /\ charged'[Bench] = 0
      /\ forced' = forced /\ effective' = effective /\ window' = window
      /\ booked' = [booked EXCEPT ![window] = booked[window] + charged[Bench]]
  BY BenchIsProcess DEF CR!ArmReturns, CR!RecordRow, TypeOK, CR!TypeOK
<1>3. /\ window \in 1 .. LastWindow /\ LastWindow \in Nat /\ charged[Bench] \in Nat
      /\ booked \in [1 .. LastWindow -> Nat] /\ effective[Bench] \in Nat
  BY BenchIsProcess, BoundsAssumption DEF TypeOK, CR!TypeOK, CR!Windows
<1>4. /\ IsFiniteSet(Rows')
      /\ \A w : HarnessBooked(w)' = HarnessBooked(w) + (IF window = w THEN charged[Bench] ELSE 0)
  BY <1>1, BookedGrows DEF Recorded
<1>5. ArmInBounds'
  BY <1>1, <1>2 DEF ArmInBounds
<1>6. RowsInLedger'
  <2>1. ASSUME NEW w \in 1 .. LastWindow
        PROVE  HarnessBooked(w)' <= booked'[w] /\ (w > window' => booked'[w] = 0)
    <3>1. /\ HarnessBooked(w) <= booked[w] /\ (w > window => booked[w] = 0)
          /\ HarnessBooked(w) \in Nat /\ booked[w] \in Nat
      BY <1>1, <1>3 DEF RowsInLedger
    <3>2. CASE w = window
      BY <1>2, <1>3, <1>4, <3>1, <3>2
    <3>3. CASE w # window
      BY <1>2, <1>3, <1>4, <3>1, <3>3
    <3> QED
      BY <3>2, <3>3
  <2> QED
    BY <2>1 DEF RowsInLedger
<1>7. RoomLeft'
  BY <1>2 DEF RoomLeft
<1>8. HarnessKeepsCap'
  <2>1. ASSUME NEW w \in 1 .. LastWindow PROVE HarnessBooked(w)' <= WindowCap + Overshoot
    <3>1. HarnessBooked(w) <= WindowCap + Overshoot /\ HarnessBooked(w) \in Nat
      BY <1>1 DEF HarnessKeepsCap
    <3>2. /\ HarnessBooked(window) + Reach <= WindowCap + Overshoot
          /\ HarnessBooked(window) \in Nat
          /\ charged[Bench] <= Reach /\ Reach \in Nat
      BY <1>1, <1>2, <1>3, CapsAssumption DEF RoomLeft, ArmInBounds, Reach
    <3>3. CASE w = window
      BY <1>3, <1>4, <3>2, <3>3, CapsAssumption
    <3>4. CASE w # window
      BY <1>4, <3>1, <3>4, CapsAssumption
    <3> QED
      BY <3>3, <3>4
  <2> QED
    BY <2>1 DEF HarnessKeepsCap
<1> QED
  BY <1>4, <1>5, <1>6, <1>7, <1>8 DEF CapInv

\* An arm starts, first or after the one before it, under what the window has left.
LEMMA CapAtStart ==
  ASSUME TypeOK, CapInv, UNCHANGED records, Ledgered, Ledgered' <=> Ledgered,
         pc[Bench] # "running", CR!Admit(Bench) \/ CR!ReRead(Bench)
  PROVE  CapInv'
<1>1. /\ IsFiniteSet(Rows) /\ ArmInBounds /\ RowsInLedger /\ RoomLeft /\ HarnessKeepsCap
      /\ \A w : HarnessBooked(w) \in Nat
  BY BookedType DEF CapInv
<1>2. IsFiniteSet(Rows') /\ \A w : HarnessBooked(w)' = HarnessBooked(w)
  BY <1>1, RowsKept
<1>3. /\ pc'[Bench] = "running" /\ charged' = charged /\ forced' = forced
      /\ window' = window /\ booked' = booked
  BY BenchMoves DEF CR!Admit, CR!ReRead, CR!ledgerVars, TypeOK
<1>4. PICK asked \in Nat :
        effective' = [effective EXCEPT ![Bench] = CR!Smaller(asked, CR!WindowRemaining)]
  <2>1. budget[Bench] \in Nat
    BY BenchIsProcess DEF TypeOK, CR!TypeOK
  <2> QED
    BY <2>1, CapsAssumption DEF CR!Admit, CR!ReRead, CR!Starts
<1>5. /\ effective'[Bench] <= WindowCap
      /\ HarnessBooked(window) + Reach' <= WindowCap + Overshoot
  BY <1>4, ArmStarts
<1>6. effective'[Bench] \in Nat /\ Reach' \in Nat
  <2>1. CR!Smaller(asked, CR!WindowRemaining) \in Nat
    BY RemainingType DEF CR!Smaller, TypeOK
  <2>2. effective'[Bench] \in Nat
    BY <1>4, <2>1, BenchIsProcess DEF TypeOK, CR!TypeOK
  <2> QED
    BY <2>2, CapsAssumption DEF Reach
<1>7. ArmInBounds'
  BY <1>1, <1>3, <1>5, <1>6 DEF ArmInBounds
<1>8. RowsInLedger' /\ HarnessKeepsCap'
  BY <1>1, <1>2, <1>3 DEF RowsInLedger, HarnessKeepsCap
<1>9. RoomLeft'
  BY <1>2, <1>3, <1>5 DEF RoomLeft
<1> QED
  BY <1>2, <1>7, <1>8, <1>9 DEF CapInv

\* A call is charged, or the harness ends, with its rows as they are.
LEMMA CapInArm ==
  ASSUME TypeOK, CapInv, UNCHANGED records, Ledgered' <=> Ledgered,
         CR!Charge(Bench) \/ CR!HarnessEnds(Bench) \/ CR!Breaks(Bench)
  PROVE  CapInv'
<1>1. /\ IsFiniteSet(Rows) /\ ArmInBounds /\ RowsInLedger /\ RoomLeft /\ HarnessKeepsCap
  BY DEF CapInv
<1>2. IsFiniteSet(Rows') /\ \A w : HarnessBooked(w)' = HarnessBooked(w)
  BY <1>1, RowsKept
<1>3. window' = window /\ booked' = booked
  BY DEF CR!Charge, CR!HarnessEnds, CR!Breaks, CR!ledgerVars
<1>4. RowsInLedger' /\ HarnessKeepsCap'
  BY <1>1, <1>2, <1>3 DEF RowsInLedger, HarnessKeepsCap
<1>5. CASE CR!Charge(Bench)
  <2>1. PICK c \in 1 .. effective[Bench] + Overshoot - charged[Bench] :
          charged' = [charged EXCEPT ![Bench] = @ + c]
    BY <1>5 DEF CR!Charge
  <2>2. /\ pc' = pc /\ forced' = forced /\ effective' = effective
        /\ pc[Bench] = "running" /\ effective[Bench] > 0
    BY <1>5 DEF CR!Charge
  <2>3. /\ charged'[Bench] = charged[Bench] + c /\ charged[Bench] \in Nat
        /\ effective[Bench] \in Nat
    BY <2>1, BenchIsProcess DEF TypeOK, CR!TypeOK
  <2>4. Reach' = Reach /\ Reach = effective[Bench] + Overshoot
    BY <2>2, <2>3 DEF Reach
  <2>5. charged'[Bench] <= Reach
    BY <2>1, <2>3, <2>4, CapsAssumption
  <2>6. ArmInBounds'
    BY <1>1, <2>2, <2>4, <2>5 DEF ArmInBounds
  <2>7. RoomLeft'
    BY <1>1, <1>2, <1>3, <2>2, <2>4 DEF RoomLeft
  <2> QED
    BY <1>2, <1>4, <2>6, <2>7 DEF CapInv
<1>6. CASE CR!HarnessEnds(Bench) \/ CR!Breaks(Bench)
  <2>1. CR!Ends(Bench)
    BY <1>6 DEF CR!HarnessEnds, CR!Breaks
  <2>2. /\ pc'[Bench] = "idle" /\ forced' = forced \ {Bench}
        /\ effective'[Bench] = 0 /\ charged'[Bench] = 0
    BY <2>1, BenchIsProcess DEF CR!Ends, TypeOK, CR!TypeOK
  <2>3. ArmInBounds' /\ RoomLeft'
    BY <2>2, CapsAssumption DEF ArmInBounds, RoomLeft
  <2> QED
    BY <1>2, <1>4, <2>3 DEF CapInv
<1> QED
  BY <1>5, <1>6

LEMMA CapStep ==
  ASSUME BenchInv, CapInv, [Next]_vars
  PROVE  CapInv'
<1>1. TypeOK /\ LoopInv /\ CR!TypeOK
  BY DEF BenchInv, TypeOK
<1>2. Ledgered' <=> Ledgered
  BY DEF Ledgered, Next, Harness, Others, Rest, Refuse, Start, ArmCharges, ArmReturns,
         LookAgain, ArmUnledgered, Finish, Break, benchVars, inputs, vars
<1>3. ASSUME UNCHANGED << records, window, booked, pc, charged, effective, forced >> PROVE CapInv'
  <2>1. Apart
    BY <1>3 DEF Apart
  <2>2. window \in 1 .. LastWindow /\ booked \in [1 .. LastWindow -> Nat]
    BY <1>1 DEF CR!TypeOK, CR!Windows
  <2>3. \A w \in 1 .. LastWindow : booked'[w] \in Nat /\ booked[w] <= booked'[w]
    BY <1>3, <2>2
  <2>4. Grown
    BY <1>3, <2>3 DEF Grown
  <2> QED
    BY <1>1, <1>2, <1>3, <2>1, <2>4, CapKept
<1>4. CASE Refuse \/ Finish \/ Rest \/ UNCHANGED vars
  BY <1>3, <1>4 DEF Refuse, Finish, Rest, vars, crossRunVars, ledgerVars, processVars,
                    benchVars, loopVars
<1>5. CASE Start
  <2>1. records' = records /\ pc[Bench] # "running"
    BY <1>1, <1>5 DEF Start, LoopInv, loopVars
  <2>2. CASE Ledgered /\ ~AllDone
    BY <1>1, <1>2, <1>5, <2>1, <2>2, CapAtStart DEF Start
  <2>3. CASE ~(Ledgered /\ ~AllDone)
    BY <1>3, <1>5, <2>1, <2>3 DEF Start, ledgerVars
  <2> QED
    BY <2>2, <2>3
<1>6. CASE ArmCharges
  BY <1>1, <1>2, <1>6, CapInArm DEF ArmCharges, benchVars, loopVars
<1>7. CASE LookAgain
  <2>1. records' = records /\ phase = "arms"
    BY <1>7 DEF LookAgain, benchVars, loopVars
  <2>2. CASE AllDone
    BY <1>1, <1>2, <1>7, <2>1, <2>2, CapInArm DEF LookAgain
  <2>3. CASE ~AllDone
    <3>1. CR!ReRead(Bench) /\ pc[Bench] = "reread"
      BY <1>1, <1>7, <2>3, BenchMoves DEF LookAgain
    <3>2. Ledgered
      BY <1>1, <3>1 DEF LoopInv
    <3> QED
      BY <1>1, <1>2, <2>1, <3>1, <3>2, CapAtStart
  <2> QED
    BY <2>2, <2>3
<1>8. CASE Break
  <2>1. records' = records
    BY <1>8 DEF Break, loopVars
  <2>2. CASE CR!Breaks(Bench) \/ CR!HarnessEnds(Bench)
    BY <1>1, <1>2, <2>1, <2>2, CapInArm
  <2>3. CASE UNCHANGED crossRunVars
    BY <1>3, <2>1, <2>3 DEF crossRunVars, ledgerVars, processVars
  <2> QED
    BY <1>8, <2>2, <2>3 DEF Break
<1>9. CASE ArmReturns
  <2>1. Ledgered /\ CR!ArmReturns(Bench) /\ phase = "arms"
    BY <1>9 DEF ArmReturns
  <2>2. ArmRecorded(effective[Bench], charged[Bench])
    BY <1>9 DEF ArmReturns
  <2>3. Ready /\ ~AllDone
    BY <1>1, <2>1, BenchMoves DEF LoopInv
  <2>4. charged[Bench] \in Nat
    BY <1>1, BenchIsProcess DEF CR!TypeOK
  <2>5. PICK rec : Recorded(rec) /\ rec.cost = charged[Bench]
    BY <1>1, <2>2, <2>3, <2>4, ArmLeavesRecord
  <2> QED
    BY <1>1, <1>2, <2>1, <2>5, CapWithRow
<1>10. CASE ArmUnledgered
  <2>1. /\ ~Ledgered /\ ~AllDone /\ Ready /\ UNCHANGED crossRunVars /\ pc[Bench] # "running"
    BY <1>1, <1>10 DEF ArmUnledgered, LoopInv
  <2>2. PICK cost \in 0 .. budget[Bench] + Overshoot : ArmRecorded(budget[Bench], cost)
    BY <1>10 DEF ArmUnledgered
  <2>3. cost \in Nat
    BY <1>1, BenchIsProcess, CapsAssumption DEF CR!TypeOK
  <2>4. PICK rec : Recorded(rec)
    BY <1>1, <2>1, <2>2, <2>3, ArmLeavesRecord
  <2>5. IsFiniteSet(Rows')
    BY <1>1, <2>4, BookedGrows DEF CapInv
  <2>6. ArmInBounds'
    BY <2>1 DEF CapInv, ArmInBounds, Reach, crossRunVars, processVars
  <2>7. RowsInLedger' /\ RoomLeft' /\ HarnessKeepsCap'
    BY <1>2, <2>1 DEF RowsInLedger, RoomLeft, HarnessKeepsCap
  <2> QED
    BY <2>5, <2>6, <2>7 DEF CapInv
<1>11. CASE Others
  <2>1. records' = records
    BY <1>11 DEF Others, benchVars, loopVars
  <2>2. CASE CR!NextWindow
    BY <1>1, <1>2, <2>1, <2>2, CapAtMidnight
  <2>3. ASSUME NEW p \in Processes \ {Bench}, CR!Process(p) PROVE CapInv'
    <3>1. Apart /\ Grown
      BY <1>1, <2>3, OthersApart, BooksGrow
    <3> QED
      BY <1>1, <1>2, <2>1, <3>1, CapKept
  <2> QED
    BY <1>11, <2>2, <2>3 DEF Others
<1> QED
  BY <1>4, <1>5, <1>6, <1>7, <1>8, <1>9, <1>10, <1>11 DEF Next, Harness

\* "The four arms cannot collectively breach the cap" (runner.py run) but for one
\* call over: however many arms the harness runs, whatever other processes record in
\* the same window and wherever the window ends, its rows of a window stay within
\* one overshoot of the cap.
THEOREM HarnessStaysInCap == Spec => []HarnessKeepsCap
<1>1. Init => CapInv
  <2> SUFFICES ASSUME Init PROVE CapInv
    OBVIOUS
  <2>1. Rows = {}
    BY DEF Init, Rows, ArmNames
  <2>2. ArmInBounds /\ RoomLeft
    BY BenchIsProcess, CapsAssumption DEF Init, CR!Init, ArmInBounds, RoomLeft
  <2>3. \A w : HarnessBooked(w) = 0
    <3> TAKE w
    <3>1. RowsOf(w) = {}
      BY <2>1 DEF RowsOf
    <3> QED
      BY <3>1, BookedIsSum, SumOfNone DEF BookedAsSum
  <2>4. RowsInLedger
    BY <2>3 DEF Init, CR!Init, CR!Windows, RowsInLedger
  <2>5. HarnessKeepsCap
    BY <2>3, CapsAssumption DEF HarnessKeepsCap
  <2> QED
    BY <2>1, <2>2, <2>4, <2>5, FS_EmptySet DEF CapInv
<1>2. BenchInv /\ CapInv /\ [Next]_vars => CapInv'
  BY CapStep
<1>3. CapInv => HarnessKeepsCap
  BY DEF CapInv
<1> QED
  BY <1>1, <1>2, <1>3, BenchInvInductive, PTL DEF Spec

-----------------------------------------------------------------------------
(***************************************************************************)
(* The percentiles.                                                        *)
(***************************************************************************)
Lower(values, v)   == {i \in DOMAIN values : values[i] < v}
UpTo(values, v)    == {i \in DOMAIN values : values[i] <= v}

\* v is the k-th smallest of the values.
IsRanked(values, k, v) ==
  /\ v \in Nat
  /\ Cardinality(Lower(values, v)) < k /\ Cardinality(UpTo(values, v)) >= k

LEMMA SidesFinite ==
  ASSUME NEW values \in Seq(Nat), NEW v
  PROVE  /\ IsFiniteSet(DOMAIN values) /\ Cardinality(DOMAIN values) = Len(values)
         /\ Lower(values, v) \in SUBSET DOMAIN values /\ IsFiniteSet(Lower(values, v))
         /\ UpTo(values, v) \in SUBSET DOMAIN values /\ IsFiniteSet(UpTo(values, v))
         /\ Cardinality(Lower(values, v)) \in Nat /\ Cardinality(UpTo(values, v)) \in Nat
<1>1. DOMAIN values = 1 .. Len(values) /\ Len(values) \in Nat
  OBVIOUS
<1>2. IsFiniteSet(DOMAIN values) /\ Cardinality(DOMAIN values) = Len(values)
  <2>1. \A n \in Nat : IsFiniteSet(1 .. n) /\ Cardinality(1 .. n) = n
    BY FS_Interval
  <2> QED
    BY <1>1, <2>1
<1>3. Lower(values, v) \in SUBSET DOMAIN values /\ UpTo(values, v) \in SUBSET DOMAIN values
  BY DEF Lower, UpTo
<1> QED
  BY <1>2, <1>3, FS_Subset, FS_CardinalityType

\* The least number that k values do not exceed is the k-th smallest.
LEMMA RankedExists ==
  ASSUME NEW values \in Seq(Nat), NEW k \in 1 .. Len(values)
  PROVE  \E v \in Range(values) : IsRanked(values, k, v)
<1> DEFINE Enough == {v \in Nat : Cardinality(UpTo(values, v)) >= k}
           all    == SumOver(values, DOMAIN values)
<1>1. \A i \in DOMAIN values : values[i] \in Nat
  OBVIOUS
<1>2. IsFiniteSet(DOMAIN values) /\ Cardinality(DOMAIN values) = Len(values)
  BY SidesFinite
<1>3. all \in Nat
  BY <1>1, <1>2, SumType
<1>4. \A i \in DOMAIN values : values[i] <= all
  <2> DEFINE D == DOMAIN values
  <2>1. IsFiniteSet(D) /\ \A i \in D : values[i] \in Nat
    BY <1>1, <1>2
  <2> HIDE DEF D
  <2>2. \A i \in D : /\ SumOver(values, D \ {i}) \in Nat
                      /\ SumOver(values, D) = values[i] + SumOver(values, D \ {i})
    BY <2>1, SumSplit, ZenonT(60)
  <2>3. \A a, b \in Nat : a <= a + b
    OBVIOUS
  <2>4. \A i \in D : values[i] <= SumOver(values, D)
    BY <2>1, <2>2, <2>3
  <2> QED
    BY <2>4 DEF D
<1>5. UpTo(values, all) = DOMAIN values
  BY <1>4 DEF UpTo
<1>6. Enough \in SUBSET Nat /\ all \in Enough
  BY <1>2, <1>3, <1>5
<1>7. PICK v \in Enough : \A u \in Enough : v <= u
  <2> HIDE DEF Enough
  <2> QED
    BY <1>6, LeastNumber
<1>8. v \in Nat /\ Cardinality(UpTo(values, v)) >= k
  OBVIOUS
<1>9. Cardinality(Lower(values, v)) < k
  <2>1. CASE v = 0
    <3>1. Lower(values, v) = {}
      BY <1>1, <2>1 DEF Lower
    <3> QED
      BY <3>1, FS_EmptySet
  <2>2. CASE v # 0
    <3>1. v - 1 \in Nat /\ v - 1 < v
      BY <1>8, <2>2
    <3>2. v - 1 \notin Enough
      BY <1>7, <1>8, <3>1
    <3>3. Lower(values, v) = UpTo(values, v - 1)
      BY <1>1, <1>8, <3>1 DEF Lower, UpTo
    <3>4. Cardinality(UpTo(values, v - 1)) \in Nat
      BY SidesFinite
    <3> QED
      BY <3>1, <3>2, <3>3, <3>4
  <2> QED
    BY <2>1, <2>2
<1>10. v \in Range(values)
  <2> SUFFICES ASSUME v \notin Range(values) PROVE FALSE
    OBVIOUS
  <2>1. Lower(values, v) = UpTo(values, v)
    BY <1>1, <1>8 DEF Lower, UpTo, Range
  <2>2. Cardinality(UpTo(values, v)) \in Nat
    BY SidesFinite
  <2> QED
    BY <1>8, <1>9, <2>1, <2>2
<1> QED
  BY <1>8, <1>9, <1>10 DEF IsRanked

LEMMA RankedIsRanked ==
  ASSUME NEW values \in Seq(Nat), NEW k \in 1 .. Len(values)
  PROVE  IsRanked(values, k, Ranked(values, k))
<1>1. \A v \in Range(values) : v \in Nat
  BY DEF Range
<1> QED
  BY <1>1, RankedExists DEF IsRanked, Ranked, Lower, UpTo

\* A lower rank has no larger value.
LEMMA RanksInOrder ==
  ASSUME NEW values \in Seq(Nat), NEW j \in 1 .. Len(values), NEW k \in 1 .. Len(values), j <= k
  PROVE  Ranked(values, j) <= Ranked(values, k)
<1> DEFINE u == Ranked(values, j)
           v == Ranked(values, k)
<1>1. IsRanked(values, j, u) /\ IsRanked(values, k, v)
  BY RankedIsRanked
<1> HIDE DEF u, v
<1> SUFFICES ASSUME v < u PROVE FALSE
  BY <1>1 DEF u, v, IsRanked
<1>2. UpTo(values, v) \in SUBSET Lower(values, u)
  BY <1>1 DEF UpTo, Lower, IsRanked
<1>3. Cardinality(UpTo(values, v)) <= Cardinality(Lower(values, u))
  BY <1>2, SidesFinite, FS_Subset
<1> QED
  BY <1>1, <1>3, SidesFinite DEF IsRanked

\* In hundredths: the runs over x, and those under it.
Over(values, x)  == {i \in DOMAIN values : 100 * values[i] > x}
Under(values, x) == {i \in DOMAIN values : 100 * values[i] < x}

LEMMA OverRank ==
  ASSUME NEW values \in Seq(Nat), NEW k \in 1 .. Len(values), NEW x \in Int,
         100 * Ranked(values, k) <= x
  PROVE  Cardinality(Over(values, x)) \in Nat /\ Cardinality(Over(values, x)) <= Len(values) - k
<1> DEFINE v    == Ranked(values, k)
           rest == DOMAIN values \ UpTo(values, v)
<1>1. IsRanked(values, k, v)
  BY RankedIsRanked
<1>2. /\ IsFiniteSet(DOMAIN values) /\ Cardinality(DOMAIN values) = Len(values)
      /\ UpTo(values, v) \in SUBSET DOMAIN values /\ Cardinality(UpTo(values, v)) \in Nat
      /\ Len(values) \in Nat
  BY SidesFinite
<1>3. IsFiniteSet(rest) /\ Cardinality(rest) = Len(values) - Cardinality(UpTo(values, v))
  <2>1. DOMAIN values \cap UpTo(values, v) = UpTo(values, v)
    BY <1>2
  <2>2. /\ IsFiniteSet(DOMAIN values \ UpTo(values, v))
        /\ Cardinality(DOMAIN values \ UpTo(values, v))
             = Cardinality(DOMAIN values) - Cardinality(DOMAIN values \cap UpTo(values, v))
    BY <1>2, FS_Difference
  <2> QED
    BY <1>2, <2>1, <2>2
<1>4. Over(values, x) \in SUBSET rest
  <2>1. v \in Nat /\ \A i \in DOMAIN values : values[i] \in Nat
    BY <1>1 DEF IsRanked
  <2> HIDE DEF v
  <2>2. \A i \in DOMAIN values : 100 * values[i] > x => ~ (values[i] <= v)
    BY <2>1 DEF v
  <2> QED
    BY <2>2 DEF Over, UpTo
<1>5. Cardinality(Over(values, x)) \in Nat /\ Cardinality(Over(values, x)) <= Cardinality(rest)
  BY <1>3, <1>4, FS_Subset, FS_CardinalityType
<1> HIDE DEF v, rest
<1> QED
  BY <1>1, <1>2, <1>3, <1>5 DEF IsRanked

LEMMA UnderRank ==
  ASSUME NEW values \in Seq(Nat), NEW k \in 1 .. Len(values), NEW x \in Int,
         x <= 100 * Ranked(values, k)
  PROVE  Cardinality(Under(values, x)) \in Nat /\ Cardinality(Under(values, x)) < k
<1> DEFINE v == Ranked(values, k)
<1>1. IsRanked(values, k, v)
  BY RankedIsRanked
<1>2. /\ IsFiniteSet(Lower(values, v)) /\ Cardinality(Lower(values, v)) \in Nat
  BY SidesFinite
<1>3. Under(values, x) \in SUBSET Lower(values, v)
  <2>1. v \in Nat /\ \A i \in DOMAIN values : values[i] \in Nat
    BY <1>1 DEF IsRanked
  <2> HIDE DEF v
  <2>2. \A i \in DOMAIN values : 100 * values[i] < x => values[i] < v
    BY <2>1 DEF v
  <2> QED
    BY <2>2 DEF Under, Lower
<1>4. /\ Cardinality(Under(values, x)) \in Nat
      /\ Cardinality(Under(values, x)) <= Cardinality(Lower(values, v))
  BY <1>2, <1>3, FS_Subset, FS_CardinalityType
<1> HIDE DEF v
<1> QED
  BY <1>1, <1>2, <1>4 DEF IsRanked

Along(a, b, r)    == 100 * a + (b - a) * r
At(n, p, lo, r)   == (n - 1) * p = 100 * lo + r

\* A percentile is r hundredths of the way from one of the values, in order, to
\* the next.
Between(values, n, p, lo, hi, r) ==
  /\ lo \in 0 .. n - 1 /\ hi \in 0 .. n - 1 /\ lo <= hi /\ hi <= lo + 1
  /\ r \in 0 .. 99 /\ At(n, p, lo, r)
  /\ r > 0 => hi = lo + 1
  /\ hi = IF lo + 1 < n THEN lo + 1 ELSE n - 1
  /\ Ranked(values, lo + 1) \in Nat /\ Ranked(values, hi + 1) \in Nat
  /\ Ranked(values, lo + 1) <= Ranked(values, hi + 1)
  /\ Percentile(values, p) = Along(Ranked(values, lo + 1), Ranked(values, hi + 1), r)

LEMMA Hundredths ==
  ASSUME NEW k \in Nat
  PROVE  k \div 100 \in Nat /\ k % 100 \in 0 .. 99 /\ k = (100 * (k \div 100)) + (k % 100)
OBVIOUS

LEMMA PositionBounds ==
  ASSUME NEW n \in Nat, n > 0, NEW p \in {50, 95}, NEW lo \in Nat, NEW r \in 0 .. 99,
         (n - 1) * p = 100 * lo + r
  PROVE  lo <= n - 1 /\ (r > 0 => lo + 1 < n)
OBVIOUS

LEMMA PercentileBetween ==
  ASSUME NEW values \in Seq(Nat), NEW n, n = Len(values), n > 0, NEW p \in {50, 95}
  PROVE  \E lo, hi, r \in Nat : Between(values, n, p, lo, hi, r)
<1> DEFINE k  == (n - 1) * p
           lo == k \div 100
           hi == IF lo + 1 < n THEN lo + 1 ELSE n - 1
           r  == k % 100
<1>1. n \in Nat /\ k \in Nat
  OBVIOUS
<1>2. lo \in Nat /\ r \in 0 .. 99 /\ k = 100 * lo + r
  BY <1>1, Hundredths
<1>3. Percentile(values, p) = Along(Ranked(values, lo + 1), Ranked(values, hi + 1), r)
  BY DEF Percentile, Along
<1> HIDE DEF lo, r
<1>4. lo <= n - 1 /\ (r > 0 => lo + 1 < n)
  BY <1>1, <1>2, PositionBounds
<1>5. /\ hi \in Nat /\ lo <= hi /\ hi <= lo + 1 /\ hi <= n - 1 /\ (r > 0 => hi = lo + 1)
      /\ hi = IF lo + 1 < n THEN lo + 1 ELSE n - 1
  BY <1>1, <1>2, <1>4
<1> HIDE DEF hi
<1>6. lo + 1 \in 1 .. Len(values) /\ hi + 1 \in 1 .. Len(values) /\ lo + 1 <= hi + 1
  BY <1>1, <1>2, <1>4, <1>5
<1>7. /\ Ranked(values, lo + 1) \in Nat /\ Ranked(values, hi + 1) \in Nat
      /\ Ranked(values, lo + 1) <= Ranked(values, hi + 1)
  BY <1>6, RankedIsRanked, RanksInOrder DEF IsRanked
<1>8. r \in Nat /\ lo \in 0 .. n - 1 /\ hi \in 0 .. n - 1
  BY <1>1, <1>2, <1>4, <1>5
<1>9. At(n, p, lo, r)
  BY <1>2 DEF At
<1> HIDE DEF k
<1>10. Between(values, n, p, lo, hi, r)
  BY <1>2, <1>3, <1>5, <1>7, <1>8, <1>9 DEF Between
<1> QED
  BY <1>2, <1>5, <1>8, <1>10

LEMMA PartOfTheWay ==
  ASSUME NEW a \in Nat, NEW b \in Nat, a <= b, NEW r \in 0 .. 99
  PROVE  /\ Along(a, b, r) \in Int /\ 100 * a <= Along(a, b, r) /\ Along(a, b, r) <= 100 * b
         /\ r = 0 => Along(a, b, r) = 100 * a
         /\ \A s \in 0 .. r : Along(a, b, s) <= Along(a, b, r)
<1> DEFINE d == b - a
<1>1. d \in Nat /\ b = a + d
  OBVIOUS
<1> HIDE DEF d
<1>2. d * r \in Nat /\ d * r <= 100 * d
  <2>1. d * (100 - r) \in Nat /\ d * (100 - r) = 100 * d - d * r
    BY <1>1
  <2> QED
    BY <1>1, <2>1
<1>3. ASSUME NEW s \in 0 .. r PROVE d * s <= d * r
  <2>1. d * (r - s) \in Nat /\ d * (r - s) = d * r - d * s /\ d * s \in Nat
    BY <1>1
  <2> QED
    BY <1>2, <2>1
<1>4. b - a = d
  BY <1>1
<1> QED
  BY <1>1, <1>2, <1>3, <1>4 DEF Along

LEMMA MedianPosition ==
  ASSUME NEW n \in Nat, n > 0, NEW lo \in 0 .. n - 1, NEW hi \in 0 .. n - 1,
         NEW r \in 0 .. 99, hi <= lo + 1, At(n, 50, lo, r), NEW c \in Nat
  PROVE  /\ c <= n - (lo + 1) => 2 * c <= n
         /\ c < lo + 1 => 2 * c <= n
         /\ r > 0 /\ c < hi + 1 => 2 * c <= n
BY DEF At

LEMMA TailPosition ==
  ASSUME NEW n \in Nat, n > 0, NEW lo \in 0 .. n - 1, NEW r \in 0 .. 99,
         At(n, 95, lo, r), NEW c \in Nat, c <= n - (lo + 1)
  PROVE  20 * c <= n + 18
BY DEF At

\* At most half of the runs are over the median, and at most half under it.
LEMMA MedianSplits ==
  ASSUME NEW values \in Seq(Nat), NEW n, n = Len(values), n > 0
  PROVE  /\ 2 * Cardinality(Over(values, Percentile(values, 50))) <= n
         /\ 2 * Cardinality(Under(values, Percentile(values, 50))) <= n
<1>1. PICK lo, hi, r \in Nat : Between(values, n, 50, lo, hi, r)
  BY PercentileBetween
<1> DEFINE x == Percentile(values, 50)
           a == Ranked(values, lo + 1)
           b == Ranked(values, hi + 1)
<1>2. /\ n \in Nat /\ lo \in 0 .. n - 1 /\ hi \in 0 .. n - 1 /\ hi <= lo + 1 /\ r \in 0 .. 99
      /\ At(n, 50, lo, r)
      /\ a \in Nat /\ b \in Nat /\ a <= b /\ x = Along(a, b, r)
  BY <1>1 DEF Between
<1>3. lo + 1 \in 1 .. Len(values) /\ hi + 1 \in 1 .. Len(values)
  BY <1>2
<1> HIDE DEF x, a, b
<1>4. x \in Int /\ 100 * a <= x /\ x <= 100 * b /\ (r = 0 => x = 100 * a)
  BY <1>2, PartOfTheWay, ZenonT(60)
<1>5. Cardinality(Over(values, x)) \in Nat /\ Cardinality(Over(values, x)) <= n - (lo + 1)
  BY <1>3, <1>4, OverRank DEF a
<1>6. Cardinality(Under(values, x)) \in Nat /\ Cardinality(Under(values, x)) < hi + 1
  BY <1>3, <1>4, UnderRank DEF b
<1>7. r = 0 => Cardinality(Under(values, x)) < lo + 1
  <2> SUFFICES ASSUME r = 0 PROVE Cardinality(Under(values, x)) < lo + 1
    OBVIOUS
  <2>1. x <= 100 * a
    BY <1>2, <1>4
  <2> QED
    BY <1>3, <1>4, <2>1, UnderRank DEF a
<1>8. 2 * Cardinality(Over(values, x)) <= n
  BY <1>2, <1>5, MedianPosition
<1>9. 2 * Cardinality(Under(values, x)) <= n
  <2>1. CASE r = 0
    BY <1>2, <1>6, <1>7, <2>1, MedianPosition
  <2>2. CASE r > 0
    BY <1>2, <1>6, <2>2, MedianPosition
  <2> QED
    BY <1>2, <2>1, <2>2
<1> QED
  BY <1>8, <1>9 DEF x

\* About a twentieth of the runs are over the 95th percentile.
LEMMA TailSplits ==
  ASSUME NEW values \in Seq(Nat), NEW n, n = Len(values), n > 0
  PROVE  20 * Cardinality(Over(values, Percentile(values, 95))) <= n + 18
<1>1. PICK lo, hi, r \in Nat : Between(values, n, 95, lo, hi, r)
  BY PercentileBetween
<1> DEFINE x == Percentile(values, 95)
           a == Ranked(values, lo + 1)
           b == Ranked(values, hi + 1)
<1>2. /\ n \in Nat /\ lo \in 0 .. n - 1 /\ r \in 0 .. 99
      /\ At(n, 95, lo, r)
      /\ a \in Nat /\ b \in Nat /\ a <= b /\ x = Along(a, b, r)
  BY <1>1 DEF Between
<1>3. lo + 1 \in 1 .. Len(values)
  BY <1>2
<1> HIDE DEF x, a, b
<1>4. x \in Int /\ 100 * a <= x
  BY <1>2, PartOfTheWay
<1>5. Cardinality(Over(values, x)) \in Nat /\ Cardinality(Over(values, x)) <= n - (lo + 1)
  BY <1>3, <1>4, OverRank DEF a
<1> QED
  BY <1>2, <1>5, TailPosition DEF x

LEMMA PositionsInOrder ==
  ASSUME NEW n \in Nat, n > 0, NEW lo \in 0 .. n - 1, NEW r \in 0 .. 99,
         NEW lo2 \in 0 .. n - 1, NEW r2 \in 0 .. 99,
         At(n, 50, lo, r), At(n, 95, lo2, r2)
  PROVE  lo <= lo2 /\ (lo = lo2 => r <= r2)
BY DEF At

LEMMA PercentilesInOrder ==
  ASSUME NEW values \in Seq(Nat), NEW n, n = Len(values), n > 0
  PROVE  Percentile(values, 50) <= Percentile(values, 95)
<1>1. PICK lo, hi, r \in Nat : Between(values, n, 50, lo, hi, r)
  BY PercentileBetween
<1>2. PICK lo2, hi2, r2 \in Nat : Between(values, n, 95, lo2, hi2, r2)
  BY PercentileBetween
<1> DEFINE x == Percentile(values, 50)
           y == Percentile(values, 95)
           a == Ranked(values, lo + 1)
           b == Ranked(values, hi + 1)
           c == Ranked(values, lo2 + 1)
           d == Ranked(values, hi2 + 1)
<1>3. /\ n \in Nat /\ lo \in 0 .. n - 1 /\ hi \in 0 .. n - 1 /\ r \in 0 .. 99
      /\ At(n, 50, lo, r) /\ hi <= lo + 1
      /\ hi = IF lo + 1 < n THEN lo + 1 ELSE n - 1
      /\ a \in Nat /\ b \in Nat /\ a <= b /\ x = Along(a, b, r)
  BY <1>1 DEF Between
<1>4. /\ lo2 \in 0 .. n - 1 /\ hi2 \in 0 .. n - 1 /\ r2 \in 0 .. 99
      /\ At(n, 95, lo2, r2)
      /\ hi2 = IF lo2 + 1 < n THEN lo2 + 1 ELSE n - 1
      /\ c \in Nat /\ d \in Nat /\ c <= d /\ y = Along(c, d, r2)
  BY <1>2 DEF Between
<1>5. lo <= lo2 /\ (lo = lo2 => r <= r2)
  BY <1>3, <1>4, PositionsInOrder, ZenonT(60)
<1> HIDE DEF x, y, a, b, c, d
<1>6. CASE lo = lo2
  <2>1. c = a /\ d = b
    BY <1>3, <1>4, <1>6 DEF a, b, c, d
  <2>2. r \in 0 .. r2 /\ y = Along(a, b, r2)
    BY <1>3, <1>4, <1>5, <1>6, <2>1
  <2>3. \A s \in 0 .. r2 : Along(a, b, s) <= Along(a, b, r2)
    BY <1>3, <1>4, PartOfTheWay
  <2> QED
    BY <1>3, <2>2, <2>3 DEF x, y
<1>7. CASE lo # lo2
  <2>1. hi + 1 \in 1 .. Len(values) /\ lo2 + 1 \in 1 .. Len(values) /\ hi + 1 <= lo2 + 1
    BY <1>3, <1>4, <1>5, <1>7
  <2>2. b <= c
    BY <2>1, RanksInOrder DEF b, c
  <2>3. x \in Int /\ x <= 100 * b
    BY <1>3, PartOfTheWay
  <2>4. y \in Int /\ 100 * c <= y
    BY <1>4, PartOfTheWay
  <2>5. b \in Nat /\ c \in Nat
    BY <1>3, <1>4
  <2>6. x <= y
    BY <2>2, <2>3, <2>4, <2>5
  <2> QED
    BY <2>6 DEF x, y
<1> QED
  BY <1>6, <1>7

\* Whatever the runs cost and however many there are, the percentiles of a report
\* split them as their names say: no more than half of the runs are over the p50 and
\* no more than half under it, about a twentieth over the p95, which is not below the
\* p50 (runner.py _percentile, summarise_arm).
THEOREM PercentilesAlwaysSplit == Spec => []PercentilesSplit
<1>1. BenchInv => PercentilesSplit
  <2> SUFFICES ASSUME BenchInv, phase = "written", NEW i \in DOMAIN Arms
               PROVE  LET s == payload.summary[i]
                          costs == Measured(records[Arms[i]])
                          Above(x) == Cardinality({k \in DOMAIN costs : 100 * costs[k] > x})
                          Below(x) == Cardinality({k \in DOMAIN costs : 100 * costs[k] < x})
                      IN  /\ s.p50 <= s.p95
                          /\ 2 * Above(s.p50) <= s.n /\ 2 * Below(s.p50) <= s.n
                          /\ 20 * Above(s.p95) <= s.n + 18
    BY DEF PercentilesSplit
  <2> DEFINE recs  == records[Arms[i]]
             costs == Measured(recs)
             s     == SummariseArm(recs)
  <2>1. payload.summary[i] = s
    BY DEF BenchInv, ReportInv, Report
  <2>2. recs \in Seq(Record)
    BY DEF BenchInv, TypeOK, ArmNames, Range
  <2>3. \A k \in 1 .. Len(recs) : recs[k].cost \in Nat
    <3>1. \A k \in 1 .. Len(recs) : recs[k] \in Record
      BY <2>2
    <3> QED
      BY <3>1 DEF Record
  <2>4. costs \in Seq(Nat) /\ Len(costs) = Len(recs)
    BY <2>2, <2>3 DEF Measured
  <2>5. /\ s.n = Len(recs)
        /\ s.p50 = IF recs = << >> THEN 0 ELSE Percentile(costs, 50)
        /\ s.p95 = IF recs = << >> THEN 0 ELSE Percentile(costs, 95)
    BY DEF SummariseArm
  <2>6. Len(recs) \in Nat /\ (recs # << >> => Len(recs) > 0)
    BY <2>2
  <2> SUFFICES /\ s.p50 <= s.p95
               /\ 2 * Cardinality(Over(costs, s.p50)) <= s.n
               /\ 2 * Cardinality(Under(costs, s.p50)) <= s.n
               /\ 20 * Cardinality(Over(costs, s.p95)) <= s.n + 18
    BY <2>1 DEF Over, Under
  <2> HIDE DEF recs, costs, s
  <2>7. CASE recs = << >>
    <3>1. s.p50 = 0 /\ s.p95 = 0 /\ s.n = 0
      BY <2>5, <2>7
    <3>2. DOMAIN costs = {}
      BY <2>4, <2>7
    <3>3. Over(costs, 0) = {} /\ Under(costs, 0) = {}
      BY <3>2 DEF Over, Under
    <3> QED
      BY <3>1, <3>3, FS_EmptySet
  <2>8. CASE recs # << >>
    <3>1. s.p50 = Percentile(costs, 50) /\ s.p95 = Percentile(costs, 95) /\ s.n = Len(costs)
      BY <2>4, <2>5, <2>8
    <3>2. Len(costs) > 0
      BY <2>4, <2>6, <2>8
    <3> QED
      BY <2>4, <3>1, <3>2, MedianSplits, TailSplits, PercentilesInOrder
  <2> QED
    BY <2>7, <2>8
<1> QED
  BY <1>1, BenchInvInductive, PTL

=============================================================================

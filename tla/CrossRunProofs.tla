--------------------------- MODULE CrossRunProofs ---------------------------
(***************************************************************************)
(* Theorems about CrossRun, for any number of processes, any cap and any   *)
(* overshoot.                                                              *)
(*                                                                         *)
(* The bound on a window is a sum over the processes: what is booked plus  *)
(* what every run under way may still book.                                *)
(***************************************************************************)
EXTENDS CrossRun, SumProofs

Amounts == [Processes -> 0 .. EachRunsMost]

Total(f) == SumOver(f, Processes)

LEMMA MostIsNat == EachRunsMost \in Nat
BY AmountsAssumption DEF EachRunsMost

LEMMA TotalType ==
  ASSUME NEW f \in Amounts
  PROVE  Total(f) \in Nat /\ \A p \in Processes : f[p] \in Nat
<1>1. \A p \in Processes : f[p] \in Nat
  BY MostIsNat DEF Amounts
<1> QED
  BY <1>1, SumType, ProcessesAssumption DEF Total

\* A smaller amount for each process is a smaller total.
LEMMA TotalMonotonic ==
  ASSUME NEW f \in Amounts, NEW g \in Amounts,
         \A p \in Processes : f[p] <= g[p]
  PROVE  Total(f) <= Total(g)
BY SumMonotonic, TotalType, ProcessesAssumption DEF Total

\* Changing p's amount changes the total by as much.
LEMMA TotalChange ==
  ASSUME NEW f \in Amounts, NEW p \in Processes, NEW v \in 0 .. EachRunsMost
  PROVE  LET g == [f EXCEPT ![p] = v]
         IN  g \in Amounts /\ Total(g) = Total(f) - f[p] + v
<1> DEFINE g == [f EXCEPT ![p] = v]
<1>1. /\ g \in Amounts /\ g[p] = v /\ v \in Nat
      /\ \A q \in Processes \ {p} : g[q] = f[q]
  BY MostIsNat DEF Amounts
<1>2. \A q \in Processes : f[q] \in Nat
  BY TotalType
<1> HIDE DEF g
<1>3. Total(g) = Total(f) - f[p] + g[p]
  BY <1>1, <1>2, SumChanges, ProcessesAssumption DEF Total
<1> QED
  BY <1>1, <1>3 DEF g

\* With p's amount 0, the others' total leaves room for one more run.
LEMMA RoomForOne ==
  ASSUME NEW f \in Amounts, NEW p \in Processes, f[p] = 0
  PROVE  Total(f) <= Cardinality(Processes) * EachRunsMost - EachRunsMost
<1> DEFINE full == [q \in Processes |-> EachRunsMost]
           rest == Processes \ {p}
<1>1. /\ IsFiniteSet(rest) /\ Cardinality(rest) = Cardinality(Processes) - 1
      /\ Cardinality(Processes) \in Nat
  BY ProcessesAssumption, FS_RemoveElement, FS_CardinalityType
<1>2. \A q \in rest : f[q] \in Nat /\ f[q] <= full[q] /\ full[q] = EachRunsMost /\ full[q] \in Nat
  BY MostIsNat DEF Amounts
<1> HIDE DEF full
<1>3. SumOver(f, rest) <= SumOver(full, rest)
  BY <1>1, <1>2, SumMonotonic
<1>4. SumOver(full, rest) = Cardinality(rest) * EachRunsMost
  BY <1>1, <1>2, MostIsNat, SumOfEqual
<1>5. Total(f) = f[p] + SumOver(f, rest)
  BY TotalType, SumSplit, ProcessesAssumption DEF Total
<1>6. SumOver(f, rest) \in Nat
  BY <1>1, <1>2, SumType
<1>7. (Cardinality(Processes) - 1) * EachRunsMost
        = Cardinality(Processes) * EachRunsMost - EachRunsMost
  BY <1>1, MostIsNat
<1> QED
  BY <1>1, <1>3, <1>4, <1>5, <1>6, <1>7, MostIsNat

-----------------------------------------------------------------------------
\* What p's run may still book, and what it has charged and not booked.
Ordinary(p) == pc[p] = "running" /\ p \notin forced

Reach(p) == IF effective[p] = 0 THEN 0 ELSE effective[p] + Overshoot

Exposure == [p \in Processes |-> IF Ordinary(p) THEN Reach(p) ELSE 0]
InFlight == [p \in Processes |-> IF Ordinary(p) THEN charged[p] ELSE 0]

\* A governor's cap fits in the window's, a run keeps to its cap and overshoot,
\* and only command lines are forced.
RunsInBounds ==
  \A p \in Processes :
    /\ p \notin forced => effective[p] <= WindowCap
    /\ pc[p] = "running" => charged[p] <= Reach(p)
    /\ pc[p] # "running" => charged[p] = 0 /\ p \notin forced
    /\ p \in Harnesses => p \notin forced

\* Nothing is booked or charged in a window to come.
FutureIsEmpty == \A w \in Windows : w > window => booked[w] = 0 /\ charges[w] = 0

Limit == Cardinality(Processes) * EachRunsMost

\* The sums: what is booked in the window and what the runs may still book; what
\* was charged in it, and where that shows.
Sums ==
  /\ booked[window] + Total(Exposure) <= Limit
  /\ charges[window] <= booked[window] + unbooked + Total(InFlight)

BookInv == TypeOK /\ RunsInBounds /\ FutureIsEmpty /\ Sums /\ WindowBound /\ RealWindowBound

LEMMA LimitIsNat == Limit \in Nat
<1>1. Cardinality(Processes) \in Nat
  BY ProcessesAssumption, FS_CardinalityType
<1> QED
  BY <1>1, MostIsNat DEF Limit

LEMMA AmountsType ==
  ASSUME TypeOK, RunsInBounds
  PROVE  /\ Exposure \in Amounts /\ InFlight \in Amounts
         /\ Total(Exposure) \in Nat /\ Total(InFlight) \in Nat
         /\ Total(InFlight) <= Total(Exposure)
<1>1. Exposure \in Amounts
  BY AmountsAssumption
     DEF Exposure, Reach, Amounts, Ordinary, EachRunsMost, TypeOK, RunsInBounds
<1>2. InFlight \in Amounts
  BY AmountsAssumption
     DEF InFlight, Reach, Amounts, Ordinary, EachRunsMost, TypeOK, RunsInBounds
<1>3. \A p \in Processes : InFlight[p] <= Exposure[p]
  BY AmountsAssumption DEF InFlight, Exposure, Reach, Ordinary, TypeOK, RunsInBounds
<1> QED
  BY <1>1, <1>2, <1>3, TotalType, TotalMonotonic

LEMMA TypeStep ==
  ASSUME TypeOK, RunsInBounds, [Next]_vars
  PROVE  TypeOK'
<1> USE AmountsAssumption, BoundsAssumption
    DEF TypeOK, ledgerVars, procVars, historyVars, WindowRemaining, Smaller
<1>1. CASE NextWindow
  BY <1>1 DEF NextWindow, Windows
<1>2. CASE Rest \/ UNCHANGED vars
  BY <1>2 DEF Rest, vars
<1>3. ASSUME NEW p \in Processes, Admit(p) PROVE TypeOK'
  BY <1>3 DEF Admit, Starts
<1>4. ASSUME NEW p \in Processes, AdmitForced(p) PROVE TypeOK'
  BY <1>4 DEF AdmitForced, Starts
<1>5. ASSUME NEW p \in Processes, Charge(p) PROVE TypeOK'
  BY <1>5 DEF Charge
<1>6. ASSUME NEW p \in Processes, Returns(p) PROVE TypeOK'
  BY <1>6 DEF Returns, RecordRow, Ends
<1>7. ASSUME NEW p \in Processes, ForcedReturns(p) PROVE TypeOK'
  BY <1>7 DEF ForcedReturns, ForceRecord, Ends
<1>8. ASSUME NEW p \in Processes, ArmReturns(p) PROVE TypeOK'
  BY <1>8 DEF ArmReturns, RecordRow
<1>9. ASSUME NEW p \in Processes, ReRead(p) PROVE TypeOK'
  BY <1>9 DEF ReRead, Starts
<1>10. ASSUME NEW p \in Processes, HarnessEnds(p) PROVE TypeOK'
  BY <1>10 DEF HarnessEnds, Ends
<1>11. ASSUME NEW p \in Processes, Breaks(p) PROVE TypeOK'
  BY <1>11 DEF Breaks, Ends
<1> QED
  BY <1>1, <1>2, <1>3, <1>4, <1>5, <1>6, <1>7, <1>8, <1>9, <1>10, <1>11 DEF Next, Process

LEMMA RunsStep ==
  ASSUME TypeOK, RunsInBounds, [Next]_vars
  PROVE  RunsInBounds'
<1> USE AmountsAssumption, ProcessesAssumption
    DEF TypeOK, RunsInBounds, Reach, ledgerVars, procVars, historyVars, WindowRemaining, Smaller
<1>1. CASE NextWindow
  BY <1>1 DEF NextWindow
<1>2. CASE Rest \/ UNCHANGED vars
  BY <1>2 DEF Rest, vars
<1>3. ASSUME NEW p \in Processes, Admit(p) PROVE RunsInBounds'
  BY <1>3 DEF Admit, Starts
<1>4. ASSUME NEW p \in Processes, AdmitForced(p) PROVE RunsInBounds'
  BY <1>4 DEF AdmitForced, Starts
<1>5. ASSUME NEW p \in Processes, Charge(p) PROVE RunsInBounds'
  BY <1>5 DEF Charge
<1>6. ASSUME NEW p \in Processes, Returns(p) PROVE RunsInBounds'
  BY <1>6 DEF Returns, RecordRow, Ends
<1>7. ASSUME NEW p \in Processes, ForcedReturns(p) PROVE RunsInBounds'
  BY <1>7 DEF ForcedReturns, ForceRecord, Ends
<1>8. ASSUME NEW p \in Processes, ArmReturns(p) PROVE RunsInBounds'
  BY <1>8 DEF ArmReturns, RecordRow
<1>9. ASSUME NEW p \in Processes, ReRead(p) PROVE RunsInBounds'
  BY <1>9 DEF ReRead, Starts
<1>10. ASSUME NEW p \in Processes, HarnessEnds(p) PROVE RunsInBounds'
  BY <1>10 DEF HarnessEnds, Ends
<1>11. ASSUME NEW p \in Processes, Breaks(p) PROVE RunsInBounds'
  BY <1>11 DEF Breaks, Ends
<1> QED
  BY <1>1, <1>2, <1>3, <1>4, <1>5, <1>6, <1>7, <1>8, <1>9, <1>10, <1>11 DEF Next, Process

LEMMA FutureStep ==
  ASSUME TypeOK, FutureIsEmpty, [Next]_vars
  PROVE  FutureIsEmpty'
<1> USE DEF TypeOK, FutureIsEmpty, Windows, ledgerVars, procVars, historyVars
<1>1. CASE NextWindow
  BY <1>1 DEF NextWindow
<1>2. CASE Rest \/ UNCHANGED vars
  BY <1>2 DEF Rest, vars
<1>3. ASSUME NEW p \in Processes, Admit(p) PROVE FutureIsEmpty'
  BY <1>3 DEF Admit, Starts
<1>4. ASSUME NEW p \in Processes, AdmitForced(p) PROVE FutureIsEmpty'
  BY <1>4 DEF AdmitForced, Starts
<1>5. ASSUME NEW p \in Processes, Charge(p) PROVE FutureIsEmpty'
  BY <1>5 DEF Charge
<1>6. ASSUME NEW p \in Processes, Returns(p) PROVE FutureIsEmpty'
  BY <1>6 DEF Returns, RecordRow, Ends
<1>7. ASSUME NEW p \in Processes, ForcedReturns(p) PROVE FutureIsEmpty'
  BY <1>7 DEF ForcedReturns, ForceRecord, Ends
<1>8. ASSUME NEW p \in Processes, ArmReturns(p) PROVE FutureIsEmpty'
  BY <1>8 DEF ArmReturns, RecordRow
<1>9. ASSUME NEW p \in Processes, ReRead(p) PROVE FutureIsEmpty'
  BY <1>9 DEF ReRead, Starts
<1>10. ASSUME NEW p \in Processes, HarnessEnds(p) PROVE FutureIsEmpty'
  BY <1>10 DEF HarnessEnds, Ends
<1>11. ASSUME NEW p \in Processes, Breaks(p) PROVE FutureIsEmpty'
  BY <1>11 DEF Breaks, Ends
<1> QED
  BY <1>1, <1>2, <1>3, <1>4, <1>5, <1>6, <1>7, <1>8, <1>9, <1>10, <1>11 DEF Next, Process

-----------------------------------------------------------------------------
(***************************************************************************)
(* A run that starts adds what it may book to the sum, and that fits into  *)
(* what the others leave; a run that ends takes as much away as it books.  *)
(***************************************************************************)
LEMMA StartKeepsSums ==
  ASSUME TypeOK, RunsInBounds, Sums, NEW p \in Processes, NEW cap \in Nat,
         pc[p] # "running", p \notin forced, cap <= WindowRemaining,
         pc' = [pc EXCEPT ![p] = "running"], effective' = [effective EXCEPT ![p] = cap],
         UNCHANGED << ledgerVars, historyVars, forced, charged >>
  PROVE  Sums'
<1> DEFINE reach == IF cap = 0 THEN 0 ELSE cap + Overshoot
<1>1. Exposure \in Amounts /\ Exposure[p] = 0
  BY AmountsType DEF Exposure, Ordinary
<1>2. Total(Exposure) <= Limit - EachRunsMost
  BY <1>1, RoomForOne DEF Limit
<1>3. cap # 0 => booked[window] + cap <= WindowCap
  BY AmountsAssumption DEF WindowRemaining, TypeOK
<1>4. reach \in 0 .. EachRunsMost /\ (cap # 0 => booked[window] + reach <= EachRunsMost)
  BY <1>3, AmountsAssumption DEF EachRunsMost, TypeOK
<1>5. Exposure' = [Exposure EXCEPT ![p] = reach]
  BY DEF Exposure, Ordinary, Reach, TypeOK
<1>6. Total(Exposure)' = Total(Exposure) + reach
  <2>1. Total([Exposure EXCEPT ![p] = reach]) = Total(Exposure) - Exposure[p] + reach
    BY <1>1, <1>4, TotalChange
  <2>2. Total(Exposure) \in Nat
    BY AmountsType
  <2>3. Total(Exposure)' = Total([Exposure EXCEPT ![p] = reach])
    BY <1>5 DEF Total
  <2> QED
    BY <1>1, <1>4, <2>1, <2>2, <2>3
<1>7. InFlight' = InFlight
  BY DEF InFlight, Ordinary, RunsInBounds, TypeOK
<1>8. Total(InFlight)' = Total(InFlight)
  BY <1>7 DEF Total
<1>9. /\ booked[window]' = booked[window] /\ charges[window]' = charges[window]
      /\ unbooked' = unbooked /\ Limit' = Limit
  BY DEF ledgerVars, historyVars, Limit, EachRunsMost
<1>10. /\ Total(Exposure) \in Nat /\ Limit \in Nat /\ EachRunsMost \in Nat
       /\ booked[window] \in Nat
  BY AmountsType, LimitIsNat, MostIsNat DEF TypeOK
<1>11. booked[window] + Total(Exposure) + reach <= Limit
  BY <1>2, <1>4, <1>10 DEF Sums
<1> QED
  BY <1>6, <1>8, <1>9, <1>10, <1>11, <1>4 DEF Sums

LEMMA EndKeepsSums ==
  ASSUME TypeOK, RunsInBounds, Sums, NEW p \in Processes, Ordinary(p),
         NEW row \in 0 .. charged[p],
         NEW where \in {"idle", "reread"}, pc' = [pc EXCEPT ![p] = where],
         \A q \in Processes \ {p} :
           /\ effective'[q] = effective[q] /\ charged'[q] = charged[q]
           /\ q \in forced' <=> q \in forced,
         window' = window, charges' = charges,
         booked'[window] = booked[window] + row,
         unbooked' = unbooked + (charged[p] - row)
  PROVE  Sums'
<1>1. /\ Exposure \in Amounts /\ InFlight \in Amounts
      /\ Total(Exposure) \in Nat /\ Total(InFlight) \in Nat
  BY AmountsType
<1>2. Exposure[p] = Reach(p) /\ InFlight[p] = charged[p]
  BY DEF Exposure, InFlight
<1>3. charged[p] \in Nat /\ Reach(p) \in Nat /\ charged[p] <= Reach(p)
  BY AmountsAssumption DEF RunsInBounds, Ordinary, TypeOK, Reach
<1>4. Exposure' = [Exposure EXCEPT ![p] = 0]
  BY DEF Exposure, Ordinary, Reach, TypeOK
<1>5. InFlight' = [InFlight EXCEPT ![p] = 0]
  BY DEF InFlight, Ordinary, TypeOK
<1>6. Total(Exposure)' = Total(Exposure) - Reach(p)
  <2>1. Total([Exposure EXCEPT ![p] = 0]) = Total(Exposure) - Exposure[p] + 0
    BY <1>1, TotalChange, MostIsNat
  <2>2. Total(Exposure)' = Total([Exposure EXCEPT ![p] = 0])
    BY <1>4 DEF Total
  <2> QED
    BY <1>1, <1>2, <1>3, <2>1, <2>2
<1>7. Total(InFlight)' = Total(InFlight) - charged[p]
  <2>1. Total([InFlight EXCEPT ![p] = 0]) = Total(InFlight) - InFlight[p] + 0
    BY <1>1, TotalChange, MostIsNat
  <2>2. Total(InFlight)' = Total([InFlight EXCEPT ![p] = 0])
    BY <1>5 DEF Total
  <2> QED
    BY <1>1, <1>2, <1>3, <2>1, <2>2
<1>8. Limit' = Limit /\ Limit \in Nat
  BY LimitIsNat DEF Limit, EachRunsMost
<1>9. booked[window] \in Nat /\ charges[window] \in Nat /\ unbooked \in Nat
  BY DEF TypeOK
<1> QED
  BY <1>1, <1>3, <1>6, <1>7, <1>8, <1>9 DEF Sums

LEMMA SameSums ==
  ASSUME Sums, Exposure' = Exposure, InFlight' = InFlight,
         UNCHANGED << window, booked, charges, unbooked >>
  PROVE  Sums'
BY DEF Sums, Total, Limit, EachRunsMost

LEMMA SumsStep ==
  ASSUME TypeOK, RunsInBounds, FutureIsEmpty, Sums, [Next]_vars
  PROVE  Sums'
<1> USE DEF ledgerVars, procVars, historyVars
<1>1. CASE NextWindow
  <2>1. Exposure' = Exposure
    BY <1>1 DEF NextWindow, Exposure, Ordinary, Reach
  <2>2. Total(Exposure)' = Total(Exposure) /\ Limit' = Limit
    BY <2>1 DEF Total, Limit, EachRunsMost
  <2>3. booked'[window'] = 0 /\ charges'[window'] = 0 /\ unbooked' = unbooked
    BY <1>1, BoundsAssumption DEF NextWindow, FutureIsEmpty, TypeOK, Windows
  <2>4. InFlight' = InFlight
    BY <1>1 DEF NextWindow, InFlight, Ordinary
  <2>5. Total(InFlight)' = Total(InFlight)
    BY <2>4 DEF Total
  <2>6. /\ Total(Exposure) \in Nat /\ Total(InFlight) \in Nat /\ Limit \in Nat
        /\ booked[window] \in Nat /\ unbooked \in Nat
    BY AmountsType, LimitIsNat DEF TypeOK
  <2> QED
    BY <2>2, <2>3, <2>5, <2>6 DEF Sums
<1>2. CASE Rest \/ UNCHANGED vars
  <2>1. Exposure' = Exposure /\ InFlight' = InFlight
    BY <1>2 DEF Rest, vars, Exposure, InFlight, Ordinary, Reach
  <2> QED
    BY <1>2, <2>1, SameSums DEF Rest, vars
<1>3. ASSUME NEW p \in Processes, Admit(p) PROVE Sums'
  <2>1. PICK b \in Budgets : Starts(p, Smaller(b, WindowRemaining))
    BY <1>3 DEF Admit
  <2> DEFINE cap == Smaller(b, WindowRemaining)
  <2>2. cap \in Nat /\ cap <= WindowRemaining /\ cap <= WindowCap
    BY AmountsAssumption DEF Smaller, WindowRemaining, TypeOK
  <2> QED
    BY <1>3, <2>1, <2>2, StartKeepsSums DEF Admit, Starts, RunsInBounds
<1>4. ASSUME NEW p \in Processes, AdmitForced(p) PROVE Sums'
  <2>1. Exposure' = Exposure /\ InFlight' = InFlight
    BY <1>4 DEF AdmitForced, Starts, Exposure, InFlight, Ordinary, Reach, TypeOK
  <2> QED
    BY <1>4, <2>1, SameSums DEF AdmitForced
<1>5. ASSUME NEW p \in Processes, Charge(p) PROVE Sums'
  <2>1. PICK c \in 1 .. effective[p] + Overshoot - charged[p] :
          /\ charged' = [charged EXCEPT ![p] = @ + c]
          /\ charges' = IF p \in forced THEN charges ELSE [charges EXCEPT ![window] = @ + c]
    BY <1>5 DEF Charge
  <2>2. Exposure' = Exposure
    BY <1>5 DEF Charge, Exposure, Ordinary, Reach
  <2>3. CASE p \in forced
    <3>1. InFlight' = InFlight
      BY <1>5, <2>1, <2>3 DEF Charge, InFlight, Ordinary, TypeOK
    <3> QED
      BY <1>5, <2>1, <2>2, <2>3, <3>1, SameSums DEF Charge
  <2>4. CASE p \notin forced
    <3>1. Ordinary(p) /\ effective[p] # 0 /\ effective[p] \in Nat
      BY <1>5, <2>4 DEF Charge, Ordinary, TypeOK
    <3>2. charged[p] \in Nat /\ charged[p] + c \in 0 .. EachRunsMost /\ c \in Nat
      BY <2>1, <2>4, <3>1, AmountsAssumption DEF RunsInBounds, TypeOK, EachRunsMost
    <3>3. InFlight' = [InFlight EXCEPT ![p] = charged[p] + c]
      BY <1>5, <2>1, <3>1 DEF Charge, InFlight, Ordinary, TypeOK
    <3>4. InFlight \in Amounts /\ InFlight[p] = charged[p] /\ Total(InFlight) \in Nat
      BY <3>1, AmountsType DEF InFlight
    <3>5. Total(InFlight)' = Total(InFlight) + c
      <4>1. Total([InFlight EXCEPT ![p] = charged[p] + c])
              = Total(InFlight) - InFlight[p] + (charged[p] + c)
        BY <3>2, <3>4, TotalChange
      <4>2. Total(InFlight)' = Total([InFlight EXCEPT ![p] = charged[p] + c])
        BY <3>3 DEF Total
      <4> QED
        BY <3>2, <3>4, <4>1, <4>2
    <3>6. charges'[window'] = charges[window] + c
      BY <1>5, <2>1, <2>4 DEF Charge, TypeOK
    <3>7. Total(Exposure)' = Total(Exposure) /\ Limit' = Limit
      BY <2>2 DEF Total, Limit, EachRunsMost
    <3>8. /\ charges[window] \in Nat /\ booked[window] \in Nat /\ unbooked \in Nat
          /\ window' = window /\ booked' = booked /\ unbooked' = unbooked
      BY <1>5 DEF Charge, TypeOK
    <3> QED
      BY <3>2, <3>4, <3>5, <3>6, <3>7, <3>8 DEF Sums
  <2> QED
    BY <2>3, <2>4
<1>6. ASSUME NEW p \in Processes, Returns(p) PROVE Sums'
  <2>1. Ordinary(p) /\ charged[p] \in 0 .. charged[p]
    BY <1>6 DEF Returns, Ordinary, TypeOK
  <2>2. /\ pc' = [pc EXCEPT ![p] = "idle"]
        /\ window' = window /\ charges' = charges
        /\ booked'[window] = booked[window] + charged[p]
        /\ unbooked' = unbooked + (charged[p] - charged[p])
    BY <1>6 DEF Returns, RecordRow, Ends, TypeOK
  <2>3. \A q \in Processes \ {p} :
          /\ effective'[q] = effective[q] /\ charged'[q] = charged[q]
          /\ q \in forced' <=> q \in forced
    BY <1>6 DEF Returns, Ends, TypeOK
  <2> QED
    BY <2>1, <2>2, <2>3, EndKeepsSums
<1>7. ASSUME NEW p \in Processes, ForcedReturns(p) PROVE Sums'
  <2>1. Exposure' = Exposure /\ InFlight' = InFlight
    BY <1>7 DEF ForcedReturns, Ends, Exposure, InFlight, Ordinary, Reach, TypeOK
  <2> QED
    BY <1>7, <2>1, SameSums DEF ForcedReturns, ForceRecord
<1>8. ASSUME NEW p \in Processes, ArmReturns(p) PROVE Sums'
  <2>1. Ordinary(p) /\ charged[p] \in 0 .. charged[p]
    BY <1>8 DEF ArmReturns, Ordinary, RunsInBounds, TypeOK
  <2>2. /\ pc' = [pc EXCEPT ![p] = "reread"]
        /\ window' = window /\ charges' = charges
        /\ booked'[window] = booked[window] + charged[p]
        /\ unbooked' = unbooked + (charged[p] - charged[p])
    BY <1>8 DEF ArmReturns, RecordRow, TypeOK
  <2>3. \A q \in Processes \ {p} :
          /\ effective'[q] = effective[q] /\ charged'[q] = charged[q]
          /\ q \in forced' <=> q \in forced
    BY <1>8 DEF ArmReturns, TypeOK
  <2> QED
    BY <2>1, <2>2, <2>3, EndKeepsSums
<1>9. ASSUME NEW p \in Processes, ReRead(p) PROVE Sums'
  <2> DEFINE cap == Smaller(budget[p], WindowRemaining)
  <2>1. cap \in Nat /\ cap <= WindowRemaining /\ cap <= WindowCap
    BY AmountsAssumption DEF Smaller, WindowRemaining, TypeOK
  <2>2. p \notin forced
    BY <1>9 DEF ReRead, RunsInBounds
  <2> QED
    BY <1>9, <2>1, <2>2, StartKeepsSums DEF ReRead, Starts
<1>10. ASSUME NEW p \in Processes, HarnessEnds(p) PROVE Sums'
  <2>1. Exposure' = Exposure /\ InFlight' = InFlight
    BY <1>10 DEF HarnessEnds, Ends, Exposure, InFlight, Ordinary, Reach, TypeOK
  <2> QED
    BY <1>10, <2>1, SameSums DEF HarnessEnds
<1>11. ASSUME NEW p \in Processes, Breaks(p) PROVE Sums'
  <2>1. CASE p \in forced
    <3>1. Exposure' = Exposure /\ InFlight' = InFlight
      BY <1>11, <2>1 DEF Breaks, Ends, Exposure, InFlight, Ordinary, Reach, TypeOK
    <3> QED
      BY <1>11, <2>1, <3>1, SameSums DEF Breaks
  <2>2. CASE p \notin forced
    <3>1. Ordinary(p) /\ 0 \in 0 .. charged[p]
      BY <1>11, <2>2 DEF Breaks, Ordinary, TypeOK
    <3>2. /\ pc' = [pc EXCEPT ![p] = "idle"]
          /\ window' = window /\ charges' = charges
          /\ booked'[window] = booked[window] + 0
          /\ unbooked' = unbooked + (charged[p] - 0)
      BY <1>11, <2>2 DEF Breaks, Ends, TypeOK
    <3>3. \A q \in Processes \ {p} :
            /\ effective'[q] = effective[q] /\ charged'[q] = charged[q]
            /\ q \in forced' <=> q \in forced
      BY <1>11 DEF Breaks, Ends, TypeOK
    <3> QED
      BY <3>1, <3>2, <3>3, EndKeepsSums
  <2> QED
    BY <2>1, <2>2
<1> QED
  BY <1>1, <1>2, <1>3, <1>4, <1>5, <1>6, <1>7, <1>8, <1>9, <1>10, <1>11 DEF Next, Process

TotalsInOrder ==
  /\ Total(Exposure) \in Nat /\ Total(InFlight) \in Nat
  /\ Total(InFlight) <= Total(Exposure)

LEMMA TotalsOrdered == TypeOK /\ RunsInBounds => TotalsInOrder
BY AmountsType DEF TotalsInOrder

\* Only the current window's sums move, and its bound follows from them.
LEMMA WindowsStep ==
  ASSUME TypeOK, TypeOK', RunsInBounds', Sums', WindowBound, RealWindowBound, [Next]_vars
  PROVE  WindowBound' /\ RealWindowBound'
<1>1. /\ \A w \in Windows \ {window'} : booked'[w] = booked[w] /\ charges'[w] = charges[w]
      /\ unbooked <= unbooked'
  <2> USE DEF ledgerVars, procVars, historyVars, TypeOK
  <2>1. CASE NextWindow \/ Rest \/ UNCHANGED vars
    BY <2>1 DEF NextWindow, Rest, vars
  <2>2. ASSUME NEW p \in Processes, Process(p) PROVE <1>1!1 /\ <1>1!2
    BY <2>2 DEF Process, Admit, AdmitForced, Charge, Returns, ForcedReturns, ArmReturns,
                ReRead, HarnessEnds, Breaks, RecordRow, ForceRecord, Ends
  <2> QED
    BY <2>1, <2>2 DEF Next
<1>2. Limit' = Limit /\ Limit \in Nat
  BY LimitIsNat DEF Limit, EachRunsMost
<1>3. TotalsInOrder'
  BY TotalsOrdered, PTL
<1>4. booked'[window'] <= Limit /\ charges'[window'] <= Limit + unbooked'
  BY <1>2, <1>3 DEF Sums, TypeOK, TotalsInOrder
<1>5. ASSUME NEW w \in Windows
      PROVE  booked'[w] <= Limit /\ charges'[w] <= Limit + unbooked'
  <2>1. CASE w = window'
    BY <2>1, <1>4
  <2>2. CASE w # window'
    BY <2>2, <1>1, <1>2 DEF WindowBound, RealWindowBound, Limit, TypeOK
  <2> QED
    BY <2>1, <2>2
<1> QED
  BY <1>5 DEF WindowBound, RealWindowBound, Limit, EachRunsMost, Windows

LEMMA BookInvInductive ==
  /\ Init => BookInv
  /\ BookInv /\ [Next]_vars => BookInv'
<1>1. Init => BookInv
  <2> SUFFICES ASSUME Init PROVE BookInv
    OBVIOUS
  <2>1. TypeOK /\ FutureIsEmpty
    BY BoundsAssumption DEF Init, TypeOK, FutureIsEmpty, Windows
  <2>2. RunsInBounds
    BY AmountsAssumption DEF Init, RunsInBounds
  <2>3. Exposure = [p \in Processes |-> 0] /\ InFlight = [p \in Processes |-> 0]
    BY DEF Init, Exposure, InFlight, Ordinary
  <2>4. \A p \in Processes : Exposure[p] = 0 /\ InFlight[p] = 0
    BY <2>3
  <2>5. Total(Exposure) = 0 /\ Total(InFlight) = 0
    BY <2>4, SumOfZeros, ProcessesAssumption DEF Total
  <2>6. Limit \in Nat
    BY LimitIsNat
  <2>7. \A w \in Windows : booked[w] = 0 /\ charges[w] = 0
    BY DEF Init
  <2>8. window \in Windows /\ unbooked = 0
    BY <2>1 DEF TypeOK, Init
  <2> QED
    BY <2>1, <2>2, <2>5, <2>6, <2>7, <2>8
       DEF BookInv, Sums, WindowBound, RealWindowBound, Limit
<1>2. BookInv /\ [Next]_vars => BookInv'
  BY TypeStep, RunsStep, FutureStep, SumsStep, WindowsStep DEF BookInv
<1> QED
  BY <1>1, <1>2

\* Every reachable state has its type.
THEOREM LedgerTypeCorrect == Spec => []TypeOK
<1>1. BookInv => TypeOK
  BY DEF BookInv
<1> QED
  BY <1>1, BookInvInductive, PTL DEF Spec

\* However many processes share the ledger's file and however their looks and
\* records interleave, the ordinary rows of a window add up to at most a full
\* cap and overshoot each (cli.py run, swe_bench/runner.py run).
THEOREM WindowIsBounded == Spec => []WindowBound
<1>1. BookInv => WindowBound
  BY DEF BookInv
<1> QED
  BY <1>1, BookInvInductive, PTL DEF Spec

\* The same for what is really charged during a window, less what broken runs
\* never booked.
THEOREM RealSpendPerWindow == Spec => []RealWindowBound
<1>1. BookInv => RealWindowBound
  BY DEF BookInv
<1> QED
  BY <1>1, BookInvInductive, PTL DEF Spec

-----------------------------------------------------------------------------
(***************************************************************************)
(* The books of all windows together.                                      *)
(***************************************************************************)
Balance ==
  SumOver(charges, Windows) = SumOver(booked, Windows) + unbooked + Total(InFlight)

\* A row or a charge goes to one window and adds itself to the sum over all.
LEMMA WindowSum ==
  ASSUME NEW f \in [Windows -> Nat], NEW w \in Windows, NEW n \in Nat
  PROVE  /\ SumOver(f, Windows) \in Nat
         /\ SumOver([f EXCEPT ![w] = @ + n], Windows) = SumOver(f, Windows) + n
<1> DEFINE g == [f EXCEPT ![w] = @ + n]
<1>1. IsFiniteSet(Windows)
  BY BoundsAssumption, FS_Interval DEF Windows
<1>2. /\ \A v \in Windows : f[v] \in Nat
      /\ g[w] = f[w] + n /\ g[w] \in Nat /\ f[w] \in Nat
      /\ \A v \in Windows \ {w} : g[v] = f[v]
  OBVIOUS
<1> HIDE DEF g
<1>3. SumOver(f, Windows) \in Nat /\ SumOver(g, Windows) = SumOver(f, Windows) - f[w] + g[w]
  BY <1>1, <1>2, SumChanges
<1> QED
  BY <1>2, <1>3 DEF g

LEMMA SameBalance ==
  ASSUME Balance, InFlight' = InFlight, UNCHANGED << booked, charges, unbooked >>
  PROVE  Balance'
BY DEF Balance, Total

LEMMA EndKeepsBalance ==
  ASSUME TypeOK, RunsInBounds, Balance, NEW p \in Processes, Ordinary(p),
         NEW row \in 0 .. charged[p],
         NEW where \in {"idle", "reread"}, pc' = [pc EXCEPT ![p] = where],
         \A q \in Processes \ {p} :
           charged'[q] = charged[q] /\ (q \in forced' <=> q \in forced),
         charges' = charges,
         booked' = [booked EXCEPT ![window] = @ + row],
         unbooked' = unbooked + (charged[p] - row)
  PROVE  Balance'
<1>1. InFlight \in Amounts /\ Total(InFlight) \in Nat /\ InFlight[p] = charged[p]
  BY AmountsType DEF InFlight
<1>2. InFlight' = [InFlight EXCEPT ![p] = 0]
  BY DEF InFlight, Ordinary, TypeOK
<1>3. Total([InFlight EXCEPT ![p] = 0]) = Total(InFlight) - InFlight[p] + 0
  BY <1>1, TotalChange, MostIsNat
<1>4. Total(InFlight)' = Total(InFlight) - charged[p]
  <2>1. Total(InFlight)' = Total([InFlight EXCEPT ![p] = 0])
    BY <1>2 DEF Total
  <2> QED
    BY <1>1, <1>3, <2>1 DEF TypeOK
<1>5. /\ window \in Windows /\ booked \in [Windows -> Nat] /\ unbooked \in Nat
      /\ charged[p] \in Nat /\ row \in Nat
  BY DEF TypeOK
<1>6. /\ SumOver(booked, Windows) \in Nat
      /\ SumOver(booked', Windows) = SumOver(booked, Windows) + row
  BY <1>5, WindowSum
<1>7. /\ SumOver(charges', Windows) = SumOver(charges, Windows)
      /\ Total(InFlight)' = Total(InFlight) - charged[p]
  BY <1>4
<1> QED
  BY <1>1, <1>5, <1>6, <1>7 DEF Balance

LEMMA BalanceStep ==
  ASSUME TypeOK, RunsInBounds, Balance, [Next]_vars
  PROVE  Balance'
<1> USE DEF ledgerVars, procVars, historyVars
<1>1. CASE NextWindow
  BY <1>1, SameBalance DEF NextWindow, InFlight, Ordinary
<1>2. CASE Rest \/ UNCHANGED vars
  BY <1>2, SameBalance DEF Rest, vars, InFlight, Ordinary
<1>3. ASSUME NEW p \in Processes, Admit(p) PROVE Balance'
  <2>1. InFlight' = InFlight
    BY <1>3 DEF Admit, Starts, InFlight, Ordinary, RunsInBounds, TypeOK
  <2> QED
    BY <1>3, <2>1, SameBalance DEF Admit
<1>4. ASSUME NEW p \in Processes, AdmitForced(p) PROVE Balance'
  <2>1. InFlight' = InFlight
    BY <1>4 DEF AdmitForced, Starts, InFlight, Ordinary, RunsInBounds, TypeOK
  <2> QED
    BY <1>4, <2>1, SameBalance DEF AdmitForced
<1>5. ASSUME NEW p \in Processes, Charge(p) PROVE Balance'
  <2>1. PICK c \in 1 .. effective[p] + Overshoot - charged[p] :
          /\ charged' = [charged EXCEPT ![p] = @ + c]
          /\ charges' = IF p \in forced THEN charges ELSE [charges EXCEPT ![window] = @ + c]
    BY <1>5 DEF Charge
  <2>2. CASE p \in forced
    <3>1. InFlight' = InFlight
      BY <1>5, <2>1, <2>2 DEF Charge, InFlight, Ordinary, TypeOK
    <3> QED
      BY <1>5, <2>1, <2>2, <3>1, SameBalance DEF Charge
  <2>3. CASE p \notin forced
    <3>1. Ordinary(p) /\ effective[p] # 0 /\ effective[p] \in Nat
      BY <1>5, <2>3 DEF Charge, Ordinary, TypeOK
    <3>2. charged[p] \in Nat /\ charged[p] + c \in 0 .. EachRunsMost /\ c \in Nat
      BY <2>1, <2>3, <3>1, AmountsAssumption DEF RunsInBounds, TypeOK, EachRunsMost
    <3>3. InFlight' = [InFlight EXCEPT ![p] = charged[p] + c]
      BY <1>5, <2>1, <3>1 DEF Charge, InFlight, Ordinary, TypeOK
    <3>4. InFlight \in Amounts /\ InFlight[p] = charged[p] /\ Total(InFlight) \in Nat
      BY <3>1, AmountsType DEF InFlight
    <3>5. Total([InFlight EXCEPT ![p] = charged[p] + c])
            = Total(InFlight) - InFlight[p] + (charged[p] + c)
      BY <3>2, <3>4, TotalChange
    <3>6. Total(InFlight)' = Total([InFlight EXCEPT ![p] = charged[p] + c])
      BY <3>3 DEF Total
    <3>7. Total(InFlight)' = Total(InFlight) + c
      BY <3>2, <3>4, <3>5, <3>6
    <3>8. /\ window \in Windows /\ charges \in [Windows -> Nat] /\ unbooked \in Nat
          /\ booked \in [Windows -> Nat]
          /\ charges' = [charges EXCEPT ![window] = @ + c]
          /\ booked' = booked /\ unbooked' = unbooked
      BY <1>5, <2>1, <2>3 DEF Charge, TypeOK
    <3>9. /\ SumOver(charges, Windows) \in Nat
          /\ SumOver(charges', Windows) = SumOver(charges, Windows) + c
      BY <3>2, <3>8, WindowSum
    <3>10. SumOver(booked', Windows) = SumOver(booked, Windows)
      BY <3>8
    <3>11. SumOver(booked, Windows) \in Nat
      BY <3>2, <3>8, WindowSum
    <3> QED
      BY <3>2, <3>4, <3>7, <3>8, <3>9, <3>10, <3>11 DEF Balance
  <2> QED
    BY <2>2, <2>3
<1>6. ASSUME NEW p \in Processes, Returns(p) PROVE Balance'
  <2>1. Ordinary(p) /\ charged[p] \in 0 .. charged[p]
    BY <1>6 DEF Returns, Ordinary, TypeOK
  <2>2. /\ pc' = [pc EXCEPT ![p] = "idle"] /\ charges' = charges
        /\ booked' = [booked EXCEPT ![window] = @ + charged[p]]
        /\ unbooked' = unbooked + (charged[p] - charged[p])
    BY <1>6 DEF Returns, RecordRow, Ends, TypeOK
  <2>3. \A q \in Processes \ {p} :
          charged'[q] = charged[q] /\ (q \in forced' <=> q \in forced)
    BY <1>6 DEF Returns, Ends, TypeOK
  <2> QED
    BY <2>1, <2>2, <2>3, EndKeepsBalance
<1>7. ASSUME NEW p \in Processes, ForcedReturns(p) PROVE Balance'
  <2>1. InFlight' = InFlight
    BY <1>7 DEF ForcedReturns, Ends, InFlight, Ordinary, TypeOK
  <2> QED
    BY <1>7, <2>1, SameBalance DEF ForcedReturns, ForceRecord
<1>8. ASSUME NEW p \in Processes, ArmReturns(p) PROVE Balance'
  <2>1. Ordinary(p) /\ charged[p] \in 0 .. charged[p]
    BY <1>8 DEF ArmReturns, Ordinary, RunsInBounds, TypeOK
  <2>2. /\ pc' = [pc EXCEPT ![p] = "reread"] /\ charges' = charges
        /\ booked' = [booked EXCEPT ![window] = @ + charged[p]]
        /\ unbooked' = unbooked + (charged[p] - charged[p])
    BY <1>8 DEF ArmReturns, RecordRow, TypeOK
  <2>3. \A q \in Processes \ {p} :
          charged'[q] = charged[q] /\ (q \in forced' <=> q \in forced)
    BY <1>8 DEF ArmReturns, TypeOK
  <2> QED
    BY <2>1, <2>2, <2>3, EndKeepsBalance
<1>9. ASSUME NEW p \in Processes, ReRead(p) PROVE Balance'
  <2>1. InFlight' = InFlight
    BY <1>9 DEF ReRead, Starts, InFlight, Ordinary, RunsInBounds, TypeOK
  <2> QED
    BY <1>9, <2>1, SameBalance DEF ReRead
<1>10. ASSUME NEW p \in Processes, HarnessEnds(p) PROVE Balance'
  <2>1. InFlight' = InFlight
    BY <1>10 DEF HarnessEnds, Ends, InFlight, Ordinary, TypeOK
  <2> QED
    BY <1>10, <2>1, SameBalance DEF HarnessEnds
<1>11. ASSUME NEW p \in Processes, Breaks(p) PROVE Balance'
  <2>1. CASE p \in forced
    <3>1. InFlight' = InFlight
      BY <1>11, <2>1 DEF Breaks, Ends, InFlight, Ordinary, TypeOK
    <3> QED
      BY <1>11, <2>1, <3>1, SameBalance DEF Breaks
  <2>2. CASE p \notin forced
    <3>1. Ordinary(p) /\ 0 \in 0 .. charged[p]
      BY <1>11, <2>2 DEF Breaks, Ordinary, TypeOK
    <3>2. /\ pc' = [pc EXCEPT ![p] = "idle"] /\ charges' = charges
          /\ booked' = [booked EXCEPT ![window] = @ + 0]
          /\ unbooked' = unbooked + (charged[p] - 0)
      BY <1>11, <2>2 DEF Breaks, Ends, TypeOK
    <3>3. \A q \in Processes \ {p} :
            charged'[q] = charged[q] /\ (q \in forced' <=> q \in forced)
      BY <1>11 DEF Breaks, Ends, TypeOK
    <3> QED
      BY <3>1, <3>2, <3>3, EndKeepsBalance
  <2> QED
    BY <2>1, <2>2
<1> QED
  BY <1>1, <1>2, <1>3, <1>4, <1>5, <1>6, <1>7, <1>8, <1>9, <1>10, <1>11 DEF Next, Process

\* The specification sums the charges of the unforced; a process that is not
\* running has none.
LEMMA BalanceIsTheBooks == TypeOK /\ RunsInBounds /\ Balance => BooksBalance
<1> SUFFICES ASSUME TypeOK, RunsInBounds, Balance PROVE BooksBalance
  OBVIOUS
<1> DEFINE unforced == {p \in Processes : p \notin forced}
<1>1. FoldFunction(+, 0, charges) = SumOver(charges, Windows)
  BY DEF FoldFunction, SumOver, TypeOK
<1>2. FoldFunction(+, 0, booked) = SumOver(booked, Windows)
  BY DEF FoldFunction, SumOver, TypeOK
<1>3. /\ unforced \in SUBSET Processes
      /\ \A p \in unforced : charged[p] \in Nat /\ InFlight[p] = charged[p]
      /\ \A p \in Processes \ unforced : InFlight[p] = 0
  BY DEF InFlight, Ordinary, TypeOK, RunsInBounds
<1> HIDE DEF unforced
<1>4. SumOver(InFlight, Processes) = SumOver(charged, unforced)
  BY <1>3, SumWhere, ProcessesAssumption
<1> QED
  BY <1>1, <1>2, <1>4 DEF Balance, BooksBalance, Total, SumOver, unforced

\* Every dollar an ordinary run charges is in one row, in the run still going
\* on, or unbooked for good, and no row holds anything else, in whatever window
\* the run began (cli.py run's `finally`, swe_bench/runner.py run, budget.py
\* record_spend).
THEOREM BooksAlwaysBalance == Spec => []BooksBalance
<1>1. Init => Balance
  <2> SUFFICES ASSUME Init PROVE Balance
    OBVIOUS
  <2>1. \A p \in Processes : InFlight[p] = 0
    BY DEF Init, InFlight, Ordinary
  <2>2. \A w \in Windows : booked[w] = 0 /\ charges[w] = 0
    BY DEF Init
  <2>3. IsFiniteSet(Windows)
    BY BoundsAssumption, FS_Interval DEF Windows
  <2>4. SumOver(booked, Windows) = 0 /\ SumOver(charges, Windows) = 0
    BY <2>2, <2>3, SumOfZeros
  <2>5. Total(InFlight) = 0
    BY <2>1, SumOfZeros, ProcessesAssumption DEF Total
  <2> QED
    BY <2>4, <2>5 DEF Balance, Init
<1>2. BookInv /\ Balance /\ [Next]_vars => Balance'
  BY BalanceStep DEF BookInv
<1>3. BookInv /\ Balance => BooksBalance
  BY BalanceIsTheBooks DEF BookInv
<1> QED
  BY <1>1, <1>2, <1>3, BookInvInductive, PTL DEF Spec

=============================================================================

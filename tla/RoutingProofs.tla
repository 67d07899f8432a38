---------------------------- MODULE RoutingProofs ----------------------------
(***************************************************************************)
(* What the router projects, refuses, runs, bills and reports, for every   *)
(* policy, price table, plan file, text and sequence of tasks.             *)
(***************************************************************************)
EXTENDS Routing, SumProofs, SequenceTheorems

(***************************************************************************)
(* Recursion on an index: the function exists.                             *)
(***************************************************************************)
Follows(g, n, start, step) ==
  g[0] = start /\ \A i \in 1 .. n : g[i] = step[i][g[i - 1]]

LEMMA IndexRecursion ==
  ASSUME NEW n \in Nat, NEW V, NEW start \in V, NEW step \in [1 .. n -> [V -> V]]
  PROVE  \E g \in [0 .. n -> V] : Follows(g, n, start, step)
<1> DEFINE Wrong == {k \in 0 .. n : ~ \E g \in [0 .. k -> V] : Follows(g, k, start, step)}
<1> SUFFICES ASSUME Wrong # {} PROVE FALSE
  OBVIOUS
<1>0. Wrong \in SUBSET Nat
  OBVIOUS
<1>1. PICK k \in Wrong : \A m \in Wrong : k <= m
  <2> HIDE DEF Wrong
  <2> QED
    BY <1>0, LeastNumber
<1>2. CASE k = 0
  <2>1. [i \in 0 .. 0 |-> start] \in [0 .. 0 -> V]
    OBVIOUS
  <2>2. Follows([i \in 0 .. 0 |-> start], 0, start, step)
    BY DEF Follows
  <2> QED
    BY <1>2, <2>1, <2>2
<1>3. CASE k # 0
  <2>1. k \in 1 .. n /\ k - 1 \in 0 .. n /\ k - 1 \notin Wrong
    BY <1>1, <1>3
  <2>2. PICK g \in [0 .. k - 1 -> V] : Follows(g, k - 1, start, step)
    BY <2>1
  <2> DEFINE h == [i \in 0 .. k |-> IF i = k THEN step[k][g[k - 1]] ELSE g[i]]
  <2>3. step[k][g[k - 1]] \in V
    BY <2>1
  <2>4. h \in [0 .. k -> V]
    BY <2>1, <2>3
  <2>5. Follows(h, k, start, step)
    <3>1. h[0] = start
      BY <2>1, <2>2 DEF Follows
    <3>2. ASSUME NEW i \in 1 .. k PROVE h[i] = step[i][h[i - 1]]
      <4>1. i - 1 \in 0 .. k - 1 /\ h[i - 1] = g[i - 1]
        BY <2>1
      <4>2. CASE i = k
        BY <2>1, <4>1, <4>2
      <4>3. CASE i # k
        <5>1. i \in 1 .. k - 1 /\ h[i] = g[i]
          BY <2>1, <4>3
        <5> QED
          BY <2>2, <4>1, <5>1 DEF Follows
      <4> QED
        BY <4>2, <4>3
    <3> QED
      BY <3>1, <3>2 DEF Follows
  <2> QED
    BY <1>1, <2>4, <2>5
<1> QED
  BY <1>2, <1>3

(***************************************************************************)
(* The words of a task and its features.                                   *)
(***************************************************************************)
LEMMA FlattenType ==
  ASSUME NEW S, NEW seqs \in Seq(Seq(S))
  PROVE  FlattenSeq(seqs) \in Seq(S)
<1> DEFINE n == Len(seqs)
           step == [i \in 1 .. n |-> [v \in Seq(S) |-> v \o seqs[i]]]
           Flattens(f) == f = [i \in 1 .. n |-> IF i = 1 THEN seqs[i] ELSE f[i - 1] \o seqs[i]]
           flatten == CHOOSE f : Flattens(f)
<1>1. n \in Nat /\ \A i \in 1 .. n : seqs[i] \in Seq(S)
  BY LenProperties, ElementOfSeq
<1>2. CASE n = 0
  <2>1. seqs = << >>
    BY <1>2, EmptySeq
  <2>2. FlattenSeq(seqs) = seqs
    BY <1>2 DEF FlattenSeq
  <2>3. << >> \in Seq(S)
    BY EmptySeq
  <2> QED
    BY <2>1, <2>2, <2>3
<1>3. CASE n # 0
  <2>1. FlattenSeq(seqs) = flatten[n]
    BY <1>3 DEF FlattenSeq
  <2>2. \E f : Flattens(f)
    <3>1. step \in [1 .. n -> [Seq(S) -> Seq(S)]]
      <4>1. ASSUME NEW i \in 1 .. n, NEW v \in Seq(S) PROVE v \o seqs[i] \in Seq(S)
        BY <1>1, ConcatProperties
      <4> QED
        BY <4>1
    <3>2. << >> \in Seq(S)
      BY EmptySeq
    <3>3. \E g \in [0 .. n -> Seq(S)] : Follows(g, n, << >>, step)
      <4> HIDE DEF step
      <4> QED
        BY <1>1, <3>1, <3>2, IndexRecursion
    <3>4. PICK g \in [0 .. n -> Seq(S)] :
            g[0] = << >> /\ \A i \in 1 .. n : g[i] = step[i][g[i - 1]]
      BY <3>3 DEF Follows
    <3>5. ASSUME NEW i \in 1 .. n PROVE g[i] = g[i - 1] \o seqs[i]
      <4>1. g[i - 1] \in Seq(S)
        <5>1. i - 1 \in 0 .. n
          BY <1>1
        <5> HIDE DEF step
        <5> QED
          BY <3>4, <5>1
      <4>2. step[i][g[i - 1]] = g[i - 1] \o seqs[i]
        BY <4>1
      <4>3. g[i] = step[i][g[i - 1]]
        BY <3>4
      <4> HIDE DEF step
      <4> QED
        BY <4>2, <4>3
    <3>6. 1 \in 1 .. n /\ 1 - 1 = 0 /\ seqs[1] \in Seq(S)
      BY <1>1, <1>3
    <3>7. g[1] = seqs[1]
      <4>1. g[1] = << >> \o seqs[1]
        BY <3>4, <3>5, <3>6
      <4> QED
        BY <3>6, <4>1, ConcatEmptySeq
    <3>8. [i \in 1 .. n |-> g[i]]
            = [i \in 1 .. n |-> IF i = 1 THEN seqs[i]
                                 ELSE [j \in 1 .. n |-> g[j]][i - 1] \o seqs[i]]
      <4>1. ASSUME NEW i \in 1 .. n
            PROVE  g[i] = IF i = 1 THEN seqs[i] ELSE [j \in 1 .. n |-> g[j]][i - 1] \o seqs[i]
        <5>1. CASE i = 1
          BY <5>1, <3>7
        <5>2. CASE i # 1
          <6>1. i - 1 \in 1 .. n
            BY <1>1, <5>2
          <6> QED
            BY <3>5, <5>2, <6>1
        <5> QED
          BY <5>1, <5>2
      <4> QED
        BY <4>1
    <3> QED
      BY <3>8
  <2>3. Flattens(flatten)
    BY <2>2
  <2> HIDE DEF flatten
  <2>4. \A i \in 1 .. n : flatten[i] = IF i = 1 THEN seqs[i] ELSE flatten[i - 1] \o seqs[i]
    BY <2>3
  <2> DEFINE Wrong == {k \in 1 .. n : flatten[k] \notin Seq(S)}
  <2>5. Wrong = {}
    <3> SUFFICES ASSUME Wrong # {} PROVE FALSE
      OBVIOUS
    <3>0. Wrong \in SUBSET Nat
      OBVIOUS
    <3>1. PICK k \in Wrong : \A m \in Wrong : k <= m
      <4> HIDE DEF Wrong
      <4> QED
        BY <3>0, LeastNumber
    <3>2. k \in 1 .. n /\ flatten[k] \notin Seq(S) /\ seqs[k] \in Seq(S)
      BY <1>1
    <3>3. k # 1
      BY <2>4, <3>2
    <3>4. k - 1 \in 1 .. n /\ k - 1 \notin Wrong
      BY <1>1, <3>1, <3>2, <3>3
    <3>5. flatten[k - 1] \in Seq(S)
      BY <3>4
    <3>6. flatten[k] = flatten[k - 1] \o seqs[k]
      BY <2>4, <3>2, <3>3
    <3> QED
      BY <3>2, <3>5, <3>6, ConcatProperties
  <2> QED
    BY <1>1, <1>3, <2>1, <2>5
<1> QED
  BY <1>2, <1>3

\* The words of a task are words of the lexicon, and a task has so many of them.
LEMMA WordsType ==
  ASSUME NEW t \in Seq(Seq(Seq(DOMAIN Lexicon)))
  PROVE  /\ Clauses(t) \in Seq(Seq(DOMAIN Lexicon)) /\ Words(t) \in Seq(DOMAIN Lexicon)
         /\ Len(Words(t)) \in Nat /\ DOMAIN Words(t) = 1 .. Len(Words(t))
<1>1. Clauses(t) \in Seq(Seq(DOMAIN Lexicon))
  BY FlattenType DEF Clauses
<1>2. Words(t) \in Seq(DOMAIN Lexicon)
  BY <1>1, FlattenType DEF Words
<1> QED
  BY <1>1, <1>2, LenProperties

LEMMA PlacesType ==
  ASSUME NEW t \in Seq(Seq(Seq(DOMAIN Lexicon))), NEW kind
  PROVE  /\ IsFiniteSet(Places(t, kind)) /\ Cardinality(Places(t, kind)) \in Nat
         /\ IsFiniteSet(Paths(t)) /\ Cardinality(Paths(t)) \in Nat
         /\ (Paths(t) # {} => Cardinality(Paths(t)) # 0)
<1>1. Len(Words(t)) \in Nat /\ DOMAIN Words(t) = 1 .. Len(Words(t))
  BY WordsType
<1>2. IsFiniteSet(1 .. Len(Words(t)))
  BY <1>1, FS_Interval
<1>3. \A k : Places(t, k) \in SUBSET (1 .. Len(Words(t)))
  BY <1>1 DEF Places
<1>4. \A k : IsFiniteSet(Places(t, k))
  BY <1>2, <1>3, FS_Subset
<1>5. Paths(t) = {Words(t)[i] : i \in Places(t, "path")}
  BY DEF Paths
<1>6. IsFiniteSet(Paths(t))
  <2> DEFINE places == Places(t, "path")
             image  == [i \in places |-> Words(t)[i]]
  <2>1. image \in Surjection(places, Paths(t))
    BY <1>5 DEF Surjection
  <2>2. IsFiniteSet(places)
    BY <1>4
  <2> HIDE DEF image, places
  <2> QED
    BY <2>1, <2>2, FS_Surjection
<1> QED
  BY <1>4, <1>6, FS_CardinalityType, FS_EmptySet

LEMMA HintType ==
  ASSUME NEW t \in Seq(Seq(Seq(DOMAIN Lexicon))), Hints(t) # {}
  PROVE  Counts[Words(t)[Min(Hints(t))]] \in Nat
<1>1. Hints(t) \in SUBSET Nat
  BY WordsType DEF Hints
<1>2. \E i \in Hints(t) : \A j \in Hints(t) : i <= j
  BY <1>1, LeastNumber
<1>3. Min(Hints(t)) \in Hints(t)
  BY <1>2 DEF Min
<1> QED
  BY <1>3, LengthAssumption DEF Hints

LEMMA SumFunctionType ==
  ASSUME NEW f, IsFiniteSet(DOMAIN f), \A x \in DOMAIN f : f[x] \in Nat
  PROVE  SumFunction(f) \in Nat
<1>1. SumFunction(f) = SumOver(f, DOMAIN f)
  BY Zenon DEF SumFunction, SumFunctionOnSet, SumOver
<1> QED
  BY <1>1, SumType

LEMMA SnapshotType ==
  ASSUME NEW repo \in Repos
  PROVE  ScanRepo(repo) \in [files : Nat, bytes : Nat, tests : BOOLEAN]
<1>1. Scanned(repo) \subseteq repo.files
  BY DEF Scanned
<1>2. IsFiniteSet(Scanned(repo)) /\ Cardinality(Scanned(repo)) \in Nat
  BY <1>1, ReposAssumption, FS_Subset, FS_CardinalityType
<1> DEFINE sizes == SizesOf(Scanned(repo))
<1>3. DOMAIN sizes \in SUBSET Scanned(repo)
  BY DEF SizesOf
<1>4. IsFiniteSet(DOMAIN sizes)
  BY <1>2, <1>3, FS_Subset
<1>5. \A f \in DOMAIN sizes : sizes[f] \in Nat
  BY <1>1, ReposAssumption DEF SizesOf
<1>6. SumFunction(sizes) \in Nat
  <2> HIDE DEF sizes
  <2> QED
    BY <1>4, <1>5, SumFunctionType
<1> QED
  BY <1>2, <1>6 DEF ScanRepo

LEMMA CouplingType ==
  ASSUME NEW t, NEW n \in Nat
  PROVE  Coupling(t, n) \in 0 .. 100
<1> DEFINE If(test, points) == IF test THEN points ELSE 0
<1>1. \A test : /\ If(test, 20) \in {0, 20} /\ If(test, 30) \in {0, 30}
               /\ If(test, 15) \in {0, 15} /\ If(test, 45) \in {0, 45}
  OBVIOUS
<1> DEFINE a == If(n >= 5, 20)
           b == If(n >= 15, 20)
           c == If(Says(t, "import"), 30)
           d == If(Says(t, "shared"), 15)
           e == If(Says(t, "independent"), 45)
<1>2. a \in Int /\ b \in Int /\ c \in Int /\ d \in Int /\ e \in Int
  BY <1>1
<1>3. Coupling(t, n) = Clamped(20 + a + b + c + d - e)
  BY DEF Coupling
<1>4. \A score \in Int : Clamped(score) \in 0 .. 100
  BY DEF Clamped
<1> HIDE DEF a, b, c, d, e
<1> QED
  BY <1>2, <1>3, <1>4

LEMMA DepthType ==
  ASSUME NEW t \in Seq(Seq(Seq(DOMAIN Lexicon)))
  PROVE  PlanningDepth(t) \in Nat
<1>1. Len(Clauses(t)) \in Nat /\ DOMAIN Clauses(t) = 1 .. Len(Clauses(t))
  BY WordsType, LenProperties
<1>2. IsFiniteSet(DOMAIN Clauses(t))
  BY <1>1, FS_Interval
<1> DEFINE found == {k \in DOMAIN Clauses(t) :
                       \E i \in DOMAIN Clauses(t)[k] :
                         i <= 3 /\ "imperative" \in Lexicon[Clauses(t)[k][i]]}
<1>3. IsFiniteSet(found)
  BY <1>2, FS_Subset
<1>4. Cardinality(found) \in Nat
  BY <1>3, FS_CardinalityType
<1> QED
  BY <1>4 DEF PlanningDepth

Features ==
  [files : Nat \ {0}, coupling : 0 .. 100, tests : BOOLEAN, depth : Nat,
   ratio : [of : Nat, amidst : Nat], tokens : Nat \ {0}]

\* The classifier's features, whatever the task and the repository.
LEMMA FeaturesType ==
  ASSUME NEW t \in TaskTexts, NEW repo \in Repos
  PROVE  ExtractFeatures(t, ScanRepo(repo)) \in Features
<1> DEFINE snapshot == ScanRepo(repo)
<1>1. snapshot \in [files : Nat, bytes : Nat, tests : BOOLEAN]
  BY SnapshotType
<1>2. t \in Seq(Seq(Seq(DOMAIN Lexicon)))
  BY TasksAssumption
<1> HIDE DEF snapshot
<1>3. \A n \in Nat : AtLeastOne(n) \in Nat \ {0}
  BY DEF AtLeastOne
<1>4. EstimateFiles(t, snapshot) \in Nat \ {0}
  <2>1. Paths(t) # {} => Cardinality(Paths(t)) \in Nat \ {0}
    BY <1>2, PlacesType
  <2>2. Hints(t) # {} => Counts[Words(t)[Min(Hints(t))]] \in Nat
    BY <1>2, HintType
  <2> QED
    BY <1>1, <1>3, <2>1, <2>2 DEF EstimateFiles
<1>5. Coupling(t, EstimateFiles(t, snapshot)) \in 0 .. 100
  BY <1>4, CouplingType
<1>6. PlanningDepth(t) \in Nat
  BY <1>2, DepthType
<1>7. ReasoningRatio(t) \in [of : Nat, amidst : Nat]
  <2>1. \A k : Cardinality(Places(t, k)) \in Nat
    BY <1>2, PlacesType
  <2> QED
    BY <2>1 DEF ReasoningRatio
<1>8. InputTokens(t, snapshot) \in Nat \ {0}
  <2>1. Len(Words(t)) * CharsPerWord \in Nat
    BY <1>2, WordsType, LengthAssumption
  <2>2. (Len(Words(t)) * CharsPerWord) \div 4 \in Nat /\ snapshot.bytes \div 4 \in Nat
    BY <1>1, <2>1
  <2>3. \A m, n \in Nat : AtLeastOne(m) + n \in Nat \ {0}
    BY DEF AtLeastOne
  <2> QED
    BY <2>2, <2>3 DEF InputTokens
<1>9. snapshot.tests \in BOOLEAN
  BY <1>1
<1> QED
  BY <1>4, <1>5, <1>6, <1>7, <1>8, <1>9 DEF ExtractFeatures, Features, snapshot

(***************************************************************************)
(* The shards of a task that names its files.                              *)
(***************************************************************************)
Distinct(s) == \A i, j \in DOMAIN s : s[i] = s[j] => i = j

ValuesOf(s) == {s[i] : i \in DOMAIN s}

LEMMA DistinctCount ==
  ASSUME NEW S, NEW s \in Seq(S), Distinct(s)
  PROVE  Len(s) \in Nat /\ Cardinality(ValuesOf(s)) = Len(s)
<1>1. Len(s) \in Nat /\ DOMAIN s = 1 .. Len(s)
  BY LenProperties
<1>2. IsFiniteSet(1 .. Len(s)) /\ Cardinality(1 .. Len(s)) = Len(s)
  <2>1. \A n \in Nat : IsFiniteSet(1 .. n) /\ Cardinality(1 .. n) = n
    BY FS_Interval
  <2> QED
    BY <1>1, <2>1
<1> DEFINE f == [i \in 1 .. Len(s) |-> s[i]]
<1>3. f \in Bijection(1 .. Len(s), ValuesOf(s))
  <2>1. f \in [1 .. Len(s) -> ValuesOf(s)]
    BY <1>1 DEF ValuesOf
  <2>2. \A i, j \in 1 .. Len(s) : f[i] = f[j] => i = j
    BY <1>1 DEF Distinct
  <2>3. \A v \in ValuesOf(s) : \E i \in 1 .. Len(s) : f[i] = v
    BY <1>1 DEF ValuesOf
  <2> HIDE DEF f
  <2> QED
    BY <2>1, <2>2, <2>3 DEF Bijection, Injection, Surjection, IsInjective
<1>4. ExistsBijection(1 .. Len(s), ValuesOf(s))
  BY <1>3 DEF ExistsBijection
<1> QED
  BY <1>1, <1>2, <1>4, FS_Bijection

LEMMA AppendValues ==
  ASSUME NEW S, NEW s \in Seq(S), NEW x \in S
  PROVE  /\ Append(s, x) \in Seq(S) /\ ValuesOf(Append(s, x)) = ValuesOf(s) \cup {x}
         /\ Distinct(s) /\ ~ Contains(s, x) => Distinct(Append(s, x))
         /\ Contains(s, x) <=> x \in ValuesOf(s)
<1> DEFINE n == Len(s)
           a == Append(s, x)
<1>1. n \in Nat /\ DOMAIN s = 1 .. n
  BY LenProperties
<1>2. /\ a \in Seq(S) /\ Len(a) = n + 1 /\ a[n + 1] = x
      /\ \A i \in 1 .. n : a[i] = s[i]
  BY AppendProperties
<1>3. DOMAIN a = 1 .. n + 1
  BY <1>2, LenProperties
<1>4. 1 .. n + 1 = (1 .. n) \cup {n + 1} /\ n + 1 \notin 1 .. n
  BY <1>1
<1>5. Contains(s, x) <=> x \in ValuesOf(s)
  BY <1>1 DEF Contains, ValuesOf
<1> HIDE DEF a, n
<1>6. ValuesOf(a) = ValuesOf(s) \cup {x}
  BY <1>1, <1>2, <1>3, <1>4 DEF ValuesOf
<1>7. ASSUME Distinct(s), ~ Contains(s, x), NEW i \in DOMAIN a, NEW j \in DOMAIN a, a[i] = a[j]
      PROVE  i = j
  <2>1. \A k \in 1 .. n : s[k] # x
    BY <1>1, <1>5, <1>7 DEF ValuesOf
  <2> QED
    BY <1>1, <1>2, <1>3, <1>4, <1>7, <2>1 DEF Distinct
<1>8. Distinct(s) /\ ~ Contains(s, x) => Distinct(a)
  BY <1>7 DEF Distinct
<1> QED
  BY <1>2, <1>5, <1>6, <1>8 DEF a

\* The loop of _unique_preserve_order, step by step.
LEMMA UniqueUnfold ==
  ASSUME NEW t \in Seq(Seq(Seq(DOMAIN Lexicon)))
  PROVE  \E out : /\ UniquePaths(t) = out[Len(Words(t))] /\ out[0] = << >>
                  /\ \A i \in 1 .. Len(Words(t)) :
                       out[i] = IF "path" \in Lexicon[Words(t)[i]] /\ ~ Contains(out[i - 1], Words(t)[i])
                                  THEN Append(out[i - 1], Words(t)[i])
                                ELSE out[i - 1]
<1> DEFINE words == Words(t)
           n == Len(words)
           V == Seq(DOMAIN Lexicon)
           More(i, v) == IF "path" \in Lexicon[words[i]] /\ ~ Contains(v, words[i])
                           THEN Append(v, words[i]) ELSE v
           step == [i \in 1 .. n |-> [v \in V |-> More(i, v)]]
           Unfolds(f) == f = [i \in 0 .. n |-> IF i = 0 THEN << >> ELSE More(i, f[i - 1])]
           found == CHOOSE f : Unfolds(f)
<1>1. n \in Nat /\ words \in V /\ \A i \in 1 .. n : words[i] \in DOMAIN Lexicon
  BY WordsType, ElementOfSeq
<1>2. \E f : Unfolds(f)
  <2>1. step \in [1 .. n -> [V -> V]]
    <3>1. ASSUME NEW i \in 1 .. n, NEW v \in V PROVE More(i, v) \in V
      BY <1>1, AppendProperties
    <3> HIDE DEF V, More
    <3> QED
      BY <3>1
  <2>2. << >> \in V
    BY EmptySeq
  <2>3. \E g \in [0 .. n -> V] : Follows(g, n, << >>, step)
    <3> HIDE DEF step, V, n
    <3> QED
      BY <1>1, <2>1, <2>2, IndexRecursion
  <2>4. PICK g \in [0 .. n -> V] :
          g[0] = << >> /\ \A i \in 1 .. n : g[i] = step[i][g[i - 1]]
    <3> HIDE DEF step, V, n
    <3> QED
      BY <2>3 DEF Follows
  <2>5. ASSUME NEW i \in 1 .. n PROVE g[i] = More(i, g[i - 1])
    <3>1. g[i - 1] \in V
      <4>1. i - 1 \in 0 .. n
        BY <1>1
      <4> HIDE DEF step, V
      <4> QED
        BY <2>4, <4>1
    <3>2. g[i] = step[i][g[i - 1]]
      <4> HIDE DEF step, V
      <4> QED
        BY <2>4
    <3> HIDE DEF V, More
    <3> QED
      BY <3>1, <3>2
  <2> HIDE DEF V, step, More
  <2>6. g = [i \in 0 .. n |-> g[i]] /\ g[0] = << >>
    BY <2>4
  <2>7. ASSUME NEW i \in 0 .. n PROVE g[i] = IF i = 0 THEN << >> ELSE More(i, g[i - 1])
    <3>1. i # 0 => i \in 1 .. n
      BY <1>1
    <3> QED
      BY <2>5, <2>6, <3>1
  <2>8. Unfolds(g)
    BY <2>6, <2>7
  <2> QED
    BY <2>8
<1>3. Unfolds(found)
  BY <1>2
<1>4. UniquePaths(t) = found[n]
  BY Zenon DEF UniquePaths
<1> HIDE DEF found
<1>5. found[0] = << >>
  BY <1>1, <1>3
<1>6. \A i \in 1 .. n : found[i] = More(i, found[i - 1])
  <2> HIDE DEF More
  <2>1. \A i \in 0 .. n : found[i] = IF i = 0 THEN << >> ELSE More(i, found[i - 1])
    BY <1>3
  <2>2. \A i \in 1 .. n : i \in 0 .. n /\ i # 0
    BY <1>1
  <2> QED
    BY <2>1, <2>2
<1> QED
  BY <1>4, <1>5, <1>6

\* It finds the paths of the task, each of them once.
LEMMA UniquePathsAre ==
  ASSUME NEW t \in Seq(Seq(Seq(DOMAIN Lexicon)))
  PROVE  /\ UniquePaths(t) \in Seq(DOMAIN Lexicon) /\ Distinct(UniquePaths(t))
         /\ ValuesOf(UniquePaths(t)) = Paths(t)
<1> DEFINE words == Words(t)
           n == Len(words)
           V == Seq(DOMAIN Lexicon)
           Named(k) == {words[i] : i \in {j \in 1 .. k : "path" \in Lexicon[words[j]]}}
           Good(s, k) == s \in V /\ Distinct(s) /\ ValuesOf(s) = Named(k)
<1>1. n \in Nat /\ DOMAIN words = 1 .. n /\ words \in V /\ \A i \in 1 .. n : words[i] \in DOMAIN Lexicon
  BY WordsType, ElementOfSeq
<1>2. PICK out :
        /\ UniquePaths(t) = out[n] /\ out[0] = << >>
        /\ \A i \in 1 .. n :
             out[i] = IF "path" \in Lexicon[words[i]] /\ ~ Contains(out[i - 1], words[i])
                        THEN Append(out[i - 1], words[i])
                      ELSE out[i - 1]
  BY UniqueUnfold
<1>3. Good(out[0], 0)
  <2>1. << >> \in V /\ DOMAIN << >> = {}
    BY EmptySeq
  <2> QED
    BY <1>2, <2>1 DEF Distinct, ValuesOf
<1>4. ASSUME NEW k \in 1 .. n, Good(out[k - 1], k - 1) PROVE Good(out[k], k)
  <2> DEFINE before == out[k - 1]
             w == words[k]
  <2>1. w \in DOMAIN Lexicon /\ before \in V /\ Distinct(before) /\ ValuesOf(before) = Named(k - 1)
    BY <1>1, <1>4
  <2>2. 1 .. k = (1 .. k - 1) \cup {k}
    OBVIOUS
  <2>3. "path" \in Lexicon[w] => Named(k) = Named(k - 1) \cup {w}
    BY <2>2
  <2>4. "path" \notin Lexicon[w] => Named(k) = Named(k - 1)
    BY <2>2
  <2>5. out[k] = IF "path" \in Lexicon[w] /\ ~ Contains(before, w) THEN Append(before, w) ELSE before
    BY <1>2
  <2> HIDE DEF before, w, Named, V
  <2>6. /\ Append(before, w) \in Seq(DOMAIN Lexicon)
        /\ ValuesOf(Append(before, w)) = ValuesOf(before) \cup {w}
        /\ ~ Contains(before, w) => Distinct(Append(before, w))
        /\ Contains(before, w) <=> w \in ValuesOf(before)
    BY <2>1, AppendValues DEF V
  <2> QED
    BY <2>1, <2>3, <2>4, <2>5, <2>6 DEF V
<1>5. Good(out[n], n)
  <2> DEFINE Wrong == {k \in 0 .. n : ~ Good(out[k], k)}
  <2> HIDE DEF Good
  <2>1. Wrong \in SUBSET Nat
    OBVIOUS
  <2> SUFFICES ASSUME Wrong # {} PROVE FALSE
    BY <1>1
  <2>2. PICK k \in Wrong : \A m \in Wrong : k <= m
    <3> HIDE DEF Wrong
    <3> QED
      BY <2>1, LeastNumber
  <2>3. k \in 1 .. n /\ k - 1 \in 0 .. n /\ k - 1 \notin Wrong
    BY <1>1, <1>3, <2>2
  <2> QED
    BY <1>4, <2>2, <2>3
<1>6. Named(n) = Paths(t)
  BY <1>1 DEF Paths, Places
<1> QED
  BY <1>2, <1>5, <1>6

\* One shard for each file named, up to the maximum, and no two of them the same.
LEMMA ShardsOfPaths ==
  ASSUME NEW t \in Seq(Seq(Seq(DOMAIN Lexicon))), Paths(t) # {}
  PROVE  /\ Len(PlanShards(t)) = Larger(1, Lesser(Cardinality(Paths(t)), MaxShards))
         /\ Cardinality(ValuesOf(PlanShards(t))) = Len(PlanShards(t))
<1> DEFINE paths == UniquePaths(t)
<1>1. /\ paths \in Seq(DOMAIN Lexicon) /\ Distinct(paths) /\ ValuesOf(paths) = Paths(t)
  BY UniquePathsAre
<1>2. Len(paths) \in Nat /\ Cardinality(Paths(t)) = Len(paths)
  <2> HIDE DEF paths
  <2> QED
    BY <1>1, DistinctCount
<1>3. paths # << >>
  BY <1>1 DEF ValuesOf
<1>4. PlanShards(t) = Clamp(paths)
  BY <1>3 DEF PlanShards
<1> HIDE DEF paths
<1>5. DOMAIN paths = 1 .. Len(paths) /\ Len(paths) # 0
  BY <1>1, <1>3, LenProperties, EmptySeq
<1>6. CASE Len(paths) > MaxShards
  <2> DEFINE cut == SubSeq(paths, 1, MaxShards)
  <2>1. \A i \in 1 .. MaxShards : paths[i] \in DOMAIN Lexicon /\ i \in DOMAIN paths
    BY <1>1, <1>2, <1>5, <1>6, MaxShardsAssumption, ElementOfSeq
  <2>2. /\ cut \in Seq(DOMAIN Lexicon) /\ Len(cut) = MaxShards
        /\ \A i \in 1 .. MaxShards : cut[i] = paths[i]
    <3>1. /\ cut \in Seq(DOMAIN Lexicon)
          /\ Len(cut) = IF 1 <= MaxShards THEN MaxShards - 1 + 1 ELSE 0
          /\ \A i \in 1 .. MaxShards - 1 + 1 : cut[i] = paths[1 + i - 1]
      BY <2>1, MaxShardsAssumption, SubSeqProperties
    <3> HIDE DEF cut
    <3>2. MaxShards - 1 + 1 = MaxShards /\ 1 <= MaxShards /\ \A i \in 1 .. MaxShards : 1 + i - 1 = i
      BY MaxShardsAssumption
    <3> QED
      BY <3>1, <3>2
  <2>3. Clamp(paths) = cut
    BY <1>6 DEF Clamp
  <2> HIDE DEF cut
  <2>4. DOMAIN cut = 1 .. MaxShards
    BY <2>2, LenProperties
  <2>5. Distinct(cut)
    BY <1>1, <2>1, <2>2, <2>4 DEF Distinct
  <2>6. Cardinality(ValuesOf(cut)) = Len(cut)
    BY <2>2, <2>5, DistinctCount
  <2> QED
    BY <1>2, <1>4, <1>6, <2>2, <2>3, <2>6, MaxShardsAssumption DEF Larger, Lesser
<1>7. CASE ~ (Len(paths) > MaxShards)
  <2>1. Clamp(paths) = paths
    BY <1>7 DEF Clamp
  <2> QED
    BY <1>1, <1>2, <1>4, <1>5, <1>7, <2>1, MaxShardsAssumption DEF Larger, Lesser
<1> QED
  BY <1>6, <1>7

-----------------------------------------------------------------------------
(***************************************************************************)
(* The swap rules.                                                         *)
(***************************************************************************)

\* The stages of a role are what _apply_swaps computes, rule by rule.
LEMMA StagesUnfold ==
  ASSUME NEW rules \in SwapLists, NEW role, NEW model
  PROVE  /\ Len(rules) \in Nat /\ DOMAIN rules = 1 .. Len(rules)
         /\ Stages(rules, role, model)[0] = model
         /\ \A i \in 1 .. Len(rules) :
              Stages(rules, role, model)[i] =
                IF Applies(rules[i], role, Stages(rules, role, model)[i - 1]) THEN rules[i].to
                ELSE Stages(rules, role, model)[i - 1]
<1> DEFINE n == Len(rules)
           V == {model} \cup {rules[i].to : i \in 1 .. n}
           step == [i \in 1 .. n |->
                      [v \in V |-> IF Applies(rules[i], role, v) THEN rules[i].to ELSE v]]
           Unfolds(f) == f = [i \in 0 .. n |->
                                IF i = 0 THEN model
                                ELSE IF Applies(rules[i], role, f[i - 1]) THEN rules[i].to
                                ELSE f[i - 1]]
           after == CHOOSE f : Unfolds(f)
<1>1. n \in Nat /\ DOMAIN rules = 1 .. n
  BY SwapsAssumption, LenProperties
<1>2. \E f : Unfolds(f)
  <2>1. step \in [1 .. n -> [V -> V]]
    OBVIOUS
  <2>2. \E g \in [0 .. n -> V] : Follows(g, n, model, step)
    <3>1. model \in V
      OBVIOUS
    <3> HIDE DEF step, V, n
    <3> QED
      BY <1>1, <2>1, <3>1, IndexRecursion
  <2>3. PICK g \in [0 .. n -> V] :
          g[0] = model /\ \A i \in 1 .. n : g[i] = step[i][g[i - 1]]
    <3> HIDE DEF step, V, n
    <3> QED
      BY <2>2 DEF Follows
  <2>4. ASSUME NEW i \in 1 .. n
        PROVE  g[i] = IF Applies(rules[i], role, g[i - 1]) THEN rules[i].to ELSE g[i - 1]
    <3>1. g[i - 1] \in V
      <4>1. i - 1 \in 0 .. n
        BY <1>1
      <4> HIDE DEF step, V
      <4> QED
        BY <2>3, <4>1
    <3>2. g[i] = step[i][g[i - 1]]
      <4> HIDE DEF step, V
      <4> QED
        BY <2>3
    <3>3. step[i][g[i - 1]]
            = IF Applies(rules[i], role, g[i - 1]) THEN rules[i].to ELSE g[i - 1]
      <4> HIDE DEF V
      <4> QED
        BY <3>1
    <3> HIDE DEF step, V
    <3> QED
      BY <3>2, <3>3
  <2>5. g = [i \in 0 .. n |-> g[i]] /\ g[0] = model
    <3> HIDE DEF V, step
    <3> QED
      BY <2>3
  <2>6. ASSUME NEW i \in 0 .. n
        PROVE  g[i] = IF i = 0 THEN model
                      ELSE IF Applies(rules[i], role, g[i - 1]) THEN rules[i].to
                      ELSE g[i - 1]
    <3>1. i # 0 => i \in 1 .. n
      BY <1>1
    <3> QED
      BY <2>4, <2>5, <3>1
  <2> HIDE DEF V, step
  <2>7. Unfolds(g)
    BY <2>5, <2>6
  <2> QED
    BY <2>7
<1>3. Unfolds(after)
  BY <1>2
<1>4. after = Stages(rules, role, model)
  BY DEF Stages
<1> HIDE DEF after
<1>5. after[0] = model
  BY <1>1, <1>3
<1>6. \A i \in 1 .. n :
        after[i] = IF Applies(rules[i], role, after[i - 1]) THEN rules[i].to ELSE after[i - 1]
  BY <1>1, <1>3
<1> QED
  BY <1>1, <1>4, <1>5, <1>6

\* What holds of the first stage and is kept by every rule holds of the last one.
LEMMA StagesInduction ==
  ASSUME NEW rules \in SwapLists, NEW role, NEW model, NEW Good, model \in Good,
         \A i \in 1 .. Len(rules) : \A m \in Good : Applies(rules[i], role, m) => rules[i].to \in Good
  PROVE  \A k \in 0 .. Len(rules) : Stages(rules, role, model)[k] \in Good
<1> DEFINE s == Stages(rules, role, model)
           n == Len(rules)
           Wrong == {k \in 0 .. n : s[k] \notin Good}
<1>1. /\ n \in Nat /\ s[0] = model
      /\ \A i \in 1 .. n : s[i] = IF Applies(rules[i], role, s[i - 1]) THEN rules[i].to ELSE s[i - 1]
  BY StagesUnfold
<1> HIDE DEF s
<1>2. Wrong \in SUBSET Nat
  BY <1>1
<1> SUFFICES ASSUME Wrong # {} PROVE FALSE
  BY <1>1 DEF s
<1>3. PICK k \in Wrong : \A m \in Wrong : k <= m
  <2> HIDE DEF Wrong
  <2> QED
    BY <1>2, LeastNumber
<1>4. k \in 1 .. n /\ k - 1 \in 0 .. n /\ k - 1 \notin Wrong
  BY <1>1, <1>3
<1>5. s[k - 1] \in Good
  BY <1>4
<1>6. s[k] = IF Applies(rules[k], role, s[k - 1]) THEN rules[k].to ELSE s[k - 1]
  BY <1>1, <1>4
<1> QED
  BY <1>4, <1>5, <1>6

\* A role that every rule protects keeps its model.
LEMMA StagesProtect ==
  ASSUME NEW rules \in SwapLists, NEW role, NEW model,
         \A i \in DOMAIN rules : role \in rules[i].protect
  PROVE  Stages(rules, role, model)[Len(rules)] = model
<1>1. Len(rules) \in Nat /\ DOMAIN rules = 1 .. Len(rules)
  BY StagesUnfold
<1>2. \A i \in 1 .. Len(rules) : \A m \in {model} :
        Applies(rules[i], role, m) => rules[i].to \in {model}
  BY <1>1 DEF Applies
<1>3. \A k \in 0 .. Len(rules) : Stages(rules, role, model)[k] \in {model}
  BY <1>2, StagesInduction
<1>4. Stages(rules, role, model)[Len(rules)] \in {model}
  BY <1>1, <1>3
<1> QED
  BY <1>4

\* Where no rule applies at its stage, nothing changes.
LEMMA StagesUntouched ==
  ASSUME NEW rules \in SwapLists, NEW role, NEW model,
         \A i \in 1 .. Len(rules) : ~ Applies(rules[i], role, Stages(rules, role, model)[i - 1])
  PROVE  Stages(rules, role, model)[Len(rules)] = model
<1> DEFINE s == Stages(rules, role, model)
           n == Len(rules)
           Wrong == {k \in 0 .. n : s[k] # model}
<1>1. /\ n \in Nat /\ s[0] = model
      /\ \A i \in 1 .. n : s[i] = s[i - 1]
  BY StagesUnfold
<1> HIDE DEF s
<1>2. Wrong \in SUBSET Nat
  BY <1>1
<1> SUFFICES ASSUME Wrong # {} PROVE FALSE
  BY <1>1 DEF s
<1>3. PICK k \in Wrong : \A m \in Wrong : k <= m
  <2> HIDE DEF Wrong
  <2> QED
    BY <1>2, LeastNumber
<1>4. k \in 1 .. n /\ k - 1 \in 0 .. n /\ k - 1 \notin Wrong
  BY <1>1, <1>3
<1>5. s[k - 1] = model
  BY <1>4
<1> QED
  BY <1>1, <1>3, <1>4, <1>5

\* From the stage of a rule on, the model that the rule would replace for the role is
\* there only as what this rule or a later one has put in.
LEMMA StagesReplace ==
  ASSUME NEW rules \in SwapLists, NEW role, NEW model, NEW i \in 1 .. Len(rules),
         role \notin rules[i].protect,
         Stages(rules, role, model)[Len(rules)] = rules[i].from
  PROVE  \E j \in i .. Len(rules) : rules[j].to = rules[i].from
<1> DEFINE s == Stages(rules, role, model)
           n == Len(rules)
           Wrong == {k \in i .. n : s[k] = rules[i].from /\ \A j \in i .. k : rules[j].to # rules[i].from}
<1>1. /\ n \in Nat
      /\ \A k \in 1 .. n : s[k] = IF Applies(rules[k], role, s[k - 1]) THEN rules[k].to ELSE s[k - 1]
  BY StagesUnfold
<1>0. s[n] = rules[i].from /\ n \in i .. n
  BY <1>1
<1> HIDE DEF s
<1>2. Wrong \in SUBSET Nat
  BY <1>1
<1> SUFFICES ASSUME Wrong # {} PROVE FALSE
  BY <1>0
<1>3. PICK k \in Wrong : \A m \in Wrong : k <= m
  <2> HIDE DEF Wrong
  <2> QED
    BY <1>2, LeastNumber
<1>4. k \in 1 .. n /\ k \in i .. n /\ k \in i .. k
  BY <1>1, <1>3
<1>5. s[k] = rules[i].from /\ rules[k].to # rules[i].from
  BY <1>4
<1>6. s[k] = IF Applies(rules[k], role, s[k - 1]) THEN rules[k].to ELSE s[k - 1]
  BY <1>1, <1>4
<1>7. ~ Applies(rules[k], role, s[k - 1]) /\ s[k - 1] = rules[i].from
  BY <1>5, <1>6
<1>8. k # i
  BY <1>7 DEF Applies
<1>9. k - 1 \in i .. n /\ k - 1 \notin Wrong /\ i .. k - 1 \subseteq i .. k
  BY <1>1, <1>3, <1>4, <1>8
<1> QED
  BY <1>3, <1>7, <1>9

(***************************************************************************)
(* What plans cost.                                                        *)
(***************************************************************************)
NoDearer(model) ==
  {m \in DOMAIN Prices : Prices[m].in <= Prices[model].in /\ Prices[m].out <= Prices[model].out}

\* Rules that cheapen leave a role on a model no dearer than the one it had.
LEMMA SwappedIsNoDearer ==
  ASSUME swaps \in SwapLists, Cheapening, NEW role, NEW model \in DOMAIN Prices
  PROVE  Stages(swaps, role, model)[Len(swaps)] \in NoDearer(model)
<1>1. \A m \in DOMAIN Prices : Prices[m].in \in Nat /\ Prices[m].out \in Nat
  BY PricesAssumption
<1>2. model \in NoDearer(model)
  BY <1>1 DEF NoDearer
<1>3. Len(swaps) \in Nat /\ DOMAIN swaps = 1 .. Len(swaps)
  BY StagesUnfold
<1>4. ASSUME NEW i \in 1 .. Len(swaps), NEW m \in NoDearer(model), Applies(swaps[i], role, m)
      PROVE  swaps[i].to \in NoDearer(model)
  <2>1. /\ m = swaps[i].from /\ {m, swaps[i].to} \subseteq DOMAIN Prices
        /\ Prices[swaps[i].to].in <= Prices[m].in /\ Prices[swaps[i].to].out <= Prices[m].out
    BY <1>3, <1>4 DEF Cheapening, Applies
  <2>2. Prices[m].in <= Prices[model].in /\ Prices[m].out <= Prices[model].out
    BY DEF NoDearer
  <2>3. /\ Prices[swaps[i].to].in <= Prices[model].in
        /\ Prices[swaps[i].to].out <= Prices[model].out
    <3> DEFINE a == Prices[swaps[i].to].in  b == Prices[m].in  c == Prices[model].in
               x == Prices[swaps[i].to].out y == Prices[m].out z == Prices[model].out
    <3>1. a \in Nat /\ b \in Nat /\ c \in Nat /\ x \in Nat /\ y \in Nat /\ z \in Nat
      BY <1>1, <2>1
    <3>2. a <= b /\ b <= c /\ x <= y /\ y <= z
      BY <2>1, <2>2
    <3> HIDE DEF a, b, c, x, y, z
    <3>3. a <= c /\ x <= z
      BY <3>1, <3>2
    <3> QED
      BY <3>3 DEF a, c, x, z
  <2> QED
    BY <2>1, <2>3 DEF NoDearer
<1>5. \A k \in 0 .. Len(swaps) : Stages(swaps, role, model)[k] \in NoDearer(model)
  BY <1>2, <1>4, StagesInduction
<1> QED
  BY <1>3, <1>5

LEMMA TokensType ==
  ASSUME NEW strategy \in Strategies, NEW f \in Features
  PROVE  OutputTokens(strategy, f) \in Nat
<1> DEFINE c == Coefficients
<1>1. /\ c.singleBase \in Nat /\ c.singlePerStep \in Nat /\ c.pcivMultiplier \in Nat
      /\ c.pcivPerStep \in Nat /\ c.fleetPerShard \in Nat /\ c.fleetMaxShards \in Nat
  BY CoefficientsAssumption
<1>2. f.depth \in Nat /\ f.files \in Nat
  BY DEF Features
<1>3. \A m, n \in Nat : m * n \in Nat /\ m + n \in Nat
  OBVIOUS
<1>4. Larger(1, Lesser(f.files, c.fleetMaxShards)) \in Nat
  BY <1>1, <1>2 DEF Larger, Lesser
<1>5. /\ c.singlePerStep * f.depth \in Nat /\ c.singleBase * c.pcivMultiplier \in Nat
      /\ c.pcivPerStep * f.depth \in Nat
      /\ c.fleetPerShard * Larger(1, Lesser(f.files, c.fleetMaxShards)) \in Nat
  BY <1>1, <1>2, <1>3, <1>4
<1>6. CASE strategy = "single"
  BY <1>1, <1>3, <1>5, <1>6 DEF OutputTokens
<1>7. CASE strategy = "pciv"
  BY <1>1, <1>3, <1>5, <1>7 DEF OutputTokens
<1>8. CASE strategy = "fleet"
  BY <1>1, <1>3, <1>5, <1>8 DEF OutputTokens
<1> QED
  BY <1>6, <1>7, <1>8 DEF Strategies

\* The tokens a role is projected for, in and out.
Share(strategy, plan) == IF strategy = "fleet" THEN 1 ELSE Cardinality(DOMAIN plan)

LEMMA RoleCostsType ==
  ASSUME NEW strategy \in Strategies, NEW f \in Features, NEW plan, Priced(plan),
         IsFiniteSet(DOMAIN plan), DOMAIN plan # {}
  PROVE  /\ DOMAIN RoleCosts(strategy, f, plan) = DOMAIN plan
         /\ \A r \in DOMAIN plan :
              /\ RoleCosts(strategy, f, plan)[r] \in Nat
              /\ RoleCosts(strategy, f, plan)[r]
                   = Prices[plan[r]].in * (f.tokens \div Share(strategy, plan))
                     + Prices[plan[r]].out * (OutputTokens(strategy, f) \div Share(strategy, plan))
         /\ f.tokens \div Share(strategy, plan) \in Nat
         /\ OutputTokens(strategy, f) \div Share(strategy, plan) \in Nat
<1>1. Share(strategy, plan) \in Nat \ {0}
  BY FS_CardinalityType, FS_EmptySet DEF Share
<1>2. f.tokens \in Nat /\ OutputTokens(strategy, f) \in Nat
  BY TokensType DEF Features
<1>3. \A m \in Nat : \A n \in Nat \ {0} : m \div n \in Nat
  OBVIOUS
<1>4. /\ f.tokens \div Share(strategy, plan) \in Nat
      /\ OutputTokens(strategy, f) \div Share(strategy, plan) \in Nat
  BY <1>1, <1>2, <1>3
<1>5. \A a, b, x, y \in Nat : a * x + b * y \in Nat
  OBVIOUS
<1>6. \A r \in DOMAIN plan : Prices[plan[r]].in \in Nat /\ Prices[plan[r]].out \in Nat
  BY PricesAssumption DEF Priced
<1>7. DOMAIN RoleCosts(strategy, f, plan) = DOMAIN plan
  BY DEF RoleCosts
<1>8. \A r \in DOMAIN plan :
        RoleCosts(strategy, f, plan)[r]
          = Prices[plan[r]].in * (f.tokens \div Share(strategy, plan))
            + Prices[plan[r]].out * (OutputTokens(strategy, f) \div Share(strategy, plan))
  BY DEF RoleCosts, Share
<1>9. ASSUME NEW r \in DOMAIN plan PROVE RoleCosts(strategy, f, plan)[r] \in Nat
  BY <1>4, <1>5, <1>6, <1>8
<1> QED
  BY <1>4, <1>7, <1>8, <1>9

LEMMA PlanCostType ==
  ASSUME NEW strategy \in Strategies, NEW f \in Features, NEW plan, Priced(plan),
         IsFiniteSet(DOMAIN plan), DOMAIN plan # {}
  PROVE  /\ PlanCost(strategy, f, plan) \in Nat
         /\ PlanCost(strategy, f, plan) = SumOver(RoleCosts(strategy, f, plan), DOMAIN plan)
<1> DEFINE costs == RoleCosts(strategy, f, plan)
<1>1. DOMAIN costs = DOMAIN plan /\ \A r \in DOMAIN plan : costs[r] \in Nat
  BY RoleCostsType
<1>2. PlanCost(strategy, f, plan) = SumFunction(costs)
  BY DEF PlanCost
<1> HIDE DEF costs
<1>3. SumFunction(costs) = SumOver(costs, DOMAIN costs)
  BY Zenon DEF SumFunction, SumFunctionOnSet, SumOver
<1>4. SumFunction(costs) \in Nat
  BY <1>1, SumFunctionType
<1> QED
  BY <1>1, <1>2, <1>3, <1>4 DEF costs

LEMMA LinearMonotonic ==
  ASSUME NEW a \in Nat, NEW b \in Nat, NEW c \in Nat, NEW d \in Nat,
         NEW x \in Nat, NEW y \in Nat, a <= c, b <= d
  PROVE  a * x + b * y <= c * x + d * y
<1>1. a * x <= c * x
  OBVIOUS
<1>2. b * y <= d * y
  OBVIOUS
<1>3. a * x \in Nat /\ b * y \in Nat /\ c * x \in Nat /\ d * y \in Nat
  OBVIOUS
<1> QED
  BY <1>1, <1>2, <1>3

\* A plan the rules make of a plan costs no more when they cheapen.
LEMMA SwappedCostsNoMore ==
  ASSUME swaps \in SwapLists, Cheapening, NEW strategy \in Strategies, NEW f \in Features,
         NEW plan, Priced(plan), IsFiniteSet(DOMAIN plan), DOMAIN plan # {}
  PROVE  /\ Priced(Swapped(swaps, plan))
         /\ PlanCost(strategy, f, Swapped(swaps, plan)) <= PlanCost(strategy, f, plan)
<1> DEFINE q == Swapped(swaps, plan)
           n == Share(strategy, plan)
<1>1. DOMAIN q = DOMAIN plan /\ Share(strategy, q) = n
  BY DEF Swapped, Share
<1>2. \A r \in DOMAIN plan : plan[r] \in DOMAIN Prices /\ q[r] \in NoDearer(plan[r])
  BY SwappedIsNoDearer DEF Swapped, Priced
<1>3. Priced(q)
  BY <1>1, <1>2 DEF Priced, NoDearer
<1> HIDE DEF q
<1>4. ASSUME NEW r \in DOMAIN plan
      PROVE  /\ RoleCosts(strategy, f, q)[r] \in Nat /\ RoleCosts(strategy, f, plan)[r] \in Nat
             /\ RoleCosts(strategy, f, q)[r] <= RoleCosts(strategy, f, plan)[r]
  <2> DEFINE x == f.tokens \div n
             y == OutputTokens(strategy, f) \div n
  <2>1. /\ RoleCosts(strategy, f, plan)[r] \in Nat /\ x \in Nat /\ y \in Nat
        /\ RoleCosts(strategy, f, plan)[r] = Prices[plan[r]].in * x + Prices[plan[r]].out * y
    BY RoleCostsType
  <2>2. /\ RoleCosts(strategy, f, q)[r] \in Nat
        /\ RoleCosts(strategy, f, q)[r] = Prices[q[r]].in * x + Prices[q[r]].out * y
    BY <1>1, <1>3, RoleCostsType
  <2>3. /\ Prices[q[r]].in <= Prices[plan[r]].in /\ Prices[q[r]].out <= Prices[plan[r]].out
        /\ q[r] \in DOMAIN Prices /\ plan[r] \in DOMAIN Prices
    BY <1>2 DEF NoDearer
  <2>4. /\ Prices[q[r]].in \in Nat /\ Prices[plan[r]].in \in Nat
        /\ Prices[q[r]].out \in Nat /\ Prices[plan[r]].out \in Nat
    BY <2>3, PricesAssumption
  <2> HIDE DEF x, y
  <2>5. Prices[q[r]].in * x + Prices[q[r]].out * y
          <= Prices[plan[r]].in * x + Prices[plan[r]].out * y
    BY <2>1, <2>3, <2>4, LinearMonotonic
  <2> QED
    BY <2>1, <2>2, <2>5
<1>5. SumOver(RoleCosts(strategy, f, q), DOMAIN plan)
        <= SumOver(RoleCosts(strategy, f, plan), DOMAIN plan)
  <2> DEFINE cheap == RoleCosts(strategy, f, q)
             dear  == RoleCosts(strategy, f, plan)
  <2>1. \A r \in DOMAIN plan : cheap[r] \in Nat /\ cheap[r] <= dear[r]
    BY <1>4
  <2>2. \A r \in DOMAIN plan : dear[r] \in Nat
    BY <1>4
  <2> HIDE DEF cheap, dear
  <2>3. SumOver(cheap, DOMAIN plan) <= SumOver(dear, DOMAIN plan)
    BY <2>1, <2>2, SumMonotonic
  <2> QED
    BY <2>3 DEF cheap, dear
<1>6. /\ PlanCost(strategy, f, plan) = SumOver(RoleCosts(strategy, f, plan), DOMAIN plan)
      /\ PlanCost(strategy, f, q) = SumOver(RoleCosts(strategy, f, q), DOMAIN plan)
  BY <1>1, <1>3, PlanCostType
<1> QED
  BY <1>3, <1>5, <1>6 DEF q

-----------------------------------------------------------------------------
\* The numbers are natural, the phases are those of the module.
MoneyTypes ==
  /\ spent \in Nat /\ base \in Nat /\ reported \in Nat /\ billed \in Nat
  /\ report \in [cost : Nat, success : BOOLEAN]
  /\ phase \in {"idle", "routed", "calling", "reporting", "returned", "raised"}

\* Until execute ends nothing has been recorded for the task, and its calls are
\* made only when something was left at its start.  What a pciv run was charged
\* is in its report.
Untouched ==
  /\ ~ Ended => spent = base /\ reported = 0
  /\ phase \in {"calling", "reporting"} => base < HardCap
  /\ phase \in {"idle", "routed", "calling"} => billed = 0
  /\ phase = "reporting" => billed = report.cost

RoutingInv == MoneyTypes /\ Untouched /\ BilledIsRecorded

LEMMA CanStartMeansLeft ==
  ASSUME spent \in Nat, NEW projected, CanStart(projected)
  PROVE  spent < HardCap
BY HardCapAssumption DEF CanStart, Remaining

LEMMA InitRouting == Init => RoutingInv
BY DEF Init, RoutingInv, MoneyTypes, Untouched, BilledIsRecorded, Ended, NoReport

LEMMA NextRouting == RoutingInv /\ [Next]_vars => RoutingInv'
<1> SUFFICES ASSUME RoutingInv, [Next]_vars PROVE RoutingInv'
  OBVIOUS
<1> USE HardCapAssumption, CostsAssumption
    DEF RoutingInv, MoneyTypes, Untouched, BilledIsRecorded, Ended, money, result
<1>1. CASE Route
  BY <1>1 DEF Route, files
<1>2. CASE BuildRaises
  BY <1>2 DEF BuildRaises, request
<1>3. CASE ProjectionRaises
  BY <1>3 DEF ProjectionRaises, request
<1>4. CASE Refuse
  BY <1>4 DEF Refuse, Projects, request
<1>5. CASE ConfigMissing
  BY <1>5 DEF ConfigMissing, Projects, request
<1>6. CASE Start
  <2>1. spent < HardCap
    BY <1>6, CanStartMeansLeft DEF Start
  <2>2. QED
    BY <1>6, <2>1 DEF Start, Projects, request
<1>7. CASE CallFails
  BY <1>7 DEF CallFails, Calling, request
<1>8. CASE SingleAnswers
  BY <1>8 DEF SingleAnswers, Calling, RecordSpend, request
<1>9. CASE PCIVRefuses
  BY <1>9 DEF PCIVRefuses, Calling, NoReport, request
<1>10. CASE PCIVRuns
  BY <1>10 DEF PCIVRuns, Calling, ReportOf, request
<1>11. CASE PCIVReports
  BY <1>11 DEF PCIVReports, RecordSpend, request
<1>12. CASE FleetReturns
  BY <1>12 DEF FleetReturns, Calling, RecordSpend, request
<1>13. CASE FleetRaises
  BY <1>13 DEF FleetRaises, Calling, RecordSpend, request
<1>14. CASE NextTask
  BY <1>14 DEF NextTask, NoReport
<1>15. CASE UNCHANGED vars
  BY <1>15 DEF vars, request
<1>16. QED
  BY <1>1, <1>2, <1>3, <1>4, <1>5, <1>6, <1>7, <1>8, <1>9, <1>10, <1>11, <1>12, <1>13,
     <1>14, <1>15 DEF Next, Rest

\* When a strategy returns, the governor has recorded for the task what the providers
\* charged for it, a pciv run that raised included (pciv_adapter.py:152-161, pciv.py:
\* 106-121), after any sequence of tasks.
THEOREM BillsAreRecorded == Spec => []BilledIsRecorded
<1>1. RoutingInv => BilledIsRecorded
  BY DEF RoutingInv
<1>2. QED
  BY InitRouting, NextRouting, <1>1, PTL DEF Spec

-----------------------------------------------------------------------------
\* Each step of the router is a step of the contract, or leaves what the contract
\* speaks of alone.
LEMMA StepImplementsContract ==
  ASSUME RoutingInv, RoutingInv', [Next]_vars
  PROVE  [Contract!Next]_(Contract!vars)
<1> USE DEF Contract!vars, Contract!Next, RoutingInv, MoneyTypes, Untouched, Ended, money, result
<1>1. CASE Route
  BY <1>1 DEF Route, files
<1>2. CASE BuildRaises \/ ProjectionRaises
  BY <1>2 DEF BuildRaises, ProjectionRaises, Contract!Raise, Contract!Spends, request
<1>3. CASE Refuse \/ ConfigMissing
  <2>1. phase = "routed" /\ phase' = "returned" /\ UNCHANGED << spent, base, reported >>
    BY <1>3 DEF Refuse, ConfigMissing, Projects, request
  <2>2. QED
    BY <2>1 DEF Contract!Return, Contract!Spends
<1>4. CASE Start
  BY <1>4 DEF Start, Projects, request
<1>5. CASE CallFails
  BY <1>5 DEF CallFails, Calling, Contract!Return, Contract!Spends, request
<1>6. CASE SingleAnswers \/ FleetReturns
  <2> PICK c \in Costs : spent' = spent + c /\ reported' = c
    BY <1>6 DEF SingleAnswers, FleetReturns, RecordSpend
  <2>1. phase = "calling" /\ phase' = "returned" /\ base' = base
    BY <1>6 DEF SingleAnswers, FleetReturns, Calling, request
  <2>2. QED
    BY <2>1, CostsAssumption DEF Contract!Return, Contract!Spends
<1>7. CASE PCIVReports
  BY <1>7 DEF PCIVReports, RecordSpend, Contract!Return, Contract!Spends, request
<1>8. CASE PCIVRefuses \/ PCIVRuns
  BY <1>8 DEF PCIVRefuses, PCIVRuns, Calling, request
<1>9. CASE FleetRaises
  BY <1>9, CostsAssumption
     DEF FleetRaises, Calling, RecordSpend, Contract!Raise, Contract!Spends, request
<1>10. CASE NextTask
  BY <1>10 DEF NextTask, Contract!NextTask
<1>11. CASE UNCHANGED vars
  BY <1>11 DEF vars, request
<1>12. QED
  BY <1>1, <1>2, <1>3, <1>4, <1>5, <1>6, <1>7, <1>8, <1>9, <1>10, <1>11 DEF Next, Rest

\* The router implements the strategies' contract: a result reports what was
\* recorded for its task, and an exhausted cap is not spent from (router.py run).
THEOREM RoutingImplementsContract == Spec => ImplementsContract
<1>1. Init => Contract!Init
  BY DEF Init, Contract!Init, Ended
<1>2. QED
  BY <1>1, InitRouting, NextRouting, StepImplementsContract, PTL
     DEF Spec, ImplementsContract, Contract!Spec

-----------------------------------------------------------------------------
(***************************************************************************)
(* What is projected, refused and run.                                     *)
(***************************************************************************)

\* What is known at each phase.
Known ==
  /\ phase = "idle" => tasks < MaxTasks
  /\ phase \in {"idle", "routed"} => projection = NoProjection /\ ran = << >>
  /\ phase # "idle" => decision.strategy \in Strategies /\ features \in Features

Degraded == projection.degraded => projection.plan = Swapped(swaps, FirstPlan)

\* On a tight budget the router's own choice is the fallback.
TightRoute ==
  /\ phase # "idle" /\ base < HardCap /\ HardCap - base < Thresholds.tightBudget
  /\ decision.reason # "forced"
  => decision.strategy = "single" /\ decision.model = ModelDefaults.fallback

\* What runs is priced, and of a single agent it is the plan or what the rules made of it.
RanAsPlanned ==
  ran # << >> =>
    /\ base < HardCap /\ Priced(FirstPlan) /\ phase \notin {"idle", "routed"}
    /\ decision.strategy = "single" => ran \in {FirstPlan, Swapped(swaps, FirstPlan)}

\* A refused task is refused by the projection as it still is.
Refused ==
  outcome = "refused" =>
    /\ phase = "returned"
    /\ ~ ProjectRaises(decision.strategy, features, FirstPlan, swaps)
    /\ ~ CanStart(Projected.cost)

PlanInv == RoutingInv /\ TypeOK /\ Known /\ Degraded /\ TightRoute /\ RanAsPlanned /\ Refused

LEMMA FirstPlanType ==
  ASSUME planFile \in PlanFiles, decision.strategy \in Strategies
  PROVE  IsFiniteSet(DOMAIN FirstPlan) /\ DOMAIN FirstPlan # {}
<1>1. IsFiniteSet({"primary"}) /\ IsFiniteSet({"worker"}) /\ IsFiniteSet(PCIVRoles)
  <2>1. \A x : IsFiniteSet({x})
    BY FS_Singleton
  <2>2. IsFiniteSet({"planner"} \cup {"critic"}) /\ IsFiniteSet({"implementer"} \cup {"verifier"})
    BY <2>1, FS_Union
  <2>3. IsFiniteSet(({"planner"} \cup {"critic"}) \cup ({"implementer"} \cup {"verifier"}))
    BY <2>2, FS_Union
  <2>4. PCIVRoles = ({"planner"} \cup {"critic"}) \cup ({"implementer"} \cup {"verifier"})
    BY DEF PCIVRoles
  <2> QED
    BY <2>1, <2>3, <2>4
<1>2. CASE decision.strategy = "single"
  BY <1>1, <1>2 DEF FirstPlan
<1>3. CASE decision.strategy = "pciv"
  <2>1. DOMAIN PCIVModels = PCIVRoles
    BY PlansAssumption DEF PCIVModels, PCIVRoles
  <2>2. FirstPlan = PCIVModels
    BY <1>3 DEF FirstPlan
  <2> QED
    BY <1>1, <2>1, <2>2 DEF PCIVRoles
<1>4. CASE decision.strategy = "fleet"
  BY <1>1, <1>4 DEF FirstPlan
<1> QED
  BY <1>2, <1>3, <1>4 DEF Strategies

\* What a step that decides nothing leaves as it was.
LEMMA PlansStay ==
  ASSUME UNCHANGED << decision, features, planFile, swaps >>
  PROVE  /\ UNCHANGED FirstPlan /\ UNCHANGED Swapped(swaps, FirstPlan)
         /\ UNCHANGED Priced(FirstPlan)
         /\ spent' = spent => UNCHANGED Projected /\ UNCHANGED CanStart(Projected.cost)
                              /\ UNCHANGED ProjectRaises(decision.strategy, features, FirstPlan, swaps)
<1>1. UNCHANGED FirstPlan
  BY Zenon DEF FirstPlan, PCIVModels
<1> QED
  BY Zenon, <1>1 DEF Swapped, Priced, Projected, Project, Degrades, OverTrigger, Remaining,
     CanStart, ProjectRaises

\* The projection, when project does not raise.
LEMMA ProjectedType ==
  ASSUME planFile \in PlanFiles, decision.strategy \in Strategies, features \in Features,
         ~ ProjectRaises(decision.strategy, features, FirstPlan, swaps)
  PROVE  /\ Projected.degraded \in BOOLEAN /\ Projected.cost \in Nat
         /\ Projected.plan = (IF Projected.degraded THEN Swapped(swaps, FirstPlan) ELSE FirstPlan)
         /\ DOMAIN Projected.plan = DOMAIN FirstPlan
         /\ Priced(FirstPlan)
<1> DEFINE d == Degrades(decision.strategy, features, FirstPlan, swaps)
           final == IF d THEN Swapped(swaps, FirstPlan) ELSE FirstPlan
<1>1. Projected = [plan |-> final, degraded |-> d,
                   cost |-> PlanCost(decision.strategy, features, final)]
  BY DEF Projected, Project
<1>2. d \in BOOLEAN
  BY DEF Degrades
<1>3. Priced(FirstPlan) /\ Priced(final)
  BY DEF ProjectRaises
<1>4. DOMAIN final = DOMAIN FirstPlan
  BY DEF Swapped
<1>5. IsFiniteSet(DOMAIN final) /\ DOMAIN final # {}
  BY <1>4, FirstPlanType
<1> HIDE DEF d
<1>6. PlanCost(decision.strategy, features, final) \in Nat
  <2> HIDE DEF final
  <2> QED
    BY <1>3, <1>5, PlanCostType
<1>7. Projected.degraded = d /\ Projected.plan = final
      /\ Projected.cost = PlanCost(decision.strategy, features, final)
  BY <1>1
<1> QED
  BY <1>2, <1>3, <1>4, <1>6, <1>7

LEMMA InitPlans == Init => PlanInv
<1> SUFFICES ASSUME Init PROVE PlanInv
  OBVIOUS
<1>1. RoutingInv
  BY InitRouting
<1>2. TypeOK
  BY TasksAssumption DEF Init, TypeOK, NoReport, Outcomes, NoDecision, NoProjection
<1>3. Known /\ Degraded /\ TightRoute /\ RanAsPlanned /\ Refused
  BY TasksAssumption DEF Init, Known, Degraded, TightRoute, RanAsPlanned, Refused, NoProjection
<1> QED
  BY <1>1, <1>2, <1>3 DEF PlanInv

\* The policy's answer is one of the strategies', and on a tight budget the fallback.
LEMMA PolicyType ==
  ASSUME NEW f, NEW remaining, NEW latency
  PROVE  /\ PolicyRoute(f, remaining, latency).strategy \in Strategies
         /\ remaining < Thresholds.tightBudget =>
              /\ PolicyRoute(f, remaining, latency).strategy = "single"
              /\ PolicyRoute(f, remaining, latency).model = ModelDefaults.fallback
BY DEF PolicyRoute, RouteByShape, Single, Decide, Strategies

LEMMA ForcedType ==
  ASSUME NEW strategy \in Forces
  PROVE  /\ ForcedDecision(strategy).strategy \in Strategies
         /\ ForcedDecision(strategy).reason = "forced"
BY ForcesAssumption DEF ForcedDecision, Decide

LEMMA RouteKeepsPlans ==
  ASSUME PlanInv, RoutingInv', Route
  PROVE  PlanInv'
<1> USE DEF PlanInv
<1>1. /\ phase = "idle" /\ phase' = "routed" /\ tasks' = tasks + 1
      /\ UNCHANGED << spent, billed, swaps, planFile, base, projection, ran, outcome, report, reported >>
  BY DEF Route, money, files, result
<1>2. task' \in TaskTexts
  BY DEF Route
<1>3. features' \in Features
  <2>1. PICK repo \in Repos : features' = ExtractFeatures(task', ScanRepo(repo))
    BY DEF Route
  <2> QED
    BY <1>2, <2>1, FeaturesType
<1>4. /\ decision'.strategy \in Strategies
      /\ Remaining < Thresholds.tightBudget /\ decision'.reason # "forced" =>
           decision'.strategy = "single" /\ decision'.model = ModelDefaults.fallback
  <2>1. CASE \E l \in Latencies : decision' = PolicyRoute(features', Remaining, l)
    BY <2>1, PolicyType
  <2>2. CASE \E s \in Forces : decision' = ForcedDecision(s)
    BY <2>2, ForcedType
  <2> QED
    BY <2>1, <2>2 DEF Route
<1>5. projection = NoProjection /\ ran = << >> /\ tasks < MaxTasks /\ outcome # "refused"
  BY <1>1 DEF Known, Refused
<1>6. TypeOK'
  <2>1. tasks' \in 0 .. MaxTasks
    BY <1>1, <1>5, TasksAssumption DEF TypeOK
  <2>2. features' \in [files : Nat \ {0}, coupling : 0 .. 100, tests : BOOLEAN, depth : Nat,
                       ratio : [of : Nat, amidst : Nat], tokens : Nat \ {0}]
    BY <1>3 DEF Features
  <2> QED
    BY <1>1, <1>2, <1>4, <2>1, <2>2 DEF TypeOK
<1>7. Known'
  BY <1>1, <1>3, <1>4, <1>5 DEF Known, NoProjection
<1>8. Degraded' /\ RanAsPlanned' /\ Refused'
  BY <1>1, <1>5 DEF Degraded, RanAsPlanned, Refused, NoProjection
<1>9. TightRoute'
  <2>1. spent = base
    BY <1>1 DEF RoutingInv, Untouched, Ended
  <2>2. base < HardCap => Remaining = HardCap - base
    BY <2>1 DEF Remaining
  <2> QED
    BY <1>1, <1>4, <2>2 DEF TightRoute
<1> QED
  BY <1>6, <1>7, <1>8, <1>9

\* The steps that end a task, or its calls, without touching the plan.
LEMMA EndKeepsPlans ==
  ASSUME PlanInv, RoutingInv', phase \in {"routed", "calling", "reporting"},
         UNCHANGED << files, request, projection, ran >>,
         phase' \in {"reporting", "returned", "raised"}, outcome' \in Outcomes \ {"refused"}
  PROVE  PlanInv'
<1> USE DEF PlanInv, files, request
<1>1. TypeOK'
  BY DEF TypeOK, RoutingInv, MoneyTypes
<1>2. Known'
  BY DEF Known
<1>3. /\ UNCHANGED FirstPlan /\ UNCHANGED Swapped(swaps, FirstPlan) /\ UNCHANGED Priced(FirstPlan)
  BY PlansStay
<1>4. Degraded'
  BY <1>3 DEF Degraded
<1>5. TightRoute'
  BY DEF TightRoute
<1>6. RanAsPlanned'
  BY <1>3 DEF RanAsPlanned
<1>7. Refused'
  BY DEF Refused
<1> QED
  BY <1>1, <1>2, <1>4, <1>5, <1>6, <1>7

\* The steps that project: the task is refused, or fails, or starts.
LEMMA ProjectKeepsPlans ==
  ASSUME PlanInv, RoutingInv', Refuse \/ ConfigMissing \/ Start
  PROVE  PlanInv'
<1> USE DEF PlanInv
<1>1. /\ phase = "routed" /\ ~ ProjectRaises(decision.strategy, features, FirstPlan, swaps)
      /\ projection' = Projected /\ UNCHANGED << spent, billed, report, reported >>
      /\ UNCHANGED << swaps, planFile, task, features, decision, tasks, base >>
  BY DEF Refuse, ConfigMissing, Start, Projects, money, files, request, result
<1>2. /\ planFile \in PlanFiles /\ decision.strategy \in Strategies /\ features \in Features
      /\ ran = << >> /\ outcome # "refused"
  BY <1>1 DEF TypeOK, Known, Refused
<1>3. /\ Projected.degraded \in BOOLEAN /\ Projected.cost \in Nat
      /\ Projected.plan = (IF Projected.degraded THEN Swapped(swaps, FirstPlan) ELSE FirstPlan)
      /\ DOMAIN Projected.plan = DOMAIN FirstPlan
      /\ Priced(FirstPlan)
  BY <1>1, <1>2, ProjectedType
<1>4. /\ UNCHANGED FirstPlan /\ UNCHANGED Swapped(swaps, FirstPlan) /\ UNCHANGED Priced(FirstPlan)
      /\ UNCHANGED CanStart(Projected.cost)
      /\ UNCHANGED ProjectRaises(decision.strategy, features, FirstPlan, swaps)
  BY <1>1, PlansStay
<1>5. /\ phase' \in {"calling", "returned"} /\ outcome' \in Outcomes
      /\ outcome' = "refused" => phase' = "returned" /\ ~ CanStart(Projected.cost)
  BY <1>2 DEF Refuse, ConfigMissing, Start, result, Outcomes, TypeOK
<1>6. /\ ran' = << >> \/ (ran' = ModelsCalled /\ CanStart(Projected.cost))
  BY <1>2 DEF Refuse, ConfigMissing, Start
<1>7. /\ decision.strategy # "pciv" => ModelsCalled = Projected.plan
      /\ DOMAIN ModelsCalled \subseteq DOMAIN FirstPlan
  <2>1. CASE decision.strategy # "pciv"
    BY <2>1, <1>3 DEF ModelsCalled
  <2>2. CASE decision.strategy = "pciv" /\ planFile.state = "file"
    BY <2>2 DEF ModelsCalled, FirstPlan, PCIVModels
  <2>3. CASE decision.strategy = "pciv" /\ planFile.state # "file"
    BY <2>3 DEF ModelsCalled
  <2> QED
    BY <2>1, <2>2, <2>3
<1>8. TypeOK'
  <2>1. DOMAIN ran' \subseteq DOMAIN projection'.plan
    BY <1>1, <1>3, <1>6, <1>7
  <2>2. projection'.degraded \in BOOLEAN /\ projection'.cost \in Nat
    BY <1>1, <1>3
  <2> QED
    BY <1>1, <1>5, <2>1, <2>2 DEF TypeOK, RoutingInv, MoneyTypes
<1>9. Known'
  BY <1>1, <1>2, <1>5 DEF Known
<1>10. Degraded'
  BY <1>1, <1>3, <1>4 DEF Degraded
<1>11. TightRoute'
  BY <1>1 DEF TightRoute
<1>12. RanAsPlanned'
  <2>1. CanStart(Projected.cost) => base < HardCap
    BY <1>1, CanStartMeansLeft DEF RoutingInv, MoneyTypes, Untouched, Ended
  <2>2. decision.strategy = "single" /\ ran' # << >> =>
          ran' \in {FirstPlan, Swapped(swaps, FirstPlan)}
    BY <1>3, <1>6, <1>7
  <2> QED
    BY <1>1, <1>3, <1>4, <1>5, <1>6, <2>1, <2>2 DEF RanAsPlanned
<1>13. Refused'
  BY <1>1, <1>4, <1>5 DEF Refused
<1> QED
  BY <1>8, <1>9, <1>10, <1>11, <1>12, <1>13

LEMMA NextPlans == PlanInv /\ [Next]_vars => PlanInv'
<1> SUFFICES ASSUME PlanInv, [Next]_vars PROVE PlanInv'
  OBVIOUS
<1>1. RoutingInv'
  BY NextRouting DEF PlanInv
<1>2. outcome \in Outcomes /\ (outcome = "refused" => phase = "returned")
  BY DEF PlanInv, TypeOK, Refused
<1>3. CASE Route
  BY <1>1, <1>3, RouteKeepsPlans
<1>4. CASE Refuse \/ ConfigMissing \/ Start
  BY <1>1, <1>4, ProjectKeepsPlans
<1>5. CASE BuildRaises \/ ProjectionRaises
  <2>1. /\ phase = "routed" /\ phase' = "raised" /\ outcome' = outcome
        /\ UNCHANGED << files, request, projection, ran >>
    BY <1>5 DEF BuildRaises, ProjectionRaises, result
  <2> QED
    BY <1>1, <1>2, <2>1, EndKeepsPlans
<1>6. CASE CallFails \/ SingleAnswers \/ FleetReturns
  <2>1. /\ phase = "calling" /\ phase' = "returned" /\ outcome' \in Outcomes \ {"refused"}
        /\ UNCHANGED << files, request, projection, ran >>
    BY <1>6 DEF CallFails, SingleAnswers, FleetReturns, Calling, Outcomes
  <2> QED
    BY <1>1, <2>1, EndKeepsPlans
<1>7. CASE PCIVRefuses \/ PCIVRuns \/ FleetRaises
  <2>1. /\ phase = "calling" /\ phase' \in {"reporting", "raised"} /\ outcome' = outcome
        /\ UNCHANGED << files, request, projection, ran >>
    BY <1>7 DEF PCIVRefuses, PCIVRuns, FleetRaises, Calling, result
  <2> QED
    BY <1>1, <1>2, <2>1, EndKeepsPlans
<1>8. CASE PCIVReports
  <2>1. /\ phase = "reporting" /\ phase' = "returned" /\ outcome' \in Outcomes \ {"refused"}
        /\ UNCHANGED << files, request, projection, ran >>
    BY <1>8 DEF PCIVReports, Outcomes
  <2> QED
    BY <1>1, <2>1, EndKeepsPlans
<1>9. CASE NextTask
  <2>1. /\ phase' = "idle" /\ tasks < MaxTasks /\ outcome' = "none"
        /\ projection' = NoProjection /\ ran' = << >> /\ task' = NoTask
        /\ features' = NoFeatures /\ decision' = NoDecision /\ UNCHANGED << swaps, planFile, tasks >>
    BY <1>9 DEF NextTask, files
  <2>2. TypeOK'
    BY <1>1, <2>1 DEF PlanInv, TypeOK, RoutingInv, MoneyTypes, NoDecision, NoProjection, Outcomes
  <2>3. Known' /\ Degraded' /\ TightRoute' /\ RanAsPlanned' /\ Refused'
    BY <2>1 DEF Known, Degraded, TightRoute, RanAsPlanned, Refused, NoProjection
  <2> QED
    BY <1>1, <2>2, <2>3 DEF PlanInv
<1>10. CASE UNCHANGED vars
  <2>1. /\ UNCHANGED << spent, billed, swaps, planFile, task, features, decision, tasks, base >>
        /\ UNCHANGED << phase, projection, ran, outcome, report, reported >>
    BY <1>10 DEF vars, money, files, request, result
  <2>2. TypeOK' /\ Known' /\ TightRoute'
    BY <2>1 DEF PlanInv, TypeOK, Known, TightRoute
  <2>3. /\ UNCHANGED FirstPlan /\ UNCHANGED Swapped(swaps, FirstPlan)
        /\ UNCHANGED Priced(FirstPlan) /\ UNCHANGED CanStart(Projected.cost)
        /\ UNCHANGED ProjectRaises(decision.strategy, features, FirstPlan, swaps)
    BY <2>1, PlansStay
  <2>4. Degraded' /\ RanAsPlanned' /\ Refused'
    BY <2>1, <2>3 DEF PlanInv, Degraded, RanAsPlanned, Refused
  <2> QED
    BY <1>1, <2>2, <2>4 DEF PlanInv
<1> QED
  BY <1>3, <1>4, <1>5, <1>6, <1>7, <1>8, <1>9, <1>10 DEF Next, Rest

\* The router's state, the features among it, is of its types whatever the task, the
\* repository and the policy's rules (classifier.py, router.py).
THEOREM RouterTypeCorrect == Spec => []TypeOK
<1>1. PlanInv => TypeOK
  BY DEF PlanInv
<1> QED
  BY InitPlans, NextPlans, <1>1, PTL DEF Spec

\* A task is refused only if neither its plan nor the plan of the rules fits (budget.py:
\* 186-211): the rules are tried on every plan that does not fit, when the trigger ratio
\* is at most 1, and what they make of it costs no more, when they cheapen.
THEOREM RefusalsAreJustified == Spec => []RefusedOnlyIfNothingFits
<1>1. PlanInv => RefusedOnlyIfNothingFits
  <2> SUFFICES ASSUME PlanInv, outcome = "refused", Remaining > 0, Cheapening, RatioAtMostOne
               PROVE  /\ ~ CanStart(PlanCost(decision.strategy, features, FirstPlan))
                      /\ ~ CanStart(PlanCost(decision.strategy, features, Swapped(swaps, FirstPlan)))
    BY DEF RefusedOnlyIfNothingFits
  <2> DEFINE first   == PlanCost(decision.strategy, features, FirstPlan)
             swapped == PlanCost(decision.strategy, features, Swapped(swaps, FirstPlan))
             d == Degrades(decision.strategy, features, FirstPlan, swaps)
  <2>1. /\ phase = "returned" /\ ~ CanStart(Projected.cost)
        /\ ~ ProjectRaises(decision.strategy, features, FirstPlan, swaps)
    BY DEF PlanInv, Refused
  <2>2. /\ planFile \in PlanFiles /\ swaps \in SwapLists /\ spent \in Nat
        /\ decision.strategy \in Strategies /\ features \in Features
    BY <2>1 DEF PlanInv, TypeOK, Known
  <2>3. Priced(FirstPlan) /\ IsFiniteSet(DOMAIN FirstPlan) /\ DOMAIN FirstPlan # {}
    BY <2>1, <2>2, ProjectedType, FirstPlanType
  <2>4. /\ Priced(Swapped(swaps, FirstPlan)) /\ swapped <= first
    BY <2>2, <2>3, SwappedCostsNoMore
  <2>5. first \in Nat /\ swapped \in Nat
    <3>1. DOMAIN Swapped(swaps, FirstPlan) = DOMAIN FirstPlan
      BY DEF Swapped
    <3> QED
      BY <2>2, <2>3, <2>4, <3>1, PlanCostType
  <2>6. Projected.cost = IF d THEN swapped ELSE first
    BY DEF Projected, Project
  <2>7. Remaining \in Nat
    BY <2>2, HardCapAssumption DEF Remaining
  <2>8. ~ d => swapped = first
    <3> SUFFICES ASSUME ~ d PROVE swapped = first
      OBVIOUS
    <3>1. first > Remaining
      BY <2>1, <2>5, <2>6, <2>7 DEF CanStart
    <3>2. OverTrigger(first)
      <4>1. /\ TriggerRatio.num \in Nat /\ TriggerRatio.den \in Nat \ {0}
            /\ TriggerRatio.num <= TriggerRatio.den
        BY TriggerAssumption DEF RatioAtMostOne
      <4>2. ASSUME NEW a \in Nat, NEW b \in Nat \ {0}, NEW c \in Nat, NEW x \in Nat, a <= b, x > c
            PROVE  x * b > a * c
        <5>1. a * c <= b * c
          BY <4>2
        <5>2. x * b > c * b
          BY <4>2
        <5> QED
          BY <4>2, <5>1, <5>2
      <4> HIDE DEF first
      <4>3. first * TriggerRatio.den > TriggerRatio.num * Remaining
        BY <2>5, <2>7, <3>1, <4>1, <4>2
      <4> QED
        BY <4>3 DEF OverTrigger
    <3>3. ~ SomeRuleApplies(swaps, FirstPlan)
      BY <3>2 DEF Degrades
    <3>4. ASSUME NEW r \in DOMAIN FirstPlan
          PROVE  Stages(swaps, r, FirstPlan[r])[Len(swaps)] = FirstPlan[r]
      BY <2>2, <3>3, StagesUntouched DEF SomeRuleApplies
    <3>5. \A r \in DOMAIN FirstPlan : Swapped(swaps, FirstPlan)[r] = FirstPlan[r]
      BY <3>4 DEF Swapped
    <3>6. RoleCosts(decision.strategy, features, Swapped(swaps, FirstPlan))
            = RoleCosts(decision.strategy, features, FirstPlan)
      <4> DEFINE q == Swapped(swaps, FirstPlan)
      <4>1. DOMAIN q = DOMAIN FirstPlan
        BY DEF Swapped
      <4> HIDE DEF q
      <4>2. \A r \in DOMAIN FirstPlan : q[r] = FirstPlan[r]
        BY <3>5 DEF q
      <4>3. RoleCosts(decision.strategy, features, q)
              = RoleCosts(decision.strategy, features, FirstPlan)
        BY <4>1, <4>2 DEF RoleCosts
      <4> QED
        BY <4>3 DEF q
    <3> QED
      BY <3>6 DEF PlanCost
  <2>9. ~ CanStart(first) /\ ~ CanStart(swapped)
    <3> HIDE DEF first, swapped, d
    <3> QED
      BY <2>1, <2>4, <2>5, <2>6, <2>7, <2>8 DEF CanStart
  <2> QED
    BY <2>9
<1> QED
  BY InitPlans, NextPlans, <1>1, PTL DEF Spec

\* A degraded plan is what one pass over the rules, in their order, makes of the first
\* plan (budget.py:213-224), whatever the rules: chains, cycles and overlaps included.
THEOREM RulesAreFollowed == Spec => []DegradationFollowsRules
<1>1. PlanInv => DegradationFollowsRules
  <2> SUFFICES ASSUME PlanInv, projection.degraded, NEW r \in DOMAIN projection.plan
               PROVE  /\ (\A i \in DOMAIN swaps : r \in swaps[i].protect) =>
                            projection.plan[r] = FirstPlan[r]
                      /\ \A i \in DOMAIN swaps :
                           projection.plan[r] = swaps[i].from /\ r \notin swaps[i].protect =>
                             \E j \in i .. Len(swaps) : swaps[j].to = projection.plan[r]
    BY DEF DegradationFollowsRules
  <2>1. swaps \in SwapLists /\ projection.plan = Swapped(swaps, FirstPlan)
    BY DEF PlanInv, TypeOK, Degraded
  <2>2. projection.plan[r] = Stages(swaps, r, FirstPlan[r])[Len(swaps)]
    BY <2>1 DEF Swapped
  <2>3. DOMAIN swaps = 1 .. Len(swaps)
    BY <2>1, StagesUnfold
  <2>4. (\A i \in DOMAIN swaps : r \in swaps[i].protect) => projection.plan[r] = FirstPlan[r]
    BY <2>1, <2>2, StagesProtect
  <2>5. ASSUME NEW i \in DOMAIN swaps, projection.plan[r] = swaps[i].from, r \notin swaps[i].protect
        PROVE  \E j \in i .. Len(swaps) : swaps[j].to = projection.plan[r]
    <3>1. i \in 1 .. Len(swaps)
      BY <2>3
    <3>2. Stages(swaps, r, FirstPlan[r])[Len(swaps)] = swaps[i].from
      BY <2>2, <2>5
    <3>3. \E j \in i .. Len(swaps) : swaps[j].to = swaps[i].from
      BY <2>1, <2>5, <3>1, <3>2, StagesReplace
    <3> QED
      BY <2>5, <3>3
  <2> QED
    BY <2>4, <2>5
<1> QED
  BY InitPlans, NextPlans, <1>1, PTL DEF Spec

\* On a tight budget the router by itself calls no model dearer than the fallback
\* (policy.py:113-122), whatever the rules make of the plan, if they cheapen.
THEOREM TightBudgetsStayCheap == Spec => []TightBudgetIsCheap
<1>1. PlanInv => TightBudgetIsCheap
  <2> SUFFICES ASSUME PlanInv, HardCap - base < Thresholds.tightBudget,
                      decision.reason # "forced", Cheapening, NEW r \in DOMAIN ran
               PROVE  /\ Prices[ran[r]].in  <= Prices[ModelDefaults.fallback].in
                      /\ Prices[ran[r]].out <= Prices[ModelDefaults.fallback].out
    BY DEF TightBudgetIsCheap
  <2>1. ran # << >>
    OBVIOUS
  <2>2. base < HardCap /\ Priced(FirstPlan) /\ phase \notin {"idle", "routed"}
    BY <2>1 DEF PlanInv, RanAsPlanned
  <2>3. decision.strategy = "single" /\ decision.model = ModelDefaults.fallback
    BY <2>2 DEF PlanInv, TightRoute
  <2>4. FirstPlan = [primary |-> ModelDefaults.fallback]
    BY <2>3 DEF FirstPlan
  <2>5. ran \in {FirstPlan, Swapped(swaps, FirstPlan)}
    BY <2>1, <2>3 DEF PlanInv, RanAsPlanned
  <2>6. ModelDefaults.fallback \in DOMAIN Prices
    BY <2>2, <2>4 DEF Priced
  <2>7. /\ Prices[ModelDefaults.fallback].in \in Nat /\ Prices[ModelDefaults.fallback].out \in Nat
    BY <2>6, PricesAssumption
  <2>8. swaps \in SwapLists
    BY DEF PlanInv, TypeOK
  <2>9. CASE ran = FirstPlan
    BY <2>4, <2>7, <2>9
  <2>10. CASE ran = Swapped(swaps, FirstPlan)
    <3>1. r \in DOMAIN FirstPlan /\ FirstPlan[r] = ModelDefaults.fallback
      BY <2>4, <2>10 DEF Swapped
    <3>2. ran[r] = Stages(swaps, r, FirstPlan[r])[Len(swaps)]
      BY <2>10, <3>1 DEF Swapped
    <3>3. ran[r] \in NoDearer(ModelDefaults.fallback)
      BY <2>6, <2>8, <3>1, <3>2, SwappedIsNoDearer
    <3> QED
      BY <3>3 DEF NoDearer
  <2> QED
    BY <2>5, <2>9, <2>10
<1> QED
  BY InitPlans, NextPlans, <1>1, PTL DEF Spec

-----------------------------------------------------------------------------
(***************************************************************************)
(* The classifier's count of the files and the planner's shards.           *)
(***************************************************************************)

\* The features are those of the task at hand.
Classified ==
  decision.strategy # "none" =>
    task \in TaskTexts /\ \E repo \in Repos : features = ExtractFeatures(task, ScanRepo(repo))

LEMMA InitClassified == Init => Classified
BY DEF Init, Classified, NoDecision

LEMMA NextClassified == Classified /\ [Next]_vars => Classified'
<1> SUFFICES ASSUME Classified, [Next]_vars PROVE Classified'
  OBVIOUS
<1>1. CASE Route
  <2>1. task' \in TaskTexts /\ \E repo \in Repos : features' = ExtractFeatures(task', ScanRepo(repo))
    BY <1>1 DEF Route
  <2> QED
    BY <2>1 DEF Classified
<1>2. CASE NextTask
  BY <1>2 DEF NextTask, Classified, NoDecision
<1>3. CASE UNCHANGED << task, features, decision >>
  BY <1>3 DEF Classified
<1>4. ASSUME ~ Route, ~ NextTask PROVE UNCHANGED << task, features, decision >>
  BY <1>4 DEF Next, BuildRaises, ProjectionRaises, Refuse, ConfigMissing, Start, CallFails,
     SingleAnswers, PCIVRefuses, PCIVRuns, PCIVReports, FleetReturns, FleetRaises, Rest, vars, request
<1> QED
  BY <1>1, <1>2, <1>3, <1>4

\* A fleet whose task names its files is projected for the shards it runs, and each
\* shard has a prompt of its own (classifier.py _estimate_files, sharding.py plan_shards,
\* budget.py), however often the task names a file.
THEOREM ProjectionsMatchShards == Spec => []ProjectionMatchesShards
<1>1. Classified => ProjectionMatchesShards
  <2> SUFFICES ASSUME Classified, decision.strategy = "fleet", Paths(task) # {},
                      Coefficients.fleetMaxShards = MaxShards
               PROVE  /\ OutputTokens("fleet", features)
                           = Coefficients.fleetPerShard * Len(PlanShards(task))
                      /\ Cardinality(ValuesOf(PlanShards(task))) = Len(PlanShards(task))
    BY DEF ProjectionMatchesShards, ValuesOf
  <2>1. task \in Seq(Seq(Seq(DOMAIN Lexicon)))
    BY TasksAssumption DEF Classified
  <2>2. features.files = Cardinality(Paths(task))
    BY DEF Classified, ExtractFeatures, EstimateFiles
  <2>3. /\ Len(PlanShards(task)) = Larger(1, Lesser(Cardinality(Paths(task)), MaxShards))
        /\ Cardinality(ValuesOf(PlanShards(task))) = Len(PlanShards(task))
    BY <2>1, ShardsOfPaths
  <2>4. OutputTokens("fleet", features)
          = Coefficients.fleetPerShard * Larger(1, Lesser(Cardinality(Paths(task)), MaxShards))
    BY <2>2 DEF OutputTokens
  <2> QED
    BY <2>3, <2>4
<1> QED
  BY InitClassified, NextClassified, <1>1, PTL DEF Spec

=============================================================================

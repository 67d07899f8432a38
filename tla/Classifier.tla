----------------------------- MODULE Classifier -----------------------------
(***************************************************************************)
(* What the router looks at before it decides: extract_features of         *)
(* classifier.py, over a task and the snapshot _scan_repo of cli.py takes  *)
(* of the repository.                                                      *)
(*                                                                         *)
(* A task is a sequence of sentences, a sentence of clauses and a clause   *)
(* of words, cut where _SENTENCE_SPLIT and _CLAUSE_SPLIT cut: the dot of a *)
(* path is a cut too, after which the path's suffix is a word.  What the   *)
(* patterns and the policy's wordlists make of a word is its entry in the  *)
(* lexicon, and scores with decimals are in hundredths.                    *)
(***************************************************************************)
EXTENDS Integers, SequencesExt

CONSTANTS
  Lexicon,       \* Lexicon[w]: kinds of word w: "path", "imperative", "reasoning",
                 \*   "mechanical", "import", "shared", "independent", "wide"
  Counts,        \* Counts[w]: n for a w that stands for "n files"
  CharsPerWord,  \* characters of a word
  IgnoredDirs,   \* _IGNORED_DIRS
  NoSize         \* size of a file whose stat fails

ASSUME LexiconAssumption == DOMAIN Counts \subseteq DOMAIN Lexicon
ASSUME LengthAssumption  == CharsPerWord \in Nat \ {0} /\ \A w \in DOMAIN Counts : Counts[w] \in Nat

-----------------------------------------------------------------------------
(***************************************************************************)
(* The snapshot.                                                           *)
(***************************************************************************)

\* A repository is its own path and its files [name, dirs, prefixed, size]: the
\* directories of a file's path below the root, whether its name begins with
\* "test_".  os.walk does not enter an ignored directory.
Scanned(repo) == {f \in repo.files : f.dirs \cap IgnoredDirs = {}}

SizesOf(files) == [f \in {g \in files : g.size # NoSize} |-> f.size]

ScanRepo(repo) ==
  [files |-> Cardinality(Scanned(repo)),
   bytes |-> SumFunction(SizesOf(Scanned(repo))),
   tests |-> \E f \in Scanned(repo) : f.prefixed \/ "test" \in repo.path \cup f.dirs \cup {f.name}]

-----------------------------------------------------------------------------
(***************************************************************************)
(* The heuristics.                                                         *)
(***************************************************************************)
Clauses(task) == FlattenSeq(task)
Words(task)   == FlattenSeq(Clauses(task))

\* Where in the task a word of a kind stands.
Places(task, kind) == {i \in DOMAIN Words(task) : kind \in Lexicon[Words(task)[i]]}

Says(task, kind) == Places(task, kind) # {}

\* The paths named, ...
Paths(task) == {Words(task)[i] : i \in Places(task, "path")}

\* ... and where an "n files" stands, of which the first counts.
Hints(task) == {i \in DOMAIN Words(task) : Words(task)[i] \in DOMAIN Counts}

AtLeastOne(n) == IF n > 1 THEN n ELSE 1

\* _estimate_files
EstimateFiles(task, snapshot) ==
  IF Paths(task) # {}          THEN Cardinality(Paths(task))
  ELSE IF Hints(task) # {}     THEN AtLeastOne(Counts[Words(task)[Min(Hints(task))]])
  ELSE IF Says(task, "wide")   THEN AtLeastOne(snapshot.files)
  ELSE 1

Clamped(score) == IF score < 0 THEN 0 ELSE IF score > 100 THEN 100 ELSE score

\* _cross_file_dependency_score
Coupling(task, files) ==
  LET If(test, points) == IF test THEN points ELSE 0
  IN  Clamped(20 + If(files >= 5, 20) + If(files >= 15, 20)
              + If(Says(task, "import"), 30) + If(Says(task, "shared"), 15)
              - If(Says(task, "independent"), 45))

\* _planning_depth: clauses with an imperative among their first three words.
PlanningDepth(task) ==
  Cardinality({k \in DOMAIN Clauses(task) :
                 \E i \in DOMAIN Clauses(task)[k] :
                   i <= 3 /\ "imperative" \in Lexicon[Clauses(task)[k][i]]})

\* _reasoning_vs_mechanical, as a fraction; 0 of 0 is none.
ReasoningRatio(task) ==
  LET reasoning == Cardinality(Places(task, "reasoning"))
  IN  [of |-> reasoning, amidst |-> reasoning + Cardinality(Places(task, "mechanical"))]

\* _estimate_input_tokens: four characters a token.
InputTokens(task, snapshot) ==
  AtLeastOne((Len(Words(task)) * CharsPerWord) \div 4) + snapshot.bytes \div 4

ExtractFeatures(task, snapshot) ==
  LET files == EstimateFiles(task, snapshot)
  IN  [files |-> files, coupling |-> Coupling(task, files), tests |-> snapshot.tests,
       depth |-> PlanningDepth(task), ratio |-> ReasoningRatio(task),
       tokens |-> InputTokens(task, snapshot)]

=============================================================================

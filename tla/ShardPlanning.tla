---------------------------- MODULE ShardPlanning ----------------------------
(***************************************************************************)
(* plan_shards of fleet/sharding.py: the descriptions of the shards a      *)
(* fleet makes of a task.                                                  *)
(***************************************************************************)
EXTENDS Classifier

CONSTANT MaxShards  \* max_shards

ASSUME MaxShardsAssumption == MaxShards \in Nat \ {0}

\* _clamp with min_shards = 1: there is always an item.
Clamp(items) == IF Len(items) > MaxShards THEN SubSeq(items, 1, MaxShards) ELSE items

\* Sentences of more than eight characters.
Actionable(sentence) == Len(FlattenSeq(sentence)) * CharsPerWord > 8

\* The paths of a task once each, in order: finditer goes through the text, and
\* _unique_preserve_order leaves out what it has seen.
UniquePaths(task) ==
  LET words == Words(task)
      out[i \in 0 .. Len(words)] ==
        IF i = 0 THEN << >>
        ELSE IF "path" \in Lexicon[words[i]] /\ ~ Contains(out[i - 1], words[i])
          THEN Append(out[i - 1], words[i])
        ELSE out[i - 1]
  IN  out[Len(words)]

\* Faulty variant: a path named twice gets two shards.
PlanShardsRepeated(task) ==
  LET paths     == SelectSeq(Words(task), LAMBDA w : "path" \in Lexicon[w])
      sentences == SelectSeq(task, Actionable)
  IN  IF paths # << >> THEN Clamp(paths)
      ELSE IF Len(sentences) >= 2 THEN Clamp(sentences)
      ELSE << task >>

\* One shard per path named, or per actionable sentence if there are two, or one.
\* A path's description is the path with the whole task, of which the path is kept.
PlanShards(task) ==
  LET paths     == UniquePaths(task)
      sentences == SelectSeq(task, Actionable)
  IN  IF paths # << >> THEN Clamp(paths)
      ELSE IF Len(sentences) >= 2 THEN Clamp(sentences)
      ELSE << task >>

=============================================================================

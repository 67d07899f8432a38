SPECIFICATION FairSpec
CONSTANTS
  Workers = {w1, w2}
  NoWorker = NoWorker
  NumShards = 3
  MaxCost = 2
  HardCap = 3
  PerShard = 1
  InitialSpends = {0}
  Faults = {"ledger", "disk"}
INVARIANT OneResultPerShard
PROPERTY Terminates
PROPERTY ClaimedIsSettled

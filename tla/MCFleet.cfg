SPECIFICATION Spec
CONSTANTS
  Workers = {w1, w2}
  NoWorker = NoWorker
  NumShards = 3
  MaxCost = 3
  HardCap = 4
  PerShard = 1
  InitialSpends = {0, 1, 2, 5}
  Faults = {"ledger"}
SYMMETRY WorkerSymmetry
INVARIANT TypeOK
INVARIANT RealSpendBound
INVARIANT AccountsAgree
INVARIANT WorktreesReturned
PROPERTY NoAdmissionAfterAbort
PROPERTY BackstopIsNoOp
PROPERTY ImplementsContract

SPECIFICATION Spec
CONSTANTS
  Workers = {w1, w2, w3}
  NoWorker = NoWorker
  NumShards = 4
  MaxCost = 2
  HardCap = 8
  PerShard = 2
  InitialSpends = {0, 1}
  Faults = {}
SYMMETRY WorkerSymmetry
INVARIANT CapHeldByEstimate
INVARIANT EstimateLeavesNothing

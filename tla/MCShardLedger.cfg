SPECIFICATION FairSpec
CONSTANTS
  w1 = w1
  w2 = w2
  w3 = w3
  p1 = p1
  p2 = p2
  Workers <- MCWorkers
  Processes <- MCProcesses
  ProcessOf <- MCProcessOf
  Mortal = {p2}
  NoWorker = NoWorker
  NumShards = 3
  MaxCost = 1
INVARIANT TypeOK
INVARIANT OneWorkerPerShard
PROPERTY ImplementsQueue
PROPERTY NoneMeansNonePending
PROPERTY EveryWorkerEnds

SPECIFICATION Spec
CONSTANTS
  HardCap = 30
  Prices <- MCPrices
  TriggerRatio <- MCTriggerRatio
  Coefficients <- MCCoefficients
  TaskTexts <- MCTaskTexts
  Repos <- MCRepos
  Lexicon <- MCLexicon
  Counts <- MCCounts
  CharsPerWord = 4
  IgnoredDirs = {"venv"}
  NoSize = NoSize
  MaxShards = 3
  Latencies = {2}
  Forces = {"pciv"}
  Thresholds <- MCThresholds
  ModelDefaults <- MCModelDefaults
  SwapLists <- MCSwapLists
  PlanFiles <- MCPlanFiles
  Costs = {0, 3}
  MaxTasks = 1
INVARIANT DegradedPlanRuns

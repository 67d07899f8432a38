SPECIFICATION Spec
CONSTANTS
  HardCap = 30
  Prices <- MCPrices
  TriggerRatio <- MCTriggerRatio
  Coefficients <- MCCoefficients
  TaskTexts <- MCTaskTexts
  Repos <- MCRepos
  Lexicon <- MCLexicon
  Counts <- MCCounts
  CharsPerWord = 4
  IgnoredDirs = {"venv"}
  NoSize = NoSize
  MaxShards = 3
  Latencies = {1, 2}
  Forces = {"single", "pciv", "fleet"}
  Thresholds <- MCThresholds
  ModelDefaults <- MCModelDefaults
  SwapLists <- MCSwapLists
  PlanFiles <- MCPlanFiles
  Costs = {0, 5, 12, 26, 37}
  MaxTasks = 2
INVARIANT TypeOK
INVARIANT RefusedOnlyIfNothingFits
INVARIANT DegradationFollowsRules
INVARIANT TightBudgetIsCheap
INVARIANT ProjectionMatchesShards
INVARIANT BilledIsRecorded
PROPERTY ImplementsContract

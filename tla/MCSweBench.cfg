SPECIFICATION Spec
CONSTANTS
  Processes = {bench, cli}
  Harnesses = {bench}
  Bench = bench
  OtherRuns = 1
  WindowCap = 2
  Overshoot = 1
  Budgets = {2}
  Breakable = {bench}
  LastWindow = 2
  MaxRuns = 6
  Arms <- MCArms
  InstanceCounts = {0, 2}
  ProblemFiles <- MCProblemFiles
  NoFile = NoFile
  AdapterErrors <- MCAdapterErrors
INVARIANT TypeOK
INVARIANT HistogramComplete
INVARIANT ReportComplete
INVARIANT PercentilesSplit
INVARIANT HarnessKeepsCap

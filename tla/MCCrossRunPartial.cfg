SPECIFICATION Spec
CONSTANTS
  Processes = {cli1}
  Harnesses = {}
  WindowCap = 2
  Overshoot = 1
  Budgets = {1, 3}
  Breakable = {cli1}
  LastWindow = 1
  MaxRuns = 3
INVARIANT PartialRunsCount

SPECIFICATION Spec
CONSTANTS
  Processes = {cli1, cli2}
  Harnesses = {}
  WindowCap = 2
  Overshoot = 1
  Budgets = {1, 3}
  Breakable = {}
  LastWindow = 1
  MaxRuns = 3
INVARIANT ProcessesShareCap

SPECIFICATION Spec
CONSTANTS
  Processes = {cli, bench}
  Harnesses = {bench}
  WindowCap = 2
  Overshoot = 1
  Budgets = {1, 3}
  Breakable = {cli, bench}
  LastWindow = 2
  MaxRuns = 4
INVARIANT TypeOK
INVARIANT WindowBound
INVARIANT RealWindowBound
INVARIANT BooksBalance

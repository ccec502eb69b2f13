CONSTANTS
  Left <- Log
  MaxDrops = 1
  Lives = 2
  NumTasks = 6
  Budgets = {0, 1}
  MaxRuns = 2
SPECIFICATION LoomSpec
INVARIANT TasksBuilt
CHECK_DEADLOCK FALSE

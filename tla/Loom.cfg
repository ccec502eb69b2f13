CONSTANTS
  Left <- Log
  MaxDrops = 1
  Lives = 2
  NumTasks = 6
  Budgets = {0, 1}
  MaxRuns = 2
SPECIFICATION LoomSpec
INVARIANTS  SavedIsLogged TimeForFive
PROPERTIES EveryCommitTested LastPassedReviewed DoneNotReassigned MainEnds
CHECK_DEADLOCK FALSE

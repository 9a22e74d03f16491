CONSTANTS
  t1 = t1
  j1 = j1
  Tab <- MCTab
  Job <- MCJob
  MaxPollers = 3
  MaxFailures = 2
  MaxLoads = 2
SPECIFICATION FairSpec
INVARIANTS Watched SavedOnce
PROPERTIES OutcomeShown
CHECK_DEADLOCK FALSE

SPECIFICATION SerialSpec
CONSTANTS
  t1 = t1
  t2 = t2
  t3 = t3
  NoTask = NoTask
  Tasks <- ThreeTasks
  Lanes <- WorkerLanes
  Timeout <- MCTimeout
CHECK_DEADLOCK FALSE
SYMMETRY Symmetry
INVARIANTS TypeOK ExclusiveExecution LedgerTellsOneStory
PROPERTIES LateResultsRejected ImplementsLease

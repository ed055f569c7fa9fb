SPECIFICATION Spec
CONSTANTS
  t1 = t1
  t2 = t2
  t3 = t3
  NoTask = NoTask
  Tasks <- ThreeTasks
  Lanes <- AllLanes
  Timeout <- MCTimeout
CHECK_DEADLOCK FALSE
SYMMETRY Symmetry
INVARIANTS RunningTasksHold ActiveClaimIsBacked TokensNeverReused RenewalNeverCoalesced

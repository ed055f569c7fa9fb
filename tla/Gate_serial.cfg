SPECIFICATION SerialSpec
CONSTANTS
  f1 = f1
  f2 = f2
  f3 = f3
  s1 = s1
  s2 = s2
  Founders <- ThreeFounders
  Sweepers <- TwoSweepers
CHECK_DEADLOCK FALSE
INVARIANTS RunFollowsVerdict
PROPERTIES ImplementsVerdict

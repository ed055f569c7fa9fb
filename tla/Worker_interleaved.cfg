SPECIFICATION LaneSpec
CONSTANTS
  d1 = d1
  d2 = d2
  r1 = r1
  r2 = r2
  nowhere = nowhere
  Dispatchers <- TwoDispatchers
  Runs <- TwoRuns
  NoRun <- nowhere
  Manifest <- MCManifest
  StrikeThreshold = 2
  RecoveryThreshold = 2
  MaxCalls = 4
  MaxDeaths = 1
  Bytes <- MCBytes
  HeadBytes = 1
  TailBytes = 2
  MaxBytes = 4
  ChunkBytes = 3
  MaxStream = 6
SYMMETRY Interchangeable
CONSTRAINT Explored
CHECK_DEADLOCK FALSE
INVARIANTS TypeOK EvictedNeverLands CollectedStaysGone FinishedCallsLeaveNothing TrustFollowsVerdicts RoutingIsSound CapturesAgree

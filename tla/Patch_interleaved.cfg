SPECIFICATION Spec
CONSTANTS
  t1 = t1
  t2 = t2
  t3 = t3
  r1 = r1
  r2 = r2
  nobody = nobody
  Nobody <- nobody
  Tasks <- ThreeTasks
  Founders <- TwoFounders
  Files <- OneFile
  ModuleOf <- OneFileModule
  BurstLimit = 1
  RepairQuota = 2
SYMMETRY Symmetry
CHECK_DEADLOCK FALSE
INVARIANTS TypeOK OneApplierAtATime FilesFollowTheLedger PatchesSawEachOther RepairLoopIsEscalated BurstsAreReviewed
PROPERTIES OnlyOutdatedReviewsStrand OnlyOutdatedReviewsOverwrite

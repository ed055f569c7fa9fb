SPECIFICATION Spec
CONSTANTS
  t1 = t1
  t2 = t2
  t3 = t3
  r1 = r1
  r2 = r2
  nobody = nobody
  Nobody <- nobody
  Tasks <- TwoTasks
  Founders <- TwoFounders
  Files <- OneFile
  ModuleOf <- OneFileModule
  BurstLimit = 1
  RepairQuota = 2
CHECK_DEADLOCK FALSE
PROPERTIES ResolvedPatchStands

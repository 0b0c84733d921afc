CONSTANTS
  a = a
  b = b
  NoJob = NoJob
  Jobs = {a, b}
  PoolSize = 1
  MaxProcess = 2
SPECIFICATION FairSpec
INVARIANTS OutputBeforeSuccess NeverRefused
PROPERTIES NeverReopened EveryTaskSettles
CHECK_DEADLOCK FALSE

CONSTANTS
  r0 = r0
  r1 = r1
  Ranks = {r0, r1}
  Main = r0
  Wanted <- FourWanted
  Base <- WarmBase
  Durations <- OneDuration
  Bucket <- Buckets
  MaxShapes = 4
  MaxStarts = 2
  MaxServed = 3
  MaxLost = 1
SPECIFICATION Spec
INVARIANTS LoadsWhole GraphBudget VerificationIsHot RecentIsWarm
CHECK_DEADLOCK FALSE

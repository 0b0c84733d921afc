CONSTANTS
  r0 = r0
  r1 = r1
  Ranks = {r0, r1}
  StartupTimeout = 2
  RequestTimeout = 2
  IdleTimeout = 2
  RestartDelay = 1
  RestartMaxDelay = 3
  StableSeconds = 3
  CancelDelay = 1
  BeatEvery = 1
  Bound = 3
SYMMETRY RankSymmetry
SPECIFICATION WatchdogSpec
INVARIANTS HangsAreFound BackOffHolds
PROPERTIES HealthyIsSpared
CHECK_DEADLOCK FALSE

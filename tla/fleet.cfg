CONSTANTS
  t1 = t1
  t2 = t2
  Terminals = {t1, t2}
  Configs = {"eight", "four", "updated"}
  Plan <- TwoPlans
  StopOrder <- AllInstances
  Signals = {"int"}
  MaxDeaths = 1
SPECIFICATION FairSpec
INVARIANTS OneConfiguration
PROPERTIES StartsAreSerial RollbackLeavesNothing EveryCommandEnds
CHECK_DEADLOCK FALSE

CONSTANTS
  t1 = t1
  t2 = t2
  Terminals = {t1, t2}
  Configs = {"eight", "four", "updated"}
  Plan <- TwoPlans
  StopOrder <- AllInstances
  Signals = {}
  MaxDeaths = 0
SPECIFICATION Spec
PROPERTIES RollbackSparesReused
CHECK_DEADLOCK FALSE

CONSTANTS
  t1 = t1
  t2 = t2
  Terminals = {t1, t2}
  Configs = {"eight", "four", "updated"}
  Plan <- TwoPlans
  StopOrder <- AllInstances
  Signals = {"hup"}
  MaxDeaths = 0
SPECIFICATION Spec
PROPERTIES StartsAreSerial
CHECK_DEADLOCK FALSE

CONSTANTS
  a = a
  b = b
  r0 = r0
  r1 = r1
  NoToken = NoToken
  Requests = {a, b}
  Deferred = {a, b}
  Ranks = {r0, r1}
  Main = r0
  Capacity = 1
  MaxLaunch = 2
  MaxControllers = 1
  Faults = {"raise", "die"}
  MaxFaults = 1
SPECIFICATION Spec
INVARIANTS TypeOK RanksAgree RunsOnlyUnsettled SlotAccounting FailureSettlesOutputs
PROPERTIES ResultsAreFinal RefinesLedger
CHECK_DEADLOCK FALSE

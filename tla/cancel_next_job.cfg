CONSTANTS
  a = a
  b = b
  r0 = r0
  r1 = r1
  NoToken = NoToken
  Requests = {a, b}
  Deferred = {a, b}
  Ranks = {r0, r1}
  Main = r0
  Capacity = 1
  MaxLaunch = 1
  MaxControllers = 1
  Faults = {}
  MaxFaults = 0
SPECIFICATION FairSpec

PROPERTIES CancelledGroupTakesNoJob
CHECK_DEADLOCK FALSE

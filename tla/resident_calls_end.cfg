CONSTANTS
  a = a
  b = b
  r0 = r0
  r1 = r1
  NoToken = NoToken
  Requests = {a, b}
  Deferred = {a}
  Ranks = {r0, r1}
  Main = r0
  Capacity = 1
  MaxLaunch = 1
  MaxControllers = 1
  Faults = {"die", "launch", "abandon"}
  MaxFaults = 1
SPECIFICATION FairSpec

PROPERTIES EveryCallEnds
CHECK_DEADLOCK FALSE

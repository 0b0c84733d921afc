CONSTANTS
  a = a
  b = b
  r0 = r0
  r1 = r1
  NoToken = NoToken
  Requests = {a}
  Deferred = {a}
  Ranks = {r0, r1}
  Main = r0
  Capacity = 1
  MaxLaunch = 2
  MaxControllers = 2
  Faults = {"die", "raise", "controller", "shutdown", "disk", "abandon"}
  MaxFaults = 2
SPECIFICATION AttendedFairSpec
INVARIANTS NoStaleCommand
PROPERTIES LoadsOnFreeGPUs OrphanedOutputsSettle RecoveryRelaunches
CHECK_DEADLOCK FALSE

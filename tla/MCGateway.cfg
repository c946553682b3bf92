SPECIFICATION FairSpec
CONSTANTS
  r1 = r1
  r2 = r2
  Packets = {p1}
  Regions = {r1, r2}
  Requests = {}
  None = None
  Macs = {m1}
  Params <- MCParams
  TaskIds = {t1}
  DispatcherSlots = 1
  GatewaySlots = 1
  BeaconerSlots = 1
INVARIANTS
  AiredAtMostOnce
  PowerWithinRegion
PROPERTIES
  TaskEnds
CHECK_DEADLOCK FALSE

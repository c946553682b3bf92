SPECIFICATION RadioFairSpec
CONSTANTS
  r1 = r1
  r2 = r2
  Packets = {p1}
  Regions = {r1, r2}
  Requests = {}
  None = None
  Macs = {}
  Params <- MCParams
  TaskIds = {}
  DispatcherSlots = 1
  GatewaySlots = 2
  BeaconerSlots = 1
INVARIANTS
  BeaconerInSync
  BeaconHasRegion
PROPERTIES
  RefinesTasks
  GatewayWaitEnds
  BeaconWaitEnds
CHECK_DEADLOCK FALSE

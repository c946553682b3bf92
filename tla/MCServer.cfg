SPECIFICATION MCSpec
CONSTANTS
  o1 = o1
  u1 = u1
  p1 = p1
  r1 = r1
  r2 = r2
  Packets = {p1}
  Regions = {r1, r2}
  Requests = {q1}
  None = None
  Ouis = {o1}
  Uris = {u1}
  DefaultRouters = {}
  SeedGateways = {g1}
  MaxHeight = 1
  RoutingAt <- MCRoutingAt
  RegionAt <- MCRegionAt
  InitialRegion = r1
  MaxRetry = 0
  MaxPackets = 1
  Macs = {}
  Params <- MCParams
  TaskIds = {}
  DispatcherSlots = 1
  ClientSlots = 1
  GatewaySlots = 1
  BeaconerSlots = 1
INVARIANTS
  BeaconerWillKnow
PROPERTIES
  RefinesDispatcher
  CircularWaitIsFinal
CHECK_DEADLOCK FALSE

SPECIFICATION FairSpec
CONSTANTS
  o1 = o1
  o2 = o2
  u1 = u1
  u2 = u2
  p1 = p1
  r1 = r1
  r2 = r2
  Packets = {p1}
  Regions = {r1, r2}
  Requests = {q1}
  None = None
  Ouis = {o1}
  Uris = {u1}
  DefaultRouters = {}
  SeedGateways = {g1}
  MaxHeight = 1
  RoutingAt <- MCOneRouting
  RegionAt <- MCOneRegion
  InitialRegion = r1
  MaxRetry = 1
  DispatcherSlots = 1
  ClientSlots = 1
  GatewaySlots = 1
INVARIANTS
  NoRequestLost
PROPERTIES
  RefinesTasks
  RequestAnswered
  ShutdownSettles
CHECK_DEADLOCK FALSE

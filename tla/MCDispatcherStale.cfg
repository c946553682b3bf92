SPECIFICATION Spec
CONSTANTS
  o1 = o1
  o2 = o2
  u1 = u1
  u2 = u2
  p1 = p1
  r1 = r1
  r2 = r2
  Packets = {p1}
  Regions = {r1, r2}
  Requests = {q1}
  None = None
  Ouis = {o1, o2}
  Uris = {u1, u2}
  DefaultRouters = {u2}
  SeedGateways = {g1}
  MaxHeight = 2
  RoutingAt <- MCRoutingAt
  RegionAt <- MCRegionAt
  InitialRegion = r1
  MaxRetry = 1
  DispatcherSlots = 1
  ClientSlots = 1
  GatewaySlots = 1
INVARIANTS
  StaleRoutersRemoved
CHECK_DEADLOCK FALSE

SPECIFICATION FairSpec
CONSTANTS
  Packets = {p1, p2}
  Regions = {r1, r2}
  Requests = {}
  None = None
  Clients = {c1}
  MaxPackets = 1
  ClientSlots = 3
  GatewaySlots = 1
INVARIANTS
  StoreEmpty
PROPERTIES
  RefinesPacketQueue
  UplinkOffered
  ShutdownSettles
CHECK_DEADLOCK FALSE

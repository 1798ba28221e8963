SPECIFICATION Spec
CONSTANTS
  RoomId = {r1, r2}
  RoomCode = {c1, c2}
  PeerId = {p1, p2, p3}
  VirtualIp = {ip1, ip2}
  HostSessionId = {h1, h2}
  DiscoveryRequestId = {d1}
  GameplaySessionId = {g1, g2}
  DiscoveryPort = {port1}
  HostTtl = 1
  DiscoveryTtl = 1
  GameplayIdleTtl = 1
  PeerTtl = 1
  PeerGraceTtl = 2
  MaxRooms = 2
  MaxPeersPerRoom = 2
  MaxTotalPeers = 3
  MaxHostsPerRoom = 2
  MaxGameplaySessions = 2
  MaxEpoch = 3
SYMMETRY Interchangeable
INVARIANTS
  IndexConsistent
  RouteIntegrity
  GameplayHasHost
PROPERTIES
  GameplayEndsWithHost
  ReconnectRotatesEpoch
  
  ImplementsLanRooms

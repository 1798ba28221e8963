SPECIFICATION ControlSpec
CONSTANTS
  RoomId = {r1, r2, r3}
  RoomCode = {c1, c2, c3}
  PeerId = {p1, p2, p3}
  VirtualIp = {ip1, ip2, ip3}
  Key = {k1, k2, k3}
  HostSessionId = {h1, h2}
  DiscoveryRequestId = {}
  GameplaySessionId = {g1, g2}
  DiscoveryPort = {}
  HostTtl = 1
  DiscoveryTtl = 1
  GameplayIdleTtl = 1
  PeerTtl = 1
  PeerGraceTtl = 1
  MaxRooms = 2
  MaxPeersPerRoom = 2
  MaxTotalPeers = 2
  MaxHostsPerRoom = 1
  MaxGameplaySessions = 1
  MaxEpoch = 2
  Task = {t1}
  Retried = {}
  SharedKeys = FALSE
  DeletesRooms = TRUE
  Timed = FALSE
  MaskedText = FALSE
  MaxFaults = 1
  MaxCrashes = 1
SYMMETRY Interchangeable
INVARIANTS
  
  
  
  WithinLimits

  

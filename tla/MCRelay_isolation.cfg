SPECIFICATION RelaySpec
CONSTANTS
  RoomId = {r1, r2}
  RoomCode = {c1, c2}
  PeerId = {p1, p2}
  VirtualIp = {ip1, ip2}
  HostSessionId = {h1}
  DiscoveryRequestId = {d1}
  GameplaySessionId = {g1}
  DiscoveryPort = {port1}
  HostTtl = 1
  DiscoveryTtl = 1
  GameplayIdleTtl = 1
  PeerTtl = 1
  PeerGraceTtl = 1
  MaxRooms = 2
  MaxPeersPerRoom = 2
  MaxTotalPeers = 2
  MaxHostsPerRoom = 1
  MaxGameplaySessions = 1
  MaxEpoch = 3
  Reordering = FALSE
  Legacy = FALSE
  Rejoining = FALSE
  Persistent = TRUE
  MaxTrackers = 1
  MaxInFlight = 1
  MaxSent = 1
  MaxResets = 0
  MaxRestarts = 1
SYMMETRY Interchangeable
INVARIANTS
  ForwardedWithinRoom
  

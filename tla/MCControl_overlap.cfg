SPECIFICATION ControlSpec
CONSTANTS
  RoomId = {r1, r2}
  RoomCode = {c1, c2}
  PeerId = {p1, p2, p3}
  VirtualIp = {ip1, ip2}
  Key = {k1, k2, k3}
  HostSessionId = {h1, h2}
  DiscoveryRequestId = {}
  GameplaySessionId = {g1}
  DiscoveryPort = {}
  HostTtl = 1
  DiscoveryTtl = 1
  GameplayIdleTtl = 1
  PeerTtl = 1
  PeerGraceTtl = 1
  MaxRooms = 2
  MaxPeersPerRoom = 2
  MaxTotalPeers = 3
  MaxHostsPerRoom = 1
  MaxGameplaySessions = 1
  MaxEpoch = 2
  Task = {t1, t2}
  Retried = {}
  SharedKeys = FALSE
  DeletesRooms = FALSE
  Timed = FALSE
  MaskedText = FALSE
  MaxFaults = 0
  MaxCrashes = 0
SYMMETRY Interchangeable
INVARIANTS
  
  AddressBoundToKey

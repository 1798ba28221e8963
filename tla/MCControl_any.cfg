SPECIFICATION ControlSpec
CONSTANTS
  RoomId = {r1, r2}
  RoomCode = {c1, c2}
  PeerId = {p1, p2}
  VirtualIp = {ip1, ip2}
  Key = {k1}
  HostSessionId = {}
  DiscoveryRequestId = {}
  GameplaySessionId = {}
  DiscoveryPort = {}
  HostTtl = 1
  DiscoveryTtl = 1
  GameplayIdleTtl = 1
  PeerTtl = 1
  PeerGraceTtl = 1
  MaxRooms = 2
  MaxPeersPerRoom = 2
  MaxTotalPeers = 1
  MaxHostsPerRoom = 1
  MaxGameplaySessions = 1
  MaxEpoch = 1
  Task = {t1, t2}
  Retried = {p1}
  SharedKeys = TRUE
  DeletesRooms = TRUE
  Timed = TRUE
  MaskedText = FALSE
  MaxFaults = 0
  MaxCrashes = 1
SYMMETRY Interchangeable
INVARIANTS
  ControlTypeOK
  
PROPERTIES
  RestartHeals

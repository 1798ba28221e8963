SPECIFICATION ControlSpec
CONSTANTS
  RoomId = {r1}
  RoomCode = {c1}
  PeerId = {p1, p2}
  VirtualIp = {ip1, ip2}
  Key = {k1, k2}
  HostSessionId = {h1}
  DiscoveryRequestId = {}
  GameplaySessionId = {g1}
  DiscoveryPort = {}
  HostTtl = 1
  DiscoveryTtl = 1
  GameplayIdleTtl = 1
  PeerTtl = 1
  PeerGraceTtl = 1
  MaxRooms = 1
  MaxPeersPerRoom = 2
  MaxTotalPeers = 2
  MaxHostsPerRoom = 1
  MaxGameplaySessions = 1
  MaxEpoch = 2
  Task = {t1}
  Retried = {}
  SharedKeys = FALSE
  DeletesRooms = FALSE
  Timed = FALSE
  MaskedText = TRUE
  MaxFaults = 0
  MaxCrashes = 1
SYMMETRY Interchangeable
INVARIANTS
  RestartSucceeds

SPECIFICATION RelaySpec
CONSTANTS
  RoomId = {r1}
  RoomCode = {c1}
  PeerId = {p1}
  VirtualIp = {ip1}
  HostSessionId = {}
  DiscoveryRequestId = {}
  GameplaySessionId = {}
  DiscoveryPort = {port1}
  HostTtl = 1
  DiscoveryTtl = 1
  GameplayIdleTtl = 1
  PeerTtl = 1
  PeerGraceTtl = 1
  MaxRooms = 1
  MaxPeersPerRoom = 2
  MaxTotalPeers = 2
  MaxHostsPerRoom = 1
  MaxGameplaySessions = 1
  MaxEpoch = 3
  Reordering = TRUE
  Legacy = TRUE
  Rejoining = TRUE
  Persistent = FALSE
  MaxTrackers = 2
  MaxInFlight = 2
  MaxSent = 2
  MaxResets = 2
  MaxRestarts = 1
SYMMETRY Interchangeable
INVARIANTS
  RelayTypeOK
  ReconnectFences
  DroppedWasAccepted
  

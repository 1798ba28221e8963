SPECIFICATION FairSpec
CONSTANTS
  RoomId = {r1}
  RoomCode = {c1}
  PeerId = {p1, p2}
  VirtualIp = {ip1, ip2}
  HostSessionId = {h1}
  DiscoveryRequestId = {}
  GameplaySessionId = {g1}
  DiscoveryPort = {}
  HostTtl = 2
  DiscoveryTtl = 1
  GameplayIdleTtl = 3
  PeerTtl = 2
  PeerGraceTtl = 2
  MaxRooms = 1
  MaxPeersPerRoom = 2
  MaxTotalPeers = 2
  MaxHostsPerRoom = 1
  MaxGameplaySessions = 1
  MaxEpoch = 2
PROPERTIES
  SilentPeersLeave
  SilentHostsEnd
  IdleGameplayEnds

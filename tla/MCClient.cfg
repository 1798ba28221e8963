SPECIFICATION FairClientSpec
CONSTANTS
  RoomId = {r1}
  RoomCode = {c1}
  PeerId = {p1}
  VirtualIp = {ip1}
  HostSessionId = {}
  DiscoveryRequestId = {}
  GameplaySessionId = {}
  DiscoveryPort = {}
  HostTtl = 15
  DiscoveryTtl = 5
  GameplayIdleTtl = 30
  PeerTtl = 15
  PeerGraceTtl = 45
  MaxRooms = 1
  MaxPeersPerRoom = 1
  MaxTotalPeers = 1
  MaxHostsPerRoom = 1
  MaxGameplaySessions = 1
  MaxEpoch = 3
  Me = p1
  Home = r1
  HomeCode = c1
  MyAddress = ip1
  ProbeInterval = 2
  ProbeTimeout = 1
  DegradedAfterFailures = 3
  ReconnectInitialBackoff = 1
  ReconnectMaxBackoff = 8
  MaxAttempts = 6
  MaxDisturbances = 1
INVARIANTS
  ClientTypeOK
  EpochAgrees
PROPERTIES
  AckMeansLease
  SweptOnlyAfterDisturbance
  BackToHealthy

-------------------------- MODULE RoomRouterProofs --------------------------
(***************************************************************************)
(* Theorems about RoomRouter, for every number of rooms, peers, addresses, *)
(* hosts and sessions and every value of the limits and deadlines: what    *)
(* its tables keep, the limits of RouterConfig and the grace period, and   *)
(* that it implements LanRooms.                                            *)
(***************************************************************************)
EXTENDS RouterRefinement, FiniteSetTheorems, TLAPS

(* HashMap::insert: one more key, whose value is the new one.               *)
LEMMA PutFacts ==
  ASSUME NEW f, NEW k, NEW v
  PROVE  /\ DOMAIN Put(f, k, v) = DOMAIN f \cup {k}
         /\ Put(f, k, v)[k] = v
         /\ \A x \in DOMAIN f : x # k => Put(f, k, v)[x] = f[x]
  BY DEF Put

(* HashMap::remove and retain: fewer keys, the others as they were.         *)
LEMMA WithoutFacts ==
  ASSUME NEW f, NEW S
  PROVE  /\ DOMAIN Without(f, S) = DOMAIN f \ S
         /\ \A x \in DOMAIN f \ S : Without(f, S)[x] = f[x]
  BY DEF Without, Restrict

LEMMA PutTable ==
  ASSUME NEW K, NEW V, NEW f, IsTable(f, K, V), NEW k \in K, NEW v \in V
  PROVE  IsTable(Put(f, k, v), K, V)
  BY DEF IsTable, Put

LEMMA WithoutTable ==
  ASSUME NEW K, NEW V, NEW f, IsTable(f, K, V), NEW S
  PROVE  IsTable(Without(f, S), K, V)
  BY DEF IsTable, Without, Restrict

LEMMA UpdateTable ==
  ASSUME NEW K, NEW V, NEW f, NEW g, IsTable(f, K, V),
         g = [x \in DOMAIN f |-> g[x]],
         \A x \in DOMAIN f : g[x] \in V
  PROVE  IsTable(g, K, V)
  BY DEF IsTable

-----------------------------------------------------------------------------
(* Type correctness.                                                        *)

(* What every removal does to the five tables it rewrites.                  *)
LEMMA PurgeTypes ==
  ASSUME TypeOK, NEW H, NEW D, NEW G, NEW L, Purge(H, D, G, L)
  PROVE  /\ IsTable(rooms', RoomId, RoomState)
         /\ IsTable(hosts', HostSessionId, HostState)
         /\ IsTable(host_by_peer', RoomId \X PeerId, HostSessionId)
         /\ IsTable(discoveries', DiscoveryRequestId, DiscoveryState)
         /\ IsTable(gameplay', GameplaySessionId, GameplayState)
<1>1. IsTable(rooms', RoomId, RoomState)
  BY DEF TypeOK, Purge, IsTable, RoomState
<1>2. IsTable(hosts', HostSessionId, HostState)
  BY WithoutTable DEF TypeOK, Purge
<1>3. IsTable(host_by_peer', RoomId \X PeerId, HostSessionId)
  BY WithoutTable DEF TypeOK, Purge
<1>4. IsTable(discoveries', DiscoveryRequestId, DiscoveryState)
  BY WithoutTable DEF TypeOK, Purge
<1>5. IsTable(gameplay', GameplaySessionId, GameplayState)
  BY WithoutTable DEF TypeOK, Purge
<1> QED BY <1>1, <1>2, <1>3, <1>4, <1>5

LEMMA MembershipTypes ==
  ASSUME TypeOK, RoomNext \/ PeerNext
  PROVE  TypeOK'
<1>1. ASSUME NEW r \in RoomId, NEW c \in RoomCode, CreateRoomWithId(r, c)
      PROVE  TypeOK'
  <2>1. [code |-> c, members |-> {}, host_sessions |-> {}] \in RoomState
    BY DEF RoomState
  <2>2. IsTable(rooms', RoomId, RoomState)
    BY <1>1, <2>1, PutTable DEF CreateRoomWithId, TypeOK
  <2>3. IsTable(rooms_by_code', RoomCode, RoomId)
    BY <1>1, PutTable DEF CreateRoomWithId, TypeOK
  <2> QED BY <1>1, <2>2, <2>3
       DEF CreateRoomWithId, TypeOK, peerVars, hostVars, sessionVars
<1>2. ASSUME NEW r \in RoomId, RemoveEmptyRoom(r)
      PROVE  TypeOK'
  <2>1. IsTable(rooms', RoomId, RoomState)
    BY <1>2, WithoutTable DEF RemoveEmptyRoom, TypeOK
  <2>2. IsTable(rooms_by_code', RoomCode, RoomId)
    BY <1>2, WithoutTable DEF RemoveEmptyRoom, TypeOK
  <2> QED BY <1>2, <2>1, <2>2
       DEF RemoveEmptyRoom, TypeOK, peerVars, hostVars, sessionVars
<1>3. ASSUME NEW p \in PeerId, MarkPeerSeen(p)
      PROVE  TypeOK'
  <2>1. IsTable(peers', PeerId, PeerState)
    BY <1>3, TtlAssumption DEF MarkPeerSeen, TouchPeer, TypeOK, IsTable, PeerState
  <2> QED BY <1>3, <2>1
       DEF MarkPeerSeen, TypeOK, roomVars, hostVars, sessionVars
<1>4. ASSUME NEW r \in RoomId, NEW p \in PeerId, NEW ip \in VirtualIp, JoinRoom(r, p, ip)
      PROVE  TypeOK'
  <2>1. [room_id |-> r, virtual_ip |-> ip, disconnected |-> FALSE,
         lease |-> PeerTtl, epoch |-> 1] \in PeerState
    BY TtlAssumption, LimitAssumption DEF PeerState
  <2>2. IsTable(peers', PeerId, PeerState)
    BY <1>4, <2>1, PutTable DEF JoinRoom, TypeOK
  <2>3. IsTable(virtual_ips', VirtualIp, PeerId)
    BY <1>4, PutTable DEF JoinRoom, TypeOK
  <2>4. IsTable(rooms', RoomId, RoomState)
    BY <1>4 DEF JoinRoom, TypeOK, IsTable, RoomState
  <2> QED BY <1>4, <2>2, <2>3, <2>4 DEF JoinRoom, TypeOK, hostVars, sessionVars
<1>5. ASSUME NEW r \in RoomId, NEW p \in PeerId, ResumePeer(r, p)
      PROVE  TypeOK'
  <2>1. ASSUME NEW peer \in PeerState PROVE Resumed(peer) \in PeerState
    <3>1. peer.epoch \in 1..MaxEpoch
      BY DEF PeerState
    <3>2. (IF peer.disconnected THEN NextEpoch(peer.epoch) ELSE peer.epoch) \in 1..MaxEpoch
      BY <3>1, LimitAssumption DEF NextEpoch
    <3>3. PeerTtl \in Nat
      BY TtlAssumption
    <3> DEFINE e == IF peer.disconnected THEN NextEpoch(peer.epoch) ELSE peer.epoch
    <3>4. Resumed(peer) = [peer EXCEPT !.disconnected = FALSE, !.lease = PeerTtl, !.epoch = e]
      BY DEF Resumed
    <3> HIDE DEF e
    <3> QED BY <3>2, <3>3, <3>4 DEF PeerState, e
  <2>2. IsTable(peers', PeerId, PeerState)
    BY <1>5, <2>1 DEF ResumePeer, TypeOK, IsTable
  <2> QED BY <1>5, <2>2 DEF ResumePeer, TypeOK, roomVars, hostVars, sessionVars
<1>6. ASSUME NEW r \in RoomId, NEW p \in PeerId, LeaveRoom(r, p)
      PROVE  TypeOK'
  <2>1. IsTable(peers', PeerId, PeerState)
    BY <1>6, WithoutTable DEF LeaveRoom, TypeOK
  <2>2. IsTable(virtual_ips', VirtualIp, PeerId)
    BY <1>6, WithoutTable DEF LeaveRoom, TypeOK
  <2> QED BY <1>6, <2>1, <2>2, PurgeTypes DEF LeaveRoom, TypeOK
<1> QED BY <1>1, <1>2, <1>3, <1>4, <1>5, <1>6 DEF RoomNext, PeerNext

(* A refreshed or aged deadline stays within its bound.                     *)
LEMMA RefreshTypes ==
  ASSUME TypeOK, NEW h \in DOMAIN hosts, RefreshHost(h)
  PROVE  TypeOK'
<1>1. HostTtl \in 0..HostTtl
  BY TtlAssumption
<1>2. IsTable(hosts', HostSessionId, HostState)
  BY <1>1 DEF RefreshHost, TypeOK, IsTable, HostState
<1> QED BY <1>2 DEF RefreshHost, TypeOK, roomVars, peerVars, sessionVars

LEMMA HostTypes ==
  ASSUME TypeOK, HostNext \/ RegisterAgain
  PROVE  TypeOK'
<1>1. ASSUME NEW h \in HostSessionId, UnregisterHost(h)
      PROVE  TypeOK'
  BY <1>1, PurgeTypes DEF UnregisterHost, TypeOK, peerVars
<1>2. ASSUME NEW r \in RoomId, NEW p \in PeerId, NEW h \in HostSessionId,
             RegisterNewHost(r, p, h)
      PROVE  TypeOK'
  <2> DEFINE stale == {x \in DOMAIN hosts : HostKey(x) = <<r, p>>}
             host  == [room_id |-> r, peer_id |-> p,
                       virtual_ip |-> peers[p].virtual_ip, ttl |-> HostTtl]
  <2>1. host \in HostState
    <3>1. peers[p] \in PeerState
      BY <1>2 DEF RegisterNewHost, IsMember, TypeOK, IsTable
    <3> QED BY <3>1, TtlAssumption DEF HostState, PeerState
  <2>2. hosts' = Put(Without(hosts, stale), h, host)
    BY <1>2 DEF RegisterNewHost
  <2>3. IsTable(Without(hosts, stale), HostSessionId, HostState)
    BY WithoutTable DEF TypeOK
  <2> HIDE DEF stale, host
  <2>4. IsTable(hosts', HostSessionId, HostState)
    BY <2>1, <2>2, <2>3, PutTable
  <2>5. IsTable(host_by_peer', RoomId \X PeerId, HostSessionId)
    <3>1. <<r, p>> \in RoomId \X PeerId
      OBVIOUS
    <3> QED BY <1>2, <3>1, PutTable DEF RegisterNewHost, TypeOK
  <2>6. IsTable(rooms', RoomId, RoomState)
    BY <1>2 DEF RegisterNewHost, TypeOK, IsTable, RoomState
  <2>7. IsTable(gameplay', GameplaySessionId, GameplayState)
    BY <1>2, WithoutTable DEF RegisterNewHost, TypeOK
  <2> QED BY <1>2, <2>4, <2>5, <2>6, <2>7 DEF RegisterNewHost, TypeOK, peerVars
<1>3. ASSUME NEW r \in RoomId, NEW p \in PeerId, NEW h \in HostSessionId,
             HeartbeatHost(r, p, h)
      PROVE  TypeOK'
  BY <1>3, RefreshTypes DEF HeartbeatHost
<1>4. ASSUME NEW r \in RoomId, NEW p \in PeerId, RegisterExistingHost(r, p)
      PROVE  TypeOK'
  BY <1>4, RefreshTypes DEF RegisterExistingHost
<1> QED BY <1>1, <1>2, <1>3, <1>4 DEF HostNext, RegisterAgain

(* A gameplay session with another deadline is still one.                   *)
LEMMA GameplayTtl ==
  ASSUME NEW s \in GameplayState, NEW n \in 0..GameplayIdleTtl
  PROVE  [s EXCEPT !.ttl = n] \in GameplayState
  BY DEF GameplayState

LEMMA SessionTypes ==
  ASSUME TypeOK, DiscoveryNext \/ GameplayNext
  PROVE  TypeOK'
<1>1. ASSUME NEW r \in RoomId, NEW p \in PeerId, NEW d \in DiscoveryRequestId,
             NEW port \in DiscoveryPort, BeginDiscovery(r, p, d, port)
      PROVE  TypeOK'
  <2>1. DiscoveryEntry(r, p, port) \in DiscoveryState
    BY TtlAssumption DEF DiscoveryEntry, DiscoveryState
  <2>2. IsTable(discoveries', DiscoveryRequestId, DiscoveryState)
    BY <1>1, <2>1, PutTable DEF BeginDiscovery, TouchDiscovery, TypeOK
  <2> QED BY <1>1, <2>2 DEF BeginDiscovery, TypeOK, roomVars, peerVars, hostVars
<1>2. ASSUME NEW g \in GameplaySessionId, NEW r \in RoomId, NEW p \in PeerId,
             NEW h \in HostSessionId, SelectHost(r, p, h, g)
      PROVE  TypeOK'
  <2> DEFINE session == [room_id |-> r, client_peer_id |-> p,
                         host_peer_id |-> hosts[h].peer_id,
                         host_virtual_ip |-> hosts[h].virtual_ip,
                         client_virtual_ip |-> peers[p].virtual_ip,
                         ttl |-> GameplayIdleTtl]
  <2>1. session \in GameplayState
    <3>1. peers[p] \in PeerState /\ hosts[h] \in HostState
      BY <1>2 DEF SelectHost, IsMember, TypeOK, IsTable
    <3> QED BY <3>1, TtlAssumption DEF HostState, PeerState, GameplayState
  <2>2. gameplay' = Put(gameplay, g, session)
    BY <1>2 DEF SelectHost
  <2> HIDE DEF session
  <2>3. IsTable(gameplay', GameplaySessionId, GameplayState)
    BY <2>1, <2>2, PutTable DEF TypeOK
  <2> QED BY <1>2, <2>3 DEF SelectHost, TypeOK, roomVars, peerVars, hostVars
<1>3. ASSUME NEW g \in GameplaySessionId, NEW p \in PeerId, RouteGameplayDatagram(g, p)
      PROVE  TypeOK'
  <2>1. GameplayIdleTtl \in 0..GameplayIdleTtl
    BY TtlAssumption
  <2>2. [gameplay[g] EXCEPT !.ttl = GameplayIdleTtl] \in GameplayState
    BY <1>3, <2>1, GameplayTtl
       DEF RouteGameplayDatagram, TouchGameplay, CanRoute, TypeOK, IsTable
  <2>3. IsTable(gameplay', GameplaySessionId, GameplayState)
    BY <1>3, <2>2 DEF RouteGameplayDatagram, TouchGameplay, TypeOK, IsTable
  <2> QED BY <1>3, <2>3 DEF RouteGameplayDatagram, TypeOK, roomVars, peerVars, hostVars
<1>4. ASSUME NEW g \in GameplaySessionId, RemoveGameplaySession(g)
      PROVE  TypeOK'
  <2>1. IsTable(gameplay', GameplaySessionId, GameplayState)
    BY <1>4, WithoutTable DEF RemoveGameplaySession, TypeOK
  <2> QED BY <1>4, <2>1 DEF RemoveGameplaySession, TypeOK, roomVars, peerVars, hostVars
<1> QED BY <1>1, <1>2, <1>3, <1>4 DEF DiscoveryNext, GameplayNext

LEMMA TimeTypes ==
  ASSUME TypeOK, Expire \/ Tick
  PROVE  TypeOK'
<1>1. CASE Expire
  <2>1. \A peer \in PeerState : Suspended(peer) \in PeerState
    BY TtlAssumption DEF Suspended, PeerState
  <2>2. IsTable(peers', PeerId, PeerState)
    BY <1>1, <2>1 DEF Expire, TypeOK, IsTable
  <2>3. IsTable(virtual_ips', VirtualIp, PeerId)
    BY <1>1, WithoutTable DEF Expire, TypeOK
  <2> QED BY <1>1, <2>2, <2>3, PurgeTypes DEF Expire, TypeOK
<1>2. CASE Tick
  <2>1. /\ \A n \in Nat : Less(n) \in Nat
        /\ \A m \in Nat : \A n \in 0..m : Less(n) \in 0..m
    BY DEF Less
  <2>2. HostTtl \in Nat /\ DiscoveryTtl \in Nat /\ GameplayIdleTtl \in Nat
    BY TtlAssumption
  <2>3. IsTable(peers', PeerId, PeerState)
    BY <1>2, <2>1 DEF Tick, TypeOK, IsTable, PeerState
  <2>4. IsTable(hosts', HostSessionId, HostState)
    BY <1>2, <2>1, <2>2 DEF Tick, Aged, TypeOK, IsTable, HostState
  <2>5. IsTable(discoveries', DiscoveryRequestId, DiscoveryState)
    BY <1>2, <2>1, <2>2 DEF Tick, Aged, TypeOK, IsTable, DiscoveryState
  <2>6. IsTable(gameplay', GameplaySessionId, GameplayState)
    <3>1. ASSUME NEW g \in DOMAIN gameplay
          PROVE  [gameplay[g] EXCEPT !.ttl = Less(@)] \in GameplayState
      <4>1. gameplay[g] \in GameplayState
        BY DEF TypeOK, IsTable
      <4>2. Less(gameplay[g].ttl) \in 0..GameplayIdleTtl
        BY <2>1, <2>2, <4>1 DEF GameplayState
      <4> QED BY <4>1, <4>2, GameplayTtl
    <3> QED BY <1>2, <3>1 DEF Tick, Aged, TypeOK, IsTable
  <2> QED BY <1>2, <2>3, <2>4, <2>5, <2>6 DEF Tick, TypeOK, roomVars
<1> QED BY <1>1, <1>2

LEMMA InitTypes == Init => TypeOK
  BY DEF Init, TypeOK, IsTable, NoTables

LEMMA NextTypes == TypeOK /\ [Next]_vars => TypeOK'
<1> SUFFICES ASSUME TypeOK, [Next]_vars PROVE TypeOK'
  OBVIOUS
<1>1. CASE Next
  BY <1>1, MembershipTypes, HostTypes, SessionTypes, TimeTypes DEF Next
<1>2. CASE UNCHANGED vars
  BY <1>2 DEF vars, roomVars, peerVars, hostVars, sessionVars, TypeOK
<1> QED BY <1>1, <1>2

(* Every table keeps the type struct RoomRouter gives it.                   *)
THEOREM TypeCorrect == Spec => []TypeOK
  BY InitTypes, NextTypes, PTL DEF Spec

-----------------------------------------------------------------------------
(* Consistency of the tables and integrity of the routes.                   *)
(*                                                                         *)
(* The conjunction is inductive, its parts are not: leave_room clears what  *)
(* belongs to the peer *in the room it leaves*, which is all of it only     *)
(* because the indexes agree that the peer is in no other room and because  *)
(* hosts and sessions are filed under their peers' room; and a session's    *)
(* host peer is still in the room only because its host session is.         *)

Routing ==
  /\ TypeOK
  /\ IndexConsistent
  /\ RouteIntegrity
  /\ GameplayHasHost

SameOwner(table) ==
  \A k \in DOMAIN table' : /\ table'[k].room_id = table[k].room_id
                           /\ table'[k].virtual_ip = table[k].virtual_ip

SameSessions ==
  /\ DOMAIN discoveries' \subseteq DOMAIN discoveries
  /\ \A d \in DOMAIN discoveries' :
       /\ discoveries'[d].room_id = discoveries[d].room_id
       /\ discoveries'[d].client_peer_id = discoveries[d].client_peer_id
  /\ DOMAIN gameplay' \subseteq DOMAIN gameplay
  /\ \A g \in DOMAIN gameplay' :
       /\ gameplay'[g].room_id = gameplay[g].room_id
       /\ gameplay'[g].host_peer_id = gameplay[g].host_peer_id
       /\ gameplay'[g].client_peer_id = gameplay[g].client_peer_id
       /\ gameplay'[g].host_virtual_ip = gameplay[g].host_virtual_ip
       /\ gameplay'[g].client_virtual_ip = gameplay[g].client_virtual_ip

(* A step that touches only deadlines, suspensions and epochs, or drops     *)
(* sessions, disturbs nothing.                                              *)
LEMMA DeadlinesDoNotMatter ==
  ASSUME Routing, TypeOK',
         UNCHANGED <<rooms, rooms_by_code, virtual_ips, host_by_peer>>,
         DOMAIN peers' = DOMAIN peers, SameOwner(peers),
         DOMAIN hosts' = DOMAIN hosts, SameOwner(hosts),
         \A h \in DOMAIN hosts : hosts'[h].peer_id = hosts[h].peer_id,
         SameSessions
  PROVE  Routing'
<1>1. CodesMatchRooms'
  BY DEF Routing, IndexConsistent, CodesMatchRooms
<1>2. MembersMatchPeers'
  BY DEF Routing, IndexConsistent, MembersMatchPeers, SameOwner
<1>3. AddressesMatchPeers'
  BY DEF Routing, IndexConsistent, AddressesMatchPeers, SameOwner
<1>4. HostsMatchRooms'
  BY DEF Routing, IndexConsistent, HostsMatchRooms, SameOwner, HostKey
<1>5. HostsInPlace'
  BY DEF Routing, RouteIntegrity, HostsInPlace, At, SameOwner
<1>6. DiscoveriesInPlace'
  BY DEF Routing, RouteIntegrity, DiscoveriesInPlace, SameOwner, SameSessions
<1>7. SessionsInPlace'
  BY DEF Routing, RouteIntegrity, SessionsInPlace, At, SameOwner, SameSessions
<1>8. GameplayHasHost'
  BY DEF Routing, GameplayHasHost, SameSessions
<1> QED
  BY <1>1, <1>2, <1>3, <1>4, <1>5, <1>6, <1>7, <1>8
     DEF Routing, IndexConsistent, RouteIntegrity

(* A removal that takes everything the leaving peers L own keeps Routing.   *)
LEMMA PurgeKeepsRouting ==
  ASSUME Routing, TypeOK', UNCHANGED rooms_by_code,
         NEW H, NEW D, NEW G, NEW L,
         H \subseteq DOMAIN hosts, Purge(H, D, G, L),
         HostsOf(L) \subseteq H, DiscoveriesOf(L) \subseteq D,
         GameplayOf(L) \subseteq G \cup ServedBy(H),
         DOMAIN peers' = DOMAIN peers \ L, SameOwner(peers),
         virtual_ips' = Without(virtual_ips, {peers[p].virtual_ip : p \in L}),
         L \subseteq DOMAIN peers
  PROVE  Routing'
<1>1. /\ DOMAIN hosts' = DOMAIN hosts \ H
      /\ \A h \in DOMAIN hosts' : hosts'[h] = hosts[h]
      /\ DOMAIN discoveries' = DOMAIN discoveries \ D
      /\ \A d \in DOMAIN discoveries' : discoveries'[d] = discoveries[d]
      /\ DOMAIN gameplay' = DOMAIN gameplay \ (G \cup ServedBy(H))
      /\ \A g \in DOMAIN gameplay' : gameplay'[g] = gameplay[g]
  BY DEF Purge, Without, Restrict
<1>2. /\ DOMAIN host_by_peer' = DOMAIN host_by_peer \ {HostKey(h) : h \in H}
      /\ \A k \in DOMAIN host_by_peer' : host_by_peer'[k] = host_by_peer[k]
  BY DEF Purge, Without, Restrict
<1>3. /\ DOMAIN virtual_ips' = DOMAIN virtual_ips \ {peers[p].virtual_ip : p \in L}
      /\ \A ip \in DOMAIN virtual_ips' : virtual_ips'[ip] = virtual_ips[ip]
  BY DEF Without, Restrict
<1>4. /\ DOMAIN rooms' = DOMAIN rooms
      /\ \A r \in DOMAIN rooms :
           /\ rooms'[r].code = rooms[r].code
           /\ rooms'[r].members = rooms[r].members \ L
           /\ rooms'[r].host_sessions = rooms[r].host_sessions \ H
  BY DEF Purge, Routing, TypeOK, IsTable, RoomState
<1>5. CodesMatchRooms'
  BY <1>4 DEF Routing, IndexConsistent, CodesMatchRooms
<1>6. MembersMatchPeers'
  BY <1>4 DEF Routing, IndexConsistent, MembersMatchPeers, SameOwner
<1>7. AddressesMatchPeers'
  <2>1. AddressesMatchPeers
    BY DEF Routing, IndexConsistent
  <2>2. \A p \in DOMAIN peers' : /\ peers'[p].virtual_ip \in DOMAIN virtual_ips'
                                 /\ virtual_ips'[peers'[p].virtual_ip] = p
    BY <1>3, <2>1 DEF AddressesMatchPeers, SameOwner
  <2>3. ASSUME NEW ip \in DOMAIN virtual_ips'
        PROVE  /\ virtual_ips'[ip] \in DOMAIN peers'
               /\ peers'[virtual_ips'[ip]].virtual_ip = ip
    <3>1. /\ virtual_ips'[ip] = virtual_ips[ip]
          /\ ip \in DOMAIN virtual_ips
          /\ ip \notin {peers[p].virtual_ip : p \in L}
      BY <1>3
    <3>2. virtual_ips[ip] \in DOMAIN peers /\ peers[virtual_ips[ip]].virtual_ip = ip
      BY <2>1, <3>1 DEF AddressesMatchPeers
    <3>3. virtual_ips[ip] \notin L
      BY <3>1, <3>2
    <3> QED BY <3>1, <3>2, <3>3 DEF SameOwner
  <2> QED BY <2>2, <2>3 DEF AddressesMatchPeers
<1>8. HostsMatchRooms'
  <2>1. \A h \in DOMAIN hosts' :
          /\ hosts'[h].room_id \in DOMAIN rooms'
          /\ h \in rooms'[hosts'[h].room_id].host_sessions
    BY <1>1, <1>4 DEF Routing, IndexConsistent, HostsMatchRooms
  <2>2. \A h \in DOMAIN hosts' : HostKey(h)' = HostKey(h)
    BY <1>1 DEF HostKey
  <2>3. \A h \in DOMAIN hosts' : /\ HostKey(h)' \in DOMAIN host_by_peer'
                                 /\ host_by_peer'[HostKey(h)'] = h
    BY <1>1, <1>2, <2>2 DEF Routing, IndexConsistent, HostsMatchRooms
  <2>4. \A k \in DOMAIN host_by_peer' : /\ host_by_peer'[k] \in DOMAIN hosts'
                                        /\ HostKey(host_by_peer[k]) = k
    BY <1>1, <1>2 DEF Routing, IndexConsistent, HostsMatchRooms
  <2>5. \A r \in DOMAIN rooms' : \A h \in rooms'[r].host_sessions :
          h \in DOMAIN hosts' /\ hosts'[h].room_id = r
    BY <1>1, <1>4 DEF Routing, IndexConsistent, HostsMatchRooms
  <2> QED BY <1>1, <1>2, <2>1, <2>3, <2>4, <2>5 DEF HostsMatchRooms, HostKey
<1>9. HostsInPlace'
  BY <1>1 DEF Routing, RouteIntegrity, HostsInPlace, At, SameOwner, HostsOf
<1>10. DiscoveriesInPlace'
  BY <1>1 DEF Routing, RouteIntegrity, DiscoveriesInPlace, SameOwner, DiscoveriesOf
<1>11. SessionsInPlace'
  BY <1>1 DEF Routing, RouteIntegrity, SessionsInPlace, At, SameOwner, GameplayOf
<1>12. GameplayHasHost'
  BY <1>1, <1>2 DEF Routing, GameplayHasHost, ServedBy
<1> QED
  BY <1>5, <1>6, <1>7, <1>8, <1>9, <1>10, <1>11, <1>12
     DEF Routing, IndexConsistent, RouteIntegrity

LEMMA MembershipKeepsRouting ==
  ASSUME Routing, RoomNext \/ PeerNext, TypeOK'
  PROVE  Routing'
<1>codes. CodesMatchRooms
  BY DEF Routing, IndexConsistent
<1>members. MembersMatchPeers
  BY DEF Routing, IndexConsistent
<1>addresses. AddressesMatchPeers
  BY DEF Routing, IndexConsistent
<1>hosts. HostsMatchRooms
  BY DEF Routing, IndexConsistent
<1>routes. HostsInPlace /\ DiscoveriesInPlace /\ SessionsInPlace
  BY DEF Routing, RouteIntegrity
<1>served. GameplayHasHost
  BY DEF Routing
<1>types. TypeOK
  BY DEF Routing
<1>1. ASSUME NEW r \in RoomId, NEW c \in RoomCode, CreateRoomWithId(r, c)
      PROVE  Routing'
  <2>1. /\ DOMAIN rooms' = DOMAIN rooms \cup {r}
        /\ rooms'[r] = [code |-> c, members |-> {}, host_sessions |-> {}]
        /\ \A x \in DOMAIN rooms : x # r /\ rooms'[x] = rooms[x]
    BY <1>1 DEF CreateRoomWithId, Put
  <2>2. /\ DOMAIN rooms_by_code' = DOMAIN rooms_by_code \cup {c}
        /\ rooms_by_code'[c] = r
        /\ \A x \in DOMAIN rooms_by_code : x # c /\ rooms_by_code'[x] = rooms_by_code[x]
    BY <1>1 DEF CreateRoomWithId, Put
  <2>3. CodesMatchRooms'
    BY <1>codes, <2>1, <2>2 DEF CodesMatchRooms
  <2>4. MembersMatchPeers'
    <3>1. UNCHANGED peers
      BY <1>1 DEF CreateRoomWithId, peerVars
    <3>2. rooms'[r].members = {}
      BY <2>1
    <3> QED BY <1>members, <2>1, <3>1, <3>2 DEF MembersMatchPeers
  <2>5. HostsMatchRooms'
    <3>1. UNCHANGED hostVars
      BY <1>1 DEF CreateRoomWithId
    <3>2. rooms'[r].host_sessions = {}
      BY <2>1
    <3> QED BY <1>hosts, <2>1, <3>1, <3>2 DEF hostVars, HostsMatchRooms, HostKey
  <2>6. AddressesMatchPeers' /\ RouteIntegrity' /\ GameplayHasHost'
    BY <1>addresses, <1>routes, <1>served, <1>1 DEF RouteIntegrity, CreateRoomWithId, peerVars, hostVars, sessionVars, AddressesMatchPeers,
                HostsInPlace, DiscoveriesInPlace, SessionsInPlace, At, GameplayHasHost
  <2> QED BY <2>3, <2>4, <2>5, <2>6 DEF Routing, IndexConsistent, RouteIntegrity
<1>2. ASSUME NEW r \in RoomId, RemoveEmptyRoom(r)
      PROVE  Routing'
  <2>1. /\ DOMAIN rooms' = DOMAIN rooms \ {r}
        /\ \A x \in DOMAIN rooms' : rooms'[x] = rooms[x]
    BY <1>2 DEF RemoveEmptyRoom, Without, Restrict
  <2>2. /\ DOMAIN rooms_by_code' = DOMAIN rooms_by_code \ {rooms[r].code}
        /\ \A x \in DOMAIN rooms_by_code' : rooms_by_code'[x] = rooms_by_code[x]
    BY <1>2 DEF RemoveEmptyRoom, Without, Restrict
  <2>3. CodesMatchRooms'
    <3>1. \A x \in DOMAIN rooms' : rooms[x].code # rooms[r].code
      BY <1>codes, <1>2, <2>1 DEF CodesMatchRooms, RemoveEmptyRoom
    <3>2. \A x \in DOMAIN rooms_by_code' : rooms_by_code[x] # r
      BY <1>codes, <2>2 DEF CodesMatchRooms
    <3> QED BY <1>codes, <2>1, <2>2, <3>1, <3>2 DEF CodesMatchRooms
  <2>4. MembersMatchPeers'
    BY <1>members, <1>2, <2>1 DEF RemoveEmptyRoom, peerVars, MembersMatchPeers
  <2>5. HostsMatchRooms'
    BY <1>hosts, <1>2, <2>1 DEF RemoveEmptyRoom, hostVars, HostsMatchRooms, HostKey
  <2>6. AddressesMatchPeers' /\ RouteIntegrity' /\ GameplayHasHost'
    BY <1>addresses, <1>routes, <1>served, <1>2 DEF RouteIntegrity, RemoveEmptyRoom, peerVars, hostVars, sessionVars, AddressesMatchPeers,
                HostsInPlace, DiscoveriesInPlace, SessionsInPlace, At, GameplayHasHost
  <2> QED BY <2>3, <2>4, <2>5, <2>6 DEF Routing, IndexConsistent, RouteIntegrity
<1>3. ASSUME NEW p \in PeerId, MarkPeerSeen(p)
      PROVE  Routing'
  <2>1. DOMAIN peers' = DOMAIN peers /\ SameOwner(peers)
    BY <1>types, <1>3 DEF MarkPeerSeen, TouchPeer, SameOwner, TypeOK, IsTable, PeerState
  <2> QED BY <1>3, <2>1, DeadlinesDoNotMatter
       DEF MarkPeerSeen, roomVars, hostVars, sessionVars, SameOwner, SameSessions
<1>4. ASSUME NEW r \in RoomId, NEW p \in PeerId, NEW ip \in VirtualIp, JoinRoom(r, p, ip)
      PROVE  Routing'
  <2>1. /\ DOMAIN peers' = DOMAIN peers \cup {p}
        /\ peers'[p].room_id = r /\ peers'[p].virtual_ip = ip
        /\ \A x \in DOMAIN peers : x # p /\ peers'[x] = peers[x]
    BY <1>4 DEF JoinRoom, Put
  <2>2. /\ DOMAIN virtual_ips' = DOMAIN virtual_ips \cup {ip}
        /\ virtual_ips'[ip] = p
        /\ \A x \in DOMAIN virtual_ips : x # ip /\ virtual_ips'[x] = virtual_ips[x]
    BY <1>4 DEF JoinRoom, Put
  <2>3. /\ DOMAIN rooms' = DOMAIN rooms
        /\ \A x \in DOMAIN rooms :
             /\ rooms'[x].code = rooms[x].code
             /\ rooms'[x].host_sessions = rooms[x].host_sessions
             /\ rooms'[x].members = IF x = r THEN rooms[x].members \cup {p}
                                    ELSE rooms[x].members
    BY <1>types, <1>4 DEF JoinRoom, TypeOK, IsTable, RoomState
  <2>4. CodesMatchRooms'
    BY <1>codes, <1>4, <2>3 DEF JoinRoom, CodesMatchRooms
  <2>5. MembersMatchPeers'
    <3>1. r \in DOMAIN rooms
      BY <1>4 DEF JoinRoom
    <3>2. rooms'[r].members = rooms[r].members \cup {p}
      BY <2>3, <3>1
    <3>3. \A x \in DOMAIN rooms : x # r => rooms'[x].members = rooms[x].members
      BY <2>3
    <3>4. \A q \in DOMAIN peers' : /\ peers'[q].room_id \in DOMAIN rooms'
                                   /\ q \in rooms'[peers'[q].room_id].members
      BY <1>members, <2>1, <2>3, <3>1, <3>2, <3>3 DEF MembersMatchPeers
    <3>5. \A x \in DOMAIN rooms' : \A q \in rooms'[x].members :
            q \in DOMAIN peers' /\ peers'[q].room_id = x
      BY <1>members, <2>1, <2>3, <3>1, <3>2, <3>3 DEF MembersMatchPeers
    <3> QED BY <3>4, <3>5 DEF MembersMatchPeers
  <2>6. AddressesMatchPeers'
    BY <1>addresses, <2>1, <2>2 DEF AddressesMatchPeers
  <2>7. HostsMatchRooms'
    BY <1>hosts, <1>4, <2>3 DEF JoinRoom, hostVars, HostsMatchRooms, HostKey
  <2>8. RouteIntegrity'
    <3>1. UNCHANGED <<hosts, discoveries, gameplay>>
      BY <1>4 DEF JoinRoom, hostVars, sessionVars
    <3>2. HostsInPlace'
      BY <1>routes, <2>1, <3>1 DEF HostsInPlace, At
    <3>3. DiscoveriesInPlace'
      BY <1>routes, <2>1, <3>1 DEF DiscoveriesInPlace
    <3>4. SessionsInPlace'
      BY <1>routes, <2>1, <3>1 DEF SessionsInPlace, At
    <3> QED BY <3>2, <3>3, <3>4 DEF RouteIntegrity
  <2>9. GameplayHasHost'
    BY <1>served, <1>4 DEF JoinRoom, hostVars, sessionVars, GameplayHasHost
  <2> QED BY <2>4, <2>5, <2>6, <2>7, <2>8, <2>9 DEF Routing, IndexConsistent, RouteIntegrity
<1>5. ASSUME NEW r \in RoomId, NEW p \in PeerId, ResumePeer(r, p)
      PROVE  Routing'
  <2>1. DOMAIN peers' = DOMAIN peers /\ SameOwner(peers)
    BY <1>types, <1>5 DEF ResumePeer, Resumed, SameOwner, TypeOK, IsTable, PeerState
  <2> QED BY <1>5, <2>1, DeadlinesDoNotMatter
       DEF ResumePeer, roomVars, hostVars, sessionVars, SameOwner, SameSessions
<1>6. ASSUME NEW r \in RoomId, NEW p \in PeerId, LeaveRoom(r, p)
      PROVE  Routing'
  <2> DEFINE H == InRoom(hosts, HostsOf({p}), r)
             D == InRoom(discoveries, DiscoveriesOf({p}), r)
             G == InRoom(gameplay, GameplayOf({p}), r)
  <2>1. p \in DOMAIN peers /\ peers[p].room_id = r
    BY <1>members, <1>6 DEF LeaveRoom, MembersMatchPeers
  <2>2. HostsOf({p}) \subseteq H /\ H \subseteq DOMAIN hosts
    BY <1>routes, <2>1 DEF HostsOf, InRoom, HostsInPlace, At
  <2>3. DiscoveriesOf({p}) \subseteq D
    BY <1>routes, <2>1 DEF DiscoveriesOf, InRoom, DiscoveriesInPlace
  <2>4. GameplayOf({p}) \subseteq G
    BY <1>routes, <2>1 DEF GameplayOf, InRoom, SessionsInPlace, At
  <2>5. DOMAIN peers' = DOMAIN peers \ {p} /\ SameOwner(peers)
    BY <1>6 DEF LeaveRoom, Without, Restrict, SameOwner
  <2>6. virtual_ips' = Without(virtual_ips, {peers[x].virtual_ip : x \in {p}})
    <3>1. {peers[x].virtual_ip : x \in {p}} = {peers[p].virtual_ip}
      OBVIOUS
    <3> QED BY <1>6, <3>1 DEF LeaveRoom
  <2>7. Purge(H, D, G, {p}) /\ UNCHANGED rooms_by_code
    BY <1>6 DEF LeaveRoom
  <2> HIDE DEF H, D, G
  <2> QED BY <2>1, <2>2, <2>3, <2>4, <2>5, <2>6, <2>7, PurgeKeepsRouting
<1> QED BY <1>1, <1>2, <1>3, <1>4, <1>5, <1>6 DEF RoomNext, PeerNext

LEMMA RefreshKeepsRouting ==
  ASSUME Routing, TypeOK', NEW h \in DOMAIN hosts, RefreshHost(h)
  PROVE  Routing'
<1>1. /\ DOMAIN hosts' = DOMAIN hosts
      /\ SameOwner(hosts)
      /\ \A x \in DOMAIN hosts : hosts'[x].peer_id = hosts[x].peer_id
  BY DEF RefreshHost, SameOwner, Routing, TypeOK, IsTable, HostState
<1> QED BY <1>1, DeadlinesDoNotMatter
     DEF RefreshHost, roomVars, peerVars, sessionVars, SameOwner, SameSessions

LEMMA NewHostKeepsRouting ==
  ASSUME Routing, TypeOK', NEW r \in RoomId, NEW p \in PeerId,
         NEW h \in HostSessionId, RegisterNewHost(r, p, h)
  PROVE  Routing'
<1> DEFINE key   == <<r, p>>
           stale == {x \in DOMAIN hosts : HostKey(x) = key}
<1>1. HostsMatchRooms
  BY DEF Routing, IndexConsistent
<1>2. /\ p \in DOMAIN peers /\ peers[p].room_id = r
      /\ r \in DOMAIN rooms
      /\ h \notin DOMAIN hosts
      /\ UNCHANGED <<rooms_by_code, peers, virtual_ips, discoveries>>
  BY DEF RegisterNewHost, IsMember, peerVars
<1>3. /\ DOMAIN hosts' = (DOMAIN hosts \ stale) \cup {h}
      /\ hosts'[h].room_id = r /\ hosts'[h].peer_id = p
      /\ hosts'[h].virtual_ip = peers[p].virtual_ip
      /\ \A x \in DOMAIN hosts \ stale : hosts'[x] = hosts[x]
  BY <1>2 DEF RegisterNewHost, Put, Without, Restrict
<1>4. /\ DOMAIN host_by_peer' = DOMAIN host_by_peer \cup {key}
      /\ host_by_peer'[key] = h
      /\ \A k \in DOMAIN host_by_peer : k # key => host_by_peer'[k] = host_by_peer[k]
  BY DEF RegisterNewHost, Put
<1>5. /\ DOMAIN rooms' = DOMAIN rooms
      /\ \A x \in DOMAIN rooms : /\ rooms'[x].code = rooms[x].code
                                 /\ rooms'[x].members = rooms[x].members
      /\ \A x \in DOMAIN rooms : x # r => rooms'[x].host_sessions = rooms[x].host_sessions
      /\ rooms'[r].host_sessions = (rooms[r].host_sessions \ stale) \cup {h}
  BY <1>2 DEF RegisterNewHost, Routing, TypeOK, IsTable, RoomState
<1>6. /\ DOMAIN gameplay' \subseteq DOMAIN gameplay
      /\ \A g \in DOMAIN gameplay' : gameplay'[g] = gameplay[g]
  BY DEF RegisterNewHost, Without, Restrict
<1>7. /\ \A x \in DOMAIN hosts \ stale : HostKey(x)' = HostKey(x) /\ HostKey(x) # key
      /\ HostKey(h)' = key
      /\ \A x \in stale : HostKey(x) = key /\ hosts[x].room_id = r
  BY <1>3 DEF HostKey
<1> HIDE DEF key, stale
<1>8. HostsMatchRooms'
  <2>1. ASSUME NEW x \in DOMAIN hosts'
        PROVE  /\ hosts'[x].room_id \in DOMAIN rooms'
               /\ x \in rooms'[hosts'[x].room_id].host_sessions
               /\ HostKey(x)' \in DOMAIN host_by_peer'
               /\ host_by_peer'[HostKey(x)'] = x
    <3>1. CASE x = h
      BY <1>2, <1>3, <1>4, <1>5, <1>7, <3>1
    <3>2. CASE x # h
      BY <1>1, <1>2, <1>3, <1>4, <1>5, <1>7, <3>2 DEF HostsMatchRooms
    <3> QED BY <3>1, <3>2
  <2>2. ASSUME NEW k \in DOMAIN host_by_peer'
        PROVE  /\ host_by_peer'[k] \in DOMAIN hosts'
               /\ <<hosts'[host_by_peer'[k]].room_id, hosts'[host_by_peer'[k]].peer_id>> = k
    <3>1. CASE k = key
      BY <1>3, <1>4, <3>1 DEF key
    <3>2. CASE k # key
      <4>1. host_by_peer'[k] = host_by_peer[k] /\ k \in DOMAIN host_by_peer
        BY <1>4, <3>2
      <4>2. host_by_peer[k] \in DOMAIN hosts /\ HostKey(host_by_peer[k]) = k
        BY <1>1, <4>1 DEF HostsMatchRooms
      <4>3. host_by_peer[k] \notin stale
        BY <1>7, <3>2, <4>2
      <4>4. hosts'[host_by_peer'[k]] = hosts[host_by_peer[k]]
        BY <1>3, <4>1, <4>2, <4>3
      <4> QED BY <1>3, <4>1, <4>2, <4>3, <4>4 DEF HostKey
    <3> QED BY <3>1, <3>2
  <2>3. ASSUME NEW y \in DOMAIN rooms', NEW x \in rooms'[y].host_sessions
        PROVE  x \in DOMAIN hosts' /\ hosts'[x].room_id = y
    <3>1. CASE x = h /\ y = r
      BY <1>3, <3>1
    <3>2. CASE x \in rooms[y].host_sessions /\ x \notin stale
      BY <1>1, <1>3, <1>5, <3>2 DEF HostsMatchRooms
    <3>3. y # r /\ x \in rooms[y].host_sessions => x \notin stale
      BY <1>1, <1>5, <1>7 DEF HostsMatchRooms
    <3>4. CASE y # r
      BY <1>5, <3>2, <3>3, <3>4
    <3>5. CASE y = r
      BY <1>5, <3>1, <3>2, <3>5
    <3> QED BY <3>4, <3>5
  <2> QED BY <2>1, <2>2, <2>3 DEF HostsMatchRooms, HostKey
<1>9. CodesMatchRooms'
  BY <1>2, <1>5 DEF Routing, IndexConsistent, CodesMatchRooms
<1>10. MembersMatchPeers'
  BY <1>2, <1>5 DEF Routing, IndexConsistent, MembersMatchPeers
<1>11. AddressesMatchPeers'
  BY <1>2 DEF Routing, IndexConsistent, AddressesMatchPeers
<1>12. HostsInPlace'
  BY <1>2, <1>3 DEF Routing, RouteIntegrity, HostsInPlace, At
<1>13. DiscoveriesInPlace'
  BY <1>2 DEF Routing, RouteIntegrity, DiscoveriesInPlace
<1>14. SessionsInPlace'
  BY <1>2, <1>6 DEF Routing, RouteIntegrity, SessionsInPlace, At
<1>15. GameplayHasHost'
  BY <1>4, <1>6 DEF Routing, GameplayHasHost
<1> QED
  BY <1>8, <1>9, <1>10, <1>11, <1>12, <1>13, <1>14, <1>15
     DEF Routing, IndexConsistent, RouteIntegrity

LEMMA HostKeepsRouting ==
  ASSUME Routing, HostNext \/ RegisterAgain, TypeOK'
  PROVE  Routing'
<1>1. ASSUME NEW h \in HostSessionId, UnregisterHost(h)
      PROVE  Routing'
  <2>1. HostsOf({}) = {} /\ DiscoveriesOf({}) = {} /\ GameplayOf({}) = {}
    BY DEF HostsOf, DiscoveriesOf, GameplayOf
  <2>2. virtual_ips' = Without(virtual_ips, {peers[p].virtual_ip : p \in {}})
    BY <1>1 DEF UnregisterHost, peerVars, Without, Restrict, Routing, TypeOK, IsTable
  <2>3. DOMAIN peers' = DOMAIN peers \ {} /\ SameOwner(peers)
    BY <1>1 DEF UnregisterHost, peerVars, SameOwner
  <2>4. Purge({h}, {}, {}, {}) /\ {h} \subseteq DOMAIN hosts /\ UNCHANGED rooms_by_code
    BY <1>1 DEF UnregisterHost
  <2> QED BY <2>1, <2>2, <2>3, <2>4, PurgeKeepsRouting
<1>2. ASSUME NEW r \in RoomId, NEW p \in PeerId, NEW h \in HostSessionId,
             HeartbeatHost(r, p, h)
      PROVE  Routing'
  BY <1>2, RefreshKeepsRouting DEF HeartbeatHost
<1>3. ASSUME NEW r \in RoomId, NEW p \in PeerId, RegisterExistingHost(r, p)
      PROVE  Routing'
  BY <1>3, RefreshKeepsRouting DEF RegisterExistingHost
<1> QED BY <1>1, <1>2, <1>3, NewHostKeepsRouting DEF HostNext, RegisterAgain

LEMMA SessionKeepsRouting ==
  ASSUME Routing, DiscoveryNext \/ GameplayNext, TypeOK'
  PROVE  Routing'
<1>1. ASSUME NEW r \in RoomId, NEW p \in PeerId, NEW d \in DiscoveryRequestId,
             NEW port \in DiscoveryPort, BeginDiscovery(r, p, d, port)
      PROVE  Routing'
  <2>1. UNCHANGED <<rooms, rooms_by_code, peers, virtual_ips, hosts, host_by_peer, gameplay>>
    BY <1>1 DEF BeginDiscovery, roomVars, peerVars, hostVars
  <2>2. IndexConsistent' /\ HostsInPlace' /\ SessionsInPlace' /\ GameplayHasHost'
    BY <2>1 DEF Routing, IndexConsistent, RouteIntegrity, CodesMatchRooms,
                MembersMatchPeers, AddressesMatchPeers, HostsMatchRooms, HostKey,
                HostsInPlace, SessionsInPlace, At, GameplayHasHost
  <2>3. /\ DOMAIN discoveries' = DOMAIN discoveries \cup {d}
        /\ discoveries'[d].room_id = r /\ discoveries'[d].client_peer_id = p
        /\ \A x \in DOMAIN discoveries : x # d => discoveries'[x] = discoveries[x]
    BY <1>1 DEF BeginDiscovery, TouchDiscovery, DiscoveryEntry, Put
  <2>4. p \in DOMAIN peers /\ peers[p].room_id = r
    BY <1>1 DEF BeginDiscovery, TouchDiscovery, CanDiscover, IsMember
  <2>5. DiscoveriesInPlace'
    BY <2>1, <2>3, <2>4 DEF Routing, RouteIntegrity, DiscoveriesInPlace
  <2> QED BY <2>2, <2>5 DEF Routing, RouteIntegrity
<1>2. ASSUME NEW g \in GameplaySessionId, NEW r \in RoomId, NEW p \in PeerId,
             NEW h \in HostSessionId, SelectHost(r, p, h, g)
      PROVE  Routing'
  <2>1. UNCHANGED <<rooms, rooms_by_code, peers, virtual_ips, hosts, host_by_peer, discoveries>>
    BY <1>2 DEF SelectHost, roomVars, peerVars, hostVars
  <2>2. IndexConsistent' /\ HostsInPlace' /\ DiscoveriesInPlace'
    BY <2>1 DEF Routing, IndexConsistent, RouteIntegrity, CodesMatchRooms,
                MembersMatchPeers, AddressesMatchPeers, HostsMatchRooms, HostKey,
                HostsInPlace, DiscoveriesInPlace, At
  <2>3. /\ DOMAIN gameplay' = DOMAIN gameplay \cup {g}
        /\ gameplay'[g].room_id = r
        /\ gameplay'[g].client_peer_id = p
        /\ gameplay'[g].client_virtual_ip = peers[p].virtual_ip
        /\ gameplay'[g].host_peer_id = hosts[h].peer_id
        /\ gameplay'[g].host_virtual_ip = hosts[h].virtual_ip
        /\ \A x \in DOMAIN gameplay : x # g => gameplay'[x] = gameplay[x]
    BY <1>2 DEF SelectHost, Put
  <2>4. /\ p \in DOMAIN peers /\ peers[p].room_id = r
        /\ h \in DOMAIN hosts /\ hosts[h].room_id = r
    BY <1>2 DEF SelectHost, IsMember
  <2>5. /\ At(r, hosts[h].peer_id, hosts[h].virtual_ip)
        /\ <<r, hosts[h].peer_id>> \in DOMAIN host_by_peer
    BY <2>4 DEF Routing, IndexConsistent, HostsMatchRooms, RouteIntegrity, HostsInPlace, HostKey
  <2>6. SessionsInPlace'
    BY <2>1, <2>3, <2>4, <2>5 DEF Routing, RouteIntegrity, SessionsInPlace, At
  <2>7. GameplayHasHost'
    BY <2>1, <2>3, <2>5 DEF Routing, GameplayHasHost
  <2> QED BY <2>2, <2>6, <2>7 DEF Routing, RouteIntegrity
<1>3. ASSUME NEW g \in GameplaySessionId, NEW p \in PeerId, RouteGameplayDatagram(g, p)
      PROVE  Routing'
  <2>1. SameSessions
    BY <1>3 DEF RouteGameplayDatagram, TouchGameplay, SameSessions,
                Routing, TypeOK, IsTable, GameplayState
  <2> QED BY <1>3, <2>1, DeadlinesDoNotMatter
       DEF RouteGameplayDatagram, roomVars, peerVars, hostVars, SameOwner
<1>4. ASSUME NEW g \in GameplaySessionId, RemoveGameplaySession(g)
      PROVE  Routing'
  <2>1. SameSessions
    BY <1>4 DEF RemoveGameplaySession, SameSessions, Without, Restrict
  <2> QED BY <1>4, <2>1, DeadlinesDoNotMatter
       DEF RemoveGameplaySession, roomVars, peerVars, hostVars, SameOwner
<1> QED BY <1>1, <1>2, <1>3, <1>4 DEF DiscoveryNext, GameplayNext

LEMMA TimeKeepsRouting ==
  ASSUME Routing, Expire \/ Tick, TypeOK'
  PROVE  Routing'
<1>1. CASE Expire
  <2> DEFINE gone == Silent \cup Lost
             H == Lapsed(hosts) \cup HostsOf(gone)
             D == Lapsed(discoveries) \cup DiscoveriesOf(gone)
             G == Lapsed(gameplay) \cup GameplayOf(gone)
  <2>1. H \subseteq DOMAIN hosts
    BY DEF Lapsed, HostsOf
  <2>2. /\ HostsOf(Lost) \subseteq H
        /\ DiscoveriesOf(Lost) \subseteq D
        /\ GameplayOf(Lost) \subseteq G
    BY DEF HostsOf, DiscoveriesOf, GameplayOf
  <2>3. Lost \subseteq DOMAIN peers
    BY DEF Lost
  <2>4. DOMAIN peers' = DOMAIN peers \ Lost /\ SameOwner(peers)
    BY <1>1 DEF Expire, Suspended, SameOwner, Routing, TypeOK, IsTable, PeerState
  <2>5. /\ Purge(H, D, G, Lost)
        /\ virtual_ips' = Without(virtual_ips, {peers[p].virtual_ip : p \in Lost})
        /\ UNCHANGED rooms_by_code
    BY <1>1 DEF Expire
  <2> HIDE DEF gone, H, D, G
  <2> QED BY <2>1, <2>2, <2>3, <2>4, <2>5, PurgeKeepsRouting
<1>2. CASE Tick
  <2>1. DOMAIN peers' = DOMAIN peers /\ SameOwner(peers)
    BY <1>2 DEF Tick, SameOwner, Routing, TypeOK, IsTable, PeerState
  <2>2. /\ DOMAIN hosts' = DOMAIN hosts /\ SameOwner(hosts)
        /\ \A h \in DOMAIN hosts : hosts'[h].peer_id = hosts[h].peer_id
    BY <1>2 DEF Tick, Aged, SameOwner, Routing, TypeOK, IsTable, HostState
  <2>3. SameSessions
    BY <1>2 DEF Tick, Aged, SameSessions, Routing, TypeOK, IsTable,
                DiscoveryState, GameplayState
  <2> QED BY <1>2, <2>1, <2>2, <2>3, DeadlinesDoNotMatter DEF Tick, roomVars
<1> QED BY <1>1, <1>2

LEMMA InitRouting == Init => Routing
<1> SUFFICES ASSUME Init PROVE Routing
  OBVIOUS
<1>1. TypeOK
  BY InitTypes
<1>2. IndexConsistent
  BY DEF Init, NoTables, IndexConsistent, CodesMatchRooms, MembersMatchPeers,
         AddressesMatchPeers, HostsMatchRooms
<1>3. RouteIntegrity /\ GameplayHasHost
  BY DEF Init, NoTables, RouteIntegrity, HostsInPlace, DiscoveriesInPlace,
         SessionsInPlace, GameplayHasHost
<1> QED BY <1>1, <1>2, <1>3 DEF Routing

LEMMA NextRouting == Routing /\ [Next]_vars => Routing'
<1> SUFFICES ASSUME Routing, [Next]_vars PROVE Routing'
  OBVIOUS
<1>1. TypeOK'
  BY NextTypes DEF Routing
<1>2. CASE Next
  BY <1>1, <1>2, MembershipKeepsRouting, HostKeepsRouting, SessionKeepsRouting,
     TimeKeepsRouting DEF Next
<1>3. CASE UNCHANGED vars
  <2>1. UNCHANGED <<rooms, rooms_by_code, virtual_ips, host_by_peer, peers, hosts,
                    discoveries, gameplay>>
    BY <1>3 DEF vars, roomVars, peerVars, hostVars, sessionVars
  <2> QED BY <1>1, <2>1, DeadlinesDoNotMatter DEF SameOwner, SameSessions
<1> QED BY <1>2, <1>3

(* A router filled from rows is consistent if the codes of the rooms and    *)
(* the addresses of the peers differ and every peer is in a stored room.    *)
LEMMA RestoreKeepsRouting ==
  ASSUME NEW codes, NEW rows,
         IsTable(codes, RoomId, RoomCode),
         \A r, x \in DOMAIN codes : codes[r] = codes[x] => r = x,
         DOMAIN rows \subseteq PeerId,
         \A p \in DOMAIN rows : /\ rows[p].room_id \in DOMAIN codes
                               /\ rows[p].virtual_ip \in VirtualIp,
         \A p, q \in DOMAIN rows : rows[p].virtual_ip = rows[q].virtual_ip => p = q,
         Restore(codes, rows)
  PROVE  Routing'
<1>1. /\ DOMAIN rooms' = DOMAIN codes
      /\ \A r \in DOMAIN codes :
           /\ rooms'[r] = [code |-> codes[r], members |-> InRoom(rows, DOMAIN rows, r),
                           host_sessions |-> {}]
           /\ rooms'[r].code = codes[r]
           /\ rooms'[r].members = InRoom(rows, DOMAIN rows, r)
           /\ rooms'[r].host_sessions = {}
  BY DEF Restore
<1>2. /\ DOMAIN rooms_by_code' = {codes[r] : r \in DOMAIN codes}
      /\ \A r \in DOMAIN codes : rooms_by_code'[codes[r]] = r
  BY DEF Restore
<1>3. /\ DOMAIN peers' = DOMAIN rows
      /\ \A p \in DOMAIN rows :
           /\ peers'[p] = [room_id |-> rows[p].room_id, virtual_ip |-> rows[p].virtual_ip,
                           disconnected |-> FALSE, lease |-> PeerTtl, epoch |-> 1]
           /\ peers'[p].room_id = rows[p].room_id
           /\ peers'[p].virtual_ip = rows[p].virtual_ip
  BY DEF Restore
<1>4. /\ DOMAIN virtual_ips' = {rows[p].virtual_ip : p \in DOMAIN rows}
      /\ \A p \in DOMAIN rows : virtual_ips'[rows[p].virtual_ip] = p
  BY DEF Restore
<1>5. /\ DOMAIN hosts' = {} /\ DOMAIN host_by_peer' = {}
      /\ DOMAIN discoveries' = {} /\ DOMAIN gameplay' = {}
  BY DEF Restore, NoTables
<1>6. TypeOK'
  <2>1. IsTable(rooms', RoomId, RoomState)
    <3>1. \A r \in DOMAIN codes : InRoom(rows, DOMAIN rows, r) \subseteq PeerId
      BY DEF InRoom, IsTable
    <3>2. \A r \in DOMAIN codes : rooms'[r] \in RoomState
      BY <1>1, <3>1 DEF IsTable, RoomState
    <3>3. rooms' = [r \in DOMAIN rooms' |-> rooms'[r]]
      BY DEF Restore
    <3> QED BY <1>1, <3>2, <3>3 DEF IsTable
  <2>2. IsTable(rooms_by_code', RoomCode, RoomId)
    <3>1. rooms_by_code' = [c \in DOMAIN rooms_by_code' |-> rooms_by_code'[c]]
      BY DEF Restore
    <3> QED BY <1>2, <3>1 DEF IsTable
  <2>3. IsTable(peers', PeerId, PeerState)
    <3>1. ASSUME NEW p \in DOMAIN rows
          PROVE  peers'[p] \in PeerState
      <4>1. rows[p].room_id \in RoomId /\ rows[p].virtual_ip \in VirtualIp
        BY DEF IsTable
      <4>2. \A r \in RoomId, ip \in VirtualIp :
              [room_id |-> r, virtual_ip |-> ip, disconnected |-> FALSE,
               lease |-> PeerTtl, epoch |-> 1] \in PeerState
        BY TtlAssumption, LimitAssumption DEF PeerState
      <4> QED BY <1>3, <4>1, <4>2
    <3>2. peers' = [p \in DOMAIN peers' |-> peers'[p]]
      BY DEF Restore
    <3> QED BY <1>3, <3>1, <3>2 DEF IsTable
  <2>4. IsTable(virtual_ips', VirtualIp, PeerId)
    <3>1. virtual_ips' = [ip \in DOMAIN virtual_ips' |-> virtual_ips'[ip]]
      BY DEF Restore
    <3> QED BY <1>4, <3>1 DEF IsTable
  <2>5. /\ IsTable(hosts', HostSessionId, HostState)
        /\ IsTable(host_by_peer', RoomId \X PeerId, HostSessionId)
        /\ IsTable(discoveries', DiscoveryRequestId, DiscoveryState)
        /\ IsTable(gameplay', GameplaySessionId, GameplayState)
    BY DEF Restore, NoTables, IsTable
  <2> QED BY <2>1, <2>2, <2>3, <2>4, <2>5 DEF TypeOK
<1>7. CodesMatchRooms'
  BY <1>1, <1>2 DEF CodesMatchRooms
<1>8. MembersMatchPeers'
  BY <1>1, <1>3 DEF MembersMatchPeers, InRoom
<1>9. AddressesMatchPeers'
  BY <1>3, <1>4 DEF AddressesMatchPeers
<1>10. HostsMatchRooms'
  BY <1>1, <1>5 DEF HostsMatchRooms
<1>11. HostsInPlace' /\ DiscoveriesInPlace' /\ SessionsInPlace' /\ GameplayHasHost'
  BY <1>5 DEF HostsInPlace, DiscoveriesInPlace, SessionsInPlace, GameplayHasHost
<1> QED BY <1>6, <1>7, <1>8, <1>9, <1>10, <1>11
        DEF Routing, IndexConsistent, RouteIntegrity

LEMMA EmptyKeepsRouting ==
  ASSUME Restore(NoTables, NoTables)
  PROVE  Routing'
<1>1. DOMAIN NoTables = {} /\ IsTable(NoTables, RoomId, RoomCode)
  BY DEF NoTables, IsTable
<1> QED BY <1>1, RestoreKeepsRouting

LEMMA RoutingHolds == Spec => []Routing
  BY InitRouting, NextRouting, PTL DEF Spec

(* The maps that name one another agree, so that no `expect` of the router  *)
(* panics and no emptiness or availability check is misled.                 *)
THEOREM IndexesConsistent == Spec => []IndexConsistent
<1>1. Routing => IndexConsistent
  BY DEF Routing
<1> QED BY <1>1, RoutingHolds, PTL

(* Every stored copy of a peer and its address is right and in its room:    *)
(* nothing is ever forwarded out of a room or to an inherited address.      *)
THEOREM RoomIsolation == Spec => []RouteIntegrity
<1>1. Routing => RouteIntegrity
  BY DEF Routing
<1> QED BY <1>1, RoutingHolds, PTL

(* No gameplay session without a host session behind it.                    *)
THEOREM GameplayIsHosted == Spec => []GameplayHasHost
<1>1. Routing => GameplayHasHost
  BY DEF Routing
<1> QED BY <1>1, RoutingHolds, PTL

-----------------------------------------------------------------------------
(* What a step may never do.                                                *)

LEMMA PurgeEndsGameplay ==
  ASSUME NEW H, NEW D, NEW G, NEW L, Purge(H, D, G, L)
  PROVE  EndsGameplayOfHosts
<1>1. /\ DOMAIN host_by_peer' = DOMAIN host_by_peer \ {HostKey(h) : h \in H}
      /\ \A k \in DOMAIN host_by_peer' : host_by_peer'[k] = host_by_peer[k]
      /\ DOMAIN gameplay' = DOMAIN gameplay \ (G \cup ServedBy(H))
      /\ \A g \in DOMAIN gameplay' : gameplay'[g] = gameplay[g]
  BY DEF Purge, Without, Restrict
<1> QED BY <1>1 DEF EndsGameplayOfHosts, ServedBy

LEMMA NewHostEndsGameplay ==
  ASSUME Routing, NEW r \in RoomId, NEW p \in PeerId, NEW h \in HostSessionId,
         RegisterNewHost(r, p, h)
  PROVE  EndsGameplayOfHosts
<1> DEFINE stale == {x \in DOMAIN hosts : HostKey(x) = <<r, p>>}
<1>1. /\ \A k \in DOMAIN host_by_peer :
           k # <<r, p>> => k \in DOMAIN host_by_peer' /\ host_by_peer'[k] = host_by_peer[k]
      /\ DOMAIN gameplay' = DOMAIN gameplay \ ServedBy(stale)
      /\ \A g \in DOMAIN gameplay' : gameplay'[g] = gameplay[g]
  BY DEF RegisterNewHost, Put, Without, Restrict
<1>2. <<r, p>> \in DOMAIN host_by_peer => \E x \in stale : HostKey(x) = <<r, p>>
  BY DEF Routing, IndexConsistent, HostsMatchRooms
<1>3. <<r, p>> \in DOMAIN host_by_peer =>
        \A g \in DOMAIN gameplay' :
          <<gameplay'[g].room_id, gameplay'[g].host_peer_id>> # <<r, p>>
  BY <1>1, <1>2 DEF ServedBy
<1> QED BY <1>1, <1>3 DEF EndsGameplayOfHosts

(* A gameplay session never outlives the host session it was made against.  *)
THEOREM GameplayEnds == Spec => GameplayEndsWithHost
<1>1. Routing /\ [Next]_vars => [EndsGameplayOfHosts]_vars
  <2> SUFFICES ASSUME Routing, Next PROVE EndsGameplayOfHosts \/ UNCHANGED host_by_peer
    BY DEF EndsGameplayOfHosts
  <2>1. CASE RoomNext \/ PeerNext
    BY <2>1, PurgeEndsGameplay
       DEF RoomNext, PeerNext, CreateRoomWithId, RemoveEmptyRoom, MarkPeerSeen, JoinRoom,
           ResumePeer, LeaveRoom, hostVars
  <2>2. CASE HostNext \/ RegisterAgain
    BY <2>2, PurgeEndsGameplay, NewHostEndsGameplay
       DEF HostNext, RegisterAgain, UnregisterHost, HeartbeatHost, RegisterExistingHost,
           RefreshHost
  <2>3. CASE DiscoveryNext \/ GameplayNext
    BY <2>3 DEF DiscoveryNext, GameplayNext, BeginDiscovery, SelectHost,
                RouteGameplayDatagram, RemoveGameplaySession, hostVars
  <2>4. CASE Expire \/ Tick
    BY <2>4, PurgeEndsGameplay DEF Expire, Tick
  <2> QED BY <2>1, <2>2, <2>3, <2>4 DEF Next
<1> QED BY <1>1, RoutingHolds, PTL DEF Spec, GameplayEndsWithHost

LEMMA MembershipRotatesEpochs ==
  ASSUME TypeOK, RoomNext \/ PeerNext
  PROVE  RotatesEpochs
<1>1. ASSUME NEW r \in RoomId, NEW c \in RoomCode, CreateRoomWithId(r, c)
      PROVE  RotatesEpochs
  BY <1>1 DEF CreateRoomWithId, peerVars, RotatesEpochs
<1>2. ASSUME NEW r \in RoomId, RemoveEmptyRoom(r)
      PROVE  RotatesEpochs
  BY <1>2 DEF RemoveEmptyRoom, peerVars, RotatesEpochs
<1>3. ASSUME NEW p \in PeerId, MarkPeerSeen(p)
      PROVE  RotatesEpochs
  BY <1>3 DEF MarkPeerSeen, TouchPeer, RotatesEpochs, TypeOK, IsTable, PeerState
<1>4. ASSUME NEW r \in RoomId, NEW p \in PeerId, NEW ip \in VirtualIp, JoinRoom(r, p, ip)
      PROVE  RotatesEpochs
  BY <1>4 DEF JoinRoom, Put, RotatesEpochs
<1>5. ASSUME NEW r \in RoomId, NEW p \in PeerId, ResumePeer(r, p)
      PROVE  RotatesEpochs
  <2>1. peers[p] \in PeerState
    BY <1>5 DEF ResumePeer, TypeOK, IsTable
  <2>2. /\ Resumed(peers[p]).room_id = peers[p].room_id
        /\ Resumed(peers[p]).virtual_ip = peers[p].virtual_ip
        /\ Resumed(peers[p]).epoch = IF peers[p].disconnected
                                     THEN NextEpoch(peers[p].epoch) ELSE peers[p].epoch
    BY <2>1 DEF Resumed, PeerState
  <2>3. NextEpoch(peers[p].epoch) > peers[p].epoch \/ peers[p].epoch = MaxEpoch
    BY <2>1, LimitAssumption DEF NextEpoch, PeerState
  <2>4. peers'[p] = Resumed(peers[p])
    BY <1>5 DEF ResumePeer
  <2>5. Resumed(peers[p]).disconnected = FALSE
    BY <2>1 DEF Resumed, PeerState
  <2>6. \A q \in DOMAIN peers \cap DOMAIN peers' : q # p => peers'[q] = peers[q]
    BY <1>5 DEF ResumePeer
  <2>7. ASSUME NEW q \in DOMAIN peers \cap DOMAIN peers'
        PROVE  /\ peers'[q].room_id = peers[q].room_id
               /\ peers'[q].virtual_ip = peers[q].virtual_ip
               /\ IF peers[q].disconnected /\ ~peers'[q].disconnected
                  THEN peers'[q].epoch > peers[q].epoch \/ peers[q].epoch = MaxEpoch
                  ELSE peers'[q].epoch = peers[q].epoch
    <3>1. CASE q = p
      <4>1. CASE peers[p].disconnected
        BY <2>2, <2>3, <2>4, <2>5, <3>1, <4>1
      <4>2. CASE ~peers[p].disconnected
        BY <2>2, <2>4, <3>1, <4>2
      <4> QED BY <4>1, <4>2
    <3>2. CASE q # p
      BY <2>6, <3>2
    <3> QED BY <3>1, <3>2
  <2> QED BY <2>7 DEF RotatesEpochs
<1>6. ASSUME NEW r \in RoomId, NEW p \in PeerId, LeaveRoom(r, p)
      PROVE  RotatesEpochs
  BY <1>6 DEF LeaveRoom, Without, Restrict, RotatesEpochs
<1> QED BY <1>1, <1>2, <1>3, <1>4, <1>5, <1>6 DEF RoomNext, PeerNext

LEMMA NextRotatesEpochs ==
  ASSUME Routing, Next
  PROVE  RotatesEpochs
<1>1. CASE RoomNext \/ PeerNext
  BY <1>1, MembershipRotatesEpochs DEF Routing
<1>2. CASE HostNext \/ RegisterAgain \/ DiscoveryNext \/ GameplayNext
  <2>1. UNCHANGED peers
    BY <1>2 DEF HostNext, RegisterAgain, UnregisterHost, HeartbeatHost, RefreshHost,
                RegisterExistingHost, RegisterNewHost, DiscoveryNext, GameplayNext,
                BeginDiscovery, SelectHost, RouteGameplayDatagram,
                RemoveGameplaySession, peerVars
  <2> QED BY <2>1 DEF RotatesEpochs
<1>3. CASE Expire
  BY <1>3 DEF Expire, Suspended, RotatesEpochs, Routing, TypeOK, IsTable, PeerState
<1>4. CASE Tick
  BY <1>4 DEF Tick, RotatesEpochs, Routing, TypeOK, IsTable, PeerState
<1> QED BY <1>1, <1>2, <1>3, <1>4 DEF Next

(* A suspended peer comes back only under a later epoch; otherwise a peer   *)
(* that stays keeps its epoch, its room and its address.                    *)
THEOREM EpochRotates == Spec => ReconnectRotatesEpoch
<1>1. Routing /\ [Next]_vars => [RotatesEpochs]_vars
  BY NextRotatesEpochs
<1> QED BY <1>1, RoutingHolds, PTL DEF Spec, ReconnectRotatesEpoch

-----------------------------------------------------------------------------
(* The limits of RouterConfig and the grace period.                         *)

(* A limit says nothing of an infinite set: the tables are finite, and this *)
(* belongs to the invariant.                                                *)
AtMost(S, n) == IsFiniteSet(S) /\ Cardinality(S) <= n

LEMMA SubsetAtMost ==
  ASSUME NEW S, NEW n \in Nat, AtMost(S, n), NEW T, T \subseteq S
  PROVE  AtMost(T, n)
<1>1. IsFiniteSet(T) /\ Cardinality(T) <= Cardinality(S)
  BY FS_Subset DEF AtMost
<1>2. Cardinality(S) \in Nat /\ Cardinality(T) \in Nat
  BY <1>1, FS_CardinalityType DEF AtMost
<1> QED BY <1>1, <1>2 DEF AtMost

LEMMA OneMoreAtMost ==
  ASSUME NEW S, NEW n \in Nat, IsFiniteSet(S), Cardinality(S) < n, NEW x
  PROVE  AtMost(S \cup {x}, n)
<1>1. Cardinality(S) \in Nat
  BY FS_CardinalityType
<1>2. /\ IsFiniteSet(S \cup {x})
      /\ Cardinality(S \cup {x}) = IF x \in S THEN Cardinality(S) ELSE Cardinality(S) + 1
  BY FS_AddElement
<1> QED BY <1>1, <1>2 DEF AtMost

LEMMA NoneAtMost ==
  ASSUME NEW n \in Nat
  PROVE  AtMost({}, n)
  BY FS_EmptySet DEF AtMost

(* The invariant: the limits, of finite sets.                               *)
RoomsLimited == AtMost(DOMAIN rooms, MaxRooms)
PeersLimited == AtMost(DOMAIN peers, MaxTotalPeers)
GamesLimited == AtMost(DOMAIN gameplay, MaxGameplaySessions)
RoomLimited(room) == /\ AtMost(room.members, MaxPeersPerRoom)
                     /\ AtMost(room.host_sessions, MaxHostsPerRoom)

Limited ==
  /\ TypeOK
  /\ RoomsLimited /\ PeersLimited /\ GamesLimited
  /\ \A r \in DOMAIN rooms : RoomLimited(rooms[r])

(* What only removes keeps the limits.                                      *)
LEMMA FewerKeepsLimits ==
  ASSUME Limited, TypeOK',
         DOMAIN peers' \subseteq DOMAIN peers,
         DOMAIN gameplay' \subseteq DOMAIN gameplay,
         DOMAIN rooms' \subseteq DOMAIN rooms,
         \A r \in DOMAIN rooms' :
           /\ rooms'[r].members \subseteq rooms[r].members
           /\ rooms'[r].host_sessions \subseteq rooms[r].host_sessions
  PROVE  Limited'
<1>1. RoomsLimited'
  BY SubsetAtMost, LimitAssumption DEF Limited, RoomsLimited
<1>2. PeersLimited'
  BY SubsetAtMost, LimitAssumption DEF Limited, PeersLimited
<1>3. GamesLimited'
  BY SubsetAtMost, LimitAssumption DEF Limited, GamesLimited
<1>4. ASSUME NEW r \in DOMAIN rooms'
      PROVE  RoomLimited(rooms'[r])
  <2>1. RoomLimited(rooms[r])
    BY DEF Limited
  <2>2. AtMost(rooms'[r].members, MaxPeersPerRoom)
    BY <2>1, SubsetAtMost, LimitAssumption DEF RoomLimited
  <2>3. AtMost(rooms'[r].host_sessions, MaxHostsPerRoom)
    BY <2>1, SubsetAtMost, LimitAssumption DEF RoomLimited
  <2> QED BY <2>2, <2>3 DEF RoomLimited
<1> QED BY <1>1, <1>2, <1>3, <1>4 DEF Limited, RoomLimited

LEMMA PurgeShrinks ==
  ASSUME TypeOK, NEW H, NEW D, NEW G, NEW L, Purge(H, D, G, L)
  PROVE  /\ DOMAIN gameplay' \subseteq DOMAIN gameplay
         /\ DOMAIN rooms' = DOMAIN rooms
         /\ \A r \in DOMAIN rooms' :
              /\ rooms'[r].members \subseteq rooms[r].members
              /\ rooms'[r].host_sessions \subseteq rooms[r].host_sessions
  BY DEF Purge, Without, Restrict, TypeOK, IsTable, RoomState

LEMMA CreateKeepsLimits ==
  ASSUME Limited, TypeOK', NEW r \in RoomId, NEW c \in RoomCode, CreateRoomWithId(r, c)
  PROVE  Limited'
<1>1. /\ DOMAIN rooms' = DOMAIN rooms \cup {r}
      /\ rooms'[r] = [code |-> c, members |-> {}, host_sessions |-> {}]
      /\ \A x \in DOMAIN rooms : x # r => rooms'[x] = rooms[x]
      /\ UNCHANGED <<peers, gameplay>>
  BY DEF CreateRoomWithId, Put, peerVars, sessionVars
<1>2. RoomsLimited'
  <2>1. IsFiniteSet(DOMAIN rooms) /\ Cardinality(DOMAIN rooms) < MaxRooms
    BY DEF CreateRoomWithId, Limited, RoomsLimited, AtMost
  <2>2. AtMost(DOMAIN rooms \cup {r}, MaxRooms)
    BY <2>1, OneMoreAtMost, LimitAssumption
  <2> QED BY <1>1, <2>2 DEF RoomsLimited
<1>3. RoomLimited(rooms'[r])
  BY <1>1, NoneAtMost, LimitAssumption DEF RoomLimited
<1>4. PeersLimited' /\ GamesLimited'
  BY <1>1 DEF Limited, PeersLimited, GamesLimited
<1>5. \A x \in DOMAIN rooms' : RoomLimited(rooms'[x])
  BY <1>1, <1>3 DEF Limited
<1> QED BY <1>2, <1>4, <1>5 DEF Limited, RoomLimited

LEMMA JoinKeepsLimits ==
  ASSUME Limited, TypeOK', NEW r \in RoomId, NEW p \in PeerId, NEW ip \in VirtualIp,
         JoinRoom(r, p, ip)
  PROVE  Limited'
<1>1. /\ DOMAIN peers' = DOMAIN peers \cup {p}
      /\ UNCHANGED gameplay
      /\ r \in DOMAIN rooms
  BY DEF JoinRoom, Put, sessionVars
<1>2. /\ DOMAIN rooms' = DOMAIN rooms
      /\ rooms'[r].members = rooms[r].members \cup {p}
      /\ rooms'[r].host_sessions = rooms[r].host_sessions
      /\ \A x \in DOMAIN rooms : x # r => rooms'[x] = rooms[x]
  BY <1>1 DEF JoinRoom, Limited, TypeOK, IsTable, RoomState
<1>3. PeersLimited'
  <2>1. IsFiniteSet(DOMAIN peers) /\ Cardinality(DOMAIN peers) < MaxTotalPeers
    BY DEF JoinRoom, HasSeat, Limited, PeersLimited, AtMost
  <2>2. AtMost(DOMAIN peers \cup {p}, MaxTotalPeers)
    BY <2>1, OneMoreAtMost, LimitAssumption
  <2> QED BY <1>1, <2>2 DEF PeersLimited
<1>4. RoomsLimited' /\ GamesLimited'
  BY <1>1, <1>2 DEF Limited, RoomsLimited, GamesLimited
<1>5. RoomLimited(rooms[r])
  BY <1>1 DEF Limited
<1>6. AtMost(rooms[r].members \cup {p}, MaxPeersPerRoom)
  BY <1>5, OneMoreAtMost, LimitAssumption DEF JoinRoom, HasSeat, RoomLimited, AtMost
<1>7. RoomLimited(rooms'[r])
  BY <1>2, <1>5, <1>6 DEF RoomLimited
<1>8. \A x \in DOMAIN rooms' : RoomLimited(rooms'[x])
  BY <1>2, <1>7 DEF Limited
<1> QED BY <1>3, <1>4, <1>8 DEF Limited, RoomLimited

(* A replacement removes the expired session before it makes the new one.   *)
LEMMA NewHostKeepsLimits ==
  ASSUME Limited, TypeOK', NEW r \in RoomId, NEW p \in PeerId, NEW h \in HostSessionId,
         RegisterNewHost(r, p, h)
  PROVE  Limited'
<1> DEFINE stale == {x \in DOMAIN hosts : HostKey(x) = <<r, p>>}
<1>1. /\ UNCHANGED peers
      /\ DOMAIN gameplay' \subseteq DOMAIN gameplay
      /\ r \in DOMAIN rooms
  BY DEF RegisterNewHost, IsMember, peerVars, Without, Restrict
<1>2. rooms' = [rooms EXCEPT ![r].host_sessions = (@ \ stale) \cup {h}]
  BY DEF RegisterNewHost
<1>3. Cardinality(rooms[r].host_sessions \ stale) < MaxHostsPerRoom
  BY DEF RegisterNewHost
<1> HIDE DEF stale
<1>4. /\ DOMAIN rooms' = DOMAIN rooms
      /\ rooms'[r].members = rooms[r].members
      /\ rooms'[r].host_sessions = (rooms[r].host_sessions \ stale) \cup {h}
      /\ \A x \in DOMAIN rooms : x # r => rooms'[x] = rooms[x]
  BY <1>1, <1>2 DEF Limited, TypeOK, IsTable, RoomState
<1>5. PeersLimited' /\ RoomsLimited'
  BY <1>1, <1>4 DEF Limited, PeersLimited, RoomsLimited
<1>6. GamesLimited'
  BY <1>1, SubsetAtMost, LimitAssumption DEF Limited, GamesLimited
<1>7. RoomLimited(rooms[r])
  BY <1>1 DEF Limited
<1>8. AtMost(rooms[r].host_sessions \ stale, MaxHostsPerRoom)
  BY <1>7, SubsetAtMost, LimitAssumption DEF RoomLimited
<1>9. AtMost((rooms[r].host_sessions \ stale) \cup {h}, MaxHostsPerRoom)
  BY <1>3, <1>8, OneMoreAtMost, LimitAssumption DEF AtMost
<1>10. RoomLimited(rooms'[r])
  BY <1>4, <1>7, <1>9 DEF RoomLimited
<1>11. \A x \in DOMAIN rooms' : RoomLimited(rooms'[x])
  BY <1>4, <1>10 DEF Limited
<1> QED BY <1>5, <1>6, <1>11 DEF Limited, RoomLimited

LEMMA SelectKeepsLimits ==
  ASSUME Limited, TypeOK', NEW r \in RoomId, NEW p \in PeerId, NEW h \in HostSessionId,
         NEW g \in GameplaySessionId, SelectHost(r, p, h, g)
  PROVE  Limited'
<1>1. /\ DOMAIN gameplay' = DOMAIN gameplay \cup {g}
      /\ UNCHANGED <<rooms, peers>>
  BY DEF SelectHost, Put, roomVars, peerVars
<1>2. GamesLimited'
  <2>1. IsFiniteSet(DOMAIN gameplay) /\ Cardinality(DOMAIN gameplay) < MaxGameplaySessions
    BY DEF SelectHost, Limited, GamesLimited, AtMost
  <2>2. AtMost(DOMAIN gameplay \cup {g}, MaxGameplaySessions)
    BY <2>1, OneMoreAtMost, LimitAssumption
  <2> QED BY <1>1, <2>2 DEF GamesLimited
<1>3. RoomsLimited' /\ PeersLimited'
  BY <1>1 DEF Limited, RoomsLimited, PeersLimited
<1> QED BY <1>1, <1>2, <1>3 DEF Limited, RoomLimited

LEMMA InitLimited == Init => Limited
<1> SUFFICES ASSUME Init PROVE Limited
  OBVIOUS
<1>1. TypeOK
  BY InitTypes
<1>2. DOMAIN rooms = {} /\ DOMAIN peers = {} /\ DOMAIN gameplay = {}
  BY DEF Init, NoTables
<1> QED BY <1>1, <1>2, NoneAtMost, LimitAssumption
     DEF Limited, RoomsLimited, PeersLimited, GamesLimited

LEMMA NextLimited == Limited /\ [Next]_vars => Limited'
<1> SUFFICES ASSUME Limited, [Next]_vars PROVE Limited'
  OBVIOUS
<1>1. TypeOK /\ TypeOK'
  BY NextTypes DEF Limited
<1>2. CASE RoomNext
  <2>1. ASSUME NEW r \in RoomId, RemoveEmptyRoom(r)
        PROVE  Limited'
    BY <1>1, <2>1, FewerKeepsLimits
       DEF RemoveEmptyRoom, Without, Restrict, peerVars, sessionVars
  <2> QED BY <1>1, <1>2, <2>1, CreateKeepsLimits DEF RoomNext
<1>3. CASE PeerNext
  <2>1. ASSUME NEW p \in PeerId, MarkPeerSeen(p)
        PROVE  Limited'
    BY <1>1, <2>1, FewerKeepsLimits DEF MarkPeerSeen, TouchPeer, roomVars, sessionVars
  <2>2. ASSUME NEW p \in PeerId, NEW r \in RoomId, ResumePeer(r, p)
        PROVE  Limited'
    BY <1>1, <2>2, FewerKeepsLimits DEF ResumePeer, roomVars, sessionVars
  <2>3. ASSUME NEW p \in PeerId, NEW r \in RoomId, LeaveRoom(r, p)
        PROVE  Limited'
    <3>1. DOMAIN peers' \subseteq DOMAIN peers
      BY <2>3 DEF LeaveRoom, Without, Restrict
    <3>2. PICK H, D, G, L : Purge(H, D, G, L)
      BY <2>3 DEF LeaveRoom
    <3> QED BY <1>1, <3>1, <3>2, PurgeShrinks, FewerKeepsLimits
  <2> QED BY <1>1, <1>3, <2>1, <2>2, <2>3, JoinKeepsLimits DEF PeerNext
<1>4. CASE HostNext \/ RegisterAgain
  <2>1. ASSUME NEW h, RefreshHost(h)
        PROVE  Limited'
    BY <1>1, <2>1, FewerKeepsLimits DEF RefreshHost, roomVars, peerVars, sessionVars
  <2>2. ASSUME NEW h \in HostSessionId, UnregisterHost(h)
        PROVE  Limited'
    BY <1>1, <2>2, PurgeShrinks, FewerKeepsLimits DEF UnregisterHost, peerVars
  <2> QED BY <1>1, <1>4, <2>1, <2>2, NewHostKeepsLimits
       DEF HostNext, RegisterAgain, HeartbeatHost, RegisterExistingHost
<1>5. CASE DiscoveryNext
  BY <1>1, <1>5, FewerKeepsLimits DEF DiscoveryNext, BeginDiscovery, roomVars, peerVars
<1>6. CASE GameplayNext
  <2>1. ASSUME NEW g \in GameplaySessionId, NEW p \in PeerId, RouteGameplayDatagram(g, p)
        PROVE  Limited'
    BY <1>1, <2>1, FewerKeepsLimits
       DEF RouteGameplayDatagram, TouchGameplay, roomVars, peerVars
  <2>2. ASSUME NEW g \in GameplaySessionId, RemoveGameplaySession(g)
        PROVE  Limited'
    BY <1>1, <2>2, FewerKeepsLimits
       DEF RemoveGameplaySession, Without, Restrict, roomVars, peerVars
  <2> QED BY <1>1, <1>6, <2>1, <2>2, SelectKeepsLimits DEF GameplayNext
<1>7. CASE Expire
  <2>1. DOMAIN peers' \subseteq DOMAIN peers
    BY <1>7 DEF Expire
  <2>2. PICK H, D, G, L : Purge(H, D, G, L)
    BY <1>7 DEF Expire
  <2> QED BY <1>1, <2>1, <2>2, PurgeShrinks, FewerKeepsLimits
<1>8. CASE Tick
  BY <1>1, <1>8, FewerKeepsLimits DEF Tick, Aged, roomVars
<1>9. CASE UNCHANGED vars
  BY <1>1, <1>9, FewerKeepsLimits DEF vars, roomVars, peerVars, sessionVars
<1> QED BY <1>2, <1>3, <1>4, <1>5, <1>6, <1>7, <1>8, <1>9 DEF Next

(* The limits of RouterConfig hold, whatever they are.                      *)
THEOREM LimitsHold == Spec => []WithinLimits
<1>1. Limited => WithinLimits
  BY DEF Limited, RoomsLimited, PeersLimited, GamesLimited, RoomLimited, AtMost,
         WithinLimits
<1> QED BY <1>1, InitLimited, NextLimited, PTL DEF Spec

-----------------------------------------------------------------------------
(* A connected peer is removed only by its own leave; a suspended one only  *)
(* when its grace period is over, or by its leave.                          *)
Granted ==
  \A p \in DOMAIN peers \ DOMAIN peers' :
    \/ peers[p].disconnected /\ peers[p].lease = 0
    \/ LeaveRoom(peers[p].room_id, p)

THEOREM GraceGranted == Spec => GraceBeforeRemoval
<1>1. Routing /\ [Next]_vars => [Granted]_vars
  <2> SUFFICES ASSUME Routing, Next PROVE Granted
    OBVIOUS
  <2>1. CASE RoomNext \/ HostNext \/ RegisterAgain \/ DiscoveryNext \/ GameplayNext \/ Tick
    <3>1. DOMAIN peers' = DOMAIN peers
      BY <2>1 DEF RoomNext, CreateRoomWithId, RemoveEmptyRoom, HostNext, RegisterAgain,
                  UnregisterHost, HeartbeatHost, RefreshHost, RegisterExistingHost,
                  RegisterNewHost, DiscoveryNext, GameplayNext, BeginDiscovery,
                  SelectHost, RouteGameplayDatagram, RemoveGameplaySession, Tick, peerVars
    <3> QED BY <3>1 DEF Granted
  <2>2. CASE PeerNext
    <3>1. ASSUME NEW p \in PeerId, NEW r \in RoomId, LeaveRoom(r, p)
          PROVE  Granted
      <4>1. peers[p].room_id = r
        BY <3>1 DEF LeaveRoom, Routing, IndexConsistent, MembersMatchPeers
      <4>2. DOMAIN peers' = DOMAIN peers \ {p}
        BY <3>1 DEF LeaveRoom, Without, Restrict
      <4> QED BY <3>1, <4>1, <4>2 DEF Granted
    <3>2. ASSUME NEW p \in PeerId, NEW r \in RoomId, NEW ip \in VirtualIp,
                 JoinRoom(r, p, ip)
          PROVE  Granted
      BY <3>2 DEF JoinRoom, Put, Granted
    <3>3. ASSUME NEW p \in PeerId, MarkPeerSeen(p) \/ \E r \in RoomId : ResumePeer(r, p)
          PROVE  Granted
      BY <3>3 DEF MarkPeerSeen, TouchPeer, ResumePeer, Granted
    <3> QED BY <2>2, <3>1, <3>2, <3>3 DEF PeerNext
  <2>3. CASE Expire
    BY <2>3 DEF Expire, Lost, Granted
  <2> QED BY <2>1, <2>2, <2>3 DEF Next
<1> QED BY <1>1, RoutingHolds, PTL DEF Spec, GraceBeforeRemoval, Granted

-----------------------------------------------------------------------------
(* RoomRouter implements LanRooms.                                          *)

(* What the tables are to the players.                                      *)

LEMMA SeatFacts ==
  /\ DOMAIN Seats = DOMAIN peers
  /\ \A p \in DOMAIN peers : /\ Seats[p].room = peers[p].room_id
                             /\ Seats[p].address = peers[p].virtual_ip
  BY DEF Seats, SeatOf

LEMMA GameFacts ==
  /\ DOMAIN Games = DOMAIN gameplay
  /\ \A g \in DOMAIN gameplay :
       /\ Games[g] = EndsOf(gameplay[g])
       /\ Games[g].client.player = gameplay[g].client_peer_id
       /\ Games[g].host.player = gameplay[g].host_peer_id
  BY DEF Games, EndsOf

(* A peer owns at most one host session, and it is in the peer's room.      *)
LEMMA OneHostPerPeer ==
  ASSUME Routing, NEW h \in DOMAIN hosts, NEW x \in DOMAIN hosts,
         hosts[h].peer_id = hosts[x].peer_id
  PROVE  h = x
<1>1. hosts[h].room_id = hosts[x].room_id
  BY DEF Routing, RouteIntegrity, HostsInPlace, At
<1>2. HostKey(h) = HostKey(x)
  BY <1>1 DEF HostKey
<1> QED BY <1>2 DEF Routing, IndexConsistent, HostsMatchRooms

(* remove_host looks for gameplay sessions by room and peer: as peers are   *)
(* where their sessions say, the peer is enough.                            *)
LEMMA ServedByPeer ==
  ASSUME Routing, NEW H, H \subseteq DOMAIN hosts
  PROVE  ServedBy(H) = Lan!HostedBy({hosts[h].peer_id : h \in H})
<1>1. ASSUME NEW g \in DOMAIN gameplay, NEW h \in H,
             gameplay[g].host_peer_id = hosts[h].peer_id
      PROVE  HostKey(h) = <<gameplay[g].room_id, gameplay[g].host_peer_id>>
  BY <1>1 DEF Routing, RouteIntegrity, HostsInPlace, SessionsInPlace, At, HostKey
<1>2. ASSUME NEW g \in DOMAIN gameplay, NEW h \in H,
             HostKey(h) = <<gameplay[g].room_id, gameplay[g].host_peer_id>>
      PROVE  gameplay[g].host_peer_id = hosts[h].peer_id
  BY <1>2 DEF HostKey
<1> QED BY <1>1, <1>2, GameFacts DEF ServedBy, Lan!HostedBy

LEMMA OwnedByPeers ==
  ASSUME NEW P
  PROVE  GameplayOf(P) = Lan!PlayedBy(P)
  BY GameFacts DEF GameplayOf, Lan!PlayedBy

-----------------------------------------------------------------------------
(* What the players see of a change.                                        *)

LEMMA RoomsUnchanged ==
  ASSUME DOMAIN rooms' = DOMAIN rooms
  PROVE  OpenRooms' = OpenRooms
  BY DEF OpenRooms

(* Peers that stay keep their seats.                                        *)
LEMMA SeatsAfter ==
  ASSUME NEW L, DOMAIN peers' = DOMAIN peers \ L, SameOwner(peers)
  PROVE  Seats' = [p \in DOMAIN Seats \ L |-> Seats[p]]
<1>1. \A p \in DOMAIN peers' : SeatOf(peers[p])' = SeatOf(peers[p])
  BY DEF SameOwner, SeatOf
<1>2. \A p \in DOMAIN peers \ L : SeatOf(peers'[p]) = SeatOf(peers[p])
  BY DEF SameOwner, SeatOf
<1>3. Seats' = [p \in DOMAIN peers \ L |-> SeatOf(peers'[p])]
  BY DEF Seats, SeatOf
<1>4. /\ DOMAIN Seats = DOMAIN peers
      /\ \A p \in DOMAIN peers : Seats[p] = SeatOf(peers[p])
  BY DEF Seats
<1> QED BY <1>2, <1>3, <1>4

LEMMA HostingAfter ==
  ASSUME Routing, NEW H, H \subseteq DOMAIN hosts, hosts' = Without(hosts, H)
  PROVE  Hosting' = Hosting \ {hosts[h].peer_id : h \in H}
<1>1. /\ DOMAIN hosts' = DOMAIN hosts \ H
      /\ \A h \in DOMAIN hosts' : hosts'[h] = hosts[h]
  BY DEF Without, Restrict
<1>2. Hosting' = {hosts[h].peer_id : h \in DOMAIN hosts \ H}
  BY <1>1 DEF Hosting
<1>3. \A h \in DOMAIN hosts \ H, x \in H : hosts[h].peer_id # hosts[x].peer_id
  BY OneHostPerPeer
<1> QED BY <1>2, <1>3 DEF Hosting

LEMMA GamesAfter ==
  ASSUME NEW G, gameplay' = Without(gameplay, G)
  PROVE  Games' = Lan!Ended(G)
<1>1. /\ DOMAIN gameplay' = DOMAIN gameplay \ G
      /\ \A g \in DOMAIN gameplay \ G : gameplay'[g] = gameplay[g]
  BY DEF Without, Restrict
<1>2. Games' = [g \in DOMAIN gameplay \ G |-> EndsOf(gameplay'[g])]
  BY <1>1 DEF Games, EndsOf
<1>3. Lan!Ended(G) = [g \in DOMAIN gameplay \ G |-> EndsOf(gameplay[g])]
  BY GameFacts DEF Lan!Ended
<1> QED BY <1>1, <1>2, <1>3

(* A step that touches deadlines and epochs only is invisible.              *)
LEMMA Invisible ==
  ASSUME DOMAIN rooms' = DOMAIN rooms,
         DOMAIN peers' = DOMAIN peers, SameOwner(peers),
         \A p \in DOMAIN peers : peers'[p].disconnected = peers[p].disconnected,
         DOMAIN hosts' = DOMAIN hosts,
         \A h \in DOMAIN hosts : hosts'[h].peer_id = hosts[h].peer_id,
         DOMAIN gameplay' = DOMAIN gameplay,
         \A g \in DOMAIN gameplay : EndsOf(gameplay'[g]) = EndsOf(gameplay[g])
  PROVE  UNCHANGED Lan!lanVars
<1>1. OpenRooms' = OpenRooms
  BY RoomsUnchanged
<1>2. Seats' = Seats
  BY DEF Seats, SeatOf, SameOwner
<1>3. Away' = Away
  BY DEF Away
<1>4. Hosting' = Hosting
  BY DEF Hosting
<1>5. Games' = Games
  BY DEF Games, EndsOf
<1> QED BY <1>1, <1>2, <1>3, <1>4, <1>5 DEF Lan!lanVars
-----------------------------------------------------------------------------
(* Every method is a step of LanRooms.                                      *)

LEMMA RoomsStep ==
  ASSUME Routing, NEW r \in RoomId
  PROVE  /\ \A c \in RoomCode : CreateRoomWithId(r, c) => Lan!Open(r)
         /\ RemoveEmptyRoom(r) => Lan!Close(r)
<1>1. ASSUME NEW c \in RoomCode, CreateRoomWithId(r, c)
      PROVE  Lan!Open(r)
  <2>1. OpenRooms' = OpenRooms \cup {r} /\ r \notin OpenRooms
    BY <1>1 DEF CreateRoomWithId, OpenRooms, Put
  <2>2. UNCHANGED <<Seats, Away, Hosting, Games>>
    BY <1>1 DEF CreateRoomWithId, peerVars, hostVars, sessionVars,
                Seats, SeatOf, Away, Hosting, Games, EndsOf
  <2> QED BY <2>1, <2>2 DEF Lan!Open
<1>2. ASSUME RemoveEmptyRoom(r)
      PROVE  Lan!Close(r)
  <2>1. OpenRooms' = OpenRooms \ {r} /\ r \in OpenRooms
    BY <1>2 DEF RemoveEmptyRoom, OpenRooms, Without, Restrict
  <2>2. UNCHANGED <<Seats, Away, Hosting, Games>>
    BY <1>2 DEF RemoveEmptyRoom, peerVars, hostVars, sessionVars,
                Seats, SeatOf, Away, Hosting, Games, EndsOf
  <2>3. \A p \in DOMAIN Seats : Seats[p].room # r
    BY <1>2, SeatFacts DEF RemoveEmptyRoom, Routing, IndexConsistent, MembersMatchPeers
  <2> QED BY <2>1, <2>2, <2>3 DEF Lan!Close
<1> QED BY <1>1, <1>2

LEMMA JoinStep ==
  ASSUME Routing, NEW r \in RoomId, NEW p \in PeerId, NEW ip \in VirtualIp,
         JoinRoom(r, p, ip)
  PROVE  Lan!Join(p, r, ip)
<1> DEFINE joined == [room_id |-> r, virtual_ip |-> ip, disconnected |-> FALSE,
                      lease |-> PeerTtl, epoch |-> 1]
<1>1. /\ DOMAIN peers' = DOMAIN peers \cup {p}
      /\ peers'[p] = joined
      /\ \A q \in DOMAIN peers : peers'[q] = peers[q]
      /\ p \notin DOMAIN peers
  BY DEF JoinRoom, Put
<1>2. r \in OpenRooms /\ p \notin DOMAIN Seats
  BY <1>1, SeatFacts DEF JoinRoom, OpenRooms
<1>3. \A q \in DOMAIN Seats : Seats[q].address # ip
  BY SeatFacts DEF JoinRoom, Routing, IndexConsistent, AddressesMatchPeers
<1>4. Seats' = [q \in DOMAIN Seats \cup {p} |->
                  IF q = p THEN [room |-> r, address |-> ip] ELSE Seats[q]]
  BY <1>1 DEF Seats, SeatOf
<1>5. DOMAIN rooms' = DOMAIN rooms
  BY DEF JoinRoom
<1>6. OpenRooms' = OpenRooms
  BY <1>5, RoomsUnchanged
<1>7. Away' = Away
  BY <1>1 DEF Away
<1>8. UNCHANGED <<Hosting, Games>>
  BY DEF JoinRoom, hostVars, sessionVars, Hosting, Games, EndsOf
<1> QED BY <1>2, <1>3, <1>4, <1>6, <1>7, <1>8 DEF Lan!Join

LEMMA ResumeStep ==
  ASSUME Routing, NEW r \in RoomId, NEW p \in PeerId, ResumePeer(r, p)
  PROVE  Lan!Return(p) \/ UNCHANGED Lan!lanVars
<1>1. /\ DOMAIN peers' = DOMAIN peers
      /\ p \in DOMAIN peers
      /\ \A q \in DOMAIN peers : q # p => peers'[q] = peers[q]
      /\ peers'[p] = Resumed(peers[p])
  BY DEF ResumePeer
<1>2. peers[p] \in PeerState
  BY <1>1 DEF Routing, TypeOK, IsTable
<1>3. /\ Resumed(peers[p]).room_id = peers[p].room_id
      /\ Resumed(peers[p]).virtual_ip = peers[p].virtual_ip
      /\ Resumed(peers[p]).disconnected = FALSE
  BY <1>2 DEF Resumed, PeerState
<1>4. SameOwner(peers)
  BY <1>1, <1>3 DEF SameOwner
<1>5. Seats' = Seats
  BY <1>1, <1>4 DEF Seats, SeatOf, SameOwner
<1>6. UNCHANGED <<OpenRooms, Hosting, Games>>
  BY DEF ResumePeer, roomVars, hostVars, sessionVars, OpenRooms, Hosting, Games, EndsOf
<1>7. Away' = Away \ {p}
  BY <1>1, <1>3 DEF Away
<1>8. CASE p \in Away
  BY <1>5, <1>6, <1>7, <1>8 DEF Lan!Return
<1>9. CASE p \notin Away
  BY <1>5, <1>6, <1>7, <1>9 DEF Lan!lanVars
<1> QED BY <1>8, <1>9

(* A removal, seen by the players: S go away and L leave, H lose their host *)
(* sessions, G are the sessions removed besides.                            *)
LEMMA RemovalStep ==
  ASSUME Routing, NEW H, NEW D, NEW G, NEW S, NEW L, NEW X, NEW Y,
         Purge(H, D, G, L), H \subseteq DOMAIN hosts,
         DOMAIN peers' = DOMAIN peers \ L, SameOwner(peers),
         {p \in DOMAIN peers' : peers'[p].disconnected} = (Away \cup S) \ L,
         {hosts[h].peer_id : h \in H} = Hosting \cap (X \cup S \cup L),
         G \cup ServedBy(H) = Y \cup Lan!HostedBy(X) \cup Lan!PlayedBy(S \cup L)
  PROVE  Lan!Change(S, L, X, Y)
<1>1. Seats' = [p \in DOMAIN Seats \ L |-> Seats[p]]
  BY SeatsAfter
<1>2. Away' = (Away \cup S) \ L
  BY DEF Away
<1>3. hosts' = Without(hosts, H) /\ gameplay' = Without(gameplay, G \cup ServedBy(H))
  BY DEF Purge
<1>4. Hosting' = Hosting \ {hosts[h].peer_id : h \in H}
  BY <1>3, HostingAfter
<1>5. Hosting' = Hosting \ (X \cup S \cup L)
  BY <1>4
<1>6. Games' = Lan!Ended(G \cup ServedBy(H))
  BY <1>3, GamesAfter
<1>7. Games' = Lan!Ended(Y \cup Lan!HostedBy(X) \cup Lan!PlayedBy(S \cup L))
  BY <1>6
<1>8. DOMAIN rooms' = DOMAIN rooms
  BY DEF Purge
<1>9. OpenRooms' = OpenRooms
  BY <1>8, RoomsUnchanged
<1> QED BY <1>1, <1>2, <1>5, <1>7, <1>9 DEF Lan!Change

LEMMA LeaveStep ==
  ASSUME Routing, NEW r \in RoomId, NEW p \in PeerId, LeaveRoom(r, p)
  PROVE  Lan!Leave(p)
<1> DEFINE H == InRoom(hosts, HostsOf({p}), r)
           D == InRoom(discoveries, DiscoveriesOf({p}), r)
           G == InRoom(gameplay, GameplayOf({p}), r)
<1>1. Purge(H, D, G, {p})
  BY DEF LeaveRoom
<1>2. p \in DOMAIN peers /\ peers[p].room_id = r
  BY DEF LeaveRoom, Routing, IndexConsistent, MembersMatchPeers
<1>3. H = HostsOf({p})
  BY <1>2 DEF InRoom, HostsOf, Routing, RouteIntegrity, HostsInPlace, At
<1>4. G = GameplayOf({p})
  BY <1>2 DEF InRoom, GameplayOf, Routing, RouteIntegrity, SessionsInPlace, At
<1>5. /\ DOMAIN peers' = DOMAIN peers \ {p}
      /\ \A q \in DOMAIN peers' : peers'[q] = peers[q]
  BY DEF LeaveRoom, Without, Restrict
<1>6. SameOwner(peers)
  BY <1>5 DEF SameOwner
<1>7. {q \in DOMAIN peers' : peers'[q].disconnected} = (Away \cup {}) \ {p}
  BY <1>5 DEF Away
<1>8. H \subseteq DOMAIN hosts
      /\ {hosts[h].peer_id : h \in H} = Hosting \cap ({} \cup {} \cup {p})
  BY <1>3 DEF HostsOf, Hosting
<1>9. ServedBy(H) \subseteq GameplayOf({p})
  BY <1>3 DEF ServedBy, HostsOf, HostKey, GameplayOf
<1>10. G \cup ServedBy(H) = {} \cup Lan!HostedBy({}) \cup Lan!PlayedBy({} \cup {p})
  <2>1. Lan!HostedBy({}) = {}
    BY DEF Lan!HostedBy
  <2>2. {} \cup {p} = {p}
    OBVIOUS
  <2>3. Lan!PlayedBy({p}) = GameplayOf({p})
    BY OwnedByPeers
  <2> QED BY <1>4, <1>9, <2>1, <2>2, <2>3
<1> HIDE DEF H, D, G
<1>11. Lan!Change({}, {p}, {}, {})
  BY <1>1, <1>5, <1>6, <1>7, <1>8, <1>10, RemovalStep
<1> QED BY <1>2, <1>11, SeatFacts DEF Lan!Leave

LEMMA NewHostStep ==
  ASSUME Routing, NEW r \in RoomId, NEW p \in PeerId, NEW h \in HostSessionId,
         RegisterNewHost(r, p, h)
  PROVE  Lan!Host(p)
<1> DEFINE stale == {x \in DOMAIN hosts : HostKey(x) = <<r, p>>}
<1>1. p \in DOMAIN peers /\ peers[p].room_id = r
  BY DEF RegisterNewHost, IsMember
<1>2. stale = {x \in DOMAIN hosts : hosts[x].peer_id = p}
  BY <1>1 DEF HostKey, Routing, RouteIntegrity, HostsInPlace, At
<1>3. /\ DOMAIN hosts' = (DOMAIN hosts \ stale) \cup {h}
      /\ h \notin DOMAIN hosts
      /\ hosts'[h].peer_id = p
      /\ \A x \in DOMAIN hosts \ stale : hosts'[x] = hosts[x]
  BY DEF RegisterNewHost, Put, Without, Restrict
<1>4. Hosting' = Hosting \cup {p}
  BY <1>2, <1>3 DEF Hosting
<1>5. ServedBy(stale) = Lan!HostedBy({p})
  <2>1. ASSUME NEW g \in DOMAIN gameplay, gameplay[g].host_peer_id = p
        PROVE  g \in ServedBy(stale)
    <3>1. gameplay[g].room_id = r
      BY <1>1, <2>1 DEF Routing, RouteIntegrity, SessionsInPlace, At
    <3>2. <<r, p>> \in DOMAIN host_by_peer
      BY <2>1, <3>1 DEF Routing, GameplayHasHost
    <3>3. \E x \in DOMAIN hosts : HostKey(x) = <<r, p>>
      BY <3>2 DEF Routing, IndexConsistent, HostsMatchRooms
    <3> QED BY <2>1, <3>1, <3>3 DEF ServedBy
  <2>2. ASSUME NEW g \in ServedBy(stale)
        PROVE  g \in DOMAIN gameplay /\ gameplay[g].host_peer_id = p
    BY DEF ServedBy
  <2> QED BY <2>1, <2>2, GameFacts DEF Lan!HostedBy
<1>6. gameplay' = Without(gameplay, ServedBy(stale))
  BY DEF RegisterNewHost
<1>7. Games' = Lan!Ended(Lan!HostedBy({p}))
  BY <1>5, <1>6, GamesAfter
<1>8. UNCHANGED <<Seats, Away>>
  BY DEF RegisterNewHost, peerVars, Seats, SeatOf, Away
<1>9. DOMAIN rooms' = DOMAIN rooms
  BY DEF RegisterNewHost
<1>10. OpenRooms' = OpenRooms
  BY <1>9, RoomsUnchanged
<1> QED BY <1>1, <1>4, <1>7, <1>8, <1>10, SeatFacts DEF Lan!Host

LEMMA UnregisterImplements ==
  ASSUME Routing, NEW h \in HostSessionId, UnregisterHost(h)
  PROVE  Lan!StopHosting(hosts[h].peer_id)
<1> DEFINE p == hosts[h].peer_id
           H == {h}
<1>1. /\ h \in DOMAIN hosts
      /\ Purge(H, {}, {}, {})
      /\ H \subseteq DOMAIN hosts
      /\ peers' = peers
  BY DEF UnregisterHost, peerVars
<1>2. p \in Hosting
  BY <1>1 DEF Hosting
<1>3. /\ DOMAIN peers' = DOMAIN peers \ {}
      /\ SameOwner(peers)
      /\ {q \in DOMAIN peers' : peers'[q].disconnected} = (Away \cup {}) \ {}
  BY <1>1 DEF SameOwner, Away
<1>4. {hosts[x].peer_id : x \in H} = Hosting \cap ({p} \cup {} \cup {})
  BY <1>2
<1>5. {} \cup ServedBy(H)
        = {} \cup Lan!HostedBy({p}) \cup Lan!PlayedBy({} \cup {})
  <2>1. ServedBy(H) = Lan!HostedBy({hosts[x].peer_id : x \in H})
    BY <1>1, ServedByPeer
  <2>2. {hosts[x].peer_id : x \in H} = {p}
    OBVIOUS
  <2>3. Lan!PlayedBy({} \cup {}) = {}
    BY DEF Lan!PlayedBy
  <2> QED BY <2>1, <2>2, <2>3
<1> HIDE DEF p, H
<1>6. Lan!Change({}, {}, {p}, {})
  BY <1>1, <1>3, <1>4, <1>5, RemovalStep
<1>7. Lan!StopHosting(p)
  BY <1>2, <1>6 DEF Lan!StopHosting
<1> QED BY <1>7 DEF p

LEMMA SelectStep ==
  ASSUME Routing, NEW r \in RoomId, NEW p \in PeerId, NEW h \in HostSessionId,
         NEW g \in GameplaySessionId, SelectHost(r, p, h, g)
  PROVE  hosts[h].peer_id \in PeerId /\ Lan!Play(g, p, hosts[h].peer_id)
<1> DEFINE q == hosts[h].peer_id
<1>1. /\ h \in DOMAIN hosts /\ hosts[h].room_id = r
      /\ p \in DOMAIN peers /\ peers[p].room_id = r
      /\ g \notin DOMAIN gameplay
  BY DEF SelectHost, IsMember
<1>2. q \in PeerId
  BY <1>1 DEF Routing, TypeOK, IsTable, HostState
<1>3. q \in DOMAIN peers /\ peers[q].room_id = r /\ peers[q].virtual_ip = hosts[h].virtual_ip
  BY <1>1 DEF Routing, RouteIntegrity, HostsInPlace, At
<1>4. q \in Hosting
  BY <1>1 DEF Hosting
<1>5. /\ DOMAIN gameplay' = DOMAIN gameplay \cup {g}
      /\ \A x \in DOMAIN gameplay : gameplay'[x] = gameplay[x]
      /\ EndsOf(gameplay'[g]) =
           [client |-> [player |-> p, address |-> peers[p].virtual_ip],
            host   |-> [player |-> q, address |-> hosts[h].virtual_ip]]
  BY <1>1 DEF SelectHost, Put, EndsOf
<1>6. EndsOf(gameplay'[g]) = [client |-> Lan!End(p), host |-> Lan!End(q)]
  BY <1>1, <1>3, <1>5, SeatFacts DEF Lan!End
<1>7. Games' = [x \in DOMAIN Games \cup {g} |->
                  IF x = g THEN [client |-> Lan!End(p), host |-> Lan!End(q)] ELSE Games[x]]
  <2>1. Games' = [x \in DOMAIN gameplay \cup {g} |-> EndsOf(gameplay'[x])]
    BY <1>5 DEF Games, EndsOf
  <2>2. \A x \in DOMAIN gameplay : EndsOf(gameplay'[x]) = Games[x] /\ x # g
    BY <1>1, <1>5, GameFacts
  <2> QED BY <1>6, <2>1, <2>2, GameFacts
<1>8. UNCHANGED <<OpenRooms, Seats, Away, Hosting>>
  BY DEF SelectHost, roomVars, peerVars, hostVars, OpenRooms, Seats, SeatOf, Away, Hosting
<1>9. Lan!Play(g, p, q)
  BY <1>1, <1>3, <1>4, <1>7, <1>8, SeatFacts, GameFacts DEF Lan!Play
<1> QED BY <1>2, <1>9

LEMMA RemoveGameplayStep ==
  ASSUME Routing, NEW g \in GameplaySessionId, RemoveGameplaySession(g)
  PROVE  Lan!EndGame(g)
<1>1. g \in DOMAIN Games
  BY GameFacts DEF RemoveGameplaySession
<1>2. Games' = Lan!Ended({g})
  BY GamesAfter DEF RemoveGameplaySession
<1>3. Lan!HostedBy({}) = {} /\ Lan!PlayedBy({} \cup {}) = {}
  BY DEF Lan!HostedBy, Lan!PlayedBy
<1>4. Games' = Lan!Ended({g} \cup Lan!HostedBy({}) \cup Lan!PlayedBy({} \cup {}))
  BY <1>2, <1>3
<1>5. UNCHANGED <<OpenRooms, Seats, Away, Hosting>>
  BY DEF RemoveGameplaySession, roomVars, peerVars, hostVars,
         OpenRooms, Seats, SeatOf, Away, Hosting
<1>6. Seats = [p \in DOMAIN Seats \ {} |-> Seats[p]]
  BY DEF Seats
<1>7. Lan!Change({}, {}, {}, {g})
  BY <1>4, <1>5, <1>6 DEF Lan!Change
<1> QED BY <1>1, <1>7 DEF Lan!EndGame

LEMMA ExpireStep ==
  ASSUME Routing, Expire
  PROVE  Lan!Sweep
<1> DEFINE P == Silent \cup Lost
           H == Lapsed(hosts) \cup HostsOf(P)
           D == Lapsed(discoveries) \cup DiscoveriesOf(P)
           G == Lapsed(gameplay) \cup GameplayOf(P)
           X == {hosts[h].peer_id : h \in Lapsed(hosts)}
           Y == Lapsed(gameplay)
<1>1. Purge(H, D, G, Lost)
  BY DEF Expire
<1>2. /\ Silent \subseteq DOMAIN peers /\ Lost \subseteq DOMAIN peers
      /\ \A p \in Silent : ~peers[p].disconnected
      /\ \A p \in Lost : peers[p].disconnected
  BY DEF Silent, Lost
<1>3. /\ DOMAIN peers' = DOMAIN peers \ Lost
      /\ \A p \in DOMAIN peers' :
           peers'[p] = IF p \in Silent THEN Suspended(peers[p]) ELSE peers[p]
  BY DEF Expire
<1>4. ASSUME NEW p \in DOMAIN peers
      PROVE  /\ Suspended(peers[p]).room_id = peers[p].room_id
             /\ Suspended(peers[p]).virtual_ip = peers[p].virtual_ip
             /\ Suspended(peers[p]).disconnected = TRUE
  <2>1. peers[p] \in PeerState
    BY DEF Routing, TypeOK, IsTable
  <2> QED BY <2>1 DEF Suspended, PeerState
<1>5. SameOwner(peers)
  BY <1>3, <1>4 DEF SameOwner
<1>6. {p \in DOMAIN peers' : peers'[p].disconnected} = (Away \cup Silent) \ Lost
  BY <1>2, <1>3, <1>4 DEF Away
<1>7. H \subseteq DOMAIN hosts
  BY DEF Lapsed, HostsOf
<1>8. {hosts[h].peer_id : h \in H} = Hosting \cap (X \cup Silent \cup Lost)
  <2>1. ASSUME NEW h \in DOMAIN hosts, hosts[h].peer_id \in X
        PROVE  h \in H
    <3>1. PICK x \in Lapsed(hosts) : hosts[x].peer_id = hosts[h].peer_id
      BY <2>1
    <3>2. x \in DOMAIN hosts
      BY DEF Lapsed
    <3>3. x = h
      BY <3>1, <3>2, OneHostPerPeer
    <3> QED BY <3>1, <3>3
  <2>2. \A h \in DOMAIN hosts : h \in H <=> hosts[h].peer_id \in X \cup Silent \cup Lost
    BY <2>1 DEF HostsOf
  <2> QED BY <1>7, <2>2 DEF Hosting
<1>9. G \cup ServedBy(H) = Y \cup Lan!HostedBy(X) \cup Lan!PlayedBy(Silent \cup Lost)
  <2>1. ServedBy(H) = ServedBy(Lapsed(hosts)) \cup ServedBy(HostsOf(P))
    BY DEF ServedBy
  <2>2. ServedBy(HostsOf(P)) \subseteq GameplayOf(P)
    BY DEF ServedBy, HostsOf, HostKey, GameplayOf
  <2>3. ServedBy(Lapsed(hosts)) = Lan!HostedBy(X)
    <3>1. Lapsed(hosts) \subseteq DOMAIN hosts
      BY DEF Lapsed
    <3> QED BY <3>1, ServedByPeer
  <2>4. GameplayOf(P) = Lan!PlayedBy(P)
    BY OwnedByPeers
  <2> QED BY <2>1, <2>2, <2>3, <2>4
<1>10. /\ Silent \in SUBSET (DOMAIN Seats \ Away)
       /\ Lost \in SUBSET Away
       /\ X \in SUBSET Hosting
       /\ Y \in SUBSET DOMAIN Games
  BY <1>2, SeatFacts, GameFacts DEF Away, Hosting, Lapsed
<1> HIDE DEF H, D, G, X, Y
<1>11. Lan!Change(Silent, Lost, X, Y)
  BY <1>1, <1>3, <1>5, <1>6, <1>7, <1>8, <1>9, RemovalStep
<1> QED BY <1>10, <1>11 DEF Lan!Sweep

(* What renews a deadline, and the clock, is invisible.                     *)
LEMMA DeadlineStep ==
  ASSUME Routing,
         \/ \E p \in PeerId : MarkPeerSeen(p)
         \/ \E h \in DOMAIN hosts : RefreshHost(h)
         \/ DiscoveryNext
         \/ \E g \in GameplaySessionId, p \in PeerId : RouteGameplayDatagram(g, p)
         \/ Tick
  PROVE  UNCHANGED Lan!lanVars
<1>1. /\ \A p \in DOMAIN peers : peers[p] \in PeerState
      /\ \A h \in DOMAIN hosts : hosts[h] \in HostState
      /\ \A g \in DOMAIN gameplay : gameplay[g] \in GameplayState
  BY DEF Routing, TypeOK, IsTable
<1>2. ASSUME NEW p \in PeerId, MarkPeerSeen(p)
      PROVE  UNCHANGED Lan!lanVars
  BY <1>1, <1>2, Invisible
     DEF MarkPeerSeen, TouchPeer, SameOwner, PeerState, roomVars, hostVars, sessionVars
<1>3. ASSUME NEW h \in DOMAIN hosts, RefreshHost(h)
      PROVE  UNCHANGED Lan!lanVars
  BY <1>1, <1>3, Invisible
     DEF RefreshHost, SameOwner, HostState, roomVars, peerVars, sessionVars
<1>4. ASSUME DiscoveryNext
      PROVE  UNCHANGED Lan!lanVars
  BY <1>4, Invisible
     DEF DiscoveryNext, BeginDiscovery, SameOwner, roomVars, peerVars, hostVars
<1>5. ASSUME NEW g \in GameplaySessionId, NEW p \in PeerId, RouteGameplayDatagram(g, p)
      PROVE  UNCHANGED Lan!lanVars
  <2>1. \A x \in DOMAIN gameplay : EndsOf(gameplay'[x]) = EndsOf(gameplay[x])
    BY <1>1, <1>5 DEF RouteGameplayDatagram, TouchGameplay, GameplayState, EndsOf
  <2> QED BY <1>5, <2>1, Invisible
       DEF RouteGameplayDatagram, TouchGameplay, SameOwner, roomVars, peerVars, hostVars
<1>6. ASSUME Tick
      PROVE  UNCHANGED Lan!lanVars
  <2>1. /\ DOMAIN peers' = DOMAIN peers
        /\ SameOwner(peers)
        /\ \A p \in DOMAIN peers : peers'[p].disconnected = peers[p].disconnected
    BY <1>1, <1>6 DEF Tick, SameOwner, PeerState
  <2>2. /\ DOMAIN hosts' = DOMAIN hosts
        /\ \A h \in DOMAIN hosts : hosts'[h].peer_id = hosts[h].peer_id
    BY <1>1, <1>6 DEF Tick, Aged, HostState
  <2>3. /\ DOMAIN gameplay' = DOMAIN gameplay
        /\ \A g \in DOMAIN gameplay : EndsOf(gameplay'[g]) = EndsOf(gameplay[g])
    BY <1>1, <1>6 DEF Tick, Aged, GameplayState, EndsOf
  <2>4. DOMAIN rooms' = DOMAIN rooms
    BY <1>6 DEF Tick, roomVars
  <2> QED BY <2>1, <2>2, <2>3, <2>4, Invisible
<1> QED BY <1>2, <1>3, <1>4, <1>5, <1>6

-----------------------------------------------------------------------------
LEMMA InitRefines == Init => Lan!LanInit
  BY DEF Init, NoTables, Lan!LanInit, OpenRooms, Seats, Away, Hosting, Games

LEMMA NextRefines == Routing /\ [Next]_vars => [Lan!LanNext]_(Lan!lanVars)
<1> SUFFICES ASSUME Routing, [Next]_vars
             PROVE  Lan!LanNext \/ UNCHANGED Lan!lanVars
  OBVIOUS
<1>1. CASE RoomNext
  BY <1>1, RoomsStep DEF RoomNext, Lan!LanNext
<1>2. CASE PeerNext
  BY <1>2, JoinStep, ResumeStep, LeaveStep, DeadlineStep DEF PeerNext, Lan!LanNext
<1>3. CASE HostNext
  <2>1. ASSUME NEW h \in HostSessionId, UnregisterHost(h)
        PROVE  Lan!LanNext
    <3>1. hosts[h].peer_id \in PeerId
      BY <2>1 DEF UnregisterHost, Routing, TypeOK, IsTable, HostState
    <3> QED BY <2>1, <3>1, UnregisterImplements DEF Lan!LanNext
  <2>2. ASSUME NEW h \in HostSessionId, NEW r \in RoomId, NEW p \in PeerId,
               RegisterNewHost(r, p, h)
        PROVE  Lan!LanNext
    BY <2>2, NewHostStep DEF Lan!LanNext
  <2>3. ASSUME NEW h \in HostSessionId, NEW r \in RoomId, NEW p \in PeerId,
               HeartbeatHost(r, p, h)
        PROVE  UNCHANGED Lan!lanVars
    BY <2>3, DeadlineStep DEF HeartbeatHost
  <2> QED BY <1>3, <2>1, <2>2, <2>3 DEF HostNext
<1>4. CASE RegisterAgain
  BY <1>4, DeadlineStep DEF RegisterAgain, RegisterExistingHost
<1>5. CASE DiscoveryNext \/ Tick
  BY <1>5, DeadlineStep
<1>6. CASE GameplayNext
  <2>1. ASSUME NEW g \in GameplaySessionId, NEW r \in RoomId, NEW p \in PeerId,
               NEW h \in HostSessionId, SelectHost(r, p, h, g)
        PROVE  Lan!LanNext
    BY <2>1, SelectStep DEF Lan!LanNext
  <2>2. ASSUME NEW g \in GameplaySessionId, RemoveGameplaySession(g)
        PROVE  Lan!LanNext
    BY <2>2, RemoveGameplayStep DEF Lan!LanNext
  <2> QED BY <1>6, <2>1, <2>2, DeadlineStep DEF GameplayNext
<1>7. CASE Expire
  BY <1>7, ExpireStep DEF Lan!LanNext
<1>8. CASE UNCHANGED vars
  BY <1>8 DEF vars, roomVars, peerVars, hostVars, sessionVars, Lan!lanVars,
              OpenRooms, Seats, SeatOf, Away, Hosting, Games, EndsOf
<1> QED BY <1>1, <1>2, <1>3, <1>4, <1>5, <1>6, <1>7, <1>8 DEF Next

(* The players of any number of rooms see nothing but what LanRooms         *)
(* promises, whatever joins, leaves, sweeps, resumes and host changes the   *)
(* router goes through.                                                     *)
THEOREM RouterImplementsLanRooms == Spec => ImplementsLanRooms
<1>1. Init => Lan!LanInit
  BY InitRefines
<1>2. Routing /\ [Next]_vars => [Lan!LanNext]_(Lan!lanVars)
  BY NextRefines
<1> QED BY <1>1, <1>2, RoutingHolds, PTL DEF Spec, ImplementsLanRooms, Lan!LanSpec
=============================================================================

----------------------------- MODULE RoomRouter -----------------------------
(***************************************************************************)
(* The authoritative in-memory state of one relay process                  *)
(* (src/crates/router/src/lib.rs, struct RoomRouter).                      *)
(*                                                                         *)
(* Every HashMap of the struct is a VARIABLE: a function from the ids that *)
(* are present to records.  Every `&mut self` method is an action; its     *)
(* guard is the conjunction of the conditions under which the method       *)
(* returns Ok, and a call that returns Err leaves the tables alone, so it  *)
(* is a stuttering step and is not written down.                           *)
(*                                                                         *)
(* Instants.  The code keeps absolute deadlines and compares them with     *)
(* `now`.  Here a record keeps what is left: `ttl` is expires_at - now and *)
(* `lease` is last_seen + peer_ttl - now for a connected peer and          *)
(* disconnected_at + peer_grace_ttl - now for a suspended one; both stop   *)
(* at 0, which is "the deadline has been reached" (`<= now`).  Tick is the *)
(* passing of one unit of time.  The lag between sampling `now` and taking *)
(* the router lock is 0.                                                   *)
(*                                                                         *)
(* A definition named <X>_bug is <X> with a mistake somebody could make in *)
(* the code.  None of them is used here: they serve to see the properties  *)
(* fail.                                                                   *)
(***************************************************************************)
EXTENDS Integers, FiniteSets, Functions

CONSTANTS RoomId, RoomCode, PeerId, VirtualIp,
          HostSessionId, DiscoveryRequestId, GameplaySessionId,
          DiscoveryPort,          \* the ports is_discovery_port accepts
          HostTtl, DiscoveryTtl, GameplayIdleTtl, PeerTtl, PeerGraceTtl,
          MaxRooms, MaxPeersPerRoom, MaxTotalPeers, MaxHostsPerRoom,
          MaxGameplaySessions,
          MaxEpoch                \* u64::MAX, where saturating_add stops

(* The defaults are 15 s, 5 s, 30 s, 15 s and 45 s; none of them is zero.   *)
ASSUME TtlAssumption ==
  /\ HostTtl \in Nat \ {0}
  /\ DiscoveryTtl \in Nat \ {0}
  /\ GameplayIdleTtl \in Nat \ {0}
  /\ PeerTtl \in Nat \ {0}
  /\ PeerGraceTtl \in Nat \ {0}

(* usize limits and the u64 epoch.                                          *)
ASSUME LimitAssumption ==
  /\ MaxRooms \in Nat
  /\ MaxPeersPerRoom \in Nat
  /\ MaxTotalPeers \in Nat
  /\ MaxHostsPerRoom \in Nat
  /\ MaxGameplaySessions \in Nat
  /\ MaxEpoch \in Nat \ {0}

VARIABLES rooms, rooms_by_code, peers, virtual_ips,
          hosts, host_by_peer, discoveries, gameplay

roomVars    == <<rooms, rooms_by_code>>
peerVars    == <<peers, virtual_ips>>
hostVars    == <<hosts, host_by_peer>>
sessionVars == <<discoveries, gameplay>>
vars        == <<roomVars, peerVars, hostVars, sessionVars>>

RoomState == [code : RoomCode, members : SUBSET PeerId,
              host_sessions : SUBSET HostSessionId]
PeerState == [room_id : RoomId, virtual_ip : VirtualIp,
              disconnected : BOOLEAN, lease : Nat, epoch : 1..MaxEpoch]
HostState == [room_id : RoomId, peer_id : PeerId, virtual_ip : VirtualIp,
              ttl : 0..HostTtl]
DiscoveryState == [room_id : RoomId, client_peer_id : PeerId,
                   destination_port : DiscoveryPort, ttl : 0..DiscoveryTtl]
GameplayState == [room_id : RoomId, client_peer_id : PeerId,
                  host_peer_id : PeerId, host_virtual_ip : VirtualIp,
                  client_virtual_ip : VirtualIp, ttl : 0..GameplayIdleTtl]

-----------------------------------------------------------------------------
(* HashMap::insert, and removal of a set of keys (HashMap::remove, retain). *)
Put(f, k, v)  == [x \in DOMAIN f \cup {k} |-> IF x = k THEN v ELSE f[x]]
Without(f, S) == Restrict(f, DOMAIN f \ S)

NoTables == [k \in {} |-> k]

Init ==
  /\ rooms = NoTables /\ rooms_by_code = NoTables
  /\ peers = NoTables /\ virtual_ips = NoTables
  /\ hosts = NoTables /\ host_by_peer = NoTables
  /\ discoveries = NoTables /\ gameplay = NoTables

(* member_state(room_id, peer_id) returns Ok.  A suspended peer is a member. *)
IsMember(r, p) ==
  /\ r \in DOMAIN rooms
  /\ p \in rooms[r].members
  /\ p \in DOMAIN peers
  /\ peers[p].room_id = r

HostKey(h) == <<hosts[h].room_id, hosts[h].peer_id>>

(* Matching the client of the session, or only a host that has not expired. *)
ServedBy_bugClient(H) ==
  {g \in DOMAIN gameplay :
     \E h \in H : HostKey(h) = <<gameplay[g].room_id, gameplay[g].client_peer_id>>}

ServedBy_bugExpired(H) ==
  {g \in DOMAIN gameplay :
     \E h \in H : /\ hosts[h].ttl > 0
                  /\ HostKey(h) = <<gameplay[g].room_id, gameplay[g].host_peer_id>>}

(* The gameplay sessions remove_host drops when the hosts H are removed:    *)
(* those whose (room, host peer) is the key of one of them.                 *)
ServedBy(H) ==
  {g \in DOMAIN gameplay :
     \E h \in H : HostKey(h) = <<gameplay[g].room_id, gameplay[g].host_peer_id>>}

(* Forgetting one of the two maps of hosts, or the gameplay sessions G.     *)
Purge_bugIndex(H, D, G, L) ==
  /\ hosts' = Without(hosts, H)
  /\ UNCHANGED host_by_peer
  /\ discoveries' = Without(discoveries, D)
  /\ gameplay' = Without(gameplay, G \cup ServedBy(H))
  /\ rooms' = [r \in DOMAIN rooms |->
                 [rooms[r] EXCEPT !.members = @ \ L, !.host_sessions = @ \ H]]

Purge_bugGameplay(H, D, G, L) ==
  /\ hosts' = Without(hosts, H)
  /\ host_by_peer' = Without(host_by_peer, {HostKey(h) : h \in H})
  /\ discoveries' = Without(discoveries, D)
  /\ gameplay' = Without(gameplay, ServedBy(H))
  /\ rooms' = [r \in DOMAIN rooms |->
                 [rooms[r] EXCEPT !.members = @ \ L, !.host_sessions = @ \ H]]

(* Remove the hosts H as remove_host does, and the discoveries D and the    *)
(* gameplay sessions G; the peers L leave the rooms they are members of.    *)
Purge(H, D, G, L) ==
  /\ hosts' = Without(hosts, H)
  /\ host_by_peer' = Without(host_by_peer, {HostKey(h) : h \in H})
  /\ discoveries' = Without(discoveries, D)
  /\ gameplay' = Without(gameplay, G \cup ServedBy(H))
  /\ rooms' = [r \in DOMAIN rooms |->
                 [rooms[r] EXCEPT !.members = @ \ L, !.host_sessions = @ \ H]]

(* What a peer owns: leave_room and disconnect_peer remove all of it.       *)
HostsOf(P)       == {h \in DOMAIN hosts : hosts[h].peer_id \in P}
DiscoveriesOf(P) == {d \in DOMAIN discoveries : discoveries[d].client_peer_id \in P}
GameplayOf_bug(P) == {g \in DOMAIN gameplay : gameplay[g].host_peer_id \in P}
GameplayOf(P)    == {g \in DOMAIN gameplay :
                       \/ gameplay[g].client_peer_id \in P
                       \/ gameplay[g].host_peer_id \in P}

(* leave_room looks only at what belongs to the room being left.            *)
InRoom(table, S, r) == {k \in S : table[k].room_id = r}

-----------------------------------------------------------------------------
(* Rooms and membership.                                                    *)

CreateRoomWithId(r, c) ==
  /\ Cardinality(DOMAIN rooms) < MaxRooms
  /\ c \notin DOMAIN rooms_by_code
  /\ r \notin DOMAIN rooms
  /\ rooms' = Put(rooms, r, [code |-> c, members |-> {}, host_sessions |-> {}])
  /\ rooms_by_code' = Put(rooms_by_code, c, r)
  /\ UNCHANGED <<peerVars, hostVars, sessionVars>>

RemoveEmptyRoom(r) ==
  /\ r \in DOMAIN rooms
  /\ rooms[r].members = {}
  /\ rooms[r].host_sessions = {}
  /\ rooms' = Without(rooms, {r})
  /\ rooms_by_code' = Without(rooms_by_code, {rooms[r].code})
  /\ UNCHANGED <<peerVars, hostVars, sessionVars>>

(* The room, and the relay, can take one more peer.                         *)
HasSeat_bug(r) ==
  /\ Cardinality(rooms[r].members) < MaxPeersPerRoom
  /\ Cardinality(DOMAIN peers) <= MaxTotalPeers

HasSeat(r) ==
  /\ Cardinality(rooms[r].members) < MaxPeersPerRoom
  /\ Cardinality(DOMAIN peers) < MaxTotalPeers

(* join_room; restore_peer is the same method under another name.           *)
JoinRoom(r, p, ip) ==
  /\ r \in DOMAIN rooms
  /\ HasSeat(r)
  /\ p \notin DOMAIN peers
  /\ ip \notin DOMAIN virtual_ips
  /\ rooms' = [rooms EXCEPT ![r].members = @ \cup {p}]
  /\ peers' = Put(peers, p, [room_id |-> r, virtual_ip |-> ip,
                             disconnected |-> FALSE, lease |-> PeerTtl,
                             epoch |-> 1])
  /\ virtual_ips' = Put(virtual_ips, ip, p)
  /\ UNCHANGED <<rooms_by_code, hostVars, sessionVars>>

(* The effect of mark_peer_seen alone: handle_datagram follows it with other *)
(* effects in the same critical section, as it does TouchDiscovery and       *)
(* TouchGameplay below.                                                      *)
TouchPeer_bug(p) ==
  /\ p \in DOMAIN peers
  /\ peers' = [peers EXCEPT ![p].lease = PeerTtl, ![p].disconnected = FALSE]

TouchPeer(p) ==
  /\ p \in DOMAIN peers
  /\ ~peers[p].disconnected
  /\ peers' = [peers EXCEPT ![p].lease = PeerTtl]

MarkPeerSeen(p) ==
  /\ TouchPeer(p)
  /\ UNCHANGED <<roomVars, virtual_ips, hostVars, sessionVars>>

(* connection_epoch.saturating_add(1).max(1)                                *)
NextEpoch(e) == IF e < MaxEpoch THEN e + 1 ELSE MaxEpoch

(* Only lifting a suspension makes a new epoch.                             *)
Resumed_bug(peer) == [peer EXCEPT !.disconnected = FALSE, !.lease = PeerTtl]
Resumed(peer) ==
  [peer EXCEPT !.disconnected = FALSE, !.lease = PeerTtl,
               !.epoch = IF peer.disconnected THEN NextEpoch(@) ELSE @]

ResumePeer(r, p) ==
  /\ p \in DOMAIN peers
  /\ peers[p].room_id = r
  /\ peers[p].disconnected => peers[p].lease > 0
  /\ peers' = [peers EXCEPT ![p] = Resumed(@)]
  /\ UNCHANGED <<roomVars, virtual_ips, hostVars, sessionVars>>

LeaveRoom(r, p) ==
  /\ r \in DOMAIN rooms
  /\ p \in rooms[r].members
  /\ Purge(InRoom(hosts, HostsOf({p}), r),
           InRoom(discoveries, DiscoveriesOf({p}), r),
           InRoom(gameplay, GameplayOf({p}), r), {p})
  /\ peers' = Without(peers, {p})
  /\ virtual_ips' = Without(virtual_ips, {peers[p].virtual_ip})
  /\ UNCHANGED rooms_by_code

-----------------------------------------------------------------------------
(* Host sessions.                                                           *)

RefreshHost(h) ==
  /\ hosts[h].ttl > 0
  /\ hosts' = [hosts EXCEPT ![h].ttl = HostTtl]
  /\ UNCHANGED <<roomVars, peerVars, host_by_peer, sessionVars>>

(* register_host finds an unexpired session of the same peer.               *)
RegisterExistingHost(r, p) ==
  /\ IsMember(r, p)
  /\ <<r, p>> \in DOMAIN host_by_peer
  /\ host_by_peer[<<r, p>>] \in DOMAIN hosts
  /\ RefreshHost(host_by_peer[<<r, p>>])

(* register_host makes the session h; an expired one of the same peer is    *)
(* removed first, with the gameplay sessions it served.  (HostLimitReached  *)
(* cannot be returned after that removal: the room is below its limit.)     *)
RegisterNewHost(r, p, h) ==
  LET stale == {x \in DOMAIN hosts : HostKey(x) = <<r, p>>}
  IN  /\ IsMember(r, p)
      /\ \A x \in stale : hosts[x].ttl = 0
      /\ Cardinality(rooms[r].host_sessions \ stale) < MaxHostsPerRoom
      /\ h \notin DOMAIN hosts
      /\ hosts' = Put(Without(hosts, stale), h,
                      [room_id |-> r, peer_id |-> p,
                       virtual_ip |-> peers[p].virtual_ip, ttl |-> HostTtl])
      /\ host_by_peer' = Put(host_by_peer, <<r, p>>, h)
      /\ rooms' = [rooms EXCEPT ![r].host_sessions = (@ \ stale) \cup {h}]
      /\ gameplay' = Without(gameplay, ServedBy(stale))
      /\ UNCHANGED <<rooms_by_code, peerVars, discoveries>>

(* heartbeat_host_for_room.                                                 *)
HeartbeatHost(r, p, h) ==
  /\ h \in DOMAIN hosts
  /\ HostKey(h) = <<r, p>>
  /\ RefreshHost(h)

UnregisterHost(h) ==
  /\ h \in DOMAIN hosts
  /\ Purge({h}, {}, {}, {})
  /\ UNCHANGED <<rooms_by_code, peerVars>>

-----------------------------------------------------------------------------
(* Discovery and gameplay sessions.                                         *)

(* A retry with the same room, client and port refreshes the entry; any     *)
(* other use of a live request id is DiscoveryRequestConflict.              *)
DiscoveryEntry(r, p, port) ==
  [room_id |-> r, client_peer_id |-> p,
   destination_port |-> port, ttl |-> DiscoveryTtl]

CanDiscover(r, p, d, port) ==
  /\ port \in DiscoveryPort
  /\ IsMember(r, p)
  /\ d \in DOMAIN discoveries =>
       [discoveries[d] EXCEPT !.ttl = DiscoveryTtl] = DiscoveryEntry(r, p, port)

TouchDiscovery(r, p, d, port) ==
  /\ CanDiscover(r, p, d, port)
  /\ discoveries' = Put(discoveries, d, DiscoveryEntry(r, p, port))

BeginDiscovery(r, p, d, port) ==
  /\ TouchDiscovery(r, p, d, port)
  /\ UNCHANGED <<roomVars, peerVars, hostVars, gameplay>>

(* The targets begin_discovery returns: the live hosts of the room.         *)
DiscoveryTargets(r) ==
  {h \in rooms[r].host_sessions : h \in DOMAIN hosts /\ hosts[h].ttl > 0}

(* route_discovery_response(d, h) returns Ok: h may answer d.               *)
MayAnswer_bug(d, h) ==
  /\ d \in DOMAIN discoveries /\ discoveries[d].ttl > 0
  /\ h \in DOMAIN hosts /\ hosts[h].ttl > 0

MayAnswer(d, h) ==
  /\ d \in DOMAIN discoveries /\ discoveries[d].ttl > 0
  /\ h \in DOMAIN hosts /\ hosts[h].ttl > 0
  /\ hosts[h].room_id = discoveries[d].room_id

SelectHost(r, p, h, g) ==
  /\ IsMember(r, p)
  /\ h \in DOMAIN hosts
  /\ hosts[h].room_id = r
  /\ hosts[h].ttl > 0
  /\ Cardinality(DOMAIN gameplay) < MaxGameplaySessions
  /\ g \notin DOMAIN gameplay
  /\ gameplay' = Put(gameplay, g,
                     [room_id |-> r, client_peer_id |-> p,
                      host_peer_id |-> hosts[h].peer_id,
                      host_virtual_ip |-> hosts[h].virtual_ip,
                      client_virtual_ip |-> peers[p].virtual_ip,
                      ttl |-> GameplayIdleTtl])
  /\ UNCHANGED <<roomVars, peerVars, hostVars, discoveries>>

(* The route of a gameplay datagram: the other end of the session and the   *)
(* address stored for it.  A peer that is both ends is taken as the client. *)
GameplayRoute(g, source) ==
  IF source = gameplay[g].client_peer_id
  THEN [peer |-> gameplay[g].host_peer_id, ip |-> gameplay[g].host_virtual_ip]
  ELSE [peer |-> gameplay[g].client_peer_id, ip |-> gameplay[g].client_virtual_ip]

CanRoute(g, source) ==
  /\ g \in DOMAIN gameplay
  /\ gameplay[g].ttl > 0
  /\ source \in {gameplay[g].client_peer_id, gameplay[g].host_peer_id}

TouchGameplay(g, source) ==
  /\ CanRoute(g, source)
  /\ gameplay' = [gameplay EXCEPT ![g].ttl = GameplayIdleTtl]

(* Traffic that keeps the host session alive as well.                       *)
RouteGameplayDatagram_bug(g, source) ==
  /\ TouchGameplay(g, source)
  /\ hosts' = [h \in DOMAIN hosts |->
                 IF hosts[h].peer_id = source
                 THEN [hosts[h] EXCEPT !.ttl = HostTtl] ELSE hosts[h]]
  /\ UNCHANGED <<roomVars, peerVars, host_by_peer, discoveries>>

RouteGameplayDatagram(g, source) ==
  /\ TouchGameplay(g, source)
  /\ UNCHANGED <<roomVars, peerVars, hostVars, discoveries>>

RemoveGameplaySession(g) ==
  /\ g \in DOMAIN gameplay
  /\ gameplay' = Without(gameplay, {g})
  /\ UNCHANGED <<roomVars, peerVars, hostVars, discoveries>>

-----------------------------------------------------------------------------
(* The sweep, and the clock.                                                *)

Lapsed(table) == {k \in DOMAIN table : table[k].ttl = 0}

(* Connected peers not seen for peer_ttl, and suspended ones whose grace    *)
(* period is over.                                                          *)
Silent_bug == {p \in DOMAIN peers : peers[p].disconnected \/ peers[p].lease = 0}
Lost_bug   == {p \in DOMAIN peers : peers[p].lease = 0}
Silent == {p \in DOMAIN peers : ~peers[p].disconnected /\ peers[p].lease = 0}
Lost   == {p \in DOMAIN peers : peers[p].disconnected /\ peers[p].lease = 0}

Suspended(peer) == [peer EXCEPT !.disconnected = TRUE, !.lease = PeerGraceTtl]

(* expire(now): everything past its deadline goes; then disconnect_peer for *)
(* every silent peer, which suspends it for peer_grace_ttl; then leave_room *)
(* for every lost one.  A peer suspended here is not lost yet: the grace    *)
(* period is not zero.                                                      *)
Expire ==
  /\ Purge(Lapsed(hosts) \cup HostsOf(Silent \cup Lost),
           Lapsed(discoveries) \cup DiscoveriesOf(Silent \cup Lost),
           Lapsed(gameplay) \cup GameplayOf(Silent \cup Lost), Lost)
  /\ peers' = [p \in DOMAIN peers \ Lost |->
                 IF p \in Silent THEN Suspended(peers[p]) ELSE peers[p]]
  /\ virtual_ips' = Without(virtual_ips, {peers[p].virtual_ip : p \in Lost})
  /\ UNCHANGED rooms_by_code

(* restore_persisted_state into an empty router (state.rs): create_room_with_id *)
(* for every stored room, restore_peer for every stored peer.  A row beyond a   *)
(* limit makes it fail, and the process does not start.                         *)
Restorable(codes, rows) ==
  /\ Cardinality(DOMAIN codes) <= MaxRooms
  /\ Cardinality(DOMAIN rows) <= MaxTotalPeers
  /\ \A r \in DOMAIN codes :
       Cardinality(InRoom(rows, DOMAIN rows, r)) <= MaxPeersPerRoom

Restore(codes, rows) ==
  /\ rooms' = [r \in DOMAIN codes |->
                 [code |-> codes[r], members |-> InRoom(rows, DOMAIN rows, r),
                  host_sessions |-> {}]]
  /\ rooms_by_code' = [c \in {codes[r] : r \in DOMAIN codes} |->
                         CHOOSE r \in DOMAIN codes : codes[r] = c]
  /\ peers' = [p \in DOMAIN rows |->
                 [room_id |-> rows[p].room_id, virtual_ip |-> rows[p].virtual_ip,
                  disconnected |-> FALSE, lease |-> PeerTtl, epoch |-> 1]]
  /\ virtual_ips' = [ip \in {rows[p].virtual_ip : p \in DOMAIN rows} |->
                       CHOOSE p \in DOMAIN rows : rows[p].virtual_ip = ip]
  /\ hosts' = NoTables /\ host_by_peer' = NoTables
  /\ discoveries' = NoTables /\ gameplay' = NoTables

Less(n) == IF n > 0 THEN n - 1 ELSE 0
Aged(table) == [k \in DOMAIN table |-> [table[k] EXCEPT !.ttl = Less(@)]]

Tick ==
  /\ peers' = [p \in DOMAIN peers |-> [peers[p] EXCEPT !.lease = Less(@)]]
  /\ hosts' = Aged(hosts)
  /\ discoveries' = Aged(discoveries)
  /\ gameplay' = Aged(gameplay)
  /\ UNCHANGED <<roomVars, virtual_ips, host_by_peer>>

-----------------------------------------------------------------------------
RoomNext ==
  \E r \in RoomId :
    \/ \E c \in RoomCode : CreateRoomWithId(r, c)
    \/ RemoveEmptyRoom(r)

PeerNext ==
  \E p \in PeerId :
    \/ MarkPeerSeen(p)
    \/ \E r \in RoomId :
         \/ \E ip \in VirtualIp : JoinRoom(r, p, ip)
         \/ ResumePeer(r, p)
         \/ LeaveRoom(r, p)

HostNext ==
  \E h \in HostSessionId :
    \/ UnregisterHost(h)
    \/ \E r \in RoomId, p \in PeerId :
         \/ RegisterNewHost(r, p, h)
         \/ HeartbeatHost(r, p, h)

RegisterAgain == \E r \in RoomId, p \in PeerId : RegisterExistingHost(r, p)

DiscoveryNext ==
  \E r \in RoomId, p \in PeerId, d \in DiscoveryRequestId, port \in DiscoveryPort :
    BeginDiscovery(r, p, d, port)

GameplayNext ==
  \E g \in GameplaySessionId :
    \/ \E r \in RoomId, p \in PeerId, h \in HostSessionId : SelectHost(r, p, h, g)
    \/ \E p \in PeerId : RouteGameplayDatagram(g, p)
    \/ RemoveGameplaySession(g)

Next == RoomNext \/ PeerNext \/ HostNext \/ RegisterAgain
          \/ DiscoveryNext \/ GameplayNext \/ Expire \/ Tick

Spec == Init /\ [][Next]_vars

(* Time passes, and relay.rs runs the sweep once a second for as long as    *)
(* the relay loop runs.  No request is ever promised to arrive.             *)
FairSpec == Spec /\ WF_vars(Tick) /\ WF_vars(Expire)

-----------------------------------------------------------------------------
(* Properties.                                                              *)

IsTable(f, K, V) == DOMAIN f \subseteq K /\ f \in [DOMAIN f -> V]

(* Every table of struct RoomRouter keeps its Rust type.                    *)
TypeOK ==
  /\ IsTable(rooms, RoomId, RoomState)
  /\ IsTable(rooms_by_code, RoomCode, RoomId)
  /\ IsTable(peers, PeerId, PeerState)
  /\ IsTable(virtual_ips, VirtualIp, PeerId)
  /\ IsTable(hosts, HostSessionId, HostState)
  /\ IsTable(host_by_peer, RoomId \X PeerId, HostSessionId)
  /\ IsTable(discoveries, DiscoveryRequestId, DiscoveryState)
  /\ IsTable(gameplay, GameplaySessionId, GameplayState)

CodesMatchRooms ==
  /\ \A r \in DOMAIN rooms : /\ rooms[r].code \in DOMAIN rooms_by_code
                             /\ rooms_by_code[rooms[r].code] = r
  /\ \A c \in DOMAIN rooms_by_code : /\ rooms_by_code[c] \in DOMAIN rooms
                                     /\ rooms[rooms_by_code[c]].code = c

MembersMatchPeers ==
  /\ \A p \in DOMAIN peers : /\ peers[p].room_id \in DOMAIN rooms
                             /\ p \in rooms[peers[p].room_id].members
  /\ \A r \in DOMAIN rooms : \A p \in rooms[r].members :
       p \in DOMAIN peers /\ peers[p].room_id = r

AddressesMatchPeers ==
  /\ \A p \in DOMAIN peers : /\ peers[p].virtual_ip \in DOMAIN virtual_ips
                             /\ virtual_ips[peers[p].virtual_ip] = p
  /\ \A ip \in DOMAIN virtual_ips : /\ virtual_ips[ip] \in DOMAIN peers
                                    /\ peers[virtual_ips[ip]].virtual_ip = ip

HostsMatchRooms ==
  /\ \A h \in DOMAIN hosts : /\ hosts[h].room_id \in DOMAIN rooms
                             /\ h \in rooms[hosts[h].room_id].host_sessions
                             /\ HostKey(h) \in DOMAIN host_by_peer
                             /\ host_by_peer[HostKey(h)] = h
  /\ \A k \in DOMAIN host_by_peer : /\ host_by_peer[k] \in DOMAIN hosts
                                    /\ HostKey(host_by_peer[k]) = k
  /\ \A r \in DOMAIN rooms : \A h \in rooms[r].host_sessions :
       h \in DOMAIN hosts /\ hosts[h].room_id = r

(* The six hash maps that name one another agree in both directions after   *)
(* every method, so that none of the `expect("... was checked above")` of   *)
(* join_room, leave_room, register_host and begin_discovery can panic, a    *)
(* room that looks empty to remove_empty_room is empty, and an address or a *)
(* code that looks free is free.                                            *)
IndexConsistent ==
  /\ CodesMatchRooms
  /\ MembersMatchPeers
  /\ AddressesMatchPeers
  /\ HostsMatchRooms

(* p is in room r and ip is its address now.                                *)
At(r, p, ip) ==
  p \in DOMAIN peers /\ peers[p].room_id = r /\ peers[p].virtual_ip = ip

HostsInPlace ==
  \A h \in DOMAIN hosts :
    At(hosts[h].room_id, hosts[h].peer_id, hosts[h].virtual_ip)

DiscoveriesInPlace ==
  \A d \in DOMAIN discoveries :
    /\ discoveries[d].client_peer_id \in DOMAIN peers
    /\ peers[discoveries[d].client_peer_id].room_id = discoveries[d].room_id

SessionsInPlace ==
  \A g \in DOMAIN gameplay :
    /\ At(gameplay[g].room_id, gameplay[g].host_peer_id, gameplay[g].host_virtual_ip)
    /\ At(gameplay[g].room_id, gameplay[g].client_peer_id, gameplay[g].client_virtual_ip)

(* Room isolation.  Host, discovery and gameplay sessions store peer ids    *)
(* and addresses copied when they were made, and route_gameplay_datagram    *)
(* and the fan-out send to the copies without looking at `peers` again.     *)
(* Peers leave, come back, change room and inherit one another's address:   *)
(* still every copy names a peer that is in the session's room now, at the  *)
(* address that is its address now.                                         *)
RouteIntegrity ==
  /\ HostsInPlace
  /\ DiscoveriesInPlace
  /\ SessionsInPlace

(* No gameplay session without a host session of its host peer in its room: *)
(* every way a host session can end (unregister, expiry, replacement on     *)
(* register_host, leave, suspension) takes its gameplay sessions along.     *)
GameplayHasHost ==
  \A g \in DOMAIN gameplay :
    <<gameplay[g].room_id, gameplay[g].host_peer_id>> \in DOMAIN host_by_peer

(* The limits of RouterConfig hold whatever joins, leaves and sweeps happen.*)
WithinLimits ==
  /\ Cardinality(DOMAIN rooms) <= MaxRooms
  /\ Cardinality(DOMAIN peers) <= MaxTotalPeers
  /\ Cardinality(DOMAIN gameplay) <= MaxGameplaySessions
  /\ \A r \in DOMAIN rooms :
       /\ Cardinality(rooms[r].members) <= MaxPeersPerRoom
       /\ Cardinality(rooms[r].host_sessions) <= MaxHostsPerRoom

(* A gameplay session never outlives the host session it was made against:  *)
(* in the step in which a peer's host session ends or is replaced by another*)
(* one, every gameplay session that peer hosted in the room is gone.        *)
EndsGameplayOfHosts ==
  \A k \in DOMAIN host_by_peer :
    (k \in DOMAIN host_by_peer' => host_by_peer'[k] # host_by_peer[k]) =>
      \A g \in DOMAIN gameplay' :
        <<gameplay'[g].room_id, gameplay'[g].host_peer_id>> # k

GameplayEndsWithHost == [][EndsGameplayOfHosts]_vars

(* A suspended peer is connected again only under a later epoch (until the  *)
(* counter saturates), in the room and at the address it had; nothing else  *)
(* changes the epoch of a peer that stays (comment at lib.rs:511 and 545).  *)
RotatesEpochs ==
  \A p \in DOMAIN peers \cap DOMAIN peers' :
    /\ peers'[p].room_id = peers[p].room_id
    /\ peers'[p].virtual_ip = peers[p].virtual_ip
    /\ IF peers[p].disconnected /\ ~peers'[p].disconnected
       THEN peers'[p].epoch > peers[p].epoch \/ peers[p].epoch = MaxEpoch
       ELSE peers'[p].epoch = peers[p].epoch

ReconnectRotatesEpoch == [][RotatesEpochs]_vars

(* A connected peer is removed only by its own leave; the sweep suspends it *)
(* first and gives it the whole grace period.                               *)
GraceBeforeRemoval ==
  [][\A p \in DOMAIN peers \ DOMAIN peers' :
       \/ peers[p].disconnected /\ peers[p].lease = 0
       \/ LeaveRoom(peers[p].room_id, p)]_vars

-----------------------------------------------------------------------------
(* Liveness.                                                                *)

(* What keeps a peer in its room, and a host session registered.            *)
Contact(p) == MarkPeerSeen(p) \/ \E r \in RoomId : ResumePeer(r, p)
Heartbeat(h) ==
  \E r \in RoomId, p \in PeerId :
    HeartbeatHost(r, p, h) \/ RegisterNewHost(r, p, h)
                          \/ (RegisterExistingHost(r, p) /\ host_by_peer[<<r, p>>] = h)
Use(g) == \E p \in PeerId : RouteGameplayDatagram(g, p)

(* A peer that is never heard of again leaves the room and gives its        *)
(* address back, through suspension and the grace period.                   *)
SilentPeersLeave ==
  \A p \in PeerId :
    []<>(p \notin DOMAIN peers) \/ []<><<Contact(p)>>_vars

(* A host session that is no longer refreshed disappears, and with it all   *)
(* the gameplay sessions on it.                                             *)
SilentHostsEnd ==
  \A h \in HostSessionId :
    []<>(h \notin DOMAIN hosts) \/ []<><<Heartbeat(h)>>_vars

(* An idle gameplay session disappears.                                     *)
IdleGameplayEnds ==
  \A g \in GameplaySessionId :
    []<>(g \notin DOMAIN gameplay) \/ []<><<Use(g)>>_vars
=============================================================================

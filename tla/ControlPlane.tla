---------------------------- MODULE ControlPlane ----------------------------
(***************************************************************************)
(* The control API with a database and a WireGuard interface configured    *)
(* (src/server/src/api.rs, db.rs, wireguard.rs, state.rs, main.rs).        *)
(*                                                                         *)
(* A handler runs in a task.  It holds the lock of the router only for the *)
(* calls on it, and awaits the database and the `wg` command without it:   *)
(* tasks interleave at those points.  One action is one such stretch; a    *)
(* task stands `at` the effect it performs next.  When a step fails the    *)
(* handler undoes the earlier ones, each of which may fail in turn and is  *)
(* then left as it is (`let _ =`).                                         *)
(*                                                                         *)
(* A call on the database or on `wg` fails by a Fault, of which there are  *)
(* at most MaxFaults, and an INSERT also when a constraint of the schema   *)
(* forbids it.  A failed call has no effect.  The process may crash        *)
(* between any two steps, and is started again.                            *)
(*                                                                         *)
(* As in RoomRouter, a definition named <X>_bug is <X> with a mistake.     *)
(***************************************************************************)
EXTENDS RoomRouter

CONSTANTS Key,          \* WireGuard public keys
          Task,         \* requests being handled at the same time
          Retried,      \* the peers two requests at a time may be about
          SharedKeys,   \* a request to join may repeat the key of another peer
          DeletesRooms, \* clients delete rooms
          Timed,        \* time passes, and the sweep runs
          MaskedText,   \* virtual_ip::text ends in "/32"; see ReadsBack
          MaxFaults, MaxCrashes

ASSUME ControlAssumption ==
  /\ Retried \subseteq PeerId
  /\ {SharedKeys, DeletesRooms, Timed, MaskedText} \subseteq BOOLEAN
  /\ {MaxFaults, MaxCrashes} \subseteq Nat

VARIABLES db_rooms, db_peers, db_hosts, db_gameplay,  \* the tables of the schema
          wg,         \* the allowed IPs of every WireGuard peer, by its key
          peer_keys,  \* AppState.peer_keys
          tasks,      \* the requests in progress
          up,         \* the process runs
          faults, crashes

dbVars      == <<db_rooms, db_peers, db_hosts, db_gameplay>>
controlVars == <<dbVars, wg, peer_keys, tasks, up, faults, crashes>>
systemVars  == <<vars, controlVars>>

NoTask == [op |-> "none", at |-> "none", arg |-> NoTables]

ControlInit ==
  /\ Init
  /\ db_rooms = NoTables /\ db_peers = NoTables
  /\ db_hosts = NoTables /\ db_gameplay = NoTables
  /\ wg = NoTables /\ peer_keys = NoTables
  /\ tasks = [t \in Task |-> NoTask]
  /\ up = TRUE /\ faults = 0 /\ crashes = 0

-----------------------------------------------------------------------------
(* Tasks.                                                                   *)

Concerns(t, p) == "peer" \in DOMAIN tasks[t].arg /\ tasks[t].arg.peer = p

(* No other request in progress is about the same peer, or it may be.       *)
MayOverlap(arg) ==
  "peer" \in DOMAIN arg =>
    arg.peer \in Retried \/ \A u \in Task : ~Concerns(u, arg.peer)

Start(t, op, at, arg) ==
  /\ up
  /\ tasks[t].op = "none"
  /\ MayOverlap(arg)
  /\ tasks' = [tasks EXCEPT ![t] = [op |-> op, at |-> at, arg |-> arg]]
  /\ UNCHANGED <<dbVars, wg, peer_keys, up, faults, crashes>>

Stands(t, op, at) == tasks[t].op = op /\ tasks[t].at = at

Goto(t, at) == tasks' = [tasks EXCEPT ![t].at = at]
Return(t)   == tasks' = [tasks EXCEPT ![t] = NoTask]

Fault   == faults < MaxFaults /\ faults' = faults + 1
NoFault == UNCHANGED faults

-----------------------------------------------------------------------------
(* The database.                                                            *)

RoomRowFits(r, c) ==
  r \notin DOMAIN db_rooms /\ \A x \in DOMAIN db_rooms : db_rooms[x] # c

(* peer_id is the primary key, virtual_ip and wireguard_public_key are      *)
(* unique, room_id refers to a row of rooms.                                *)
PeerRow(a) == [room_id |-> a.room, virtual_ip |-> a.ip, key |-> a.key]
PeerRowFits_bug(a) ==
  /\ a.peer \notin DOMAIN db_peers
  /\ \A q \in DOMAIN db_peers : db_peers[q].virtual_ip # a.ip /\ db_peers[q].key # a.key

PeerRowFits(a) ==
  /\ a.room \in DOMAIN db_rooms
  /\ a.peer \notin DOMAIN db_peers
  /\ \A q \in DOMAIN db_peers : db_peers[q].virtual_ip # a.ip /\ db_peers[q].key # a.key

(* DELETE of the rooms R, peers P and hosts H, with what refers to them.    *)
DeleteRows(R, P, H) ==
  LET gonePeers == P \cup {p \in DOMAIN db_peers : db_peers[p].room_id \in R}
      goneHosts == H \cup {h \in DOMAIN db_hosts : \/ db_hosts[h].room_id \in R
                                                   \/ db_hosts[h].peer_id \in gonePeers}
      goneGames == {g \in DOMAIN db_gameplay :
                      \/ db_gameplay[g].room_id \in R
                      \/ db_gameplay[g].client_peer_id \in gonePeers
                      \/ db_gameplay[g].host_session_id \in goneHosts}
  IN  /\ db_rooms' = Without(db_rooms, R)
      /\ db_peers' = Without(db_peers, gonePeers)
      /\ db_hosts' = Without(db_hosts, goneHosts)
      /\ db_gameplay' = Without(db_gameplay, goneGames)

InsertPeerRow(a) ==
  /\ db_peers' = Put(db_peers, a.peer, PeerRow(a))
  /\ UNCHANGED <<db_rooms, db_hosts, db_gameplay>>

-----------------------------------------------------------------------------
(* WireGuard.  `wg set peer K allowed-ips A/32` replaces the list of K, and *)
(* takes A from any other peer of the interface.                            *)
(* The address added to those of the key; the whole configuration replaced. *)
WithTunnel_bugAppend(tunnels, k, ip) ==
  [x \in DOMAIN tunnels \cup {k} |->
     IF x # k THEN tunnels[x] \ {ip}
     ELSE IF k \in DOMAIN tunnels THEN tunnels[k] \cup {ip} ELSE {ip}]

WithTunnel_bugReplace(tunnels, k, ip) == [x \in {k} |-> {ip}]

WithTunnel(tunnels, k, ip) ==
  [x \in DOMAIN tunnels \cup {k} |-> IF x = k THEN {ip} ELSE tunnels[x] \ {ip}]

AddPeer(a) ==
  \/ wg' = WithTunnel(wg, a.key, a.ip) /\ NoFault
  \/ Fault /\ UNCHANGED wg

RemovePeer_bug(a) == UNCHANGED wg /\ NoFault

RemovePeer(a) ==
  \/ wg' = Without(wg, {a.key}) /\ NoFault
  \/ Fault /\ UNCHANGED wg

-----------------------------------------------------------------------------
(* Rooms.  Ids made by the server are fresh.                                *)

CreateRoom(t, r, c) ==
  /\ r \notin DOMAIN db_rooms
  /\ CreateRoomWithId(r, c)
  /\ Start(t, "create_room", "insert", [room |-> r, code |-> c])

InsertRoom(t) ==
  LET a == tasks[t].arg
  IN  /\ Stands(t, "create_room", "insert")
      /\ \/ /\ RoomRowFits(a.room, a.code)
            /\ db_rooms' = Put(db_rooms, a.room, a.code)
            /\ UNCHANGED <<db_peers, db_hosts, db_gameplay>>
            /\ NoFault /\ Return(t)
         \/ /\ (~RoomRowFits(a.room, a.code) /\ NoFault) \/ Fault
            /\ UNCHANGED dbVars /\ Goto(t, "remove")
      /\ UNCHANGED <<vars, wg, peer_keys, up, crashes>>

LooksEmpty(r) ==
  r \in DOMAIN rooms /\ rooms[r].members = {} /\ rooms[r].host_sessions = {}

DeleteRoom(t, r) ==
  /\ DeletesRooms
  /\ LooksEmpty(r)
  /\ Start(t, "delete_room", "delete", [room |-> r])
  /\ UNCHANGED vars

DeleteRoomRow(t) ==
  /\ Stands(t, "delete_room", "delete")
  /\ \/ DeleteRows({tasks[t].arg.room}, {}, {}) /\ NoFault /\ Goto(t, "remove")
     \/ UNCHANGED dbVars /\ Fault /\ Return(t)
  /\ UNCHANGED <<vars, wg, peer_keys, up, crashes>>

(* The compensation of create_room, and the last step of delete_room: when  *)
(* somebody has joined meanwhile the room stays.                            *)
RemoveRoom(t) ==
  LET r == tasks[t].arg.room
  IN  /\ Stands(t, "create_room", "remove") \/ Stands(t, "delete_room", "remove")
      /\ \/ RemoveEmptyRoom(r)
         \/ ~LooksEmpty(r) /\ UNCHANGED vars
      /\ Return(t)
      /\ UNCHANGED <<dbVars, wg, peer_keys, up, faults, crashes>>

-----------------------------------------------------------------------------
(* join_room: router, WireGuard, database, peer_keys.                       *)

(* The keys recorded for peers other than p.                                *)
KeysOfOthers(p) ==
  {peer_keys[q] : q \in DOMAIN peer_keys \ {p}}
    \cup {db_peers[q].key : q \in DOMAIN db_peers \ {p}}
    \cup {tasks[t].arg.key : t \in {u \in Task : /\ "key" \in DOMAIN tasks[u].arg
                                                 /\ ~Concerns(u, p)}}

(* The address is one that is free in the router: requested, or the first   *)
(* free one.                                                                *)
Join(t, r, p, ip, k) ==
  /\ SharedKeys \/ k \notin KeysOfOthers(p)
  /\ JoinRoom(r, p, ip)
  /\ Start(t, "join_room", "tunnel", [room |-> r, peer |-> p, ip |-> ip, key |-> k])

JoinTunnel(t) ==
  /\ Stands(t, "join_room", "tunnel")
  /\ AddPeer(tasks[t].arg)
  /\ Goto(t, IF faults' = faults THEN "insert" ELSE "leave")
  /\ UNCHANGED <<vars, dbVars, peer_keys, up, crashes>>

JoinInsert(t) ==
  LET a == tasks[t].arg
  IN  /\ Stands(t, "join_room", "insert")
      /\ \/ /\ PeerRowFits(a) /\ InsertPeerRow(a)
            /\ NoFault /\ Goto(t, "remember")
         \/ /\ (~PeerRowFits(a) /\ NoFault) \/ Fault
            /\ UNCHANGED dbVars /\ Goto(t, "untunnel")
      /\ UNCHANGED <<vars, wg, peer_keys, up, crashes>>

JoinUntunnel(t) ==
  /\ Stands(t, "join_room", "untunnel")
  /\ RemovePeer(tasks[t].arg)
  /\ Goto(t, "leave")
  /\ UNCHANGED <<vars, dbVars, peer_keys, up, crashes>>

IsIn(r, p) == r \in DOMAIN rooms /\ p \in rooms[r].members

JoinLeave_bug(t) ==
  /\ Stands(t, "join_room", "leave")
  /\ Return(t)
  /\ UNCHANGED <<vars, dbVars, wg, peer_keys, up, faults, crashes>>

JoinLeave(t) ==
  LET a == tasks[t].arg
  IN  /\ Stands(t, "join_room", "leave")
      /\ \/ LeaveRoom(a.room, a.peer)
         \/ ~IsIn(a.room, a.peer) /\ UNCHANGED vars
      /\ Return(t)
      /\ UNCHANGED <<dbVars, wg, peer_keys, up, faults, crashes>>

JoinRemember(t) ==
  LET a == tasks[t].arg
  IN  /\ Stands(t, "join_room", "remember")
      /\ peer_keys' = Put(peer_keys, a.peer, a.key)
      /\ Return(t)
      /\ UNCHANGED <<vars, dbVars, wg, up, faults, crashes>>

ResumeRoom(r, p) ==
  /\ up
  /\ ResumePeer(r, p)
  /\ UNCHANGED controlVars

-----------------------------------------------------------------------------
(* delete_peer: look the peer up, look its key up, WireGuard, database,     *)
(* router, peer_keys.                                                       *)

Delete(t, r, p) ==
  /\ p \in DOMAIN peers /\ peers[p].room_id = r
  /\ Start(t, "delete_peer", "key", [room |-> r, peer |-> p,
                                     ip |-> peers[p].virtual_ip])
  /\ UNCHANGED vars

DeleteFindKey(t) ==
  LET a == tasks[t].arg
  IN  /\ Stands(t, "delete_peer", "key")
      /\ \/ /\ a.peer \in DOMAIN peer_keys
            /\ tasks' = [tasks EXCEPT ![t] =
                 [op |-> "delete_peer", at |-> "untunnel",
                  arg |-> Put(a, "key", peer_keys[a.peer])]]
         \/ /\ a.peer \notin DOMAIN peer_keys
            /\ Return(t)
      /\ UNCHANGED <<vars, dbVars, wg, peer_keys, up, faults, crashes>>

DeleteUntunnel(t) ==
  /\ Stands(t, "delete_peer", "untunnel")
  /\ RemovePeer(tasks[t].arg)
  /\ IF faults' = faults THEN Goto(t, "delete") ELSE Return(t)
  /\ UNCHANGED <<vars, dbVars, peer_keys, up, crashes>>

(* The error of the database is lost.                                       *)
DeletePeerRow_bug(t) ==
  /\ Stands(t, "delete_peer", "delete")
  /\ \/ DeleteRows({}, {tasks[t].arg.peer}, {}) /\ NoFault
     \/ UNCHANGED dbVars /\ Fault
  /\ Goto(t, "leave")
  /\ UNCHANGED <<vars, wg, peer_keys, up, crashes>>

DeletePeerRow(t) ==
  /\ Stands(t, "delete_peer", "delete")
  /\ \/ DeleteRows({}, {tasks[t].arg.peer}, {}) /\ NoFault /\ Goto(t, "leave")
     \/ UNCHANGED dbVars /\ Fault /\ Goto(t, "retunnel")
  /\ UNCHANGED <<vars, wg, peer_keys, up, crashes>>

DeleteLeave(t) ==
  LET a == tasks[t].arg
  IN  /\ Stands(t, "delete_peer", "leave")
      /\ \/ LeaveRoom(a.room, a.peer) /\ Goto(t, "forget")
         \/ ~IsIn(a.room, a.peer) /\ UNCHANGED vars /\ Goto(t, "reinsert")
      /\ UNCHANGED <<dbVars, wg, peer_keys, up, faults, crashes>>

DeleteForget_bug(t) ==
  /\ Stands(t, "delete_peer", "forget")
  /\ Return(t)
  /\ UNCHANGED <<vars, dbVars, wg, peer_keys, up, faults, crashes>>

DeleteForget(t) ==
  /\ Stands(t, "delete_peer", "forget")
  /\ peer_keys' = Without(peer_keys, {tasks[t].arg.peer})
  /\ Return(t)
  /\ UNCHANGED <<vars, dbVars, wg, up, faults, crashes>>

(* The peer could not leave: the row and the tunnel are put back.           *)
DeleteReinsert(t) ==
  LET a == tasks[t].arg
  IN  /\ Stands(t, "delete_peer", "reinsert")
      /\ \/ PeerRowFits(a) /\ InsertPeerRow(a) /\ NoFault
         \/ ((~PeerRowFits(a) /\ NoFault) \/ Fault) /\ UNCHANGED dbVars
      /\ Goto(t, "retunnel")
      /\ UNCHANGED <<vars, wg, peer_keys, up, crashes>>

DeleteRetunnel(t) ==
  /\ Stands(t, "delete_peer", "retunnel")
  /\ AddPeer(tasks[t].arg)
  /\ Return(t)
  /\ UNCHANGED <<vars, dbVars, peer_keys, up, crashes>>

-----------------------------------------------------------------------------
(* Host and gameplay sessions.  heartbeat_host updates times in its row,    *)
(* which nothing reads.                                                     *)

RegisterHost(t, r, p, h) ==
  /\ \/ h \notin DOMAIN db_hosts /\ RegisterNewHost(r, p, h)
     \/ RegisterExistingHost(r, p) /\ h = host_by_peer[<<r, p>>]
  /\ Start(t, "register_host", "upsert", [room |-> r, peer |-> p, host |-> h])

(* The other rows of this peer in this room go, and with them their         *)
(* gameplay rows; the row needs its room and its peer.                      *)
UpsertHost(t) ==
  LET a     == tasks[t].arg
      other == {h \in DOMAIN db_hosts \ {a.host} :
                  db_hosts[h] = [room_id |-> a.room, peer_id |-> a.peer]}
      fits  == a.room \in DOMAIN db_rooms /\ a.peer \in DOMAIN db_peers
  IN  /\ Stands(t, "register_host", "upsert")
      /\ \/ /\ fits
            /\ db_hosts' = Put(Without(db_hosts, other), a.host,
                               [room_id |-> a.room, peer_id |-> a.peer])
            /\ db_gameplay' = Without(db_gameplay,
                 {g \in DOMAIN db_gameplay : db_gameplay[g].host_session_id \in other})
            /\ UNCHANGED <<db_rooms, db_peers>>
            /\ NoFault /\ Return(t)
         \/ /\ (~fits /\ NoFault) \/ Fault
            /\ UNCHANGED dbVars /\ Goto(t, "unregister")
      /\ UNCHANGED <<vars, wg, peer_keys, up, crashes>>

DeleteHost(t, r, h) ==
  /\ h \in DOMAIN hosts /\ hosts[h].room_id = r
  /\ Start(t, "delete_host", "delete", [host |-> h])
  /\ UNCHANGED vars

DeleteHostRow(t) ==
  /\ Stands(t, "delete_host", "delete")
  /\ \/ DeleteRows({}, {}, {tasks[t].arg.host}) /\ NoFault /\ Goto(t, "unregister")
     \/ UNCHANGED dbVars /\ Fault /\ Return(t)
  /\ UNCHANGED <<vars, wg, peer_keys, up, crashes>>

UnregisterStep(t) ==
  LET h == tasks[t].arg.host
  IN  /\ Stands(t, "register_host", "unregister") \/ Stands(t, "delete_host", "unregister")
      /\ \/ UnregisterHost(h)
         \/ h \notin DOMAIN hosts /\ UNCHANGED vars
      /\ Return(t)
      /\ UNCHANGED <<dbVars, wg, peer_keys, up, faults, crashes>>

CreateGameplay(t, r, p, h, g) ==
  /\ g \notin DOMAIN db_gameplay
  /\ SelectHost(r, p, h, g)
  /\ Start(t, "create_gameplay_session", "insert",
           [room |-> r, peer |-> p, host |-> h, session |-> g])

InsertGameplay(t) ==
  LET a    == tasks[t].arg
      fits == /\ a.room \in DOMAIN db_rooms /\ a.peer \in DOMAIN db_peers
              /\ a.host \in DOMAIN db_hosts
  IN  /\ Stands(t, "create_gameplay_session", "insert")
      /\ \/ /\ fits
            /\ db_gameplay' = Put(db_gameplay, a.session,
                 [room_id |-> a.room, client_peer_id |-> a.peer,
                  host_session_id |-> a.host])
            /\ UNCHANGED <<db_rooms, db_peers, db_hosts>>
            /\ NoFault /\ Return(t)
         \/ /\ (~fits /\ NoFault) \/ Fault
            /\ UNCHANGED dbVars /\ Goto(t, "remove")
      /\ UNCHANGED <<vars, wg, peer_keys, up, crashes>>

RemoveGameplay(t) ==
  LET g == tasks[t].arg.session
  IN  /\ Stands(t, "create_gameplay_session", "remove")
      /\ \/ RemoveGameplaySession(g)
         \/ g \notin DOMAIN gameplay /\ UNCHANGED vars
      /\ Return(t)
      /\ UNCHANGED <<dbVars, wg, peer_keys, up, faults, crashes>>

-----------------------------------------------------------------------------
(* The process.                                                             *)

(* Everything in memory is lost; the interface keeps its peers, unless the  *)
(* machine goes down too.                                                   *)
Crash ==
  /\ up /\ crashes < MaxCrashes
  /\ up' = FALSE /\ crashes' = crashes + 1
  /\ Restore(NoTables, NoTables)
  /\ peer_keys' = NoTables
  /\ tasks' = [t \in Task |-> NoTask]
  /\ wg' = wg \/ wg' = NoTables
  /\ UNCHANGED <<dbVars, faults>>

(* restore_wireguard_peers adds every stored peer to what the interface has.*)
RestoredKeys == [p \in DOMAIN db_peers |-> db_peers[p].key]

RestoredTunnels_bug == wg
RestoredTunnels ==
  LET addresses(k) == {db_peers[p].virtual_ip :
                         p \in {q \in DOMAIN db_peers : db_peers[q].key = k}}
      stored == {db_peers[p].key : p \in DOMAIN db_peers}
      routed == UNION {addresses(k) : k \in stored}
  IN  [k \in DOMAIN wg \cup stored |->
         IF k \in stored THEN addresses(k) ELSE wg[k] \ routed]

(* load_state selects virtual_ip::text and parses it as an Ipv4Addr.  The   *)
(* column has type INET, whose cast to text carries the mask in PostgreSQL  *)
(* ("10.240.0.2/32"), and the parser takes no mask: one stored peer is      *)
(* enough for the process not to start (MaskedText).  The runs about the    *)
(* rest of the start take the text without the mask, as the code means it.  *)
ReadsBack == ~MaskedText \/ db_peers = NoTables

(* load_state, clear_ephemeral_sessions, restore_persisted_state and        *)
(* restore_wireguard_peers, before the API is served.                       *)
StartUp ==
  /\ ~up
  /\ ReadsBack
  /\ Restorable(db_rooms, db_peers)
  /\ Restore(db_rooms, db_peers)
  /\ up' = TRUE
  /\ db_hosts' = NoTables /\ db_gameplay' = NoTables
  /\ peer_keys' = RestoredKeys
  /\ wg' = RestoredTunnels
  /\ UNCHANGED <<db_rooms, db_peers, tasks, faults, crashes>>

(* The relay's part of the process, and the requests that only touch the    *)
(* router.                                                                  *)
RelayStep ==
  /\ up
  /\ \/ \E p \in PeerId : MarkPeerSeen(p)
     \/ \E r \in RoomId, p \in PeerId, h \in HostSessionId : HeartbeatHost(r, p, h)
     \/ Timed /\ (Expire \/ Tick)
  /\ UNCHANGED controlVars

-----------------------------------------------------------------------------
NewRequest(t) ==
  \/ \E r \in RoomId :
       \/ \E c \in RoomCode : CreateRoom(t, r, c)
       \/ DeleteRoom(t, r)
       \/ \E p \in PeerId :
            \/ \E ip \in VirtualIp, k \in Key : Join(t, r, p, ip, k)
            \/ Delete(t, r, p)
            \/ \E h \in HostSessionId :
                 \/ RegisterHost(t, r, p, h)
                 \/ \E g \in GameplaySessionId : CreateGameplay(t, r, p, h, g)
       \/ \E h \in HostSessionId : DeleteHost(t, r, h)

NextStep(t) ==
  \/ InsertRoom(t) \/ DeleteRoomRow(t) \/ RemoveRoom(t)
  \/ JoinTunnel(t) \/ JoinInsert(t) \/ JoinUntunnel(t) \/ JoinLeave(t) \/ JoinRemember(t)
  \/ DeleteFindKey(t) \/ DeleteUntunnel(t) \/ DeletePeerRow(t) \/ DeleteLeave(t)
  \/ DeleteForget(t) \/ DeleteReinsert(t) \/ DeleteRetunnel(t)
  \/ UpsertHost(t) \/ DeleteHostRow(t) \/ UnregisterStep(t)
  \/ InsertGameplay(t) \/ RemoveGameplay(t)

ControlNext ==
  \/ \E t \in Task : NewRequest(t) \/ NextStep(t)
  \/ \E r \in RoomId, p \in PeerId : ResumeRoom(r, p)
  \/ RelayStep \/ Crash \/ StartUp

ControlSpec == ControlInit /\ [][ControlNext]_systemVars

-----------------------------------------------------------------------------
(* Properties.                                                              *)

(* The tables of the schema, the interface and the tasks keep their types.  *)
Arguments ==
  [room : RoomId, code : RoomCode] \cup [room : RoomId] \cup [host : HostSessionId]
    \cup [room : RoomId, peer : PeerId, ip : VirtualIp]
    \cup [room : RoomId, peer : PeerId, ip : VirtualIp, key : Key]
    \cup [room : RoomId, peer : PeerId, host : HostSessionId]
    \cup [room : RoomId, peer : PeerId, host : HostSessionId,
          session : GameplaySessionId]

ControlTypeOK ==
  /\ TypeOK
  /\ IsTable(db_rooms, RoomId, RoomCode)
  /\ IsTable(db_peers, PeerId, [room_id : RoomId, virtual_ip : VirtualIp, key : Key])
  /\ IsTable(db_hosts, HostSessionId, [room_id : RoomId, peer_id : PeerId])
  /\ IsTable(db_gameplay, GameplaySessionId,
             [room_id : RoomId, client_peer_id : PeerId,
              host_session_id : HostSessionId])
  /\ IsTable(wg, Key, {{}} \cup {{ip} : ip \in VirtualIp})
  /\ IsTable(peer_keys, PeerId, Key)
  /\ \A t \in Task : tasks[t].op = "none" \/ tasks[t].arg \in Arguments
  /\ <<up, faults, crashes>> \in BOOLEAN \X (0..MaxFaults) \X (0..MaxCrashes)

(* The process runs and no request is in progress.                          *)
Settled == up /\ \A t \in Task : tasks[t].op = "none"

(* Whatever requests have succeeded, failed half-way and been undone: when  *)
(* they are over the rows are the rooms and the peers of the router.        *)
RowsAgree ==
  Settled =>
    /\ db_rooms = [r \in DOMAIN rooms |-> rooms[r].code]
    /\ DOMAIN db_peers = DOMAIN peers
    /\ \A p \in DOMAIN peers :
         At(db_peers[p].room_id, p, db_peers[p].virtual_ip)

(* ... the key kept in memory for a peer is the stored one (without it      *)
(* delete_peer answers 500 for ever),                                       *)
KeysAgree ==
  Settled => peer_keys = [p \in DOMAIN db_peers |-> db_peers[p].key]

(* ... every peer has its tunnel, and, unless the process has crashed, every *)
(* tunnel a peer.                                                           *)
TunnelsMatchPeers ==
  Settled =>
    /\ \A p \in DOMAIN peers :
         /\ p \in DOMAIN peer_keys
         /\ \E k \in DOMAIN wg : peer_keys[p] = k /\ wg[k] = {peers[p].virtual_ip}
    /\ crashes = 0 => \A k \in DOMAIN wg : \E p \in DOMAIN peers :
         p \in DOMAIN peer_keys /\ peer_keys[p] = k

(* All four stores at once.                                                 *)
StoresAgree == RowsAgree /\ KeysAgree /\ TunnelsMatchPeers

(* docs/spec.md:270: the server checks that a peer's WireGuard key and its  *)
(* address belong together.  The relay takes a datagram for the peer that   *)
(* the router has at its source address, so the interface may give that     *)
(* address to no other key, at any moment.                                  *)
KeysOf(p) ==
  {peer_keys[q] : q \in DOMAIN peer_keys \cap {p}}
    \cup {tasks[t].arg.key : t \in {u \in Task : /\ Concerns(u, p)
                                                 /\ "key" \in DOMAIN tasks[u].arg}}

AddressBoundToKey ==
  up => \A k \in DOMAIN wg : \A ip \in wg[k] \cap DOMAIN virtual_ips :
          k \in KeysOf(virtual_ips[ip])

(* Whatever requests overlap, repeat one another, fail to undo what they    *)
(* did or are overtaken by the sweep: the row of a peer no request is about *)
(* may be missing, or left over from a peer that is gone, but if the router *)
(* knows the peer the row names its room and its address.  So what a        *)
(* restart restores moves no peer, unless that peer itself was named by     *)
(* overlapping requests: the later of two deletes may put a row back that   *)
(* is older than a join in between.                                         *)
RowsNeverContradict ==
  up => \A p \in (DOMAIN db_peers \cap DOMAIN peers) \ Retried :
          \/ \E t \in Task : Concerns(t, p)
          \/ At(db_peers[p].room_id, p, db_peers[p].virtual_ip)

(* And a restart heals what they left behind: as soon as the process is up  *)
(* again the rows, the router, the keys in memory and the tunnels agree, no *)
(* address is routed to a wrong key, and the maps of the router are as      *)
(* consistent as the proofs about it assume of the first state.             *)
RestartHeals ==
  [][~up /\ up' => (StoresAgree /\ AddressBoundToKey /\ IndexConsistent)']_systemVars

(* server/README.md:27: at start the rooms and the peers are restored.      *)
RestartSucceeds == ~up => ReadsBack /\ Restorable(db_rooms, db_peers)
=============================================================================

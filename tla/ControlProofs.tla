---------------------------- MODULE ControlProofs ----------------------------
(***************************************************************************)
(* Theorems about ControlPlane, for all constants: any number of requests  *)
(* at a time, of failures and of crashes, whatever the requests are and    *)
(* whatever the sweep does in between.                                     *)
(***************************************************************************)
EXTENDS ControlPlane, RoomRouterProofs

(* A request in progress: what each handler knows, and where it can stand.  *)
JoinArg     == [room : RoomId, peer : PeerId, ip : VirtualIp, key : Key]
PeerArg     == [room : RoomId, peer : PeerId, ip : VirtualIp]
HostArg     == [room : RoomId, peer : PeerId, host : HostSessionId]
GameplayArg == [room : RoomId, peer : PeerId, host : HostSessionId,
                session : GameplaySessionId]

Creation   == [op : {"create_room"}, at : {"insert", "remove"},
               arg : [room : RoomId, code : RoomCode]]
Deletion   == [op : {"delete_room"}, at : {"delete", "remove"}, arg : [room : RoomId]]
Joining    == [op : {"join_room"},
               at : {"tunnel", "insert", "untunnel", "leave", "remember"}, arg : JoinArg]
Searching  == [op : {"delete_peer"}, at : {"key"}, arg : PeerArg]
Leaving    == [op : {"delete_peer"},
               at : {"untunnel", "delete", "leave", "forget", "reinsert", "retunnel"},
               arg : JoinArg]
Registering == [op : {"register_host"}, at : {"upsert", "unregister"}, arg : HostArg]
Unhosting  == [op : {"delete_host"}, at : {"delete", "unregister"},
               arg : [host : HostSessionId]]
Playing    == [op : {"create_gameplay_session"}, at : {"insert", "remove"},
               arg : GameplayArg]

Request == {NoTask} \cup Creation \cup Deletion \cup Joining \cup Searching \cup Leaving
             \cup Registering \cup Unhosting \cup Playing

TasksTyped == tasks \in [Task -> Request]

(* What the fields of a request in progress are, and whom it is about.      *)
LEMMA RequestFacts ==
  ASSUME TasksTyped, NEW t \in Task
  PROVE  /\ tasks[t].op = "none" => tasks[t] = NoTask
         /\ tasks[t].op = "create_room" => tasks[t] \in Creation
         /\ tasks[t].op = "delete_room" => tasks[t] \in Deletion
         /\ tasks[t].op = "join_room" => tasks[t] \in Joining
         /\ tasks[t].op = "delete_peer" => tasks[t] \in Searching \cup Leaving
         /\ tasks[t].op = "register_host" => tasks[t] \in Registering
         /\ tasks[t].op = "delete_host" => tasks[t] \in Unhosting
         /\ tasks[t].op = "create_gameplay_session" => tasks[t] \in Playing
<1>1. tasks[t] \in Request
  BY DEF TasksTyped
<1>2. NoTask.op = "none"
  BY DEF NoTask
<1> QED BY <1>1, <1>2 DEF Request, Creation, Deletion, Joining, Searching, Leaving, Registering,
                          Unhosting, Playing

PeerOps == {"join_room", "delete_peer", "register_host", "create_gameplay_session"}

LEMMA RequestPeer ==
  ASSUME NEW x \in Request
  PROVE  "peer" \in DOMAIN x.arg <=> x.op \in PeerOps
<1>1. NoTask.op = "none" /\ DOMAIN NoTask.arg = {}
  BY DEF NoTask, NoTables
<1>2. CASE x = NoTask
  BY <1>1, <1>2 DEF PeerOps
<1>3. CASE x \in Creation \cup Deletion \cup Unhosting
  BY <1>3 DEF Creation, Deletion, Unhosting, PeerOps
<1>4. CASE x \in Joining \cup Searching \cup Leaving \cup Registering \cup Playing
  BY <1>4 DEF Joining, Searching, Leaving, Registering, Playing, JoinArg, PeerArg, HostArg,
              GameplayArg, PeerOps
<1> QED BY <1>2, <1>3, <1>4 DEF Request

LEMMA ConcernsFacts ==
  ASSUME TasksTyped, NEW t \in Task, NEW p
  PROVE  Concerns(t, p) <=> tasks[t].op \in PeerOps /\ tasks[t].arg.peer = p
  BY RequestPeer DEF TasksTyped, Concerns

LEMMA ConcernsNext ==
  ASSUME TasksTyped', NEW t \in Task, NEW p
  PROVE  Concerns(t, p)' <=> tasks'[t].op \in PeerOps /\ tasks'[t].arg.peer = p
  BY RequestPeer DEF TasksTyped, Concerns

(* A request that is taken up, moves on, or is answered; all others stay.   *)
LEMMA TaskFacts ==
  ASSUME TasksTyped, NEW t \in Task, NEW x \in Request,
         tasks' = [tasks EXCEPT ![t] = x]
  PROVE  /\ TasksTyped'
         /\ tasks'[t] = x
         /\ \A u \in Task : u # t => tasks'[u] = tasks[u]
  BY DEF TasksTyped

LEMMA ReturnFacts ==
  ASSUME TasksTyped, NEW t \in Task, Return(t)
  PROVE  /\ TasksTyped'
         /\ tasks'[t] = NoTask
         /\ \A u \in Task : u # t => tasks'[u] = tasks[u]
  BY DEF TasksTyped, Return, Request

LEMMA GotoFacts ==
  ASSUME TasksTyped, NEW t \in Task, NEW at, Goto(t, at),
         \/ tasks[t] \in Creation /\ at \in {"insert", "remove"}
         \/ tasks[t] \in Deletion /\ at \in {"delete", "remove"}
         \/ /\ tasks[t] \in Joining
            /\ at \in {"tunnel", "insert", "untunnel", "leave", "remember"}
         \/ /\ tasks[t] \in Leaving
            /\ at \in {"untunnel", "delete", "leave", "forget", "reinsert", "retunnel"}
         \/ tasks[t] \in Registering /\ at \in {"upsert", "unregister"}
         \/ tasks[t] \in Unhosting /\ at \in {"delete", "unregister"}
         \/ tasks[t] \in Playing /\ at \in {"insert", "remove"}
  PROVE  /\ TasksTyped'
         /\ tasks'[t].op = tasks[t].op /\ tasks'[t].at = at /\ tasks'[t].arg = tasks[t].arg
         /\ \A u \in Task : u # t => tasks'[u] = tasks[u]
<1> DEFINE x == [tasks[t] EXCEPT !.at = at]
<1>1. x \in Request /\ x.op = tasks[t].op /\ x.at = at /\ x.arg = tasks[t].arg
  <2>1. CASE tasks[t] \in Creation
    BY <2>1 DEF Request, Creation, Deletion, Joining, Leaving, Registering, Unhosting, Playing
  <2>2. CASE tasks[t] \in Deletion
    BY <2>2 DEF Request, Creation, Deletion, Joining, Leaving, Registering, Unhosting, Playing
  <2>3. CASE tasks[t] \in Joining
    BY <2>3 DEF Request, Creation, Deletion, Joining, Leaving, Registering, Unhosting, Playing
  <2>4. CASE tasks[t] \in Leaving
    BY <2>4 DEF Request, Creation, Deletion, Joining, Leaving, Registering, Unhosting, Playing
  <2>5. CASE tasks[t] \in Registering
    BY <2>5 DEF Request, Creation, Deletion, Joining, Leaving, Registering, Unhosting, Playing
  <2>6. CASE tasks[t] \in Unhosting
    BY <2>6 DEF Request, Creation, Deletion, Joining, Leaving, Registering, Unhosting, Playing
  <2>7. CASE tasks[t] \in Playing
    BY <2>7 DEF Request, Creation, Deletion, Joining, Leaving, Registering, Unhosting, Playing
  <2> QED BY <2>1, <2>2, <2>3, <2>4, <2>5, <2>6, <2>7
<1>2. tasks' = [tasks EXCEPT ![t] = x]
  BY DEF Goto
<1> HIDE DEF x
<1> QED BY <1>1, <1>2, TaskFacts

(* The key found by delete_peer is added to what it knows.                  *)
LEMMA FindKeyFacts ==
  ASSUME TasksTyped, IsTable(peer_keys, PeerId, Key), NEW t \in Task,
         DeleteFindKey(t), tasks[t].arg.peer \in DOMAIN peer_keys
  PROVE  /\ TasksTyped'
         /\ tasks'[t].op = "delete_peer" /\ tasks'[t].at = "untunnel"
         /\ tasks'[t].arg = [room |-> tasks[t].arg.room, peer |-> tasks[t].arg.peer,
                             ip |-> tasks[t].arg.ip, key |-> peer_keys[tasks[t].arg.peer]]
         /\ \A u \in Task : u # t => tasks'[u] = tasks[u]
<1> DEFINE a == tasks[t].arg
           k == peer_keys[a.peer]
           b == [room |-> a.room, peer |-> a.peer, ip |-> a.ip, key |-> k]
           x == [op |-> "delete_peer", at |-> "untunnel", arg |-> b]
<1>1. tasks[t] \in Searching
  BY RequestFacts DEF DeleteFindKey, Stands, Searching, Leaving
<1>2. a \in PeerArg
  BY <1>1 DEF Searching
<1>3. k \in Key
  BY DEF IsTable
<1>4. Put(a, "key", k) = b
  BY <1>2 DEF Put, PeerArg
<1>5. x \in Request
  BY <1>2, <1>3 DEF Request, Leaving, JoinArg, PeerArg
<1>6. tasks' = [tasks EXCEPT ![t] = x]
  BY <1>4 DEF DeleteFindKey
<1>7. x.op = "delete_peer" /\ x.at = "untunnel" /\ x.arg = b
  OBVIOUS
<1> HIDE DEF x
<1> QED BY <1>5, <1>6, <1>7, TaskFacts

(* No room or peer comes or goes; hosts may.                                *)
SameMembers ==
  /\ UNCHANGED peerVars
  /\ DOMAIN rooms' = DOMAIN rooms
  /\ \A r \in DOMAIN rooms : /\ rooms'[r].code = rooms[r].code
                             /\ rooms'[r].members = rooms[r].members

LEMMA HostStepFacts ==
  ASSUME TypeOK
  PROVE  /\ \A h \in HostSessionId : UnregisterHost(h) => SameMembers
         /\ \A r \in RoomId, p \in PeerId : RegisterExistingHost(r, p) => SameMembers
         /\ \A r \in RoomId, p \in PeerId, h \in HostSessionId :
              /\ RegisterNewHost(r, p, h) => SameMembers
              /\ HeartbeatHost(r, p, h) => SameMembers
              /\ \A g \in GameplaySessionId : SelectHost(r, p, h, g) => SameMembers
         /\ \A g \in GameplaySessionId : RemoveGameplaySession(g) => SameMembers
<1>1. UNCHANGED <<roomVars, peerVars>> => SameMembers
  BY DEF SameMembers, roomVars
<1>2. ASSUME NEW h \in HostSessionId, UnregisterHost(h) PROVE SameMembers
  BY <1>2 DEF UnregisterHost, Purge, SameMembers, TypeOK, IsTable, RoomState
<1>3. ASSUME NEW r \in RoomId, NEW p \in PeerId, NEW h \in HostSessionId, RegisterNewHost(r, p, h)
      PROVE  SameMembers
  BY <1>3 DEF RegisterNewHost, SameMembers, TypeOK, IsTable, RoomState
<1> QED BY <1>1, <1>2, <1>3
        DEF RegisterExistingHost, RefreshHost, HeartbeatHost, SelectHost, RemoveGameplaySession

(* What the first stretch of a handler has done when it gives the lock of   *)
(* the router back, by the request it has become.                           *)
Opened(x) ==
  \/ /\ x \in Creation /\ x.at = "insert"
     /\ x.arg.room \notin DOMAIN db_rooms
     /\ CreateRoomWithId(x.arg.room, x.arg.code)
  \/ /\ x \in Deletion /\ x.at = "delete"
     /\ DeletesRooms /\ LooksEmpty(x.arg.room) /\ UNCHANGED vars
  \/ /\ x \in Joining /\ x.at = "tunnel"
     /\ SharedKeys \/ x.arg.key \notin KeysOfOthers(x.arg.peer)
     /\ JoinRoom(x.arg.room, x.arg.peer, x.arg.ip)
  \/ /\ x \in Searching
     /\ At(x.arg.room, x.arg.peer, x.arg.ip) /\ UNCHANGED vars
  \/ x \in Registering /\ x.arg.peer \in DOMAIN peers /\ SameMembers
  \/ x \in Playing /\ x.arg.peer \in DOMAIN peers /\ SameMembers
  \/ x \in Unhosting /\ UNCHANGED vars

LEMMA StartFacts ==
  ASSUME TasksTyped, NEW t \in Task, NEW op, NEW at, NEW arg, Start(t, op, at, arg),
         [op |-> op, at |-> at, arg |-> arg] \in Request,
         Opened([op |-> op, at |-> at, arg |-> arg])
  PROVE  /\ TasksTyped' /\ Opened(tasks'[t])
         /\ MayOverlap(tasks'[t].arg)
         /\ up /\ tasks[t] = NoTask
         /\ \A u \in Task : u # t => tasks'[u] = tasks[u]
         /\ UNCHANGED <<dbVars, wg, peer_keys, up, faults, crashes>>
<1> DEFINE x == [op |-> op, at |-> at, arg |-> arg]
<1>1. x.arg = arg
  OBVIOUS
<1>2. tasks' = [tasks EXCEPT ![t] = x] /\ tasks[t] = NoTask
  BY RequestFacts DEF Start
<1> HIDE DEF x
<1>3. x \in Request /\ Opened(x)
  BY DEF x
<1> QED BY <1>1, <1>2, <1>3, TaskFacts DEF Start

LEMMA NewRequestFacts ==
  ASSUME TasksTyped, TypeOK, NEW t \in Task, NewRequest(t)
  PROVE  /\ TasksTyped' /\ Opened(tasks'[t])
         /\ MayOverlap(tasks'[t].arg)
         /\ up /\ tasks[t] = NoTask
         /\ \A u \in Task : u # t => tasks'[u] = tasks[u]
         /\ UNCHANGED <<dbVars, wg, peer_keys, up, faults, crashes>>
<1> DEFINE Starts == \E op, at, arg : /\ Start(t, op, at, arg)
                                      /\ [op |-> op, at |-> at, arg |-> arg] \in Request
                                      /\ Opened([op |-> op, at |-> at, arg |-> arg])
<1>1. ASSUME NEW r \in RoomId, NEW c \in RoomCode,
             CreateRoom(t, r, c)
      PROVE  Starts
  <2> DEFINE arg == [room |-> r, code |-> c]
             x   == [op |-> "create_room", at |-> "insert", arg |-> arg]
  <2>1. x \in Creation /\ x.at = "insert" /\ x.arg.room = r /\ x.arg.code = c
    BY DEF Creation
  <2>2. Start(t, "create_room", "insert", arg)
    BY <1>1 DEF CreateRoom
  <2>3. Opened(x) /\ x \in Request
    <3> HIDE DEF x
    <3> QED BY <1>1, <2>1, HostStepFacts DEF CreateRoom, Opened, Request
  <2> QED BY <2>2, <2>3
<1>2. ASSUME NEW r \in RoomId,
             DeleteRoom(t, r)
      PROVE  Starts
  <2> DEFINE arg == [room |-> r]
             x   == [op |-> "delete_room", at |-> "delete", arg |-> arg]
  <2>1. x \in Deletion /\ x.at = "delete" /\ x.arg.room = r
    BY DEF Deletion
  <2>2. Start(t, "delete_room", "delete", arg)
    BY <1>2 DEF DeleteRoom
  <2>3. Opened(x) /\ x \in Request
    <3> HIDE DEF x
    <3> QED BY <1>2, <2>1, HostStepFacts DEF DeleteRoom, Opened, Request
  <2> QED BY <2>2, <2>3
<1>3. ASSUME NEW r \in RoomId, NEW p \in PeerId, NEW ip \in VirtualIp, NEW k \in Key,
             Join(t, r, p, ip, k)
      PROVE  Starts
  <2> DEFINE arg == [room |-> r, peer |-> p, ip |-> ip, key |-> k]
             x   == [op |-> "join_room", at |-> "tunnel", arg |-> arg]
  <2>1. /\ x \in Joining /\ x.at = "tunnel" /\ x.arg.room = r
        /\ x.arg.peer = p /\ x.arg.ip = ip /\ x.arg.key = k
    BY DEF Joining, JoinArg
  <2>2. Start(t, "join_room", "tunnel", arg)
    BY <1>3 DEF Join
  <2>3. Opened(x) /\ x \in Request
    <3> HIDE DEF x
    <3> QED BY <1>3, <2>1, HostStepFacts DEF Join, Opened, Request
  <2> QED BY <2>2, <2>3
<1>4. ASSUME NEW r \in RoomId, NEW p \in PeerId,
             Delete(t, r, p)
      PROVE  Starts
  <2> DEFINE arg == [room |-> r, peer |-> p, ip |-> peers[p].virtual_ip]
             x   == [op |-> "delete_peer", at |-> "key", arg |-> arg]
  <2>1. /\ x \in Searching /\ x.arg.room = r
        /\ x.arg.peer = p /\ x.arg.ip = peers[p].virtual_ip
    BY <1>4 DEF Searching, PeerArg, TypeOK, IsTable, PeerState, Delete
  <2>2. Start(t, "delete_peer", "key", arg)
    BY <1>4 DEF Delete, At
  <2>3. Opened(x) /\ x \in Request
    <3> HIDE DEF x
    <3> QED BY <1>4, <2>1, HostStepFacts DEF Delete, At, Opened, Request
  <2> QED BY <2>2, <2>3
<1>5. ASSUME NEW r \in RoomId, NEW p \in PeerId, NEW h \in HostSessionId,
             RegisterHost(t, r, p, h)
      PROVE  Starts
  <2> DEFINE arg == [room |-> r, peer |-> p, host |-> h]
             x   == [op |-> "register_host", at |-> "upsert", arg |-> arg]
  <2>1. x \in Registering /\ x.arg.peer = p
    BY DEF Registering, HostArg
  <2>2. Start(t, "register_host", "upsert", arg)
    BY <1>5 DEF RegisterHost, RegisterNewHost, RegisterExistingHost, IsMember
  <2>3. Opened(x) /\ x \in Request
    <3> HIDE DEF x
    <3> QED BY <1>5, <2>1, HostStepFacts DEF RegisterHost, RegisterNewHost, RegisterExistingHost, IsMember, Opened, Request
  <2> QED BY <2>2, <2>3
<1>6. ASSUME NEW r \in RoomId, NEW p \in PeerId, NEW h \in HostSessionId,
             NEW g \in GameplaySessionId,
             CreateGameplay(t, r, p, h, g)
      PROVE  Starts
  <2> DEFINE arg == [room |-> r, peer |-> p, host |-> h, session |-> g]
             x   == [op |-> "create_gameplay_session", at |-> "insert", arg |-> arg]
  <2>1. x \in Playing /\ x.arg.peer = p
    BY DEF Playing, GameplayArg
  <2>2. Start(t, "create_gameplay_session", "insert", arg)
    BY <1>6 DEF CreateGameplay, SelectHost, IsMember
  <2>3. Opened(x) /\ x \in Request
    <3> HIDE DEF x
    <3> QED BY <1>6, <2>1, HostStepFacts DEF CreateGameplay, SelectHost, IsMember, Opened, Request
  <2> QED BY <2>2, <2>3
<1>7. ASSUME NEW r \in RoomId, NEW h \in HostSessionId,
             DeleteHost(t, r, h)
      PROVE  Starts
  <2> DEFINE arg == [host |-> h]
             x   == [op |-> "delete_host", at |-> "delete", arg |-> arg]
  <2>1. x \in Unhosting
    BY DEF Unhosting
  <2>2. Start(t, "delete_host", "delete", arg)
    BY <1>7 DEF DeleteHost
  <2>3. Opened(x) /\ x \in Request
    <3> HIDE DEF x
    <3> QED BY <1>7, <2>1, HostStepFacts DEF DeleteHost, Opened, Request
  <2> QED BY <2>2, <2>3
<1>8. Starts
  BY <1>1, <1>2, <1>3, <1>4, <1>5, <1>6, <1>7 DEF NewRequest
<1> QED BY <1>8, StartFacts

(* A request stays what it is, until it is answered; delete_peer finds a key. *)
Continued(t) ==
  /\ tasks'[t].op = tasks[t].op
  /\ \/ tasks'[t].arg = tasks[t].arg
     \/ /\ tasks[t] \in Searching
        /\ tasks[t].arg.peer \in DOMAIN peer_keys
        /\ tasks'[t].at = "untunnel"
        /\ tasks'[t].arg = [room |-> tasks[t].arg.room, peer |-> tasks[t].arg.peer,
                            ip |-> tasks[t].arg.ip, key |-> peer_keys[tasks[t].arg.peer]]

LEMMA NextStepFacts ==
  ASSUME TasksTyped, IsTable(peer_keys, PeerId, Key), NEW t \in Task, NextStep(t)
  PROVE  /\ TasksTyped'
         /\ tasks[t].op # "none"
         /\ \A u \in Task : u # t => tasks'[u] = tasks[u]
         /\ tasks'[t] = NoTask \/ Continued(t)
<1>1. CASE InsertRoom(t)
  <2>1. tasks[t] \in Creation
    BY <1>1, RequestFacts DEF InsertRoom, Stands, Creation
  <2> QED BY <1>1, <2>1, GotoFacts, ReturnFacts DEF InsertRoom, Stands, Continued
<1>2. CASE DeleteRoomRow(t)
  <2>1. tasks[t] \in Deletion
    BY <1>2, RequestFacts DEF DeleteRoomRow, Stands, Deletion
  <2> QED BY <1>2, <2>1, GotoFacts, ReturnFacts DEF DeleteRoomRow, Stands, Continued
<1>3. CASE RemoveRoom(t)
  <2>1. tasks[t] \in Creation \cup Deletion
    BY <1>3, RequestFacts DEF RemoveRoom, Stands, Creation, Deletion
  <2> QED BY <1>3, <2>1, GotoFacts, ReturnFacts DEF RemoveRoom, Stands, Continued
<1>4. CASE JoinTunnel(t)
  <2>1. tasks[t] \in Joining
    BY <1>4, RequestFacts DEF JoinTunnel, Stands, Joining
  <2> QED BY <1>4, <2>1, GotoFacts, ReturnFacts DEF JoinTunnel, Stands, Continued
<1>5. CASE JoinInsert(t)
  <2>1. tasks[t] \in Joining
    BY <1>5, RequestFacts DEF JoinInsert, Stands, Joining
  <2> QED BY <1>5, <2>1, GotoFacts, ReturnFacts DEF JoinInsert, Stands, Continued
<1>6. CASE JoinUntunnel(t)
  <2>1. tasks[t] \in Joining
    BY <1>6, RequestFacts DEF JoinUntunnel, Stands, Joining
  <2> QED BY <1>6, <2>1, GotoFacts, ReturnFacts DEF JoinUntunnel, Stands, Continued
<1>7. CASE JoinLeave(t)
  <2>1. tasks[t] \in Joining
    BY <1>7, RequestFacts DEF JoinLeave, Stands, Joining
  <2> QED BY <1>7, <2>1, GotoFacts, ReturnFacts DEF JoinLeave, Stands, Continued
<1>8. CASE JoinRemember(t)
  <2>1. tasks[t] \in Joining
    BY <1>8, RequestFacts DEF JoinRemember, Stands, Joining
  <2> QED BY <1>8, <2>1, GotoFacts, ReturnFacts DEF JoinRemember, Stands, Continued
<1>9. CASE DeleteFindKey(t)
  <2>1. tasks[t] \in Searching
    BY <1>9, RequestFacts DEF DeleteFindKey, Stands, Searching, Leaving
  <2>2. CASE tasks[t].arg.peer \in DOMAIN peer_keys
    BY <1>9, <2>1, <2>2, FindKeyFacts DEF DeleteFindKey, Stands, Continued
  <2>3. CASE tasks[t].arg.peer \notin DOMAIN peer_keys
    BY <1>9, <2>1, <2>3, ReturnFacts DEF DeleteFindKey, Stands
  <2> QED BY <2>2, <2>3
<1>10. CASE DeleteUntunnel(t)
  <2>1. tasks[t] \in Leaving
    BY <1>10, RequestFacts DEF DeleteUntunnel, Stands, Leaving, Searching
  <2> QED BY <1>10, <2>1, GotoFacts, ReturnFacts DEF DeleteUntunnel, Stands, Continued
<1>11. CASE DeletePeerRow(t)
  <2>1. tasks[t] \in Leaving
    BY <1>11, RequestFacts DEF DeletePeerRow, Stands, Leaving, Searching
  <2> QED BY <1>11, <2>1, GotoFacts, ReturnFacts DEF DeletePeerRow, Stands, Continued
<1>12. CASE DeleteLeave(t)
  <2>1. tasks[t] \in Leaving
    BY <1>12, RequestFacts DEF DeleteLeave, Stands, Leaving, Searching
  <2> QED BY <1>12, <2>1, GotoFacts, ReturnFacts DEF DeleteLeave, Stands, Continued
<1>13. CASE DeleteForget(t)
  <2>1. tasks[t] \in Leaving
    BY <1>13, RequestFacts DEF DeleteForget, Stands, Leaving, Searching
  <2> QED BY <1>13, <2>1, GotoFacts, ReturnFacts DEF DeleteForget, Stands, Continued
<1>14. CASE DeleteReinsert(t)
  <2>1. tasks[t] \in Leaving
    BY <1>14, RequestFacts DEF DeleteReinsert, Stands, Leaving, Searching
  <2> QED BY <1>14, <2>1, GotoFacts, ReturnFacts DEF DeleteReinsert, Stands, Continued
<1>15. CASE DeleteRetunnel(t)
  <2>1. tasks[t] \in Leaving
    BY <1>15, RequestFacts DEF DeleteRetunnel, Stands, Leaving, Searching
  <2> QED BY <1>15, <2>1, GotoFacts, ReturnFacts DEF DeleteRetunnel, Stands, Continued
<1>16. CASE UpsertHost(t)
  <2>1. tasks[t] \in Registering
    BY <1>16, RequestFacts DEF UpsertHost, Stands, Registering
  <2> QED BY <1>16, <2>1, GotoFacts, ReturnFacts DEF UpsertHost, Stands, Continued
<1>17. CASE DeleteHostRow(t)
  <2>1. tasks[t] \in Unhosting
    BY <1>17, RequestFacts DEF DeleteHostRow, Stands, Unhosting
  <2> QED BY <1>17, <2>1, GotoFacts, ReturnFacts DEF DeleteHostRow, Stands, Continued
<1>18. CASE UnregisterStep(t)
  <2>1. tasks[t] \in Registering \cup Unhosting
    BY <1>18, RequestFacts DEF UnregisterStep, Stands, Registering, Unhosting
  <2> QED BY <1>18, <2>1, GotoFacts, ReturnFacts DEF UnregisterStep, Stands, Continued
<1>19. CASE InsertGameplay(t)
  <2>1. tasks[t] \in Playing
    BY <1>19, RequestFacts DEF InsertGameplay, Stands, Playing
  <2> QED BY <1>19, <2>1, GotoFacts, ReturnFacts DEF InsertGameplay, Stands, Continued
<1>20. CASE RemoveGameplay(t)
  <2>1. tasks[t] \in Playing
    BY <1>20, RequestFacts DEF RemoveGameplay, Stands, Playing
  <2> QED BY <1>20, <2>1, GotoFacts, ReturnFacts DEF RemoveGameplay, Stands, Continued
<1> QED BY <1>1, <1>2, <1>3, <1>4, <1>5, <1>6, <1>7, <1>8, <1>9, <1>10, <1>11, <1>12, <1>13, <1>14, <1>15, <1>16, <1>17, <1>18, <1>19, <1>20 DEF NextStep

-----------------------------------------------------------------------------
(* The inductive invariant.                                                 *)

DbPeer == [room_id : RoomId, virtual_ip : VirtualIp, key : Key]

StoreTypes ==
  /\ IsTable(db_rooms, RoomId, RoomCode)
  /\ IsTable(db_peers, PeerId, DbPeer)
  /\ IsTable(db_hosts, HostSessionId, [room_id : RoomId, peer_id : PeerId])
  /\ IsTable(db_gameplay, GameplaySessionId,
             [room_id : RoomId, client_peer_id : PeerId, host_session_id : HostSessionId])
  /\ IsTable(peer_keys, PeerId, Key)
  /\ TasksTyped
  /\ up \in BOOLEAN /\ faults \in 0..MaxFaults /\ crashes \in 0..MaxCrashes

TunnelTypes == IsTable(wg, Key, {{}} \cup {{ip} : ip \in VirtualIp})

(* What the constraints of the schema say of the rows.                      *)
Schema ==
  /\ \A r, x \in DOMAIN db_rooms : db_rooms[r] = db_rooms[x] => r = x
  /\ \A p \in DOMAIN db_peers : db_peers[p].room_id \in DOMAIN db_rooms
  /\ \A p, q \in DOMAIN db_peers :
       \/ db_peers[p].virtual_ip = db_peers[q].virtual_ip
       \/ db_peers[p].key = db_peers[q].key
       => p = q

(* While the process is down there is nothing in memory.                    *)
Down ==
  ~up => /\ \A t \in Task : tasks[t] = NoTask
         /\ crashes > 0
         /\ DOMAIN rooms = {} /\ DOMAIN peers = {} /\ DOMAIN peer_keys = {}

(* The peers named by one request at a time.                                *)
OneTask == \A t, u \in Task : t = u
Steady  == {p \in PeerId : p \notin Retried \/ OneTask}

OneAtATime ==
  \A p \in Steady : \A t, u \in Task : Concerns(t, p) /\ Concerns(u, p) => t = u

(* A request knows the room and the address the peer has in the router, if  *)
(* the router still has the peer.                                           *)
Moves(t, p) == tasks[t].op \in {"join_room", "delete_peer"} /\ tasks[t].arg.peer = p
InPlace ==
  \A t \in Task : \A p \in Steady \cap DOMAIN peers :
    Moves(t, p) => At(tasks[t].arg.room, p, tasks[t].arg.ip)

(* A row says what the router says, unless it is left over from an earlier  *)
(* stay and the peer is just joining again: that join fails, and leaves.    *)
Pending == {"tunnel", "insert", "untunnel", "leave"}
Joins(t, p, S)   == tasks[t].op = "join_room" /\ tasks[t].arg.peer = p /\ tasks[t].at \in S
RowAgrees(p)     == At(db_peers[p].room_id, p, db_peers[p].virtual_ip)
RowsMatch ==
  \A p \in Steady \cap DOMAIN db_peers \cap DOMAIN peers :
    RowAgrees(p) \/ \E t \in Task : Joins(t, p, Pending)

ControlInv ==
  /\ Routing /\ StoreTypes /\ TunnelTypes /\ Schema /\ Down
  /\ OneAtATime /\ InPlace /\ RowsMatch

-----------------------------------------------------------------------------
(* What each step does to the router and to the rows.                       *)

LEMMA OpenedIsNext ==
  ASSUME TypeOK, NEW t \in Task, NewRequest(t)
  PROVE  Next \/ UNCHANGED vars
  BY DEF NewRequest, CreateRoom, DeleteRoom, Join, Delete, RegisterHost, DeleteHost,
         CreateGameplay, Next, RoomNext, PeerNext, HostNext, RegisterAgain, GameplayNext

LEMMA NextStepIsNext ==
  ASSUME TasksTyped, NEW t \in Task, NextStep(t)
  PROVE  Next \/ UNCHANGED vars
<1>1. CASE RemoveRoom(t)
  <2>1. tasks[t].arg.room \in RoomId
    BY <1>1, RequestFacts DEF RemoveRoom, Stands, Creation, Deletion
  <2> QED BY <1>1, <2>1 DEF RemoveRoom, Next, RoomNext
<1>2. CASE JoinLeave(t) \/ DeleteLeave(t)
  <2>1. tasks[t].arg.room \in RoomId /\ tasks[t].arg.peer \in PeerId
    BY <1>2, RequestFacts DEF JoinLeave, DeleteLeave, Stands, Joining, Leaving, Searching,
                              JoinArg, PeerArg
  <2> QED BY <1>2, <2>1 DEF JoinLeave, DeleteLeave, Next, PeerNext
<1>3. CASE UnregisterStep(t)
  <2>1. tasks[t].arg.host \in HostSessionId
    BY <1>3, RequestFacts DEF UnregisterStep, Stands, Registering, Unhosting, HostArg
  <2> QED BY <1>3, <2>1 DEF UnregisterStep, Next, HostNext
<1>4. CASE RemoveGameplay(t)
  <2>1. tasks[t].arg.session \in GameplaySessionId
    BY <1>4, RequestFacts DEF RemoveGameplay, Stands, Playing, GameplayArg
  <2> QED BY <1>4, <2>1 DEF RemoveGameplay, Next, GameplayNext
<1> QED BY <1>1, <1>2, <1>3, <1>4
        DEF NextStep, InsertRoom, DeleteRoomRow, JoinTunnel, JoinInsert, JoinUntunnel,
            JoinRemember, DeleteFindKey, DeleteUntunnel, DeletePeerRow, DeleteForget,
            DeleteReinsert, DeleteRetunnel, UpsertHost, DeleteHostRow, InsertGameplay

LEMMA ProcessIsNext ==
  ASSUME RelayStep \/ \E r \in RoomId, p \in PeerId : ResumeRoom(r, p)
  PROVE  Next
  BY DEF RelayStep, ResumeRoom, Next, PeerNext, HostNext

LEMMA RouterSteps ==
  ASSUME TypeOK, TasksTyped, ControlNext
  PROVE  Next \/ UNCHANGED vars \/ Crash \/ StartUp
  BY OpenedIsNext, NextStepIsNext, ProcessIsNext DEF ControlNext

(* The router stays consistent, and is filled consistently.                 *)
LEMMA ControlKeepsRouting ==
  ASSUME Routing, StoreTypes, Schema, ControlNext
  PROVE  Routing'
<1>1. Next \/ UNCHANGED vars \/ Crash \/ StartUp
  BY RouterSteps DEF Routing, StoreTypes
<1>2. CASE Next \/ UNCHANGED vars
  BY <1>2, NextRouting
<1>3. CASE Crash
  BY <1>3, EmptyKeepsRouting DEF Crash
<1>4. CASE StartUp
  BY <1>4, RestoreKeepsRouting DEF StartUp, StoreTypes, Schema, IsTable, DbPeer
<1> QED BY <1>1, <1>2, <1>3, <1>4

(* The four things that happen to the rows of rooms and peers.              *)
RoomRowAdded(r, c) ==
  RoomRowFits(r, c) /\ db_rooms' = Put(db_rooms, r, c) /\ UNCHANGED db_peers
PeerRowAdded(a) ==
  PeerRowFits(a) /\ db_peers' = Put(db_peers, a.peer, PeerRow(a)) /\ UNCHANGED db_rooms
RowsDeleted(R, P) ==
  /\ db_rooms' = Without(db_rooms, R)
  /\ db_peers' = Without(db_peers, P \cup {p \in DOMAIN db_peers : db_peers[p].room_id \in R})

LEMMA RowsOfStep ==
  ASSUME StoreTypes, NEW t \in Task, NextStep(t)
  PROVE  \/ UNCHANGED <<db_rooms, db_peers>>
         \/ /\ InsertRoom(t) /\ tasks[t] \in Creation
            /\ RoomRowAdded(tasks[t].arg.room, tasks[t].arg.code)
         \/ /\ JoinInsert(t) \/ DeleteReinsert(t)
            /\ tasks[t].arg \in JoinArg /\ PeerRowAdded(tasks[t].arg)
         \/ /\ DeleteRoomRow(t) /\ tasks[t] \in Deletion
            /\ RowsDeleted({tasks[t].arg.room}, {})
         \/ /\ DeletePeerRow(t) /\ tasks[t] \in Leaving
            /\ RowsDeleted({}, {tasks[t].arg.peer})
         \/ DeleteHostRow(t) /\ RowsDeleted({}, {})
<1>0. TasksTyped
  BY DEF StoreTypes
<1>1. ASSUME InsertRoom(t)
      PROVE  \/ UNCHANGED <<db_rooms, db_peers>>
             \/ tasks[t] \in Creation /\ RoomRowAdded(tasks[t].arg.room, tasks[t].arg.code)
  BY <1>0, <1>1, RequestFacts DEF InsertRoom, Stands, RoomRowAdded, dbVars
<1>2. ASSUME JoinInsert(t) \/ DeleteReinsert(t)
      PROVE  \/ UNCHANGED <<db_rooms, db_peers>>
             \/ tasks[t].arg \in JoinArg /\ PeerRowAdded(tasks[t].arg)
  <2>1. tasks[t] \in Joining \cup Leaving
    BY <1>0, <1>2, RequestFacts DEF JoinInsert, DeleteReinsert, Stands, Joining, Leaving, Searching
  <2>2. tasks[t].arg \in JoinArg
    BY <2>1 DEF Joining, Leaving
  <2> QED BY <1>2, <2>2 DEF JoinInsert, DeleteReinsert, InsertPeerRow, PeerRowAdded, dbVars
<1>3. ASSUME DeleteRoomRow(t)
      PROVE  \/ UNCHANGED <<db_rooms, db_peers>>
             \/ tasks[t] \in Deletion /\ RowsDeleted({tasks[t].arg.room}, {})
  BY <1>0, <1>3, RequestFacts DEF DeleteRoomRow, DeleteRows, Stands, RowsDeleted, dbVars
<1>4. ASSUME DeletePeerRow(t)
      PROVE  \/ UNCHANGED <<db_rooms, db_peers>>
             \/ tasks[t] \in Leaving /\ RowsDeleted({}, {tasks[t].arg.peer})
  BY <1>0, <1>4, RequestFacts
     DEF DeletePeerRow, DeleteRows, Stands, RowsDeleted, dbVars, Searching, Leaving
<1>5. ASSUME DeleteHostRow(t)
      PROVE  UNCHANGED <<db_rooms, db_peers>> \/ RowsDeleted({}, {})
  BY <1>5 DEF DeleteHostRow, DeleteRows, RowsDeleted, dbVars
<1>6. \/ UNCHANGED <<db_rooms, db_peers>>
      \/ InsertRoom(t) \/ JoinInsert(t) \/ DeleteReinsert(t)
      \/ DeleteRoomRow(t) \/ DeletePeerRow(t) \/ DeleteHostRow(t)
  BY DEF NextStep, RemoveRoom, JoinTunnel, JoinUntunnel, JoinLeave, JoinRemember,
         DeleteFindKey, DeleteUntunnel, DeleteLeave, DeleteForget, DeleteRetunnel,
         UpsertHost, UnregisterStep, InsertGameplay, RemoveGameplay, dbVars
<1> QED BY <1>1, <1>2, <1>3, <1>4, <1>5, <1>6

LEMMA RowSteps ==
  ASSUME TypeOK, StoreTypes, ControlNext
  PROVE  \/ UNCHANGED <<db_rooms, db_peers>>
         \/ \E t \in Task : /\ InsertRoom(t) /\ tasks[t] \in Creation
                            /\ RoomRowAdded(tasks[t].arg.room, tasks[t].arg.code)
         \/ \E t \in Task : /\ JoinInsert(t) \/ DeleteReinsert(t)
                            /\ tasks[t].arg \in JoinArg /\ PeerRowAdded(tasks[t].arg)
         \/ \E R, P : RowsDeleted(R, P)
<1>1. ASSUME NEW t \in Task, NewRequest(t)
      PROVE  UNCHANGED <<db_rooms, db_peers>>
  BY <1>1, NewRequestFacts DEF dbVars, StoreTypes
<1>2. RelayStep \/ Crash \/ StartUp \/ (\E r \in RoomId, p \in PeerId : ResumeRoom(r, p))
        => UNCHANGED <<db_rooms, db_peers>>
  BY DEF RelayStep, Crash, StartUp, ResumeRoom, controlVars, dbVars
<1>3. CASE \E t \in Task : NextStep(t)
  <2>1. PICK t \in Task : NextStep(t)
    BY <1>3
  <2> QED BY <2>1, RowsOfStep
<1> QED BY <1>1, <1>2, <1>3 DEF ControlNext

LEMMA ControlKeepsSchema ==
  ASSUME TypeOK, StoreTypes, Schema, ControlNext
  PROVE  Schema'
<1>1. ASSUME NEW r, NEW c, RoomRowAdded(r, c)
      PROVE  Schema'
  BY <1>1 DEF RoomRowAdded, RoomRowFits, Schema, Put
<1>2. ASSUME NEW a, PeerRowAdded(a)
      PROVE  Schema'
  <2>1. /\ DOMAIN db_peers' = DOMAIN db_peers \cup {a.peer}
        /\ db_peers'[a.peer] = PeerRow(a)
        /\ \A p \in DOMAIN db_peers : p # a.peer => db_peers'[p] = db_peers[p]
    BY <1>2 DEF PeerRowAdded, Put
  <2> QED BY <1>2, <2>1 DEF PeerRowAdded, PeerRowFits, PeerRow, Schema
<1>3. ASSUME NEW R, NEW P, RowsDeleted(R, P)
      PROVE  Schema'
  <2> DEFINE G == P \cup {p \in DOMAIN db_peers : db_peers[p].room_id \in R}
  <2>1. /\ DOMAIN db_rooms' = DOMAIN db_rooms \ R
        /\ \A r \in DOMAIN db_rooms' : db_rooms'[r] = db_rooms[r]
        /\ DOMAIN db_peers' = DOMAIN db_peers \ G
        /\ \A p \in DOMAIN db_peers' : db_peers'[p] = db_peers[p]
    BY <1>3 DEF RowsDeleted, Without, Restrict
  <2> QED BY <2>1 DEF Schema
<1>4. CASE UNCHANGED <<db_rooms, db_peers>>
  BY <1>4 DEF Schema
<1> QED BY <1>1, <1>2, <1>3, <1>4, RowSteps

-----------------------------------------------------------------------------
(* Types.                                                                   *)

LEMMA HostRowTypes ==
  ASSUME TypeOK, StoreTypes, ControlNext
  PROVE  /\ IsTable(db_hosts', HostSessionId, [room_id : RoomId, peer_id : PeerId])
         /\ IsTable(db_gameplay', GameplaySessionId,
              [room_id : RoomId, client_peer_id : PeerId, host_session_id : HostSessionId])
<1> DEFINE HostRow == [room_id : RoomId, peer_id : PeerId]
           GameRow == [room_id : RoomId, client_peer_id : PeerId,
                       host_session_id : HostSessionId]
           Goal == /\ IsTable(db_hosts', HostSessionId, HostRow)
                   /\ IsTable(db_gameplay', GameplaySessionId, GameRow)
<1>0. /\ IsTable(db_hosts, HostSessionId, HostRow)
      /\ IsTable(db_gameplay, GameplaySessionId, GameRow)
      /\ TasksTyped
  BY DEF StoreTypes
<1>1. ASSUME UNCHANGED <<db_hosts, db_gameplay>> PROVE Goal
  BY <1>0, <1>1
<1>2. ASSUME NEW R, NEW P, NEW H, DeleteRows(R, P, H) PROVE Goal
  BY <1>0, <1>2, WithoutTable DEF DeleteRows
<1>3. ASSUME NEW t \in Task, UpsertHost(t) PROVE Goal
  <2> DEFINE a     == tasks[t].arg
             other == {h \in DOMAIN db_hosts \ {a.host} :
                         db_hosts[h] = [room_id |-> a.room, peer_id |-> a.peer]}
  <2>1. a.host \in HostSessionId /\ [room_id |-> a.room, peer_id |-> a.peer] \in HostRow
    BY <1>0, <1>3, RequestFacts DEF UpsertHost, Stands, Registering, HostArg
  <2>2. IsTable(Without(db_hosts, other), HostSessionId, HostRow)
    BY <1>0, WithoutTable
  <2>3. \/ UNCHANGED <<db_hosts, db_gameplay>>
        \/ /\ db_hosts' = Put(Without(db_hosts, other), a.host,
                              [room_id |-> a.room, peer_id |-> a.peer])
           /\ \E G : db_gameplay' = Without(db_gameplay, G)
    BY <1>3 DEF UpsertHost, dbVars
  <2>4. CASE UNCHANGED <<db_hosts, db_gameplay>>
    BY <1>1, <2>4
  <2> DEFINE v == [room_id |-> a.room, peer_id |-> a.peer]
             W == Without(db_hosts, other)
  <2>5. ASSUME db_hosts' = Put(W, a.host, v), NEW G, db_gameplay' = Without(db_gameplay, G)
        PROVE  Goal
    <3>1. IsTable(db_gameplay', GameplaySessionId, GameRow)
      BY <1>0, <2>5, WithoutTable
    <3> HIDE DEF a, other, v, W, HostRow, GameRow
    <3>2. IsTable(db_hosts', HostSessionId, HostRow)
      BY <2>1, <2>2, <2>5, PutTable DEF v, W
    <3> QED BY <3>1, <3>2
  <2> QED BY <2>3, <2>4, <2>5
<1>4. ASSUME NEW t \in Task, InsertGameplay(t) PROVE Goal
  <2> DEFINE a == tasks[t].arg
             v == [room_id |-> a.room, client_peer_id |-> a.peer, host_session_id |-> a.host]
  <2>1. a.session \in GameplaySessionId /\ v \in GameRow
    BY <1>0, <1>4, RequestFacts DEF InsertGameplay, Stands, Playing, GameplayArg
  <2>2. \/ UNCHANGED <<db_hosts, db_gameplay>>
        \/ db_gameplay' = Put(db_gameplay, a.session, v) /\ UNCHANGED db_hosts
    BY <1>4 DEF InsertGameplay, dbVars
  <2>3. CASE UNCHANGED <<db_hosts, db_gameplay>>
    BY <1>1, <2>3
  <2>4. CASE db_gameplay' = Put(db_gameplay, a.session, v) /\ UNCHANGED db_hosts
    <3> HIDE DEF a, v, HostRow, GameRow
    <3>1. IsTable(db_gameplay', GameplaySessionId, GameRow)
      BY <1>0, <2>1, <2>4, PutTable
    <3> QED BY <1>0, <2>4, <3>1
  <2> QED BY <2>2, <2>3, <2>4
<1>5. ASSUME NEW t \in Task, NewRequest(t) PROVE Goal
  BY <1>0, <1>1, <1>5, NewRequestFacts DEF dbVars
<1>6. ASSUME StartUp PROVE Goal
  BY <1>6 DEF StartUp, IsTable, NoTables
<1>7. ASSUME RelayStep \/ Crash \/ (\E r \in RoomId, p \in PeerId : ResumeRoom(r, p)) PROVE Goal
  BY <1>1, <1>7 DEF RelayStep, Crash, ResumeRoom, controlVars, dbVars
<1>8. ASSUME NEW t \in Task, NextStep(t) PROVE Goal
  <2>1. \/ UNCHANGED <<db_hosts, db_gameplay>>
        \/ UpsertHost(t) \/ InsertGameplay(t)
        \/ \E R, P, H : DeleteRows(R, P, H)
    BY <1>8 DEF NextStep, InsertRoom, RemoveRoom, JoinTunnel, JoinInsert, JoinUntunnel,
                JoinLeave, JoinRemember, DeleteRoomRow, DeletePeerRow, DeleteHostRow,
                DeleteFindKey, DeleteUntunnel, DeleteLeave, DeleteForget, DeleteReinsert,
                DeleteRetunnel, UnregisterStep, RemoveGameplay, InsertPeerRow, dbVars
  <2> QED BY <1>1, <1>2, <1>3, <1>4, <2>1
<1> HIDE DEF Goal
<1>9. Goal
  BY <1>5, <1>6, <1>7, <1>8 DEF ControlNext
<1> QED BY <1>9 DEF Goal

LEMMA RowTypes ==
  ASSUME TypeOK, StoreTypes, ControlNext
  PROVE  IsTable(db_rooms', RoomId, RoomCode) /\ IsTable(db_peers', PeerId, DbPeer)
<1>1. CASE UNCHANGED <<db_rooms, db_peers>>
  BY <1>1 DEF StoreTypes
<1>2. ASSUME NEW t \in Task, tasks[t] \in Creation, RoomRowAdded(tasks[t].arg.room, tasks[t].arg.code)
      PROVE  IsTable(db_rooms', RoomId, RoomCode) /\ IsTable(db_peers', PeerId, DbPeer)
  <2>1. tasks[t].arg.room \in RoomId /\ tasks[t].arg.code \in RoomCode
    BY <1>2 DEF Creation
  <2> QED BY <1>2, <2>1, PutTable DEF RoomRowAdded, StoreTypes
<1>3. ASSUME NEW a \in JoinArg, PeerRowAdded(a)
      PROVE  IsTable(db_rooms', RoomId, RoomCode) /\ IsTable(db_peers', PeerId, DbPeer)
  <2>1. a.peer \in PeerId /\ PeerRow(a) \in DbPeer
    BY DEF JoinArg, PeerRow, DbPeer
  <2> QED BY <1>3, <2>1, PutTable DEF PeerRowAdded, StoreTypes
<1>4. ASSUME NEW R, NEW P, RowsDeleted(R, P)
      PROVE  IsTable(db_rooms', RoomId, RoomCode) /\ IsTable(db_peers', PeerId, DbPeer)
  BY <1>4, WithoutTable DEF RowsDeleted, StoreTypes
<1> QED BY <1>1, <1>2, <1>3, <1>4, RowSteps

LEMMA TaskTypes ==
  ASSUME TypeOK, StoreTypes, ControlNext
  PROVE  TasksTyped'
<1>1. TasksTyped /\ IsTable(peer_keys, PeerId, Key)
  BY DEF StoreTypes
<1>2. ASSUME NEW t \in Task, NewRequest(t) \/ NextStep(t)
      PROVE  TasksTyped'
  BY <1>1, <1>2, NewRequestFacts, NextStepFacts
<1>3. Crash \/ StartUp \/ RelayStep \/ (\E r \in RoomId, p \in PeerId : ResumeRoom(r, p))
        => TasksTyped'
  BY <1>1 DEF Crash, StartUp, RelayStep, ResumeRoom, controlVars, TasksTyped, Request
<1> QED BY <1>2, <1>3 DEF ControlNext

(* The keys in memory, and the counters.                                    *)
LEMMA KeyTypes ==
  ASSUME TypeOK, StoreTypes, ControlNext
  PROVE  /\ IsTable(peer_keys', PeerId, Key)
         /\ up' \in BOOLEAN /\ faults' \in 0..MaxFaults /\ crashes' \in 0..MaxCrashes
<1> DEFINE Same == UNCHANGED <<peer_keys, up, crashes>>
           Count == faults' = faults \/ (faults < MaxFaults /\ faults' = faults + 1)
<1>0. /\ TasksTyped /\ IsTable(peer_keys, PeerId, Key)
      /\ faults \in 0..MaxFaults /\ crashes \in 0..MaxCrashes /\ up \in BOOLEAN
      /\ MaxFaults \in Nat /\ MaxCrashes \in Nat
  BY ControlAssumption DEF StoreTypes
<1>1. Count => faults' \in 0..MaxFaults
  BY <1>0
<1>2. ASSUME NEW t \in Task, NewRequest(t)
      PROVE  Same /\ Count
  BY <1>0, <1>2, NewRequestFacts
<1>3. ASSUME NEW t \in Task, NextStep(t), ~JoinRemember(t), ~DeleteForget(t)
      PROVE  Same /\ Count
  BY <1>3 DEF NextStep, InsertRoom, DeleteRoomRow, RemoveRoom, JoinTunnel, JoinInsert,
              JoinUntunnel, JoinLeave, DeleteFindKey, DeleteUntunnel, DeletePeerRow,
              DeleteLeave, DeleteReinsert, DeleteRetunnel, UpsertHost, DeleteHostRow,
              UnregisterStep, InsertGameplay, RemoveGameplay, AddPeer, RemovePeer, Fault, NoFault
<1>4. ASSUME NEW t \in Task, JoinRemember(t)
      PROVE  IsTable(peer_keys', PeerId, Key) /\ UNCHANGED <<up, crashes>> /\ Count
  <2>1. tasks[t].arg.peer \in PeerId /\ tasks[t].arg.key \in Key
    BY <1>0, <1>4, RequestFacts DEF JoinRemember, Stands, Joining, JoinArg
  <2> QED BY <1>0, <1>4, <2>1, PutTable DEF JoinRemember
<1>5. ASSUME NEW t \in Task, DeleteForget(t)
      PROVE  IsTable(peer_keys', PeerId, Key) /\ UNCHANGED <<up, crashes>> /\ Count
  BY <1>0, <1>5, WithoutTable DEF DeleteForget
<1>6. CASE Crash
  <2>1. IsTable(peer_keys', PeerId, Key)
    BY <1>6 DEF Crash, IsTable, NoTables
  <2>2. up' \in BOOLEAN /\ faults' = faults
    BY <1>6 DEF Crash
  <2>3. crashes' \in 0..MaxCrashes
    BY <1>0, <1>6 DEF Crash
  <2> QED BY <1>0, <2>1, <2>2, <2>3
<1>7. CASE StartUp
  <2>1. IsTable(RestoredKeys, PeerId, Key)
    BY DEF StoreTypes, IsTable, RestoredKeys, DbPeer
  <2> QED BY <1>0, <1>7, <2>1 DEF StartUp
<1>8. RelayStep \/ (\E r \in RoomId, p \in PeerId : ResumeRoom(r, p)) => Same /\ Count
  BY DEF RelayStep, ResumeRoom, controlVars
<1>9. ASSUME NEW t \in Task, NextStep(t)
      PROVE  IsTable(peer_keys', PeerId, Key) /\ UNCHANGED <<up, crashes>> /\ Count
  BY <1>0, <1>3, <1>4, <1>5, <1>9
<1> HIDE DEF Count
<1>10. CASE Crash \/ StartUp
  BY <1>6, <1>7, <1>10
<1>11. CASE ~(Crash \/ StartUp)
  <2>1. IsTable(peer_keys', PeerId, Key) /\ UNCHANGED <<up, crashes>> /\ Count
    BY <1>0, <1>2, <1>8, <1>9, <1>11 DEF ControlNext
  <2> QED BY <1>0, <1>1, <2>1
<1> QED BY <1>10, <1>11

(* What happens to the interface.                                           *)
LEMMA TunnelsOfStep ==
  ASSUME StoreTypes, NEW t \in Task, NextStep(t)
  PROVE  \/ UNCHANGED wg
         \/ /\ JoinTunnel(t) \/ DeleteRetunnel(t)
            /\ tasks[t].arg \in JoinArg
            /\ wg' = WithTunnel(wg, tasks[t].arg.key, tasks[t].arg.ip)
         \/ /\ JoinUntunnel(t) \/ DeleteUntunnel(t)
            /\ tasks[t].arg \in JoinArg
            /\ wg' = Without(wg, {tasks[t].arg.key})
<1>1. \/ UNCHANGED wg
      \/ /\ JoinTunnel(t) \/ DeleteRetunnel(t)
         /\ wg' = WithTunnel(wg, tasks[t].arg.key, tasks[t].arg.ip)
      \/ /\ JoinUntunnel(t) \/ DeleteUntunnel(t)
         /\ wg' = Without(wg, {tasks[t].arg.key})
  BY DEF NextStep, InsertRoom, DeleteRoomRow, RemoveRoom, JoinTunnel, JoinInsert,
         JoinUntunnel, JoinLeave, JoinRemember, DeleteForget, DeleteFindKey,
         DeleteUntunnel, DeletePeerRow, DeleteLeave, DeleteReinsert, DeleteRetunnel,
         UpsertHost, DeleteHostRow, UnregisterStep, InsertGameplay, RemoveGameplay,
         AddPeer, RemovePeer
<1>2. ASSUME JoinTunnel(t) \/ DeleteRetunnel(t) \/ JoinUntunnel(t) \/ DeleteUntunnel(t)
      PROVE  tasks[t].arg \in JoinArg
  <2>1. tasks[t] \in Joining \cup Leaving
    BY <1>2, RequestFacts DEF JoinTunnel, DeleteRetunnel, JoinUntunnel, DeleteUntunnel,
                              Stands, Joining, Leaving, Searching, StoreTypes
  <2> QED BY <2>1 DEF Joining, Leaving
<1> QED BY <1>1, <1>2

LEMMA TunnelSteps ==
  ASSUME TypeOK, StoreTypes, ControlNext
  PROVE  \/ UNCHANGED wg \/ Crash \/ StartUp
         \/ \E t \in Task : /\ JoinTunnel(t) \/ DeleteRetunnel(t)
                            /\ tasks[t].arg \in JoinArg
                            /\ wg' = WithTunnel(wg, tasks[t].arg.key, tasks[t].arg.ip)
         \/ \E t \in Task : /\ JoinUntunnel(t) \/ DeleteUntunnel(t)
                            /\ tasks[t].arg \in JoinArg
                            /\ wg' = Without(wg, {tasks[t].arg.key})
<1>1. ASSUME NEW t \in Task, NewRequest(t)
      PROVE  UNCHANGED wg
  BY <1>1, NewRequestFacts DEF StoreTypes
<1>2. RelayStep \/ (\E r \in RoomId, p \in PeerId : ResumeRoom(r, p)) => UNCHANGED wg
  BY DEF RelayStep, ResumeRoom, controlVars
<1>3. CASE \E t \in Task : NextStep(t)
  <2>1. PICK t \in Task : NextStep(t)
    BY <1>3
  <2> QED BY <2>1, TunnelsOfStep
<1> QED BY <1>1, <1>2, <1>3 DEF ControlNext

(* restore_wireguard_peers: the stored keys and addresses differ, so every  *)
(* stored key has the one address of its peer, which no other key has.      *)
LEMMA RestoredTunnelFacts ==
  ASSUME StoreTypes, Schema
  PROVE  /\ DOMAIN RestoredTunnels = DOMAIN wg \cup {db_peers[p].key : p \in DOMAIN db_peers}
         /\ \A p \in DOMAIN db_peers :
              RestoredTunnels[db_peers[p].key] = {db_peers[p].virtual_ip}
         /\ \A k \in DOMAIN wg \ {db_peers[p].key : p \in DOMAIN db_peers} :
              RestoredTunnels[k] = wg[k] \ {db_peers[p].virtual_ip : p \in DOMAIN db_peers}
<1> DEFINE addresses(k) == {db_peers[p].virtual_ip :
                              p \in {q \in DOMAIN db_peers : db_peers[q].key = k}}
           stored == {db_peers[p].key : p \in DOMAIN db_peers}
           routed == UNION {addresses(k) : k \in stored}
<1>1. RestoredTunnels = [k \in DOMAIN wg \cup stored |->
                          IF k \in stored THEN addresses(k) ELSE wg[k] \ routed]
  BY DEF RestoredTunnels
<1>2. \A p \in DOMAIN db_peers : addresses(db_peers[p].key) = {db_peers[p].virtual_ip}
  BY DEF Schema
<1>3. routed = {db_peers[p].virtual_ip : p \in DOMAIN db_peers}
  <2>1. ASSUME NEW p \in DOMAIN db_peers PROVE db_peers[p].virtual_ip \in routed
    <3>1. db_peers[p].virtual_ip \in addresses(db_peers[p].key)
      OBVIOUS
    <3>2. db_peers[p].key \in stored
      OBVIOUS
    <3> HIDE DEF addresses, stored
    <3> QED BY <3>1, <3>2
  <2>2. ASSUME NEW ip \in routed PROVE ip \in {db_peers[p].virtual_ip : p \in DOMAIN db_peers}
    OBVIOUS
  <2> QED BY <2>1, <2>2
<1>4. \A p \in DOMAIN db_peers : db_peers[p].key \in stored
  OBVIOUS
<1> HIDE DEF addresses, routed
<1> QED BY <1>1, <1>2, <1>3, <1>4

LEMMA TunnelsKeepTypes ==
  ASSUME TypeOK, StoreTypes, TunnelTypes, Schema, ControlNext
  PROVE  TunnelTypes'
<1> DEFINE Ips == {{}} \cup {{ip} : ip \in VirtualIp}
<1>0. DOMAIN wg \subseteq Key /\ wg \in [DOMAIN wg -> Ips]
  BY DEF TunnelTypes, IsTable
<1>1. ASSUME NEW a \in JoinArg, wg' = WithTunnel(wg, a.key, a.ip)
      PROVE  TunnelTypes'
  <2>1. a.key \in Key /\ {a.ip} \in Ips
    BY DEF JoinArg
  <2>2. \A S \in Ips : S \ {a.ip} \in Ips
    OBVIOUS
  <2> HIDE DEF Ips
  <2>3. \A k \in DOMAIN wg \cup {a.key} : WithTunnel(wg, a.key, a.ip)[k] \in Ips
    BY <1>0, <2>1, <2>2 DEF WithTunnel
  <2>4. DOMAIN wg' \subseteq Key /\ wg' \in [DOMAIN wg' -> Ips]
    BY <1>0, <1>1, <2>1, <2>3 DEF WithTunnel
  <2> QED BY <2>4 DEF TunnelTypes, IsTable, Ips
<1>2. ASSUME NEW a \in JoinArg, wg' = Without(wg, {a.key})
      PROVE  TunnelTypes'
  BY <1>2, WithoutTable DEF TunnelTypes
<1>3. CASE UNCHANGED wg
  BY <1>3 DEF TunnelTypes
<1>4. CASE Crash
  <2>1. wg' = wg \/ wg' = NoTables
    BY <1>4 DEF Crash
  <2>2. CASE wg' = NoTables
    BY <2>2 DEF TunnelTypes, IsTable, NoTables
  <2> QED BY <1>3, <2>1, <2>2
<1>5. CASE StartUp
  <2> DEFINE stored == {db_peers[p].key : p \in DOMAIN db_peers}
  <2>1. \A p \in DOMAIN db_peers : db_peers[p].key \in Key /\ db_peers[p].virtual_ip \in VirtualIp
    BY DEF StoreTypes, IsTable, DbPeer
  <2>2. wg' = RestoredTunnels
    BY <1>5 DEF StartUp
  <2>3. DOMAIN wg' \subseteq Key
    BY <1>0, <2>1, <2>2, RestoredTunnelFacts
  <2>4. ASSUME NEW k \in DOMAIN wg' PROVE wg'[k] \in Ips
    <3>1. CASE k \in stored
      <4>1. PICK p \in DOMAIN db_peers : k = db_peers[p].key
        BY <3>1
      <4>2. wg'[k] = {db_peers[p].virtual_ip}
        BY <2>2, <4>1, RestoredTunnelFacts
      <4> QED BY <2>1, <4>2
    <3>2. CASE k \notin stored
      <4>1. k \in DOMAIN wg
        BY <2>2, <3>2, RestoredTunnelFacts
      <4>2. wg'[k] = wg[k] \ {db_peers[p].virtual_ip : p \in DOMAIN db_peers}
        BY <2>2, <3>2, <4>1, RestoredTunnelFacts
      <4>3. wg[k] \in Ips
        BY <1>0, <4>1
      <4> QED BY <4>2, <4>3
    <3> QED BY <3>1, <3>2
  <2>5. wg' = [k \in DOMAIN wg' |-> wg'[k]]
    BY <2>2 DEF RestoredTunnels
  <2> HIDE DEF Ips
  <2>6. wg' \in [DOMAIN wg' -> Ips]
    BY <2>4, <2>5
  <2> QED BY <2>3, <2>6 DEF TunnelTypes, IsTable, Ips
<1> QED BY <1>1, <1>2, <1>3, <1>4, <1>5, TunnelSteps

(* A step of a running process leaves it running, or ends all it was doing. *)
LEMMA UpSteps ==
  ASSUME TypeOK, StoreTypes, Down, ControlNext
  PROVE  \/ up /\ UNCHANGED <<up, crashes>>
         \/ up /\ Crash
         \/ ~up /\ StartUp
<1>0. TasksTyped /\ NoTask.op = "none"
  BY DEF StoreTypes, NoTask
<1>1. ASSUME NEW t \in Task, NewRequest(t) PROVE up /\ UNCHANGED <<up, crashes>>
  BY <1>0, <1>1, NewRequestFacts
<1>2. ASSUME NEW t \in Task, NextStep(t) PROVE up /\ UNCHANGED <<up, crashes>>
  <2>1. UNCHANGED <<up, crashes>>
    BY <1>2 DEF NextStep, InsertRoom, DeleteRoomRow, RemoveRoom, JoinTunnel, JoinInsert,
              JoinUntunnel, JoinLeave, JoinRemember, DeleteForget, DeleteFindKey,
              DeleteUntunnel, DeletePeerRow, DeleteLeave, DeleteReinsert, DeleteRetunnel,
              UpsertHost, DeleteHostRow, UnregisterStep, InsertGameplay, RemoveGameplay
  <2>2. tasks[t].op # "none"
    BY <1>0, <1>2, NextStepFacts DEF StoreTypes
  <2> QED BY <1>0, <2>1, <2>2 DEF Down
<1> QED BY <1>1, <1>2 DEF ControlNext, RelayStep, ResumeRoom, Crash, StartUp, controlVars

LEMMA ControlKeepsDown ==
  ASSUME TypeOK, StoreTypes, Down, ControlNext
  PROVE  Down'
<1>1. CASE up /\ UNCHANGED <<up, crashes>>
  BY <1>1 DEF Down
<1>2. CASE Crash
  <2>1. crashes' > 0
    BY <1>2 DEF Crash, StoreTypes
  <2>2. DOMAIN rooms' = {} /\ DOMAIN peers' = {} /\ DOMAIN peer_keys' = {}
    BY <1>2 DEF Crash, Restore, NoTables
  <2> QED BY <1>2, <2>1, <2>2 DEF Crash, Down
<1>3. CASE StartUp
  BY <1>3 DEF StartUp, Down
<1> QED BY <1>1, <1>2, <1>3, UpSteps

-----------------------------------------------------------------------------
(* One request at a time.                                                   *)

LEMMA NextStepConcerns ==
  ASSUME StoreTypes, NEW t \in Task, NextStep(t), NEW u \in Task, NEW p, Concerns(u, p)'
  PROVE  Concerns(u, p)
<1>1. TasksTyped /\ IsTable(peer_keys, PeerId, Key)
  BY DEF StoreTypes
<1>2. /\ TasksTyped'
      /\ u # t => tasks'[u] = tasks[u]
      /\ tasks'[t] = NoTask \/ Continued(t)
  BY <1>1, NextStepFacts
<1>3. NoTask.op \notin PeerOps
  BY DEF NoTask, PeerOps
<1>4. CASE u # t
  BY <1>2, <1>4 DEF Concerns
<1>5. CASE u = t
  <2>1. Continued(t)
    BY <1>2, <1>3, <1>5, ConcernsNext
  <2>2. tasks'[t].op = tasks[t].op /\ tasks'[t].arg.peer = tasks[t].arg.peer
    BY <2>1 DEF Continued
  <2> QED BY <1>1, <1>2, <1>5, <2>2, ConcernsNext, ConcernsFacts
<1> QED BY <1>4, <1>5

(* Other steps take up no request and leave those in progress alone.        *)
LEMMA QuietSteps ==
  ASSUME ControlNext, \A t \in Task : ~NewRequest(t) /\ ~NextStep(t)
  PROVE  /\ tasks' = tasks \/ (Crash /\ \A t \in Task : tasks'[t] = NoTask)
         /\ \/ Crash
            \/ StartUp
            \/ /\ up
               /\ UNCHANGED controlVars
               /\ RelayStep \/ \E r \in RoomId, p \in PeerId : ResumeRoom(r, p)
  BY DEF ControlNext, Crash, StartUp, RelayStep, ResumeRoom, controlVars

LEMMA ControlKeepsOneAtATime ==
  ASSUME TypeOK, StoreTypes, OneAtATime, ControlNext
  PROVE  OneAtATime'
<1>0. TasksTyped /\ TasksTyped'
  BY TaskTypes DEF StoreTypes
<1> SUFFICES ASSUME NEW p \in Steady, NEW u \in Task, NEW v \in Task,
                    Concerns(u, p)', Concerns(v, p)', u # v
             PROVE  FALSE
  BY DEF OneAtATime, Steady, OneTask
<1>1. p \notin Retried
  BY DEF Steady, OneTask
<1>2. ASSUME NEW t \in Task, NewRequest(t)
      PROVE  FALSE
  <2>1. /\ MayOverlap(tasks'[t].arg)
        /\ \A w \in Task : w # t => tasks'[w] = tasks[w]
    BY <1>0, <1>2, NewRequestFacts
  <2>2. \A w \in Task : w # t /\ Concerns(w, p)' => Concerns(w, p)
    BY <2>1 DEF Concerns
  <2>3. Concerns(t, p)' => \A w \in Task : ~Concerns(w, p)
    BY <1>1, <2>1 DEF MayOverlap, Concerns
  <2> QED BY <2>2, <2>3 DEF OneAtATime
<1>3. ASSUME NEW t \in Task, NextStep(t)
      PROVE  FALSE
  BY <1>3, NextStepConcerns DEF OneAtATime
<1>4. CASE tasks' = tasks
  BY <1>4 DEF OneAtATime, Concerns
<1>5. CASE \A t \in Task : tasks'[t] = NoTask
  BY <1>0, <1>5, ConcernsNext DEF NoTask, PeerOps
<1> QED BY <1>2, <1>3, <1>4, <1>5, QuietSteps

-----------------------------------------------------------------------------
(* Requests, rows and the router.                                           *)

LEMMA NextStepAddsNobody ==
  ASSUME NEW t \in Task, NextStep(t)
  PROVE  DOMAIN peers' \subseteq DOMAIN peers
<1>1. \A r, p : LeaveRoom(r, p) => DOMAIN peers' \subseteq DOMAIN peers
  BY DEF LeaveRoom, Without, Restrict
<1>2. \A r : RemoveEmptyRoom(r) => UNCHANGED peers
  BY DEF RemoveEmptyRoom, peerVars
<1>3. \A h : UnregisterHost(h) => UNCHANGED peers
  BY DEF UnregisterHost, peerVars
<1>4. \A g : RemoveGameplaySession(g) => UNCHANGED peers
  BY DEF RemoveGameplaySession, peerVars
<1>5. UNCHANGED vars => UNCHANGED peers
  BY DEF vars, peerVars
<1> QED BY <1>1, <1>2, <1>3, <1>4, <1>5
        DEF NextStep, InsertRoom, DeleteRoomRow, RemoveRoom, JoinTunnel, JoinInsert,
            JoinUntunnel, JoinLeave, JoinRemember, DeleteForget, DeleteFindKey,
            DeleteUntunnel, DeletePeerRow, DeleteLeave, DeleteReinsert, DeleteRetunnel,
            UpsertHost, DeleteHostRow, UnregisterStep, InsertGameplay, RemoveGameplay

(* The same of the next state.                                              *)
AtNext(r, p, ip) ==
  p \in DOMAIN peers' /\ peers'[p].room_id = r /\ peers'[p].virtual_ip = ip

(* A peer the router has after a step was there before, in the same room at *)
(* the same address; or it has just joined; or the process has just started.*)
LEMMA PeerSteps ==
  ASSUME Routing, StoreTypes, ControlNext, NEW p \in DOMAIN peers'
  PROVE  \/ /\ p \in DOMAIN peers
            /\ peers'[p].room_id = peers[p].room_id
            /\ peers'[p].virtual_ip = peers[p].virtual_ip
         \/ StartUp
         \/ \E t \in Task : /\ NewRequest(t) /\ tasks'[t] \in Joining
                            /\ p \notin DOMAIN peers
                            /\ tasks'[t].at = "tunnel" /\ tasks'[t].arg.peer = p
                            /\ AtNext(tasks'[t].arg.room, p, tasks'[t].arg.ip)
<1>0. TypeOK /\ TasksTyped
  BY DEF Routing, StoreTypes
<1>1. Next \/ UNCHANGED vars \/ Crash \/ StartUp
  BY <1>0, RouterSteps
<1>2. ~Crash
  BY DEF Crash, Restore, NoTables
<1>3. CASE p \in DOMAIN peers
  <2>1. UNCHANGED vars => UNCHANGED peers
    BY DEF vars, peerVars
  <2>2. Next => RotatesEpochs
    BY NextRotatesEpochs
  <2> QED BY <1>1, <1>2, <1>3, <2>1, <2>2 DEF RotatesEpochs
<1>4. CASE p \notin DOMAIN peers
  <2>1. ASSUME NEW t \in Task, NewRequest(t)
        PROVE  /\ tasks'[t] \in Joining
               /\ tasks'[t].at = "tunnel" /\ tasks'[t].arg.peer = p
               /\ AtNext(tasks'[t].arg.room, p, tasks'[t].arg.ip)
    <3> DEFINE x == tasks'[t]
    <3>1. Opened(x)
      BY <1>0, <2>1, NewRequestFacts
    <3> HIDE DEF x
    <3>2. ~(UNCHANGED peers)
      BY <1>4
    <3>3. /\ x \in Joining /\ x.at = "tunnel"
          /\ JoinRoom(x.arg.room, x.arg.peer, x.arg.ip)
      BY <3>1, <3>2 DEF Opened, CreateRoomWithId, SameMembers, vars, peerVars
    <3>4. x.arg.peer = p
      BY <1>4, <3>3 DEF JoinRoom, Put
    <3>5. /\ peers'[p].room_id = x.arg.room /\ peers'[p].virtual_ip = x.arg.ip
      BY <3>3, <3>4 DEF JoinRoom, Put
    <3> QED BY <3>3, <3>4, <3>5 DEF AtNext, x
  <2>2. ASSUME NEW t \in Task, NextStep(t)
        PROVE  FALSE
    BY <1>4, <2>2, NextStepAddsNobody
  <2>3. ASSUME RelayStep \/ \E r \in RoomId, q \in PeerId : ResumeRoom(r, q)
        PROVE  FALSE
    BY <1>4, <2>3 DEF RelayStep, ResumeRoom, ResumePeer, MarkPeerSeen, TouchPeer,
                      HeartbeatHost, RefreshHost, Expire, Tick, peerVars
  <2> QED BY <1>2, <1>4, <2>1, <2>2, <2>3 DEF ControlNext
<1> QED BY <1>3, <1>4

LEMMA NextStepMoves ==
  ASSUME StoreTypes, NEW t \in Task, NextStep(t), NEW u \in Task, NEW p, Moves(u, p)'
  PROVE  /\ Moves(u, p)
         /\ tasks'[u].arg.room = tasks[u].arg.room
         /\ tasks'[u].arg.ip = tasks[u].arg.ip
<1>1. TasksTyped /\ IsTable(peer_keys, PeerId, Key)
  BY DEF StoreTypes
<1>2. /\ u # t => tasks'[u] = tasks[u]
      /\ tasks'[t] = NoTask \/ Continued(t)
  BY <1>1, NextStepFacts
<1>3. NoTask.op = "none"
  BY DEF NoTask
<1> QED BY <1>2, <1>3 DEF Moves, Continued

LEMMA MovesConcern ==
  ASSUME TasksTyped, NEW t \in Task, NEW p, Moves(t, p)
  PROVE  Concerns(t, p)
  BY ConcernsFacts DEF Moves, PeerOps

LEMMA MovesConcernNext ==
  ASSUME TasksTyped', NEW t \in Task, NEW p, Moves(t, p)'
  PROVE  Concerns(t, p)'
  BY ConcernsNext DEF Moves, PeerOps

LEMMA ControlKeepsInPlace ==
  ASSUME Routing, StoreTypes, Down, OneAtATime, InPlace, ControlNext
  PROVE  InPlace'
<1>0. TypeOK /\ TasksTyped /\ TasksTyped' /\ OneAtATime'
  BY TaskTypes, ControlKeepsOneAtATime DEF Routing, StoreTypes
<1> SUFFICES ASSUME NEW u \in Task, NEW p \in Steady \cap DOMAIN peers', Moves(u, p)'
             PROVE  AtNext(tasks'[u].arg.room, p, tasks'[u].arg.ip)
  BY DEF InPlace, Steady, OneTask, At, AtNext
<1>1. ASSUME NEW t \in Task, NewRequest(t)
      PROVE  AtNext(tasks'[u].arg.room, p, tasks'[u].arg.ip)
  <2>1. \A w \in Task : w # t => tasks'[w] = tasks[w]
    BY <1>0, <1>1, NewRequestFacts
  <2>2. ~StartUp
    BY <1>0, <1>1, NewRequestFacts DEF StartUp
  <2>3. CASE u = t
    <3> DEFINE x == tasks'[t]
    <3>1. Opened(x)
      BY <1>0, <1>1, NewRequestFacts
    <3>2. x.op \in {"join_room", "delete_peer"} /\ x.arg.peer = p
      BY <2>3 DEF Moves
    <3> HIDE DEF x
    <3>3. \/ JoinRoom(x.arg.room, p, x.arg.ip)
          \/ At(x.arg.room, p, x.arg.ip) /\ UNCHANGED vars
      BY <3>1, <3>2 DEF Opened, Creation, Deletion, Registering, Playing, Unhosting
    <3>4. AtNext(x.arg.room, p, x.arg.ip)
      BY <3>3 DEF JoinRoom, Put, At, AtNext, vars, peerVars
    <3> QED BY <2>3, <3>4 DEF x
  <2>4. CASE u # t
    <3>1. Moves(u, p) /\ tasks'[u] = tasks[u]
      BY <2>1, <2>4 DEF Moves
    <3>2. CASE p \in DOMAIN peers
      <4>1. At(tasks[u].arg.room, p, tasks[u].arg.ip)
        BY <3>1, <3>2 DEF InPlace
      <4> QED BY <2>2, <3>1, <3>2, <4>1, PeerSteps DEF At, AtNext
    <3>3. CASE p \notin DOMAIN peers
      <4>1. PICK v \in Task : NewRequest(v) /\ tasks'[v] \in Joining /\ tasks'[v].arg.peer = p
        BY <2>2, <3>3, PeerSteps
      <4>2. Concerns(v, p)' /\ Concerns(u, p)'
        BY <1>0, <4>1, ConcernsNext, MovesConcernNext DEF Joining, PeerOps
      <4>3. u = v
        BY <1>0, <4>2 DEF OneAtATime, Steady, OneTask
      <4>4. tasks[v] = NoTask /\ NoTask.op = "none"
        BY <1>0, <4>1, NewRequestFacts DEF NoTask
      <4> QED BY <3>1, <4>3, <4>4 DEF Moves
    <3> QED BY <3>2, <3>3
  <2> QED BY <2>3, <2>4
<1>2. ASSUME NEW t \in Task, NextStep(t)
      PROVE  AtNext(tasks'[u].arg.room, p, tasks'[u].arg.ip)
  <2>1. p \in DOMAIN peers
    BY <1>2, NextStepAddsNobody
  <2>2. At(tasks'[u].arg.room, p, tasks'[u].arg.ip)
    BY <1>2, <2>1, NextStepMoves DEF InPlace
  <2>3. up /\ ~StartUp
    <3>1. tasks[t].op # "none"
      BY <1>0, <1>2, NextStepFacts DEF StoreTypes
    <3> QED BY <3>1 DEF Down, NoTask, StartUp
  <2> QED BY <2>1, <2>2, <2>3, PeerSteps DEF At, AtNext
<1>3. ASSUME tasks' = tasks, ~StartUp, \A t \in Task : ~NewRequest(t)
      PROVE  AtNext(tasks'[u].arg.room, p, tasks'[u].arg.ip)
  <2>1. Moves(u, p)
    BY <1>3 DEF Moves
  <2>2. p \in DOMAIN peers
    BY <1>3, PeerSteps
  <2>3. At(tasks[u].arg.room, p, tasks[u].arg.ip)
    BY <2>1, <2>2 DEF InPlace
  <2> QED BY <1>3, <2>2, <2>3, PeerSteps DEF At, AtNext
<1>4. CASE StartUp
  <2>1. tasks'[u] = NoTask
    BY <1>4 DEF StartUp, Down
  <2> QED BY <2>1 DEF Moves, NoTask
<1>5. CASE \A t \in Task : tasks'[t] = NoTask
  BY <1>5 DEF Moves, NoTask
<1> QED BY <1>1, <1>2, <1>3, <1>4, <1>5, QuietSteps

(* A row that is there after a step was there before, or its own request    *)
(* has just written it.                                                     *)
LEMMA RowHistory ==
  ASSUME TypeOK, StoreTypes, ControlNext, NEW p \in DOMAIN db_peers'
  PROVE  \/ p \in DOMAIN db_peers /\ db_peers'[p] = db_peers[p]
         \/ \E t \in Task : /\ JoinInsert(t) \/ DeleteReinsert(t)
                            /\ PeerRowAdded(tasks[t].arg) /\ tasks[t].arg \in JoinArg
                            /\ tasks[t].arg.peer = p
                            /\ db_peers'[p] = PeerRow(tasks[t].arg)
<1>1. CASE UNCHANGED <<db_rooms, db_peers>>
  BY <1>1
<1>2. ASSUME NEW r, NEW c, RoomRowAdded(r, c)
      PROVE  p \in DOMAIN db_peers /\ db_peers'[p] = db_peers[p]
  BY <1>2 DEF RoomRowAdded
<1>3. ASSUME NEW t \in Task, PeerRowAdded(tasks[t].arg)
      PROVE  \/ p \in DOMAIN db_peers /\ db_peers'[p] = db_peers[p]
             \/ tasks[t].arg.peer = p /\ db_peers'[p] = PeerRow(tasks[t].arg)
  BY <1>3 DEF PeerRowAdded, Put
<1>4. ASSUME NEW R, NEW P, RowsDeleted(R, P)
      PROVE  p \in DOMAIN db_peers /\ db_peers'[p] = db_peers[p]
  BY <1>4 DEF RowsDeleted, Without, Restrict
<1> QED BY <1>1, <1>2, <1>3, <1>4, RowSteps

(* The router forgets the peer of a join that leaves.                       *)
LEMMA JoinLeaveLeaves ==
  ASSUME Routing, InPlace, NEW t \in Task, JoinLeave(t),
         tasks[t].arg.peer \in Steady
  PROVE  tasks[t].arg.peer \notin DOMAIN peers'
<1> DEFINE a == tasks[t].arg
<1>1. CASE LeaveRoom(a.room, a.peer)
  BY <1>1 DEF LeaveRoom, Without, Restrict
<1>2. CASE ~IsIn(a.room, a.peer) /\ UNCHANGED vars
  <2>1. SUFFICES ASSUME a.peer \in DOMAIN peers PROVE FALSE
    BY <1>2 DEF vars, peerVars
  <2>2. At(a.room, a.peer, a.ip)
    BY <2>1 DEF InPlace, Moves, JoinLeave, Stands
  <2> QED BY <1>2, <2>2 DEF At, IsIn, Routing, IndexConsistent, MembersMatchPeers
<1> QED BY <1>1, <1>2 DEF JoinLeave

(* A join with a stale row in its way stays pending until it leaves.        *)
LEMMA PendingStays ==
  ASSUME Routing, StoreTypes, Down, InPlace, ControlNext, NEW u \in Task, NEW p \in Steady,
         Joins(u, p, Pending), p \in DOMAIN db_peers, p \in DOMAIN peers'
  PROVE  Joins(u, p, Pending)'
<1>0. TasksTyped /\ tasks[u] \in Joining /\ TypeOK
  BY RequestFacts DEF StoreTypes, Joins, Routing
<1>1. ASSUME NEW t \in Task, NewRequest(t)
      PROVE  Joins(u, p, Pending)'
  <2>1. u # t
    BY <1>0, <1>1, NewRequestFacts DEF Joins, NoTask
  <2> QED BY <1>0, <1>1, <2>1, NewRequestFacts DEF Joins
<1>2. ASSUME NEW t \in Task, NextStep(t), t # u
      PROVE  Joins(u, p, Pending)'
  BY <1>0, <1>2, NextStepFacts DEF Joins, StoreTypes
<1>3. CASE NextStep(u)
  <2>0. tasks[u].op = "join_room" /\ tasks[u].arg.peer = p /\ tasks[u].at \in Pending
    BY DEF Joins
  <2>1. JoinTunnel(u) \/ JoinInsert(u) \/ JoinUntunnel(u) \/ JoinLeave(u)
    BY <1>3, <2>0 DEF NextStep, Stands, InsertRoom, DeleteRoomRow, RemoveRoom, JoinRemember,
              DeleteForget, DeleteFindKey, DeleteUntunnel, DeletePeerRow, DeleteLeave,
              DeleteReinsert, DeleteRetunnel, UpsertHost, DeleteHostRow, UnregisterStep,
              InsertGameplay, RemoveGameplay, Pending
  <2>2. ~JoinLeave(u)
    BY <2>0, JoinLeaveLeaves
  <2>3. \E at \in Pending : Goto(u, at)
    BY <2>0, <2>1, <2>2 DEF JoinTunnel, JoinInsert, JoinUntunnel, PeerRowFits, Pending
  <2>4. PICK at \in Pending : Goto(u, at)
    BY <2>3
  <2>5. /\ tasks'[u].op = tasks[u].op /\ tasks'[u].at = at /\ tasks'[u].arg = tasks[u].arg
    BY <1>0, <2>4, GotoFacts DEF Pending
  <2> QED BY <2>0, <2>5 DEF Joins
<1>4. CASE tasks' = tasks
  BY <1>4 DEF Joins
<1>5. ~Crash
  BY DEF Crash, Restore, NoTables
<1> QED BY <1>1, <1>2, <1>3, <1>4, <1>5, QuietSteps

LEMMA ControlKeepsRowsMatch ==
  ASSUME Routing, StoreTypes, Down, OneAtATime, InPlace, RowsMatch, ControlNext
  PROVE  RowsMatch'
<1>0. TypeOK /\ TasksTyped
  BY DEF Routing, StoreTypes
<1> SUFFICES ASSUME NEW p \in Steady, p \in DOMAIN db_peers', p \in DOMAIN peers'
             PROVE  RowAgrees(p)' \/ \E t \in Task : Joins(t, p, Pending)'
  BY DEF RowsMatch, Steady, OneTask
<1>1. CASE StartUp
  BY <1>1 DEF StartUp, Restore, RowAgrees, At
<1>2. ASSUME NEW t \in Task, tasks'[t] \in Joining,
             tasks'[t].at = "tunnel", tasks'[t].arg.peer = p
      PROVE  Joins(t, p, Pending)'
  BY <1>2 DEF Joins, Joining, Pending
<1>3. CASE /\ p \in DOMAIN peers
           /\ peers'[p].room_id = peers[p].room_id
           /\ peers'[p].virtual_ip = peers[p].virtual_ip
  <2>1. CASE p \in DOMAIN db_peers /\ db_peers'[p] = db_peers[p]
    <3>1. CASE RowAgrees(p)
      BY <1>3, <2>1, <3>1 DEF RowAgrees, At
    <3>2. CASE \E t \in Task : Joins(t, p, Pending)
      BY <2>1, <3>2, PendingStays
    <3> QED BY <1>3, <2>1, <3>1, <3>2 DEF RowsMatch
  <2>2. ASSUME NEW t \in Task, JoinInsert(t) \/ DeleteReinsert(t),
               tasks[t].arg.peer = p, db_peers'[p] = PeerRow(tasks[t].arg)
        PROVE  RowAgrees(p)'
    <3>1. At(tasks[t].arg.room, p, tasks[t].arg.ip)
      BY <1>3, <2>2 DEF InPlace, Moves, JoinInsert, DeleteReinsert, Stands
    <3> QED BY <1>3, <2>2, <3>1 DEF RowAgrees, At, PeerRow
  <2> QED BY <1>0, <2>1, <2>2, RowHistory
<1> QED BY <1>1, <1>2, <1>3, PeerSteps

-----------------------------------------------------------------------------
LEMMA ControlInitInv == ControlInit => ControlInv
<1> SUFFICES ASSUME ControlInit PROVE ControlInv
  OBVIOUS
<1>1. Routing
  BY InitRouting DEF ControlInit
<1>2. /\ DOMAIN db_rooms = {} /\ DOMAIN db_peers = {} /\ up = TRUE
      /\ tasks = [t \in Task |-> NoTask] /\ faults = 0 /\ crashes = 0
  BY DEF ControlInit, NoTables
<1>3. TasksTyped
  BY <1>2 DEF TasksTyped, Request
<1>4. StoreTypes
  <2>1. 0 \in 0..MaxFaults /\ 0 \in 0..MaxCrashes
    BY ControlAssumption
  <2> QED BY <1>2, <1>3, <2>1 DEF StoreTypes, ControlInit, IsTable, NoTables
<1>5. TunnelTypes
  BY DEF TunnelTypes, ControlInit, IsTable, NoTables
<1>6. Schema /\ Down /\ RowsMatch
  BY <1>2 DEF Schema, Down, RowsMatch
<1>7. OneAtATime
  BY <1>2, <1>3, ConcernsFacts DEF OneAtATime, NoTask, PeerOps
<1>8. InPlace
  BY <1>2 DEF InPlace, Moves, NoTask
<1> QED BY <1>1, <1>4, <1>5, <1>6, <1>7, <1>8 DEF ControlInv

LEMMA ControlNextInv == ControlInv /\ [ControlNext]_systemVars => ControlInv'
<1> SUFFICES ASSUME ControlInv, [ControlNext]_systemVars PROVE ControlInv'
  OBVIOUS
<1>0. /\ Routing /\ StoreTypes /\ TunnelTypes /\ Schema /\ Down
      /\ OneAtATime /\ InPlace /\ RowsMatch /\ TypeOK
  BY DEF ControlInv, Routing
<1>1. CASE ControlNext
  <2>1. Routing' /\ TunnelTypes' /\ Schema' /\ Down'
    BY <1>0, <1>1, ControlKeepsRouting, TunnelsKeepTypes, ControlKeepsSchema, ControlKeepsDown
  <2>2. StoreTypes'
    BY <1>0, <1>1, HostRowTypes, RowTypes, TaskTypes, KeyTypes DEF StoreTypes
  <2>3. OneAtATime' /\ InPlace' /\ RowsMatch'
    BY <1>0, <1>1, ControlKeepsOneAtATime, ControlKeepsInPlace, ControlKeepsRowsMatch
  <2> QED BY <2>1, <2>2, <2>3 DEF ControlInv
<1>2. CASE UNCHANGED systemVars
  <2>1. UNCHANGED vars /\ UNCHANGED <<rooms, peers, db_rooms, db_peers, db_hosts, db_gameplay, wg,
                                      peer_keys, tasks, up, faults, crashes>>
    BY <1>2 DEF systemVars, vars, roomVars, peerVars, controlVars, dbVars
  <2>2. Routing'
    BY <1>0, <2>1, NextRouting
  <2>3. StoreTypes' /\ TunnelTypes' /\ Schema' /\ Down'
    BY <1>0, <2>1 DEF StoreTypes, TasksTyped, TunnelTypes, Schema, Down
  <2>4. OneAtATime' /\ InPlace' /\ RowsMatch'
    BY <1>0, <2>1 DEF OneAtATime, InPlace, RowsMatch, Steady, OneTask, Concerns, Moves, Joins,
                      RowAgrees, At
  <2> QED BY <2>2, <2>3, <2>4 DEF ControlInv
<1> QED BY <1>1, <1>2

LEMMA ControlInvHolds == ControlSpec => []ControlInv
  BY ControlInitInv, ControlNextInv, PTL DEF ControlSpec

(* The tables, the interface and the requests keep their types; no peer is  *)
(* ever given two addresses on the interface.                               *)
THEOREM ControlTypes == ControlSpec => []ControlTypeOK
<1>1. ControlInv => ControlTypeOK
  <2> SUFFICES ASSUME ControlInv PROVE ControlTypeOK
    OBVIOUS
  <2>1. ASSUME NEW t \in Task PROVE tasks[t].op = "none" \/ tasks[t].arg \in Arguments
    <3>1. tasks[t] \in Request
      BY DEF ControlInv, StoreTypes, TasksTyped
    <3> QED BY <3>1 DEF Request, NoTask, Creation, Deletion, Joining, Searching, Leaving, Registering,
                        Unhosting, Playing, JoinArg, PeerArg, HostArg, GameplayArg, Arguments
  <2>2. <<up, faults, crashes>> \in BOOLEAN \X (0..MaxFaults) \X (0..MaxCrashes)
    BY DEF ControlInv, StoreTypes
  <2> QED BY <2>1, <2>2
          DEF ControlInv, Routing, StoreTypes, TunnelTypes, ControlTypeOK, DbPeer
<1> QED BY <1>1, ControlInvHolds, PTL

(* The row of a peer no request is about says where the router has it.      *)
THEOREM RowsAreTrue == ControlSpec => []RowsNeverContradict
<1>1. ControlInv => RowsNeverContradict
  <2> SUFFICES ASSUME ControlInv, NEW p \in (DOMAIN db_peers \cap DOMAIN peers) \ Retried,
                      ~\E t \in Task : Concerns(t, p)
               PROVE  RowAgrees(p)
    BY DEF RowsNeverContradict, RowAgrees
  <2>1. p \in Steady
    BY DEF ControlInv, StoreTypes, IsTable, Steady
  <2>2. \A t \in Task : ~Joins(t, p, Pending)
    BY ConcernsFacts DEF ControlInv, StoreTypes, Joins, PeerOps
  <2> QED BY <2>1, <2>2 DEF ControlInv, RowsMatch
<1> QED BY <1>1, ControlInvHolds, PTL

(* What a start makes of whatever the last crash left.                      *)
LEMMA StartUpHeals ==
  ASSUME ControlInv, StartUp
  PROVE  /\ RowsAgree' /\ KeysAgree' /\ TunnelsMatchPeers' /\ AddressBoundToKey'
<1>0. StoreTypes /\ Schema /\ Down
  BY DEF ControlInv
<1>1. /\ DOMAIN rooms' = DOMAIN db_rooms
      /\ \A r \in DOMAIN db_rooms : rooms'[r].code = db_rooms[r]
      /\ DOMAIN peers' = DOMAIN db_peers
      /\ \A p \in DOMAIN db_peers : /\ peers'[p].room_id = db_peers[p].room_id
                                    /\ peers'[p].virtual_ip = db_peers[p].virtual_ip
  BY DEF StartUp, Restore
<1>2. /\ UNCHANGED <<db_rooms, db_peers, tasks, crashes>>
      /\ DOMAIN peer_keys' = DOMAIN db_peers
      /\ \A p \in DOMAIN db_peers : peer_keys'[p] = db_peers[p].key
      /\ peer_keys' = [p \in DOMAIN db_peers |-> db_peers[p].key]
      /\ wg' = RestoredTunnels /\ ~up
  BY DEF StartUp, RestoredKeys
<1>3. RowsAgree'
  <2>1. db_rooms = [r \in DOMAIN db_rooms |-> db_rooms[r]]
    BY <1>0 DEF StoreTypes, IsTable
  <2>2. db_rooms' = [r \in DOMAIN rooms' |-> rooms'[r].code]
    BY <1>1, <1>2, <2>1
  <2> QED BY <1>1, <1>2, <2>2 DEF RowsAgree, At
<1>4. KeysAgree'
  BY <1>2 DEF KeysAgree
<1>5. \A p \in DOMAIN db_peers :
        /\ db_peers[p].key \in DOMAIN wg'
        /\ wg'[db_peers[p].key] = {db_peers[p].virtual_ip}
  BY <1>0, <1>2, RestoredTunnelFacts
<1>6. TunnelsMatchPeers'
  <2>1. crashes' > 0
    BY <1>0, <1>2 DEF Down
  <2>2. crashes' # 0
    BY <2>1
  <2> QED BY <1>1, <1>2, <1>5, <2>2 DEF TunnelsMatchPeers
<1>7. AddressBoundToKey'
  <2> SUFFICES ASSUME NEW k \in DOMAIN wg', NEW ip \in wg'[k] \cap DOMAIN virtual_ips'
               PROVE  virtual_ips'[ip] \in DOMAIN peer_keys' /\ k = peer_keys'[virtual_ips'[ip]]
    BY DEF AddressBoundToKey, KeysOf
  <2>1. AddressesMatchPeers'
    <3>1. Routing'
      BY <1>0, RestoreKeepsRouting DEF StartUp, StoreTypes, Schema, IsTable, DbPeer
    <3> QED BY <3>1 DEF Routing, IndexConsistent
  <2>2. PICK p \in DOMAIN db_peers : p = virtual_ips'[ip] /\ db_peers[p].virtual_ip = ip
    BY <1>1, <2>1 DEF AddressesMatchPeers
  <2>3. k = db_peers[p].key
    <3>1. CASE \E q \in DOMAIN db_peers : k = db_peers[q].key
      <4>1. PICK q \in DOMAIN db_peers : k = db_peers[q].key
        BY <3>1
      <4>2. ip = db_peers[q].virtual_ip
        BY <1>5, <4>1
      <4> QED BY <1>0, <2>2, <4>1, <4>2 DEF Schema
    <3>2. CASE ~\E q \in DOMAIN db_peers : k = db_peers[q].key
      <4>1. wg'[k] = wg[k] \ {db_peers[q].virtual_ip : q \in DOMAIN db_peers}
        BY <1>0, <1>2, <3>2, RestoredTunnelFacts
      <4> QED BY <2>2, <4>1
    <3> QED BY <3>1, <3>2
  <2> QED BY <1>2, <2>2, <2>3
<1> QED BY <1>3, <1>4, <1>6, <1>7

(* A restart heals: what it restores agrees in all four stores.             *)
THEOREM RestartsHeal == ControlSpec => RestartHeals
<1>1. ControlInv /\ [ControlNext]_systemVars =>
        [~up /\ up' => (StoresAgree /\ AddressBoundToKey /\ IndexConsistent)']_systemVars
  <2> SUFFICES ASSUME ControlInv, ControlNext, ~up, up'
               PROVE  (StoresAgree /\ AddressBoundToKey /\ IndexConsistent)'
    OBVIOUS
  <2>1. StartUp
    BY UpSteps DEF ControlInv, Routing
  <2>2. IndexConsistent'
    BY ControlKeepsRouting DEF ControlInv, Routing
  <2> QED BY <2>1, <2>2, StartUpHeals DEF StoresAgree
<1> QED BY <1>1, ControlInvHolds, PTL DEF ControlSpec, RestartHeals

-----------------------------------------------------------------------------
(* The limits of the router across restarts: the rows may exceed them, but  *)
(* then the process does not start.                                         *)
RowsFinite == IsFiniteSet(DOMAIN db_rooms) /\ IsFiniteSet(DOMAIN db_peers)

LEMMA RowsStayFinite ==
  ASSUME TypeOK, StoreTypes, RowsFinite, ControlNext
  PROVE  RowsFinite'
<1>1. CASE UNCHANGED <<db_rooms, db_peers>>
  BY <1>1 DEF RowsFinite
<1>2. ASSUME NEW r, NEW c, RoomRowAdded(r, c)
      PROVE  RowsFinite'
  <2>1. DOMAIN db_rooms' = DOMAIN db_rooms \cup {r} /\ UNCHANGED db_peers
    BY <1>2 DEF RoomRowAdded, Put
  <2>2. IsFiniteSet(DOMAIN db_rooms \cup {r})
    BY FS_AddElement DEF RowsFinite
  <2> QED BY <2>1, <2>2 DEF RowsFinite
<1>3. ASSUME NEW a, PeerRowAdded(a)
      PROVE  RowsFinite'
  <2>1. DOMAIN db_peers' = DOMAIN db_peers \cup {a.peer} /\ UNCHANGED db_rooms
    BY <1>3 DEF PeerRowAdded, Put
  <2>2. IsFiniteSet(DOMAIN db_peers \cup {a.peer})
    BY FS_AddElement DEF RowsFinite
  <2> QED BY <2>1, <2>2 DEF RowsFinite
<1>4. ASSUME NEW R, NEW P, RowsDeleted(R, P)
      PROVE  RowsFinite'
  <2>1. DOMAIN db_rooms' \subseteq DOMAIN db_rooms /\ DOMAIN db_peers' \subseteq DOMAIN db_peers
    BY <1>4 DEF RowsDeleted, Without, Restrict
  <2>2. IsFiniteSet(DOMAIN db_rooms') /\ IsFiniteSet(DOMAIN db_peers')
    BY <2>1, FS_Subset DEF RowsFinite
  <2> QED BY <2>2 DEF RowsFinite
<1> QED BY <1>1, <1>2, <1>3, <1>4, RowSteps

(* restore_persisted_state checks every limit.                              *)
LEMMA RestoreKeepsLimits ==
  ASSUME TypeOK', NEW codes, NEW rows, IsFiniteSet(DOMAIN codes), IsFiniteSet(DOMAIN rows),
         Restorable(codes, rows), Restore(codes, rows)
  PROVE  Limited'
<1>1. /\ DOMAIN rooms' = DOMAIN codes /\ DOMAIN peers' = DOMAIN rows /\ DOMAIN gameplay' = {}
      /\ \A r \in DOMAIN codes : /\ rooms'[r].members = InRoom(rows, DOMAIN rows, r)
                                 /\ rooms'[r].host_sessions = {}
  BY DEF Restore, NoTables
<1>2. RoomsLimited' /\ PeersLimited' /\ GamesLimited'
  <2>1. AtMost(DOMAIN codes, MaxRooms) /\ AtMost(DOMAIN rows, MaxTotalPeers)
    BY DEF Restorable, AtMost
  <2>2. AtMost({}, MaxGameplaySessions)
    BY NoneAtMost, LimitAssumption
  <2> QED BY <1>1, <2>1, <2>2 DEF RoomsLimited, PeersLimited, GamesLimited
<1>3. ASSUME NEW r \in DOMAIN codes PROVE RoomLimited(rooms'[r])
  <2>1. IsFiniteSet(InRoom(rows, DOMAIN rows, r))
    <3>1. InRoom(rows, DOMAIN rows, r) \subseteq DOMAIN rows
      BY DEF InRoom
    <3> QED BY <3>1, FS_Subset
  <2>2. AtMost(InRoom(rows, DOMAIN rows, r), MaxPeersPerRoom)
    BY <2>1 DEF Restorable, AtMost
  <2>3. AtMost({}, MaxHostsPerRoom)
    BY NoneAtMost, LimitAssumption
  <2> QED BY <1>1, <2>2, <2>3 DEF RoomLimited
<1> QED BY <1>1, <1>2, <1>3 DEF Limited, RoomLimited

LEMMA ControlKeepsLimits ==
  ASSUME ControlInv, Limited, RowsFinite, [ControlNext]_systemVars
  PROVE  Limited' /\ RowsFinite'
<1>1. TypeOK /\ StoreTypes /\ TasksTyped
  BY DEF ControlInv, Routing, StoreTypes
<1>2. CASE UNCHANGED systemVars
  <2>1. UNCHANGED vars /\ UNCHANGED <<db_rooms, db_peers>>
    BY <1>2 DEF systemVars, controlVars, dbVars
  <2>2. Limited'
    BY <2>1, NextLimited
  <2> QED BY <2>1, <2>2 DEF RowsFinite
<1>3. CASE ControlNext
  <2>1. RowsFinite'
    BY <1>1, <1>3, RowsStayFinite
  <2>2. TypeOK'
    BY <1>3, ControlNextInv DEF ControlInv, Routing
  <2>3. CASE Next \/ UNCHANGED vars
    BY <2>1, <2>3, NextLimited
  <2>4. CASE Crash
    <3>1. Restore(NoTables, NoTables) /\ DOMAIN NoTables = {}
      BY <2>4 DEF Crash, NoTables
    <3>2. Restorable(NoTables, NoTables) /\ IsFiniteSet(DOMAIN NoTables)
      <4>1. \A r : r \notin DOMAIN NoTables
        BY <3>1
      <4>2. Cardinality({}) = 0 /\ IsFiniteSet({})
        BY FS_EmptySet
      <4> QED BY <3>1, <4>1, <4>2, LimitAssumption DEF Restorable
    <3>3. Limited'
      BY <2>2, <3>1, <3>2, RestoreKeepsLimits
    <3> QED BY <2>1, <3>3
  <2>5. CASE StartUp
    <3>1. Limited'
      BY <2>2, <2>5, RestoreKeepsLimits DEF StartUp, RowsFinite
    <3> QED BY <2>1, <3>1
  <2> QED BY <1>1, <1>3, <2>3, <2>4, <2>5, RouterSteps
<1> QED BY <1>2, <1>3

(* The limits of RouterConfig hold in the whole server, whatever requests   *)
(* overlap, fail or are cut off by a crash, and after every restart.        *)
THEOREM LimitsSurviveRestarts == ControlSpec => []WithinLimits
<1>1. ControlInit => Limited /\ RowsFinite
  <2>1. ControlInit => DOMAIN db_rooms = {} /\ DOMAIN db_peers = {}
    BY DEF ControlInit, NoTables
  <2> QED BY <2>1, InitLimited, FS_EmptySet DEF ControlInit, RowsFinite
<1>2. ControlInv /\ Limited /\ RowsFinite /\ [ControlNext]_systemVars
        => (Limited /\ RowsFinite)'
  BY ControlKeepsLimits
<1>3. Limited => WithinLimits
  BY DEF Limited, RoomsLimited, PeersLimited, GamesLimited, RoomLimited, AtMost,
         WithinLimits
<1> QED BY <1>1, <1>2, <1>3, ControlInvHolds, PTL DEF ControlSpec
=============================================================================

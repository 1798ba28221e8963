--------------------------- MODULE AgreementProofs ---------------------------
(***************************************************************************)
(* When the four stores of ControlPlane agree.  The sweep breaks the       *)
(* agreement (it tells neither the database nor the interface), and so do  *)
(* two requests at a time about one peer or a room deleted under a join;   *)
(* without these it holds, for every number of peers, rooms and requests,  *)
(* and at every await the server implements PeerRegistry.                  *)
(***************************************************************************)
EXTENDS ControlProofs, ControlRefinement

(* No sweep; and no two requests at a time, or none about the same peer and *)
(* no deletion of rooms.                                                    *)
Calm == ~Timed /\ (OneTask \/ (Retried = {} /\ ~DeletesRooms))

Leaves(t, p, S) == tasks[t].op = "delete_peer" /\ tasks[t].arg.peer = p /\ tasks[t].at \in S

(* A peer is nowhere, or the router, the table and the memory of its key    *)
(* have it and say the same ...                                             *)
Absent(p) == p \notin DOMAIN peers /\ p \notin DOMAIN db_peers /\ p \notin DOMAIN peer_keys
Present(p) ==
  /\ p \in DOMAIN peers /\ p \in DOMAIN db_peers /\ RowAgrees(p)
  /\ p \in DOMAIN peer_keys /\ peer_keys[p] = db_peers[p].key

(* ... unless a request about it is under way: then the place where the     *)
(* request stands says which stores have it.                                *)
Phase(t, p) ==
  /\ Joins(t, p, Pending) =>
       p \in DOMAIN peers /\ p \notin DOMAIN db_peers /\ p \notin DOMAIN peer_keys
  /\ Joins(t, p, {"remember"}) =>
       /\ p \in DOMAIN peers /\ p \in DOMAIN db_peers /\ RowAgrees(p)
       /\ db_peers[p].key = tasks[t].arg.key /\ p \notin DOMAIN peer_keys
  /\ Leaves(t, p, {"key"}) => Present(p)
  /\ Leaves(t, p, {"untunnel", "delete", "retunnel"}) =>
       Present(p) /\ peer_keys[p] = tasks[t].arg.key
  /\ Leaves(t, p, {"leave"}) =>
       /\ p \in DOMAIN peers /\ p \notin DOMAIN db_peers
       /\ p \in DOMAIN peer_keys /\ peer_keys[p] = tasks[t].arg.key
  /\ Leaves(t, p, {"forget"}) =>
       /\ p \notin DOMAIN peers /\ p \notin DOMAIN db_peers
       /\ p \in DOMAIN peer_keys /\ peer_keys[p] = tasks[t].arg.key
  /\ ~Leaves(t, p, {"reinsert"})

PeerAgrees(p) ==
  /\ \A t \in Task : Phase(t, p)
  /\ (\A t \in Task : ~Moves(t, p)) => Absent(p) \/ Present(p)

(* The room a request creates or deletes is empty while there is no other   *)
(* request.                                                                 *)
RoomsHeld ==
  \A t \in Task :
    /\ tasks[t].op = "delete_room" => DeletesRooms
    /\ OneTask /\ tasks[t].op \in {"create_room", "delete_room"} =>
         LooksEmpty(tasks[t].arg.room)

CalmInv == RoomsHeld /\ (up => \A p \in PeerId : PeerAgrees(p))

-----------------------------------------------------------------------------
(* All that concerns the peer p stays as it is.                             *)
SamePeer(p) ==
  /\ p \in DOMAIN peers <=> p \in DOMAIN peers'
  /\ p \in DOMAIN peers => /\ peers'[p].room_id = peers[p].room_id
                           /\ peers'[p].virtual_ip = peers[p].virtual_ip
  /\ p \in DOMAIN db_peers <=> p \in DOMAIN db_peers'
  /\ p \in DOMAIN db_peers => db_peers'[p] = db_peers[p]
  /\ p \in DOMAIN peer_keys <=> p \in DOMAIN peer_keys'
  /\ p \in DOMAIN peer_keys => peer_keys'[p] = peer_keys[p]

LEMMA SamePeerAgrees ==
  ASSUME NEW p, PeerAgrees(p), SamePeer(p),
         \A t \in Task : Moves(t, p)' => Moves(t, p) /\ tasks'[t] = tasks[t],
         \A t \in Task : Moves(t, p) => Moves(t, p)'
  PROVE  PeerAgrees(p)'
<1>1. /\ RowAgrees(p) /\ p \in DOMAIN db_peers => RowAgrees(p)'
      /\ Present(p) => Present(p)'
      /\ Absent(p) => Absent(p)'
  BY DEF SamePeer, RowAgrees, At, Present, Absent
<1>2. ASSUME NEW t \in Task PROVE Phase(t, p)'
  <2>1. CASE Moves(t, p)'
    <3>1. tasks'[t] = tasks[t] /\ Phase(t, p)
      BY <2>1 DEF PeerAgrees
    <3> QED BY <1>1, <3>1 DEF Phase, Joins, Leaves, SamePeer, Present
  <2>2. CASE ~Moves(t, p)'
    BY <2>2 DEF Phase, Joins, Leaves, Moves
  <2> QED BY <2>1, <2>2
<1> QED BY <1>1, <1>2 DEF PeerAgrees

(* What a request about somebody else, or about a room, leaves alone.       *)
LEMMA LeaveFacts ==
  ASSUME NEW r, NEW q, LeaveRoom(r, q)
  PROVE  DOMAIN peers' = DOMAIN peers \ {q} /\ \A p \in DOMAIN peers' : peers'[p] = peers[p]
  BY DEF LeaveRoom, Without, Restrict

LEMMA RouterUnaffected ==
  ASSUME NEW t \in Task, NextStep(t), NEW p, ~Moves(t, p)
  PROVE  /\ p \in DOMAIN peers <=> p \in DOMAIN peers'
         /\ p \in DOMAIN peers => peers'[p] = peers[p]
<1>1. CASE JoinLeave(t) \/ DeleteLeave(t)
  <2>1. tasks[t].arg.peer # p
    BY <1>1 DEF JoinLeave, DeleteLeave, Stands, Moves
  <2>2. LeaveRoom(tasks[t].arg.room, tasks[t].arg.peer) \/ UNCHANGED peers
    BY <1>1 DEF JoinLeave, DeleteLeave, vars, peerVars
  <2>3. LeaveRoom(tasks[t].arg.room, tasks[t].arg.peer) =>
          /\ DOMAIN peers' = DOMAIN peers \ {tasks[t].arg.peer}
          /\ \A q \in DOMAIN peers' : peers'[q] = peers[q]
    BY LeaveFacts
  <2> QED BY <2>1, <2>2, <2>3
<1>2. CASE ~(JoinLeave(t) \/ DeleteLeave(t))
  <2>1. UNCHANGED peers
    BY <1>2 DEF NextStep, InsertRoom, DeleteRoomRow, RemoveRoom, JoinTunnel, JoinInsert,
            JoinUntunnel, JoinRemember, DeleteForget, DeleteFindKey,
            DeleteUntunnel, DeletePeerRow, DeleteReinsert, DeleteRetunnel,
            UpsertHost, DeleteHostRow, UnregisterStep, InsertGameplay, RemoveGameplay,
            RemoveEmptyRoom, UnregisterHost, RemoveGameplaySession, vars, peerVars
  <2> QED BY <2>1
<1> QED BY <1>1, <1>2

LEMMA KeysUnaffected ==
  ASSUME NEW t \in Task, NextStep(t), NEW p, ~Moves(t, p)
  PROVE  /\ p \in DOMAIN peer_keys <=> p \in DOMAIN peer_keys'
         /\ p \in DOMAIN peer_keys => peer_keys'[p] = peer_keys[p]
<1>1. CASE JoinRemember(t) \/ DeleteForget(t)
  <2>1. tasks[t].arg.peer # p
    BY <1>1 DEF JoinRemember, DeleteForget, Stands, Moves
  <2> QED BY <1>1, <2>1 DEF JoinRemember, DeleteForget, Put, Without, Restrict
<1>2. CASE ~(JoinRemember(t) \/ DeleteForget(t))
  <2>1. UNCHANGED peer_keys
    BY <1>2 DEF NextStep, InsertRoom, DeleteRoomRow, RemoveRoom, JoinTunnel, JoinInsert,
            JoinUntunnel, JoinLeave, DeleteFindKey, DeleteLeave,
            DeleteUntunnel, DeletePeerRow, DeleteReinsert, DeleteRetunnel,
            UpsertHost, DeleteHostRow, UnregisterStep, InsertGameplay, RemoveGameplay
  <2> QED BY <2>1
<1> QED BY <1>1, <1>2

LEMMA RowsUnaffected ==
  ASSUME ControlInv, Calm, CalmInv, up, NEW t \in Task, NextStep(t),
         NEW p \in PeerId, ~Moves(t, p)
  PROVE  /\ p \in DOMAIN db_peers <=> p \in DOMAIN db_peers'
         /\ p \in DOMAIN db_peers => db_peers'[p] = db_peers[p]
<1>0. StoreTypes /\ TasksTyped
  BY DEF ControlInv, StoreTypes
<1>1. CASE UNCHANGED <<db_rooms, db_peers>>
  BY <1>1
<1>2. ASSUME NEW r, NEW c, RoomRowAdded(r, c)
      PROVE  UNCHANGED db_peers
  BY <1>2 DEF RoomRowAdded
<1>3. CASE (JoinInsert(t) \/ DeleteReinsert(t)) /\ PeerRowAdded(tasks[t].arg)
  <2>1. tasks[t].arg.peer # p
    BY <1>3 DEF JoinInsert, DeleteReinsert, Stands, Moves
  <2> QED BY <1>3, <2>1 DEF PeerRowAdded, Put
<1>4. CASE DeletePeerRow(t) /\ RowsDeleted({}, {tasks[t].arg.peer})
  <2>1. tasks[t].arg.peer # p
    BY <1>4 DEF DeletePeerRow, Stands, Moves
  <2> QED BY <1>4, <2>1 DEF RowsDeleted, Without, Restrict
<1>5. CASE RowsDeleted({}, {})
  BY <1>5 DEF RowsDeleted, Without, Restrict
<1>6. CASE DeleteRoomRow(t) /\ tasks[t] \in Deletion /\ RowsDeleted({tasks[t].arg.room}, {})
  <2> DEFINE r == tasks[t].arg.room
  <2>1. OneTask /\ LooksEmpty(r)
    BY <1>6 DEF CalmInv, RoomsHeld, Calm, DeleteRoomRow, Stands
  <2>2. ASSUME p \in DOMAIN db_peers, db_peers[p].room_id = r
        PROVE  FALSE
    <3>1. \A u \in Task : ~Moves(u, p)
      BY <1>6, <2>1 DEF OneTask, DeleteRoomRow, Stands, Moves
    <3>2. PeerAgrees(p)
      BY DEF CalmInv
    <3>3. RowAgrees(p)
      BY <2>2, <3>1, <3>2 DEF PeerAgrees, Absent, Present
    <3> QED BY <2>1, <2>2, <3>3
            DEF RowAgrees, At, LooksEmpty, ControlInv, Routing, IndexConsistent, MembersMatchPeers
  <2> HIDE DEF r
  <2> QED BY <1>6, <2>2 DEF RowsDeleted, Without, Restrict, r
<1> QED BY <1>0, <1>1, <1>2, <1>3, <1>4, <1>5, <1>6, RowsOfStep

LEMMA OthersUnaffected ==
  ASSUME ControlInv, Calm, CalmInv, up, NEW t \in Task, NextStep(t),
         NEW p \in PeerId, ~Moves(t, p)
  PROVE  PeerAgrees(p)'
<1>1. SamePeer(p)
  BY RouterUnaffected, KeysUnaffected, RowsUnaffected DEF SamePeer
<1>2. \A u \in Task : u # t => tasks'[u] = tasks[u]
  BY NextStepFacts DEF ControlInv, StoreTypes
<1>3. \A u \in Task : Moves(u, p)' => Moves(u, p) /\ tasks'[u] = tasks[u]
  BY <1>2, NextStepMoves DEF ControlInv
<1>4. \A u \in Task : Moves(u, p) => Moves(u, p)'
  BY <1>2 DEF Moves
<1> QED BY <1>1, <1>3, <1>4, SamePeerAgrees DEF CalmInv

(* The steps of a request about p, one by one: nobody else is at work on p. *)
LEMMA OnlyMover ==
  ASSUME ControlInv, Calm, NEW t \in Task, NEW p \in PeerId, Moves(t, p),
         NEW u \in Task, u # t
  PROVE  ~Moves(u, p)
<1>1. p \in Steady
  BY DEF Calm, Steady
<1> QED BY <1>1, MovesConcern DEF ControlInv, StoreTypes, OneAtATime

(* It is enough to follow that request.                                     *)
LEMMA OwnStepSuffices ==
  ASSUME ControlInv, Calm, NEW t \in Task, NextStep(t), NEW p \in PeerId, Moves(t, p),
         Phase(t, p)', ~Moves(t, p)' => Absent(p)' \/ Present(p)'
  PROVE  PeerAgrees(p)'
<1>1. \A u \in Task : u # t => ~Moves(u, p)'
  BY OnlyMover, NextStepFacts DEF ControlInv, StoreTypes, Moves
<1>2. \A u \in Task : u # t => Phase(u, p)'
  BY <1>1 DEF Phase, Joins, Leaves, Moves
<1> QED BY <1>2 DEF PeerAgrees

LEMMA JoinAgrees ==
  ASSUME ControlInv, Calm, CalmInv, up, NEW t \in Task, NextStep(t), NEW p \in PeerId,
         tasks[t].op = "join_room", tasks[t].arg.peer = p
  PROVE  PeerAgrees(p)'
<1> DEFINE a == tasks[t].arg
<1>0. /\ Routing /\ InPlace /\ TasksTyped /\ tasks[t] \in Joining /\ p \in Steady
      /\ Moves(t, p) /\ Phase(t, p)
  BY RequestFacts DEF ControlInv, StoreTypes, Moves, CalmInv, PeerAgrees, Calm, Steady
<1>1. UNCHANGED vars => UNCHANGED peers
  BY DEF vars, peerVars
<1>2. UNCHANGED dbVars => UNCHANGED db_peers
  BY DEF dbVars
<1>3. JoinTunnel(t) \/ JoinInsert(t) \/ JoinUntunnel(t) \/ JoinLeave(t) \/ JoinRemember(t)
  BY DEF NextStep, Stands, InsertRoom, DeleteRoomRow, RemoveRoom,
         DeleteForget, DeleteFindKey, DeleteUntunnel, DeletePeerRow, DeleteLeave,
         DeleteReinsert, DeleteRetunnel, UpsertHost, DeleteHostRow, UnregisterStep,
         InsertGameplay, RemoveGameplay
(* Still pending, with nothing done to the three stores.                    *)
<1>4. ASSUME UNCHANGED <<peers, db_peers, peer_keys>>, tasks[t].at \in Pending,
             NEW at \in Pending, Goto(t, at)
      PROVE  PeerAgrees(p)'
  <2>1. tasks'[t].op = "join_room" /\ tasks'[t].at = at /\ tasks'[t].arg = a
    BY <1>0, <1>4, GotoFacts DEF Pending
  <2>2. Moves(t, p)'
    BY <2>1 DEF Moves
  <2>3. Phase(t, p)'
    BY <1>0, <1>4, <2>1 DEF Phase, Joins, Leaves, Pending
  <2> QED BY <1>0, <2>2, <2>3, OwnStepSuffices
<1>5. CASE JoinTunnel(t)
  <2>1. \E at \in Pending : Goto(t, at)
    BY <1>5 DEF JoinTunnel, Pending
  <2> QED BY <1>1, <1>2, <1>4, <1>5, <2>1 DEF JoinTunnel, Stands, Pending
<1>6. CASE JoinUntunnel(t)
  BY <1>1, <1>2, <1>4, <1>6 DEF JoinUntunnel, Stands, Pending
<1>7. CASE JoinInsert(t)
  <2>1. CASE UNCHANGED dbVars /\ Goto(t, "untunnel")
    BY <1>1, <1>2, <1>4, <1>7, <2>1 DEF JoinInsert, Stands, Pending
  <2>2. CASE InsertPeerRow(a) /\ Goto(t, "remember")
    <3>1. tasks'[t].op = "join_room" /\ tasks'[t].at = "remember" /\ tasks'[t].arg = a
      BY <1>0, <2>2, GotoFacts
    <3>2. p \in DOMAIN db_peers' /\ db_peers'[p] = PeerRow(a)
      BY <2>2 DEF InsertPeerRow, Put
    <3>3. /\ p \in DOMAIN peers /\ p \notin DOMAIN peer_keys
      BY <1>0, <1>7 DEF Phase, Joins, Pending, JoinInsert, Stands
    <3>4. At(a.room, p, a.ip)
      BY <1>0, <3>3 DEF InPlace
    <3>5. UNCHANGED <<peers, peer_keys>>
      BY <1>1, <1>7 DEF JoinInsert
    <3>6. RowAgrees(p)'
      BY <3>2, <3>4, <3>5 DEF RowAgrees, At, PeerRow
    <3>7. Moves(t, p)'
      BY <3>1 DEF Moves
    <3>8. db_peers'[p].key = a.key
      BY <3>2 DEF PeerRow
    <3>9. Phase(t, p)'
      BY <3>1, <3>2, <3>3, <3>5, <3>6, <3>8 DEF Phase, Joins, Leaves, Pending
    <3> QED BY <1>0, <3>7, <3>9, OwnStepSuffices
  <2> QED BY <1>7, <2>1, <2>2 DEF JoinInsert
<1>8. CASE JoinLeave(t)
  <2>1. p \notin DOMAIN peers'
    BY <1>0, <1>8, JoinLeaveLeaves
  <2>2. p \notin DOMAIN db_peers /\ p \notin DOMAIN peer_keys
    BY <1>0, <1>8 DEF Phase, Joins, Pending, JoinLeave, Stands
  <2>3. Absent(p)'
    BY <1>2, <1>8, <2>1, <2>2 DEF JoinLeave, Absent
  <2>4. tasks'[t] = NoTask
    BY <1>0, <1>8, ReturnFacts DEF JoinLeave
  <2>5. Phase(t, p)'
    BY <2>4 DEF Phase, Joins, Leaves, NoTask
  <2> QED BY <1>0, <2>3, <2>5, OwnStepSuffices
<1>9. CASE JoinRemember(t)
  <2>1. Joins(t, p, {"remember"})
    BY <1>9 DEF JoinRemember, Stands, Joins
  <2>2. UNCHANGED <<peers, db_peers>>
    BY <1>1, <1>2, <1>9 DEF JoinRemember
  <2>3. p \in DOMAIN peer_keys' /\ peer_keys'[p] = a.key
    BY <1>9 DEF JoinRemember, Put
  <2>4. Present(p)'
    BY <1>0, <2>1, <2>2, <2>3 DEF Phase, Present, RowAgrees, At
  <2>5. tasks'[t] = NoTask
    BY <1>0, <1>9, ReturnFacts DEF JoinRemember
  <2>6. Phase(t, p)'
    BY <2>5 DEF Phase, Joins, Leaves, NoTask
  <2> QED BY <1>0, <2>4, <2>6, OwnStepSuffices
<1> QED BY <1>3, <1>5, <1>6, <1>7, <1>8, <1>9

LEMMA DeleteAgrees ==
  ASSUME ControlInv, Calm, CalmInv, up, NEW t \in Task, NextStep(t), NEW p \in PeerId,
         tasks[t].op = "delete_peer", tasks[t].arg.peer = p
  PROVE  PeerAgrees(p)'
<1> DEFINE a == tasks[t].arg
<1>0. /\ Routing /\ InPlace /\ TasksTyped /\ tasks[t] \in Searching \cup Leaving
      /\ p \in Steady /\ Moves(t, p) /\ Phase(t, p) /\ IsTable(peer_keys, PeerId, Key)
  BY RequestFacts DEF ControlInv, StoreTypes, Moves, CalmInv, PeerAgrees, Calm, Steady
<1>1. UNCHANGED vars => UNCHANGED peers
  BY DEF vars, peerVars
<1>2. UNCHANGED dbVars => UNCHANGED db_peers
  BY DEF dbVars
<1>3. \/ DeleteFindKey(t) \/ DeleteUntunnel(t) \/ DeletePeerRow(t) \/ DeleteLeave(t)
      \/ DeleteForget(t) \/ DeleteReinsert(t) \/ DeleteRetunnel(t)
  BY DEF NextStep, Stands, InsertRoom, DeleteRoomRow, RemoveRoom,
         JoinTunnel, JoinInsert, JoinUntunnel, JoinLeave, JoinRemember,
         UpsertHost, DeleteHostRow, UnregisterStep, InsertGameplay, RemoveGameplay
<1>4. UNCHANGED <<peers, db_peers, peer_keys>> /\ Present(p) => Present(p)'
  BY DEF Present, RowAgrees, At
(* The request is answered.                                                 *)
<1>5. ASSUME Return(t), Absent(p)' \/ Present(p)'
      PROVE  PeerAgrees(p)'
  <2>1. tasks'[t] = NoTask
    BY <1>0, <1>5, ReturnFacts
  <2>2. Phase(t, p)'
    BY <2>1 DEF Phase, Joins, Leaves, NoTask
  <2> QED BY <1>0, <1>5, <2>2, OwnStepSuffices
(* It goes on.                                                              *)
<1>6. ASSUME NEW at, Goto(t, at), tasks[t].at # "key",
             at \in {"delete", "retunnel"} => Present(p)' /\ peer_keys'[p] = a.key,
             at = "leave" => /\ p \in DOMAIN peers' /\ p \notin DOMAIN db_peers'
                             /\ p \in DOMAIN peer_keys' /\ peer_keys'[p] = a.key,
             at = "forget" => /\ p \notin DOMAIN peers' /\ p \notin DOMAIN db_peers'
                              /\ p \in DOMAIN peer_keys' /\ peer_keys'[p] = a.key,
             at \in {"delete", "retunnel", "leave", "forget"}
      PROVE  PeerAgrees(p)'
  <2>1. tasks[t] \in Leaving
    BY <1>0, <1>6 DEF Searching
  <2>2. tasks'[t].op = "delete_peer" /\ tasks'[t].at = at /\ tasks'[t].arg = a
    BY <1>0, <1>6, <2>1, GotoFacts
  <2>3. Moves(t, p)'
    BY <2>2 DEF Moves
  <2>4. Phase(t, p)'
    BY <1>6, <2>2 DEF Phase, Joins, Leaves
  <2> QED BY <1>0, <2>3, <2>4, OwnStepSuffices
<1>7. CASE DeleteFindKey(t)
  <2>1. Present(p)
    BY <1>0, <1>7 DEF Phase, Leaves, DeleteFindKey, Stands
  <2>2. /\ tasks'[t].op = "delete_peer" /\ tasks'[t].at = "untunnel"
        /\ tasks'[t].arg.peer = p /\ tasks'[t].arg.key = peer_keys[p]
    <3>1. a.peer \in DOMAIN peer_keys
      BY <2>1 DEF Present
    <3>2. tasks'[t].arg = [room |-> a.room, peer |-> a.peer, ip |-> a.ip,
                          key |-> peer_keys[a.peer]]
      BY <1>0, <1>7, <3>1, FindKeyFacts
    <3>3. tasks'[t].op = "delete_peer" /\ tasks'[t].at = "untunnel"
      BY <1>0, <1>7, <3>1, FindKeyFacts
    <3>4. tasks'[t].arg.peer = a.peer /\ tasks'[t].arg.key = peer_keys[a.peer]
      BY <3>2
    <3> QED BY <3>3, <3>4
  <2>3. Present(p)' /\ peer_keys'[p] = peer_keys[p]
    BY <1>1, <1>2, <1>4, <1>7, <2>1 DEF DeleteFindKey
  <2>4. Moves(t, p)'
    BY <2>2 DEF Moves
  <2>5. Phase(t, p)'
    BY <2>2, <2>3 DEF Phase, Joins, Leaves
  <2> QED BY <1>0, <2>4, <2>5, OwnStepSuffices
<1>8. CASE DeleteUntunnel(t)
  <2>1. Present(p) /\ peer_keys[p] = a.key
    BY <1>0, <1>8 DEF Phase, Leaves, DeleteUntunnel, Stands
  <2>2. Present(p)' /\ peer_keys'[p] = a.key
    BY <1>1, <1>2, <1>4, <1>8, <2>1 DEF DeleteUntunnel
  <2>3. Return(t) \/ Goto(t, "delete")
    BY <1>8 DEF DeleteUntunnel
  <2> QED BY <1>5, <1>6, <1>8, <2>2, <2>3 DEF DeleteUntunnel, Stands
<1>9. CASE DeletePeerRow(t)
  <2>1. Present(p) /\ peer_keys[p] = a.key
    BY <1>0, <1>9 DEF Phase, Leaves, DeletePeerRow, Stands
  <2>2. UNCHANGED <<peers, peer_keys>>
    BY <1>1, <1>9 DEF DeletePeerRow
  <2>3. CASE UNCHANGED dbVars /\ Goto(t, "retunnel")
    <3>1. Present(p)' /\ peer_keys'[p] = a.key
      BY <1>2, <1>4, <2>1, <2>2, <2>3
    <3> QED BY <1>6, <1>9, <2>3, <3>1 DEF DeletePeerRow, Stands
  <2>4. CASE DeleteRows({}, {a.peer}, {}) /\ Goto(t, "leave")
    <3>1. p \notin DOMAIN db_peers'
      BY <2>4 DEF DeleteRows, Without, Restrict
    <3> QED BY <1>6, <1>9, <2>1, <2>2, <2>4, <3>1 DEF DeletePeerRow, Stands, Present
  <2> QED BY <1>9, <2>3, <2>4 DEF DeletePeerRow
<1>10. CASE DeleteLeave(t)
  <2>1. /\ p \in DOMAIN peers /\ p \notin DOMAIN db_peers
        /\ p \in DOMAIN peer_keys /\ peer_keys[p] = a.key
    BY <1>0, <1>10 DEF Phase, Leaves, DeleteLeave, Stands
  <2>2. IsIn(a.room, p)
    <3>1. At(a.room, p, a.ip)
      BY <1>0, <2>1 DEF InPlace
    <3> QED BY <1>0, <3>1 DEF At, IsIn, Routing, IndexConsistent, MembersMatchPeers
  <2>3. LeaveRoom(a.room, p) /\ Goto(t, "forget")
    BY <1>10, <2>2 DEF DeleteLeave
  <2>4. p \notin DOMAIN peers'
    BY <2>3 DEF LeaveRoom, Without, Restrict
  <2>5. UNCHANGED <<db_peers, peer_keys>>
    BY <1>2, <1>10 DEF DeleteLeave
  <2> QED BY <1>6, <1>10, <2>1, <2>3, <2>4, <2>5 DEF DeleteLeave, Stands
<1>11. CASE DeleteForget(t)
  <2>1. p \notin DOMAIN peers /\ p \notin DOMAIN db_peers
    BY <1>0, <1>11 DEF Phase, Leaves, DeleteForget, Stands
  <2>2. p \notin DOMAIN peer_keys'
    BY <1>11 DEF DeleteForget, Without, Restrict
  <2>3. Absent(p)'
    BY <1>1, <1>2, <1>11, <2>1, <2>2 DEF DeleteForget, Absent
  <2> QED BY <1>5, <1>11, <2>3 DEF DeleteForget
<1>12. ~DeleteReinsert(t)
  BY <1>0 DEF Phase, Leaves, DeleteReinsert, Stands
<1>13. CASE DeleteRetunnel(t)
  <2>1. Present(p)
    BY <1>0, <1>13 DEF Phase, Leaves, DeleteRetunnel, Stands
  <2>2. Present(p)'
    BY <1>1, <1>2, <1>4, <1>13, <2>1 DEF DeleteRetunnel
  <2> QED BY <1>5, <1>13, <2>2 DEF DeleteRetunnel
<1> QED BY <1>3, <1>7, <1>8, <1>9, <1>10, <1>11, <1>12, <1>13

LEMMA NextStepAgrees ==
  ASSUME ControlInv, Calm, CalmInv, up, NEW t \in Task, NextStep(t), NEW p \in PeerId
  PROVE  PeerAgrees(p)'
<1>1. CASE Moves(t, p)
  BY <1>1, JoinAgrees, DeleteAgrees DEF Moves
<1>2. CASE ~Moves(t, p)
  BY <1>2, OthersUnaffected
<1> QED BY <1>1, <1>2

LEMMA NewRequestAgrees ==
  ASSUME ControlInv, Calm, CalmInv, NEW t \in Task, NewRequest(t), NEW p \in PeerId
  PROVE  PeerAgrees(p)'
<1> DEFINE x == tasks'[t]
<1>0. TypeOK /\ TasksTyped /\ Routing /\ StoreTypes
  BY DEF ControlInv, Routing, StoreTypes
<1>1. /\ TasksTyped' /\ Opened(x) /\ MayOverlap(x.arg) /\ up /\ tasks[t] = NoTask
      /\ \A u \in Task : u # t => tasks'[u] = tasks[u]
      /\ UNCHANGED <<db_peers, peer_keys, up>>
  BY <1>0, NewRequestFacts DEF dbVars
<1>2. PeerAgrees(p)
  BY <1>1 DEF CalmInv
<1>3. ~Moves(t, p)
  BY <1>1 DEF Moves, NoTask
<1> HIDE DEF x
<1>4. CASE Moves(t, p)'
  <2>0. x.op \in {"join_room", "delete_peer"} /\ x.arg.peer = p
    BY <1>4 DEF Moves, x
  <2>1. ASSUME NEW u \in Task, u # t PROVE ~Moves(u, p)
    <3>1. CASE OneTask
      BY <2>1, <3>1 DEF OneTask
    <3>2. CASE Retried = {}
      <4>1. Concerns(t, p)'
        BY <1>1, <1>4, MovesConcernNext
      <4>2. "peer" \in DOMAIN x.arg
        BY <4>1 DEF Concerns, x
      <4>3. ~Concerns(u, p)
        BY <1>1, <2>0, <3>2, <4>2 DEF MayOverlap
      <4> QED BY <1>0, <4>3, MovesConcern
    <3> QED BY <3>1, <3>2 DEF Calm
  <2>2. Absent(p) \/ Present(p)
    BY <1>2, <1>3, <2>1 DEF PeerAgrees
  <2>3. \A u \in Task : u # t => ~Moves(u, p)'
    BY <1>1, <2>1 DEF Moves
  <2>4. \A u \in Task : u # t => Phase(u, p)'
    BY <2>3 DEF Phase, Joins, Leaves, Moves
  <2>5. Phase(t, p)'
    <3>1. \/ x \in Joining /\ x.at = "tunnel" /\ JoinRoom(x.arg.room, p, x.arg.ip)
          \/ x \in Searching /\ At(x.arg.room, p, x.arg.ip) /\ UNCHANGED vars
      BY <1>1, <2>0 DEF Opened, Creation, Deletion, Registering, Playing, Unhosting
    <3>2. CASE x \in Joining /\ x.at = "tunnel" /\ JoinRoom(x.arg.room, p, x.arg.ip)
      <4>1. p \in DOMAIN peers' /\ p \notin DOMAIN peers
        BY <3>2 DEF JoinRoom, Put
      <4>2. p \notin DOMAIN db_peers' /\ p \notin DOMAIN peer_keys'
        BY <1>1, <2>2, <4>1 DEF Absent, Present
      <4>3. x.op = "join_room"
        BY <3>2 DEF Joining
      <4> QED BY <3>2, <4>1, <4>2, <4>3 DEF Phase, Joins, Leaves, Pending, x
    <3>3. CASE x \in Searching /\ At(x.arg.room, p, x.arg.ip) /\ UNCHANGED vars
      <4>1. Present(p)
        BY <2>2, <3>3 DEF Absent, At
      <4>2. Present(p)'
        BY <1>1, <3>3, <4>1 DEF Present, RowAgrees, At, vars, peerVars
      <4>3. x.op = "delete_peer" /\ x.at = "key"
        BY <3>3 DEF Searching
      <4> QED BY <4>2, <4>3 DEF Phase, Joins, Leaves, x
    <3> QED BY <3>1, <3>2, <3>3
  <2> QED BY <1>4, <2>4, <2>5 DEF PeerAgrees
<1>5. CASE ~Moves(t, p)'
  <2>1. /\ p \in DOMAIN peers <=> p \in DOMAIN peers'
        /\ p \in DOMAIN peers => peers'[p] = peers[p]
    <3>1. \/ UNCHANGED peers
          \/ x \in Joining /\ JoinRoom(x.arg.room, x.arg.peer, x.arg.ip)
      BY <1>1 DEF Opened, CreateRoomWithId, SameMembers, vars, peerVars
    <3>2. CASE UNCHANGED peers
      BY <3>2
    <3>3. CASE x \in Joining /\ JoinRoom(x.arg.room, x.arg.peer, x.arg.ip)
      <4>1. x.arg.peer # p
        BY <1>5, <3>3 DEF Moves, Joining, x
      <4> QED BY <3>3, <4>1 DEF JoinRoom, Put
    <3> QED BY <3>1, <3>2, <3>3
  <2>2. SamePeer(p)
    BY <1>1, <2>1 DEF SamePeer
  <2>3. \A u \in Task : Moves(u, p)' => Moves(u, p) /\ tasks'[u] = tasks[u]
    BY <1>1, <1>5 DEF Moves
  <2>4. \A u \in Task : Moves(u, p) => Moves(u, p)'
    BY <1>1, <1>3 DEF Moves
  <2> QED BY <1>2, <2>2, <2>3, <2>4, SamePeerAgrees
<1> QED BY <1>4, <1>5

LEMMA StartUpAgrees ==
  ASSUME ControlInv, StartUp, NEW p \in PeerId
  PROVE  PeerAgrees(p)'
<1>1. \A t \in Task : tasks'[t] = NoTask
  BY DEF ControlInv, Down, StartUp
<1>2. \A t \in Task : Phase(t, p)'
  BY <1>1 DEF Phase, Joins, Leaves, NoTask
<1>3. /\ DOMAIN peers' = DOMAIN db_peers
      /\ \A q \in DOMAIN db_peers : /\ peers'[q].room_id = db_peers[q].room_id
                                    /\ peers'[q].virtual_ip = db_peers[q].virtual_ip
  BY DEF StartUp, Restore
<1>4. /\ UNCHANGED db_peers /\ DOMAIN peer_keys' = DOMAIN db_peers
      /\ \A q \in DOMAIN db_peers : peer_keys'[q] = db_peers[q].key
  BY DEF StartUp, RestoredKeys
<1>5. Absent(p)' \/ Present(p)'
  BY <1>3, <1>4 DEF Absent, Present, RowAgrees, At
<1> QED BY <1>2, <1>5 DEF PeerAgrees

(* Heartbeats and resumptions move nobody.                                  *)
LEMMA QuietRouter ==
  ASSUME ControlInv, Calm, RelayStep \/ \E r \in RoomId, q \in PeerId : ResumeRoom(r, q)
  PROVE  /\ UNCHANGED <<rooms, controlVars>>
         /\ DOMAIN peers' = DOMAIN peers
         /\ \A p \in DOMAIN peers : /\ peers'[p].room_id = peers[p].room_id
                                    /\ peers'[p].virtual_ip = peers[p].virtual_ip
<1>1. /\ UNCHANGED <<rooms, controlVars>>
      /\ DOMAIN peers' = DOMAIN peers
  BY DEF Calm, RelayStep, ResumeRoom, ResumePeer, MarkPeerSeen, TouchPeer, HeartbeatHost,
         RefreshHost, roomVars, peerVars
<1>2. RotatesEpochs
  BY ProcessIsNext, NextRotatesEpochs DEF ControlInv
<1> QED BY <1>1, <1>2 DEF RotatesEpochs

LEMMA ControlKeepsRoomsHeld ==
  ASSUME ControlInv, Calm, CalmInv, ControlNext
  PROVE  RoomsHeld'
<1>0. TypeOK /\ TasksTyped /\ StoreTypes /\ RoomsHeld /\ IsTable(peer_keys, PeerId, Key)
  BY DEF ControlInv, Routing, StoreTypes, CalmInv
<1>1. ASSUME NEW t \in Task, NewRequest(t)
      PROVE  RoomsHeld'
  <2> DEFINE x == tasks'[t]
  <2>1. Opened(x) /\ \A u \in Task : u # t => tasks'[u] = tasks[u]
    BY <1>0, <1>1, NewRequestFacts
  <2> HIDE DEF x
  <2>2. x.op = "delete_room" => DeletesRooms /\ LooksEmpty(x.arg.room) /\ UNCHANGED vars
    BY <2>1 DEF Opened, Creation, Joining, Searching, Registering, Playing, Unhosting
  <2>3. x.op = "create_room" => CreateRoomWithId(x.arg.room, x.arg.code)
    BY <2>1 DEF Opened, Deletion, Joining, Searching, Registering, Playing, Unhosting
  <2>4. ASSUME NEW r, NEW c, CreateRoomWithId(r, c)
        PROVE  /\ r \in DOMAIN rooms'
               /\ rooms'[r].members = {} /\ rooms'[r].host_sessions = {}
    BY <2>4 DEF CreateRoomWithId, Put
  <2>5. x.op \in {"create_room", "delete_room"} =>
          /\ x.arg.room \in DOMAIN rooms'
          /\ rooms'[x.arg.room].members = {} /\ rooms'[x.arg.room].host_sessions = {}
    BY <2>2, <2>3, <2>4 DEF LooksEmpty, vars, roomVars
  <2> QED BY <1>0, <2>1, <2>2, <2>5 DEF RoomsHeld, LooksEmpty, OneTask, x
<1>2. ASSUME NEW t \in Task, NextStep(t)
      PROVE  RoomsHeld'
  <2>1. /\ \A u \in Task : u # t => tasks'[u] = tasks[u]
        /\ tasks'[t] = NoTask \/ Continued(t)
    BY <1>0, <1>2, NextStepFacts
  <2>2. CASE tasks'[t] = NoTask
    BY <1>0, <2>1, <2>2 DEF RoomsHeld, OneTask, NoTask, LooksEmpty
  <2>3. CASE Continued(t) /\ tasks[t].op \in {"create_room", "delete_room"}
    <3>1. tasks'[t].op = tasks[t].op /\ tasks'[t].arg = tasks[t].arg
      BY <2>3 DEF Continued, Searching
    <3>2. InsertRoom(t) \/ DeleteRoomRow(t) \/ RemoveRoom(t)
      BY <1>2, <2>3
         DEF NextStep, Stands, JoinTunnel, JoinInsert, JoinUntunnel, JoinLeave, JoinRemember,
             DeleteForget, DeleteFindKey, DeleteUntunnel, DeletePeerRow, DeleteLeave,
             DeleteReinsert, DeleteRetunnel, UpsertHost, DeleteHostRow, UnregisterStep,
             InsertGameplay, RemoveGameplay
    <3>3. ~RemoveRoom(t)
      BY <1>0, <2>3, <3>1, ReturnFacts DEF RemoveRoom, NoTask
    <3>4. UNCHANGED rooms
      BY <3>2, <3>3 DEF InsertRoom, DeleteRoomRow, vars, roomVars
    <3> QED BY <1>0, <2>1, <3>1, <3>4 DEF RoomsHeld, OneTask, LooksEmpty
  <2>4. CASE Continued(t) /\ tasks[t].op \notin {"create_room", "delete_room"}
    BY <1>0, <2>1, <2>4 DEF RoomsHeld, OneTask, LooksEmpty, Continued
  <2> QED BY <2>1, <2>2, <2>3, <2>4
<1>3. CASE Crash \/ StartUp
  <2>1. \A t \in Task : tasks'[t] = NoTask
    BY <1>3 DEF Crash, StartUp, ControlInv, Down
  <2> QED BY <2>1 DEF RoomsHeld, NoTask
<1>4. CASE RelayStep \/ \E r \in RoomId, q \in PeerId : ResumeRoom(r, q)
  BY <1>0, <1>4, QuietRouter DEF RoomsHeld, LooksEmpty, OneTask, controlVars
<1> QED BY <1>1, <1>2, <1>3, <1>4 DEF ControlNext

LEMMA CalmInitInv == ControlInit => CalmInv
<1> SUFFICES ASSUME ControlInit PROVE CalmInv
  OBVIOUS
<1>1. /\ \A t \in Task : tasks[t] = NoTask
      /\ DOMAIN peers = {} /\ DOMAIN db_peers = {} /\ DOMAIN peer_keys = {}
  BY DEF ControlInit, Init, NoTables
<1>2. RoomsHeld
  BY <1>1 DEF RoomsHeld, NoTask
<1>3. \A p \in PeerId : PeerAgrees(p)
  BY <1>1 DEF PeerAgrees, Phase, Joins, Leaves, NoTask, Absent
<1> QED BY <1>2, <1>3 DEF CalmInv

LEMMA CalmNextInv ==
  ASSUME Calm
  PROVE  ControlInv /\ CalmInv /\ [ControlNext]_systemVars => CalmInv'
<1> SUFFICES ASSUME ControlInv, CalmInv, [ControlNext]_systemVars PROVE CalmInv'
  OBVIOUS
<1>0. TypeOK /\ StoreTypes /\ Down
  BY DEF ControlInv, Routing
<1>1. CASE ControlNext
  <2>1. RoomsHeld'
    BY <1>1, ControlKeepsRoomsHeld
  <2>2. ASSUME up', NEW p \in PeerId
        PROVE  PeerAgrees(p)'
    <3>1. CASE StartUp
      BY <3>1, StartUpAgrees
    <3>2. CASE ~StartUp
      <4>1. up
        BY <1>0, <1>1, <3>2, UpSteps
      <4>2. ~Crash
        BY <2>2 DEF Crash
      <4>3. ASSUME NEW t \in Task, NewRequest(t) PROVE PeerAgrees(p)'
        BY <4>3, NewRequestAgrees
      <4>4. ASSUME NEW t \in Task, NextStep(t) PROVE PeerAgrees(p)'
        BY <4>1, <4>4, NextStepAgrees
      <4>5. CASE RelayStep \/ \E r \in RoomId, q \in PeerId : ResumeRoom(r, q)
        <5>1. SamePeer(p) /\ UNCHANGED tasks
          BY <4>5, QuietRouter DEF SamePeer, controlVars, dbVars
        <5> QED BY <4>1, <5>1, SamePeerAgrees DEF CalmInv, Moves
      <4> QED BY <1>1, <3>2, <4>2, <4>3, <4>4, <4>5 DEF ControlNext
    <3> QED BY <3>1, <3>2
  <2> QED BY <2>1, <2>2 DEF CalmInv
<1>2. CASE UNCHANGED systemVars
  <2>1. UNCHANGED <<rooms, peers, db_peers, peer_keys, tasks, up>>
    BY <1>2 DEF systemVars, vars, roomVars, peerVars, controlVars, dbVars
  <2>2. RoomsHeld'
    BY <2>1 DEF CalmInv, RoomsHeld, LooksEmpty
  <2>3. ASSUME up', NEW p \in PeerId
        PROVE  PeerAgrees(p)'
    <3>1. SamePeer(p)
      BY <2>1 DEF SamePeer
    <3> QED BY <2>1, <2>3, <3>1, SamePeerAgrees DEF CalmInv, Moves
  <2> QED BY <2>2, <2>3 DEF CalmInv
<1> QED BY <1>1, <1>2

LEMMA CalmInvHolds ==
  ASSUME Calm
  PROVE  ControlSpec => [](ControlInv /\ CalmInv)
<1>1. ControlInv /\ CalmInv /\ [ControlNext]_systemVars => ControlInv' /\ CalmInv'
  BY ControlNextInv, CalmNextInv
<1> QED BY <1>1, ControlInitInv, CalmInitInv, PTL DEF ControlSpec

(* Whatever fails and whenever the process crashes: the key in memory is    *)
(* the stored one as soon as no request is in progress.                     *)
THEOREM KeysAlwaysAgree ==
  ASSUME Calm
  PROVE  ControlSpec => []KeysAgree
<1>1. ControlInv /\ CalmInv => KeysAgree
  <2> SUFFICES ASSUME ControlInv, CalmInv, Settled
               PROVE  peer_keys = [p \in DOMAIN db_peers |-> db_peers[p].key]
    BY DEF KeysAgree
  <2>1. IsTable(peer_keys, PeerId, Key) /\ DOMAIN db_peers \subseteq PeerId
    BY DEF ControlInv, StoreTypes, IsTable
  <2>2. ASSUME NEW p \in PeerId PROVE Absent(p) \/ Present(p)
    BY DEF CalmInv, PeerAgrees, Settled, Moves
  <2>3. DOMAIN peer_keys = DOMAIN db_peers
    BY <2>1, <2>2 DEF IsTable, Absent, Present
  <2>4. \A p \in DOMAIN db_peers : peer_keys[p] = db_peers[p].key
    BY <2>1, <2>2 DEF Absent, Present
  <2> QED BY <2>1, <2>3, <2>4 DEF IsTable
<1> QED BY <1>1, CalmInvHolds, PTL

-----------------------------------------------------------------------------
(* The rows of rooms.  When create_room fails while other requests are in   *)
(* progress somebody may have joined the room, which then stays without a   *)
(* row: so either nothing fails, or requests come one by one.               *)
RoomsCalm == Calm /\ (OneTask \/ MaxFaults = 0)

Creates(t, r) == tasks[t].op = "create_room" /\ tasks[t].arg.room = r
Dropped(t, r) == Stands(t, "delete_room", "remove") /\ tasks[t].arg.room = r

(* A room has its row, with its code, but for the request that is making    *)
(* the room or has deleted the row.                                         *)
RoomAgrees(r) ==
  /\ r \in DOMAIN db_rooms => r \in DOMAIN rooms /\ rooms[r].code = db_rooms[r]
  /\ r \in DOMAIN rooms =>
       r \in DOMAIN db_rooms \/ \E t \in Task : Creates(t, r) \/ Dropped(t, r)
  /\ \A t \in Task : Dropped(t, r) => r \notin DOMAIN db_rooms
  /\ \A t \in Task : Creates(t, r) =>
       /\ r \notin DOMAIN db_rooms
       /\ r \in DOMAIN rooms /\ rooms[r].code = tasks[t].arg.code
       /\ OneTask \/ tasks[t].at = "insert"

OneCreator == \A t, u \in Task : \A r \in RoomId : Creates(t, r) /\ Creates(u, r) => t = u

RoomInv == up => OneCreator /\ \A r \in RoomId : RoomAgrees(r)

SameRooms ==
  /\ DOMAIN rooms' = DOMAIN rooms
  /\ \A r \in DOMAIN rooms : rooms'[r].code = rooms[r].code

(* What happens to the rooms of the router.                                 *)
LEMMA RoomSteps ==
  ASSUME TypeOK, StoreTypes, ControlNext
  PROVE  \/ SameRooms \/ Crash \/ StartUp
         \/ \E t \in Task : /\ NewRequest(t) /\ tasks'[t] \in Creation
                            /\ CreateRoomWithId(tasks'[t].arg.room, tasks'[t].arg.code)
         \/ \E t \in Task : RemoveRoom(t) /\ RemoveEmptyRoom(tasks[t].arg.room)
<1>0. TasksTyped
  BY DEF StoreTypes
<1>1. UNCHANGED rooms => SameRooms
  BY DEF SameRooms
<1>2. UNCHANGED vars => SameRooms
  BY <1>1 DEF vars, roomVars
<1>3. ASSUME NEW H, NEW D, NEW G, NEW L, Purge(H, D, G, L)
      PROVE  SameRooms
  BY <1>3 DEF Purge, SameRooms, TypeOK, IsTable, RoomState
<1>4. ASSUME NEW t \in Task, NewRequest(t)
      PROVE  \/ SameRooms
             \/ /\ tasks'[t] \in Creation
                /\ CreateRoomWithId(tasks'[t].arg.room, tasks'[t].arg.code)
  <2> DEFINE x == tasks'[t]
  <2>1. Opened(x)
    BY <1>0, <1>4, NewRequestFacts
  <2> HIDE DEF x
  <2>2. ASSUME NEW r, NEW p, NEW ip, JoinRoom(r, p, ip)
        PROVE  SameRooms
    BY <2>2 DEF JoinRoom, SameRooms, TypeOK, IsTable, RoomState
  <2>3. SameMembers => SameRooms
    BY DEF SameMembers, SameRooms
  <2>4. SameRooms \/ (x \in Creation /\ CreateRoomWithId(x.arg.room, x.arg.code))
    BY <1>2, <2>1, <2>2, <2>3 DEF Opened
  <2> QED BY <2>4 DEF x
<1>5. ASSUME NEW t \in Task, NextStep(t)
      PROVE  SameRooms \/ (RemoveRoom(t) /\ RemoveEmptyRoom(tasks[t].arg.room))
  <2>1. CASE RemoveRoom(t)
    BY <1>2, <2>1 DEF RemoveRoom
  <2>2. CASE JoinLeave(t) \/ DeleteLeave(t)
    <3>1. LeaveRoom(tasks[t].arg.room, tasks[t].arg.peer) \/ UNCHANGED vars
      BY <2>2 DEF JoinLeave, DeleteLeave
    <3> QED BY <1>2, <1>3, <3>1 DEF LeaveRoom
  <2>3. CASE UnregisterStep(t)
    <3>1. UnregisterHost(tasks[t].arg.host) \/ UNCHANGED vars
      BY <2>3 DEF UnregisterStep
    <3> QED BY <1>2, <1>3, <3>1 DEF UnregisterHost
  <2>4. CASE RemoveGameplay(t)
    <3>1. UNCHANGED roomVars
      BY <2>4 DEF RemoveGameplay, RemoveGameplaySession, vars
    <3> QED BY <1>1, <3>1 DEF roomVars
  <2>5. \/ RemoveRoom(t) \/ JoinLeave(t) \/ DeleteLeave(t) \/ UnregisterStep(t)
        \/ RemoveGameplay(t) \/ UNCHANGED vars
    BY <1>5 DEF NextStep, InsertRoom, DeleteRoomRow, JoinTunnel, JoinInsert, JoinUntunnel,
            JoinRemember, DeleteFindKey, DeleteUntunnel, DeletePeerRow, DeleteForget,
            DeleteReinsert, DeleteRetunnel, UpsertHost, DeleteHostRow, InsertGameplay
  <2> QED BY <1>2, <2>1, <2>2, <2>3, <2>4, <2>5
<1>6. CASE RelayStep \/ \E r \in RoomId, q \in PeerId : ResumeRoom(r, q)
  <2>1. UNCHANGED rooms \/ Expire
    BY <1>6 DEF RelayStep, ResumeRoom, ResumePeer, MarkPeerSeen, TouchPeer,
                HeartbeatHost, RefreshHost, Tick, roomVars
  <2> QED BY <1>1, <1>3, <2>1 DEF Expire
<1> QED BY <1>4, <1>5, <1>6 DEF ControlNext

(* The room r, its row and the requests that make or drop it stay.          *)
SameRoom(r) ==
  /\ r \in DOMAIN rooms <=> r \in DOMAIN rooms'
  /\ r \in DOMAIN rooms => rooms'[r].code = rooms[r].code
  /\ r \in DOMAIN db_rooms <=> r \in DOMAIN db_rooms'
  /\ r \in DOMAIN db_rooms => db_rooms'[r] = db_rooms[r]

LEMMA SameRoomAgrees ==
  ASSUME NEW r, RoomAgrees(r), SameRoom(r),
         \A t \in Task : Creates(t, r)' => /\ Creates(t, r)
                                           /\ tasks'[t].arg.code = tasks[t].arg.code
                                           /\ tasks'[t].at = tasks[t].at \/ OneTask,
         \A t \in Task : Creates(t, r) => Creates(t, r)',
         \A t \in Task : Dropped(t, r)' <=> Dropped(t, r)
  PROVE  RoomAgrees(r)'
<1>1. \A t \in Task : Creates(t, r)' =>
        /\ r \notin DOMAIN db_rooms'
        /\ r \in DOMAIN rooms' /\ rooms'[r].code = tasks'[t].arg.code
        /\ OneTask \/ tasks'[t].at = "insert"
  BY DEF RoomAgrees, SameRoom
<1>2. \A t \in Task : Dropped(t, r)' => r \notin DOMAIN db_rooms'
  BY DEF RoomAgrees, SameRoom
<1>3. r \in DOMAIN rooms' =>
        r \in DOMAIN db_rooms' \/ \E t \in Task : Creates(t, r)' \/ Dropped(t, r)'
  BY DEF RoomAgrees, SameRoom
<1>4. r \in DOMAIN db_rooms' => r \in DOMAIN rooms' /\ rooms'[r].code = db_rooms'[r]
  BY DEF RoomAgrees, SameRoom
<1> QED BY <1>1, <1>2, <1>3, <1>4 DEF RoomAgrees

(* The rows of rooms change by the requests about rooms alone.              *)
LEMMA RoomRowsOfStep ==
  ASSUME StoreTypes, NEW t \in Task, NextStep(t), ~InsertRoom(t), ~DeleteRoomRow(t)
  PROVE  UNCHANGED db_rooms
<1>1. UNCHANGED <<db_rooms, db_peers>> \/ UNCHANGED db_rooms \/ \E P : RowsDeleted({}, P)
  BY RowsOfStep DEF PeerRowAdded
<1>2. ASSUME NEW P, RowsDeleted({}, P)
      PROVE  UNCHANGED db_rooms
  BY <1>2 DEF RowsDeleted, Without, Restrict, StoreTypes, IsTable
<1> QED BY <1>1, <1>2

LEMMA CreatesNext ==
  ASSUME StoreTypes, NEW t \in Task, NextStep(t), NEW u \in Task, NEW r, Creates(u, r)'
  PROVE  Creates(u, r) /\ tasks'[u].arg = tasks[u].arg
<1>1. /\ u # t => tasks'[u] = tasks[u]
      /\ tasks'[t] = NoTask \/ Continued(t)
  BY NextStepFacts DEF StoreTypes
<1>2. NoTask.op = "none"
  BY DEF NoTask
<1> QED BY <1>1, <1>2 DEF Creates, Continued, Searching

(* A request that is not about a room.                                      *)
LEMMA OtherKeepsRooms ==
  ASSUME StoreTypes, TypeOK, OneCreator, NEW r \in RoomId, RoomAgrees(r), NEW t \in Task,
         NextStep(t), ~InsertRoom(t), ~DeleteRoomRow(t), ~RemoveRoom(t), SameRooms
  PROVE  RoomAgrees(r)'
<1>1. /\ \A u \in Task : u # t => tasks'[u] = tasks[u]
      /\ tasks'[t] = NoTask \/ Continued(t)
  BY NextStepFacts DEF StoreTypes
<1>2. tasks[t].op \notin {"create_room", "delete_room"}
  <2>1. tasks[t].op = "none" \/ tasks[t].op \in PeerOps \cup {"delete_host"}
    BY DEF NextStep, Stands, PeerOps, JoinTunnel, JoinInsert, JoinUntunnel, JoinLeave,
           JoinRemember, DeleteForget, DeleteFindKey, DeleteUntunnel, DeletePeerRow,
           DeleteLeave, DeleteReinsert, DeleteRetunnel, UpsertHost, DeleteHostRow,
           UnregisterStep, InsertGameplay, RemoveGameplay
  <2> QED BY <2>1 DEF PeerOps
<1>3. \A u \in Task : (Creates(u, r)' <=> Creates(u, r)) /\ (Dropped(u, r)' <=> Dropped(u, r))
  BY <1>1, <1>2 DEF Creates, Dropped, Stands, Continued, NoTask
<1>4. \A u \in Task : Creates(u, r)' => tasks'[u] = tasks[u]
  BY <1>1, <1>2, <1>3 DEF Creates
<1>5. SameRoom(r)
  BY RoomRowsOfStep DEF SameRoom, SameRooms
<1> QED BY <1>3, <1>4, <1>5, SameRoomAgrees

(* The row of a new room fits: its code is no other room's.                 *)
LEMMA InsertKeepsRooms ==
  ASSUME ControlInv, RoomsCalm, RoomsHeld, OneCreator, \A r \in RoomId : RoomAgrees(r),
         NEW t \in Task, InsertRoom(t), NEW r \in RoomId
  PROVE  RoomAgrees(r)'
<1> DEFINE a == tasks[t].arg
<1>0. TasksTyped /\ StoreTypes /\ TypeOK /\ IndexConsistent
  BY DEF ControlInv, StoreTypes, Routing
<1>1. tasks[t] \in Creation /\ a.room \in RoomId /\ Creates(t, a.room)
  BY <1>0, RequestFacts DEF InsertRoom, Stands, Creation, Creates
<1>2. NextStep(t) /\ SameRooms
  BY DEF NextStep, InsertRoom, SameRooms, vars, roomVars
<1>3. RoomRowFits(a.room, a.code)
  <2>1. a.room \notin DOMAIN db_rooms /\ a.room \in DOMAIN rooms /\ rooms[a.room].code = a.code
    BY <1>1 DEF RoomAgrees
  <2>2. ASSUME NEW x \in DOMAIN db_rooms, db_rooms[x] = a.code
        PROVE  FALSE
    <3>1. x \in RoomId
      BY <1>0 DEF StoreTypes, IsTable
    <3>2. x \in DOMAIN rooms /\ rooms[x].code = a.code
      BY <2>2, <3>1 DEF RoomAgrees
    <3> QED BY <1>0, <2>1, <2>2, <3>2 DEF IndexConsistent, CodesMatchRooms
  <2> QED BY <2>1, <2>2 DEF RoomRowFits
<1>4. CASE Fault /\ UNCHANGED dbVars /\ Goto(t, "remove")
  <2>1. OneTask
    BY <1>0, <1>4 DEF Fault, RoomsCalm, StoreTypes
  <2>2. /\ tasks'[t].op = "create_room" /\ tasks'[t].arg = a
        /\ \A u \in Task : u # t => tasks'[u] = tasks[u]
    BY <1>0, <1>1, <1>4, GotoFacts DEF Creation
  <2>3. tasks[t].op = "create_room"
    BY <1>1 DEF Creates
  <2>4. SameRoom(r)
    BY <1>2, <1>4 DEF SameRoom, SameRooms, dbVars
  <2> QED BY <2>1, <2>2, <2>3, <2>4, SameRoomAgrees DEF Creates, Dropped, Stands
<1>5. CASE db_rooms' = Put(db_rooms, a.room, a.code) /\ Return(t)
  <2>1. tasks'[t] = NoTask /\ \A u \in Task : u # t => tasks'[u] = tasks[u]
    BY <1>0, <1>5, ReturnFacts
  <2>2. CASE r = a.room
    <3>1. r \in DOMAIN db_rooms' /\ db_rooms'[r] = a.code
      BY <1>5, <2>2 DEF Put
    <3>2. r \in DOMAIN rooms' /\ rooms'[r].code = a.code
      BY <1>1, <1>2, <2>2 DEF RoomAgrees, SameRooms
    <3>3. \A u \in Task : ~Creates(u, r)'
      BY <1>1, <2>1, <2>2 DEF OneCreator, Creates, NoTask
    <3>4. \A u \in Task : ~Dropped(u, r)'
      <4> SUFFICES ASSUME NEW u \in Task, Dropped(u, r)' PROVE FALSE
        OBVIOUS
      <4>1. u # t /\ tasks[u].op = "delete_room"
        BY <2>1 DEF Dropped, Stands, NoTask
      <4> QED BY <4>1 DEF RoomsHeld, RoomsCalm, Calm, OneTask
    <3> QED BY <3>1, <3>2, <3>3, <3>4 DEF RoomAgrees
  <2>3. CASE r # a.room
    <3>1. SameRoom(r)
      BY <1>2, <1>5, <2>3 DEF SameRoom, SameRooms, Put
    <3>2. tasks[t].op = "create_room" /\ ~Creates(t, r)
      BY <1>1, <2>3 DEF Creates
    <3> QED BY <2>1, <3>1, <3>2, SameRoomAgrees DEF Creates, Dropped, Stands, NoTask
  <2> QED BY <2>2, <2>3
<1> QED BY <1>3, <1>4, <1>5 DEF InsertRoom

(* delete_room has no other request to fear.                                *)
LEMMA DropKeepsRooms ==
  ASSUME ControlInv, RoomsCalm, RoomsHeld, \A r \in RoomId : RoomAgrees(r),
         NEW t \in Task, DeleteRoomRow(t), NEW r \in RoomId
  PROVE  RoomAgrees(r)'
<1> DEFINE a == tasks[t].arg
<1>0. TasksTyped /\ StoreTypes
  BY DEF ControlInv, StoreTypes
<1>1. tasks[t] \in Deletion /\ OneTask /\ a.room \in DOMAIN rooms
  BY <1>0, RequestFacts DEF DeleteRoomRow, Stands, Deletion, RoomsHeld, RoomsCalm, Calm, LooksEmpty
<1>2. NextStep(t) /\ SameRooms
  BY DEF NextStep, DeleteRoomRow, SameRooms, vars, roomVars
<1>3. \A u \in Task : ~Creates(u, r) /\ ~Creates(u, r)' /\ ~Dropped(u, r)
  <2>1. tasks[t].op = "delete_room" /\ tasks[t].at = "delete"
    BY DEF DeleteRoomRow, Stands
  <2>2. \A u \in Task : u = t
    BY <1>1 DEF OneTask
  <2>3. ~Creates(t, r) /\ ~Dropped(t, r)
    BY <2>1 DEF Creates, Dropped, Stands
  <2>4. ~Creates(t, r)'
    BY <1>0, <1>2, <2>3, CreatesNext
  <2> QED BY <2>2, <2>3, <2>4
<1>4. CASE UNCHANGED dbVars /\ Return(t)
  <2>1. tasks'[t] = NoTask
    BY <1>0, <1>4, ReturnFacts
  <2>2. \A u \in Task : ~Dropped(u, r)'
    BY <1>1, <2>1 DEF OneTask, Dropped, Stands, NoTask
  <2>3. SameRoom(r)
    BY <1>2, <1>4 DEF SameRoom, SameRooms, dbVars
  <2> QED BY <1>3, <2>2, <2>3, SameRoomAgrees
<1>5. CASE db_rooms' = Without(db_rooms, {a.room}) /\ Goto(t, "remove")
  <2>1. tasks'[t].op = "delete_room" /\ tasks'[t].at = "remove" /\ tasks'[t].arg = a
    BY <1>0, <1>1, <1>5, GotoFacts DEF Deletion
  <2>2. CASE r = a.room
    <3>1. Dropped(t, r)'
      BY <2>1, <2>2 DEF Dropped, Stands
    <3>2. r \notin DOMAIN db_rooms'
      BY <1>5, <2>2 DEF Without, Restrict
    <3> QED BY <1>3, <3>1, <3>2 DEF RoomAgrees
  <2>3. CASE r # a.room
    <3>1. SameRoom(r)
      BY <1>2, <1>5, <2>3 DEF SameRoom, SameRooms, Without, Restrict
    <3>2. \A u \in Task : ~Dropped(u, r)'
      BY <1>1, <2>1, <2>3 DEF OneTask, Dropped
    <3> QED BY <1>3, <3>1, <3>2, SameRoomAgrees
  <2> QED BY <2>2, <2>3
<1> QED BY <1>4, <1>5 DEF DeleteRoomRow, DeleteRows

LEMMA RemoveKeepsRooms ==
  ASSUME ControlInv, RoomsCalm, RoomsHeld, \A r \in RoomId : RoomAgrees(r),
         NEW t \in Task, RemoveRoom(t), NEW r \in RoomId
  PROVE  RoomAgrees(r)'
<1> DEFINE x == tasks[t].arg.room
<1>0. TasksTyped /\ StoreTypes
  BY DEF ControlInv, StoreTypes
<1>1. Creates(t, x) \/ Dropped(t, x)
  BY <1>0, RequestFacts DEF RemoveRoom, Stands, Creates, Dropped, Creation
<1>2. x \in RoomId
  BY <1>0, RequestFacts DEF RemoveRoom, Stands, Creation, Deletion
<1>3. OneTask
  <2>1. CASE Stands(t, "create_room", "remove")
    BY <1>2, <2>1 DEF RoomAgrees, Creates, Stands
  <2>2. CASE Stands(t, "delete_room", "remove")
    BY <2>2 DEF RoomsHeld, RoomsCalm, Calm, Stands
  <2> QED BY <2>1, <2>2 DEF RemoveRoom
<1>4. x \notin DOMAIN db_rooms
  BY <1>1, <1>2 DEF RoomAgrees
<1>5. RemoveEmptyRoom(x)
  BY <1>3 DEF RoomsHeld, Stands, RemoveRoom
<1>6. tasks'[t] = NoTask /\ UNCHANGED db_rooms
  BY <1>0, ReturnFacts DEF RemoveRoom, dbVars
<1>7. \A u \in Task : ~Creates(u, r)' /\ ~Dropped(u, r)'
  BY <1>3, <1>6 DEF OneTask, Creates, Dropped, Stands, NoTask
<1>8. CASE r = x
  <2>1. r \notin DOMAIN rooms' /\ r \notin DOMAIN db_rooms'
    BY <1>4, <1>5, <1>6, <1>8 DEF RemoveEmptyRoom, Without, Restrict
  <2> QED BY <1>7, <2>1 DEF RoomAgrees
<1>9. CASE r # x
  <2>1. SameRoom(r)
    BY <1>5, <1>6, <1>9 DEF SameRoom, RemoveEmptyRoom, Without, Restrict
  <2>2. \A u \in Task : ~Creates(u, r) /\ ~Dropped(u, r)
    BY <1>3, <1>9 DEF OneTask, Creates, Dropped
  <2> QED BY <1>7, <2>1, <2>2, SameRoomAgrees
<1> QED BY <1>8, <1>9

LEMMA NewRequestKeepsRooms ==
  ASSUME ControlInv, OneCreator, \A r \in RoomId : RoomAgrees(r),
         NEW t \in Task, NewRequest(t), NEW r \in RoomId
  PROVE  RoomAgrees(r)'
<1> DEFINE x == tasks'[t]
<1>0. TypeOK /\ StoreTypes /\ TasksTyped
  BY DEF ControlInv, Routing, StoreTypes
<1>1. /\ Opened(x) /\ tasks[t] = NoTask /\ UNCHANGED db_rooms
      /\ \A u \in Task : u # t => tasks'[u] = tasks[u]
  BY <1>0, NewRequestFacts DEF dbVars
<1>2. NoTask.op = "none"
  BY DEF NoTask
<1> HIDE DEF x
<1>3. ~Dropped(t, r) /\ ~Creates(t, r) /\ ~Dropped(t, r)'
  BY <1>1, <1>2 DEF Dropped, Creates, Stands, Opened, Creation, Deletion, Joining, Searching,
                    Registering, Playing, Unhosting, x
<1>4. CASE ~Creates(t, r)'
  <2>1. ASSUME NEW q, NEW p, NEW ip, JoinRoom(q, p, ip)
        PROVE  SameRooms
    BY <1>0, <2>1 DEF JoinRoom, SameRooms, TypeOK, IsTable, RoomState
  <2>2. ASSUME x \in Creation, CreateRoomWithId(x.arg.room, x.arg.code)
        PROVE  SameRoom(r)
    <3>1. x.arg.room # r
      BY <1>4, <2>2 DEF Creates, Creation, x
    <3> QED BY <1>1, <2>2, <3>1 DEF CreateRoomWithId, Put, SameRoom
  <2>3. SameRooms => SameRoom(r)
    BY <1>1 DEF SameRooms, SameRoom
  <2>4. (UNCHANGED vars => SameRooms) /\ (SameMembers => SameRooms)
    BY DEF SameMembers, SameRooms, vars, roomVars
  <2>5. SameRoom(r)
    BY <1>1, <2>1, <2>2, <2>3, <2>4 DEF Opened
  <2> QED BY <1>1, <1>3, <1>4, <2>5, SameRoomAgrees DEF Creates, Dropped, Stands
<1>5. CASE Creates(t, r)'
  <2>1. /\ x.op = "create_room" /\ x.arg.room = r
    BY <1>5 DEF Creates, x
  <2>2. /\ x.at = "insert" /\ r \notin DOMAIN db_rooms /\ CreateRoomWithId(r, x.arg.code)
    BY <1>1, <2>1 DEF Opened, Creation, Deletion, Joining, Searching, Registering, Playing, Unhosting
  <2>3. r \notin DOMAIN rooms /\ r \in DOMAIN rooms' /\ rooms'[r].code = x.arg.code
    BY <2>2 DEF CreateRoomWithId, Put
  <2>4. \A u \in Task : ~Creates(u, r)
    BY <2>3 DEF RoomAgrees
  <2>5. \A u \in Task : u # t => ~Creates(u, r)'
    BY <1>1, <2>4 DEF Creates
  <2> QED BY <1>1, <1>5, <2>2, <2>3, <2>5 DEF RoomAgrees, x
<1> QED BY <1>4, <1>5

LEMMA ControlKeepsOneCreator ==
  ASSUME ControlInv, OneCreator, \A r \in RoomId : RoomAgrees(r),
         NEW t \in Task, NewRequest(t) \/ NextStep(t)
  PROVE  OneCreator'
<1>0. TypeOK /\ StoreTypes /\ TasksTyped
  BY DEF ControlInv, Routing, StoreTypes
<1>1. CASE NextStep(t)
  BY <1>0, <1>1, CreatesNext DEF OneCreator
<1>2. CASE NewRequest(t)
  <2> DEFINE x == tasks'[t]
  <2>1. /\ Opened(x) /\ \A u \in Task : u # t => tasks'[u] = tasks[u]
    BY <1>0, <1>2, NewRequestFacts
  <2> HIDE DEF x
  <2>2. x.op = "create_room" => x.arg.room \notin DOMAIN rooms
    BY <2>1 DEF Opened, Creation, Deletion, Joining, Searching, Registering, Playing, Unhosting,
                CreateRoomWithId
  <2>3. \A u \in Task : \A r \in RoomId : Creates(u, r) => r \in DOMAIN rooms
    BY DEF RoomAgrees
  <2>4. \A u \in Task : \A r \in RoomId :
          Creates(u, r)' => \/ u # t /\ Creates(u, r)
                            \/ u = t /\ r \notin DOMAIN rooms
    BY <2>1, <2>2 DEF Creates, x
  <2> QED BY <2>3, <2>4 DEF OneCreator
<1> QED BY <1>1, <1>2

LEMMA StartUpRooms ==
  ASSUME ControlInv, StartUp
  PROVE  OneCreator' /\ \A r \in RoomId : RoomAgrees(r)'
<1>1. \A t \in Task : tasks'[t] = NoTask
  BY DEF ControlInv, Down, StartUp
<1>2. \A t \in Task : \A r : ~Creates(t, r)' /\ ~Dropped(t, r)'
  BY <1>1 DEF Creates, Dropped, Stands, NoTask
<1>3. /\ UNCHANGED db_rooms /\ DOMAIN rooms' = DOMAIN db_rooms
      /\ \A r \in DOMAIN db_rooms : rooms'[r].code = db_rooms[r]
  BY DEF StartUp, Restore
<1> QED BY <1>2, <1>3 DEF OneCreator, RoomAgrees

LEMMA RoomNextInv ==
  ASSUME RoomsCalm
  PROVE  ControlInv /\ CalmInv /\ RoomInv /\ [ControlNext]_systemVars => RoomInv'
<1> SUFFICES ASSUME ControlInv, CalmInv, RoomInv, [ControlNext]_systemVars, up'
             PROVE  OneCreator' /\ \A r \in RoomId : RoomAgrees(r)'
  BY DEF RoomInv
<1>0. TypeOK /\ StoreTypes /\ Down /\ RoomsHeld
  BY DEF ControlInv, Routing, CalmInv
<1>1. CASE StartUp
  BY <1>1, StartUpRooms
<1>2. CASE UNCHANGED <<db_rooms, tasks, up>> /\ SameRooms
  <2>1. up /\ OneCreator /\ \A r \in RoomId : RoomAgrees(r)
    BY <1>2 DEF RoomInv
  <2>2. OneCreator'
    BY <1>2, <2>1 DEF OneCreator, Creates
  <2>3. ASSUME NEW r \in RoomId PROVE RoomAgrees(r)'
    <3>1. SameRoom(r)
      BY <1>2 DEF SameRoom, SameRooms
    <3> QED BY <1>2, <2>1, <3>1, SameRoomAgrees DEF Creates, Dropped, Stands
  <2> QED BY <2>2, <2>3
<1>3. ASSUME ControlNext, ~StartUp
      PROVE  up /\ OneCreator /\ \A r \in RoomId : RoomAgrees(r)
  BY <1>0, <1>3, UpSteps DEF RoomInv
<1>4. ASSUME NEW t \in Task, NewRequest(t)
      PROVE  OneCreator' /\ \A r \in RoomId : RoomAgrees(r)'
  <2>1. ControlNext /\ ~StartUp
    BY <1>0, <1>4, NewRequestFacts DEF ControlNext, StartUp, StoreTypes
  <2> QED BY <1>3, <1>4, <2>1, ControlKeepsOneCreator, NewRequestKeepsRooms
<1>5. ASSUME NEW t \in Task, NextStep(t)
      PROVE  OneCreator' /\ \A r \in RoomId : RoomAgrees(r)'
  <2>1. ControlNext /\ ~StartUp
    <3>1. tasks[t].op # "none"
      BY <1>0, <1>5, NextStepFacts DEF StoreTypes
    <3> QED BY <1>0, <1>5, <3>1 DEF ControlNext, StartUp, Down, NoTask
  <2>2. OneCreator'
    BY <1>3, <1>5, <2>1, ControlKeepsOneCreator
  <2>3. ASSUME NEW r \in RoomId, ~InsertRoom(t), ~DeleteRoomRow(t), ~RemoveRoom(t)
        PROVE  RoomAgrees(r)'
    <3>1. SameRooms
      <4>1. \A u \in Task : NewRequest(u) => tasks'[u] # NoTask /\ tasks[u] = NoTask
        <5> SUFFICES ASSUME NEW u \in Task, NewRequest(u)
                     PROVE  tasks'[u] # NoTask /\ tasks[u] = NoTask
          OBVIOUS
        <5>1. Opened(tasks'[u]) /\ tasks[u] = NoTask
          BY <1>0, NewRequestFacts DEF StoreTypes
        <5>2. tasks'[u].op # "none"
          BY <5>1 DEF Opened, Creation, Deletion, Joining, Searching, Registering, Playing, Unhosting
        <5> QED BY <5>1, <5>2 DEF NoTask
      <4>2. ~Crash
        BY DEF Crash
      <4>3. \A u \in Task : RemoveRoom(u) => u = t
        BY <1>0, <1>5, NextStepFacts, ReturnFacts DEF RemoveRoom, StoreTypes, Stands, NoTask
      <4>4. \A u \in Task : NewRequest(u) => u = t
        BY <1>0, <1>5, <4>1, NextStepFacts DEF StoreTypes
      <4>5. tasks[t] # NoTask
        BY <1>0, <1>5, NextStepFacts DEF StoreTypes, NoTask
      <4> QED BY <1>0, <2>1, <2>3, <4>1, <4>2, <4>3, <4>4, <4>5, RoomSteps
    <3> QED BY <1>0, <1>3, <1>5, <2>1, <2>3, <3>1, OtherKeepsRooms
  <2> QED BY <1>0, <1>3, <2>1, <2>2, <2>3, InsertKeepsRooms, DropKeepsRooms, RemoveKeepsRooms
<1>6. CASE RelayStep \/ \E r \in RoomId, q \in PeerId : ResumeRoom(r, q)
  BY <1>2, <1>6, QuietRouter DEF RoomsCalm, SameRooms, controlVars, dbVars
<1>7. ~Crash
  BY DEF Crash
<1>8. CASE UNCHANGED systemVars
  BY <1>2, <1>8 DEF systemVars, vars, roomVars, controlVars, dbVars, SameRooms
<1> QED BY <1>1, <1>4, <1>5, <1>6, <1>7, <1>8 DEF ControlNext

LEMMA RoomInvHolds ==
  ASSUME RoomsCalm
  PROVE  ControlSpec => [](ControlInv /\ CalmInv /\ RoomInv)
<1>1. Calm
  BY DEF RoomsCalm
<1>2. ControlInit => RoomInv
  BY DEF ControlInit, Init, RoomInv, OneCreator, RoomAgrees, Creates, Dropped, Stands,
         NoTask, NoTables
<1>3. ControlInv /\ CalmInv /\ RoomInv /\ [ControlNext]_systemVars
        => ControlInv' /\ CalmInv' /\ RoomInv'
  BY <1>1, ControlNextInv, CalmNextInv, RoomNextInv
<1> QED BY <1>2, <1>3, ControlInitInv, CalmInitInv, PTL DEF ControlSpec

(* Whatever failed and was undone, whenever the process crashed: as soon as *)
(* no request is in progress the rows are the rooms and peers of the router.*)
THEOREM RowsAlwaysAgree ==
  ASSUME RoomsCalm
  PROVE  ControlSpec => []RowsAgree
<1>1. ControlInv /\ CalmInv /\ RoomInv => RowsAgree
  <2> SUFFICES ASSUME ControlInv, CalmInv, RoomInv, Settled
               PROVE  /\ db_rooms = [r \in DOMAIN rooms |-> rooms[r].code]
                      /\ DOMAIN db_peers = DOMAIN peers
                      /\ \A p \in DOMAIN peers : RowAgrees(p)
    BY DEF RowsAgree, RowAgrees
  <2>1. /\ DOMAIN db_rooms \subseteq RoomId /\ DOMAIN rooms \subseteq RoomId
        /\ DOMAIN db_peers \subseteq PeerId /\ DOMAIN peers \subseteq PeerId
        /\ db_rooms = [r \in DOMAIN db_rooms |-> db_rooms[r]]
    BY DEF ControlInv, Routing, TypeOK, StoreTypes, IsTable
  <2>2. \A t \in Task : \A r : ~Creates(t, r) /\ ~Dropped(t, r)
    BY DEF Settled, Creates, Dropped, Stands
  <2>3. \A r \in RoomId : /\ r \in DOMAIN rooms <=> r \in DOMAIN db_rooms
                          /\ r \in DOMAIN rooms => rooms[r].code = db_rooms[r]
    BY <2>2 DEF RoomInv, RoomAgrees, Settled
  <2>4. \A p \in PeerId : Absent(p) \/ Present(p)
    BY DEF CalmInv, PeerAgrees, Settled, Moves
  <2>5. DOMAIN db_rooms = DOMAIN rooms
    BY <2>1, <2>3
  <2>6. db_rooms = [r \in DOMAIN rooms |-> rooms[r].code]
    BY <2>1, <2>3, <2>5
  <2>7. DOMAIN db_peers = DOMAIN peers /\ \A p \in DOMAIN peers : RowAgrees(p)
    BY <2>1, <2>4 DEF Absent, Present
  <2> QED BY <2>6, <2>7
<1> QED BY <1>1, RoomInvHolds, PTL

-----------------------------------------------------------------------------
(* The tunnels.  A tunnel is lost when its removal or its restoration, the  *)
(* undoing of an earlier failure, fails too.  So nothing fails; or requests *)
(* come one by one, and one call fails.                                     *)
TunnelsCalm ==
  /\ Calm /\ ~SharedKeys
  /\ MaxFaults = 0 \/ (OneTask /\ MaxFaults = 1)

(* The store, the memory or a request says that p has the key k.            *)
HasKey(p, k) ==
  \/ p \in DOMAIN peer_keys /\ peer_keys[p] = k
  \/ p \in DOMAIN db_peers /\ db_peers[p].key = k
  \/ \E t \in Task : Moves(t, p) /\ tasks[t].at # "key" /\ tasks[t].arg.key = k

KeysApart == \A p, q \in PeerId : \A k : HasKey(p, k) /\ HasKey(q, k) => p = q

Tunneled(k, ip) == k \in DOMAIN wg /\ wg[k] = {ip}

RowTunnel(p) ==
  p \in DOMAIN db_peers =>
    \/ Tunneled(db_peers[p].key, db_peers[p].virtual_ip)
    \/ \E t \in Task : Leaves(t, p, {"delete", "retunnel"})
JoinTunneled(p) ==
  \A t \in Task :
    Joins(t, p, {"insert", "untunnel"}) => Tunneled(tasks[t].arg.key, tasks[t].arg.ip)

(* What is undone is undone because a call has failed, and no other will.   *)
NoFaultLeft ==
  \A t \in Task : Stands(t, "join_room", "untunnel") \/ Stands(t, "delete_peer", "retunnel")
                    => faults >= MaxFaults

(* The tunnel k is the one of p.                                            *)
Serves(p, k) ==
  /\ p \in DOMAIN peers /\ wg[k] = {peers[p].virtual_ip}
  /\ \/ /\ p \in DOMAIN db_peers /\ db_peers[p].key = k
        /\ \A t \in Task : ~Leaves(t, p, {"delete", "retunnel"})
     \/ \E t \in Task : Joins(t, p, {"insert", "untunnel"}) /\ tasks[t].arg.key = k
NoStrays == up /\ crashes = 0 => \A k \in DOMAIN wg : \E p \in PeerId : Serves(p, k)

TunnelInv ==
  /\ KeysApart /\ NoFaultLeft /\ NoStrays
  /\ up => \A p \in PeerId : RowTunnel(p) /\ JoinTunneled(p)

(* No key is ever said to be of two peers.                                  *)
LEMMA NextStepKeys ==
  ASSUME StoreTypes, NEW t \in Task, NextStep(t), NEW p \in PeerId, NEW k, HasKey(p, k)'
  PROVE  HasKey(p, k)
<1> DEFINE a == tasks[t].arg
<1>0. /\ TasksTyped /\ IsTable(peer_keys, PeerId, Key)
      /\ \A u \in Task : u # t => tasks'[u] = tasks[u]
      /\ tasks'[t] = NoTask \/ Continued(t)
  BY NextStepFacts DEF StoreTypes
<1>1. CASE \E u \in Task : Moves(u, p)' /\ tasks'[u].at # "key" /\ tasks'[u].arg.key = k
  <2>1. PICK u \in Task : Moves(u, p)' /\ tasks'[u].at # "key" /\ tasks'[u].arg.key = k
    BY <1>1
  <2>2. CASE u # t
    BY <1>0, <2>1, <2>2 DEF HasKey, Moves
  <2>3. CASE u = t
    <3>1. Continued(t) /\ Moves(t, p)
      BY <1>0, <2>1, <2>3, NextStepMoves DEF Moves, NoTask
    <3>2. CASE tasks'[t].arg = a
      <4>1. tasks[t].at # "key"
        <5>1. tasks[t].at = "key" => tasks[t] \in Searching /\ "key" \notin DOMAIN a
          BY <1>0, <3>1, RequestFacts DEF Moves, Joining, Searching, Leaving, PeerArg
        <5>2. tasks[t].at = "key" => DeleteFindKey(t)
          BY <3>1 DEF NextStep, Stands, Moves, InsertRoom, DeleteRoomRow, RemoveRoom, JoinTunnel,
             JoinInsert, JoinUntunnel, JoinLeave, JoinRemember, DeleteForget, DeleteUntunnel,
             DeletePeerRow, DeleteLeave, DeleteReinsert, DeleteRetunnel, UpsertHost,
             DeleteHostRow, UnregisterStep, InsertGameplay, RemoveGameplay
        <5>3. tasks[t].at = "key" => tasks'[t].arg # a
          <6>1. ASSUME tasks[t].at = "key" PROVE "key" \in DOMAIN tasks'[t].arg
            <7>1. a.peer \in DOMAIN peer_keys
              BY <1>0, <2>1, <2>3, <5>2, <6>1, ReturnFacts DEF DeleteFindKey, Moves, NoTask
            <7>2. tasks'[t].arg = [room |-> a.room, peer |-> a.peer, ip |-> a.ip,
                                  key |-> peer_keys[a.peer]]
              BY <1>0, <5>2, <6>1, <7>1, FindKeyFacts
            <7> QED BY <7>2
          <6> QED BY <5>1, <6>1
        <5> QED BY <3>2, <5>3
      <4> QED BY <2>1, <2>3, <3>1, <3>2, <4>1 DEF HasKey
    <3>3. CASE tasks'[t].arg # a
      <4>1. a.peer \in DOMAIN peer_keys /\ tasks'[t].arg.key = peer_keys[a.peer]
        BY <3>1, <3>3 DEF Continued
      <4> QED BY <2>1, <2>3, <3>1, <4>1 DEF HasKey, Moves
    <3> QED BY <3>2, <3>3
  <2> QED BY <2>2, <2>3
<1>2. CASE p \in DOMAIN peer_keys' /\ peer_keys'[p] = k
  <2>1. CASE JoinRemember(t)
    <3>1. Moves(t, a.peer) /\ tasks[t].at # "key"
      BY <2>1 DEF JoinRemember, Stands, Moves
    <3>2. p = a.peer => k = a.key
      BY <1>2, <2>1 DEF JoinRemember, Put
    <3>3. p # a.peer => p \in DOMAIN peer_keys /\ peer_keys[p] = k
      BY <1>2, <2>1 DEF JoinRemember, Put
    <3> QED BY <3>1, <3>2, <3>3 DEF HasKey
  <2>2. CASE DeleteForget(t)
    BY <1>2, <2>2 DEF HasKey, DeleteForget, Without, Restrict
  <2>3. CASE UNCHANGED peer_keys
    BY <1>2, <2>3 DEF HasKey
  <2>4. JoinRemember(t) \/ DeleteForget(t) \/ UNCHANGED peer_keys
    BY DEF NextStep, InsertRoom, DeleteRoomRow, RemoveRoom, JoinTunnel, JoinInsert,
            JoinUntunnel, JoinLeave, DeleteFindKey, DeleteLeave,
            DeleteUntunnel, DeletePeerRow, DeleteReinsert, DeleteRetunnel,
            UpsertHost, DeleteHostRow, UnregisterStep, InsertGameplay, RemoveGameplay
  <2> QED BY <2>1, <2>2, <2>3, <2>4
<1>3. CASE p \in DOMAIN db_peers' /\ db_peers'[p].key = k
  <2>1. CASE (JoinInsert(t) \/ DeleteReinsert(t)) /\ PeerRowAdded(a)
    <3>1. Moves(t, a.peer) /\ tasks[t].at # "key"
      BY <2>1 DEF JoinInsert, DeleteReinsert, Stands, Moves
    <3>2. p = a.peer => k = a.key
      BY <1>3, <2>1 DEF PeerRowAdded, PeerRow, Put
    <3>3. p # a.peer => p \in DOMAIN db_peers /\ db_peers[p].key = k
      BY <1>3, <2>1 DEF PeerRowAdded, Put
    <3> QED BY <3>1, <3>2, <3>3 DEF HasKey
  <2>2. ASSUME NEW R, NEW P, RowsDeleted(R, P)
        PROVE  HasKey(p, k)
    BY <1>3, <2>2 DEF HasKey, RowsDeleted, Without, Restrict
  <2>3. CASE UNCHANGED db_peers
    BY <1>3, <2>3 DEF HasKey
  <2> QED BY <2>1, <2>2, <2>3, RowsOfStep DEF RoomRowAdded
<1> QED BY <1>1, <1>2, <1>3 DEF HasKey

LEMMA NewRequestKeys ==
  ASSUME StoreTypes, TypeOK, ~SharedKeys, KeysApart, NEW t \in Task, NewRequest(t)
  PROVE  KeysApart'
<1> DEFINE x == tasks'[t]
<1>0. /\ Opened(x) /\ UNCHANGED <<db_peers, peer_keys>>
      /\ tasks[t] = NoTask /\ TasksTyped
      /\ \A u \in Task : u # t => tasks'[u] = tasks[u]
  BY NewRequestFacts DEF StoreTypes, dbVars
<1> HIDE DEF x
<1>1. ASSUME NEW p, NEW k, HasKey(p, k)'
      PROVE  HasKey(p, k) \/ (x \in Joining /\ x.arg.peer = p /\ x.arg.key = k)
  <2>1. CASE \E u \in Task : Moves(u, p)' /\ tasks'[u].at # "key" /\ tasks'[u].arg.key = k
    <3>1. PICK u \in Task : Moves(u, p)' /\ tasks'[u].at # "key" /\ tasks'[u].arg.key = k
      BY <2>1
    <3>2. CASE u # t
      BY <1>0, <3>1, <3>2 DEF HasKey, Moves
    <3>3. CASE u = t
      BY <1>0, <3>1, <3>3 DEF Moves, Opened, Creation, Deletion, Searching, Registering, Playing,
                             Unhosting, x
    <3> QED BY <3>2, <3>3
  <2> QED BY <1>0, <1>1, <2>1 DEF HasKey
<1>2. ASSUME x \in Joining, NEW q, HasKey(q, x.arg.key)
      PROVE  q = x.arg.peer
  <2> DEFINE p == x.arg.peer
             k == x.arg.key
  <2> SUFFICES ASSUME q # p PROVE k \in KeysOfOthers(p)
    BY <1>0, <1>2 DEF Opened, Creation, Deletion, Searching, Registering, Playing, Unhosting, Joining
  <2>1. CASE \E u \in Task : Moves(u, q) /\ tasks[u].at # "key" /\ tasks[u].arg.key = k
    <3>1. PICK u \in Task : Moves(u, q) /\ tasks[u].at # "key" /\ tasks[u].arg.key = k
      BY <2>1
    <3>2. "key" \in DOMAIN tasks[u].arg
      <4>1. tasks[u] \in Joining \cup Leaving
        BY <1>0, <3>1, RequestFacts DEF Moves, Searching
      <4>2. tasks[u].arg \in JoinArg
        BY <4>1 DEF Joining, Leaving
      <4> QED BY <4>2 DEF JoinArg
    <3>3. ~Concerns(u, p)
      BY <3>1 DEF Concerns, Moves
    <3> QED BY <3>1, <3>2, <3>3 DEF KeysOfOthers
  <2> QED BY <1>2, <2>1 DEF HasKey, KeysOfOthers
<1> QED BY <1>1, <1>2 DEF KeysApart

LEMMA ControlKeepsKeysApart ==
  ASSUME ControlInv, ~SharedKeys, KeysApart, [ControlNext]_systemVars
  PROVE  KeysApart'
<1>0. StoreTypes /\ TypeOK /\ Down
  BY DEF ControlInv, Routing
<1>1. CASE \E t \in Task : NewRequest(t)
  BY <1>0, <1>1, NewRequestKeys
<1>2. CASE \E t \in Task : NextStep(t)
  BY <1>0, <1>2, NextStepKeys DEF KeysApart
<1>3. CASE UNCHANGED <<db_peers, peer_keys, tasks>>
  BY <1>3 DEF KeysApart, HasKey, Moves
<1>4. CASE Crash \/ StartUp
  <2>1. \A t \in Task : tasks'[t] = NoTask
    BY <1>0, <1>4 DEF Crash, StartUp, Down
  <2>2. UNCHANGED db_peers
    BY <1>4 DEF Crash, StartUp, dbVars
  <2>3. \A p \in DOMAIN peer_keys' : p \in DOMAIN db_peers /\ peer_keys'[p] = db_peers[p].key
    BY <1>4 DEF Crash, StartUp, RestoredKeys, NoTables
  <2>4. \A p, k : HasKey(p, k)' => HasKey(p, k)
    BY <2>1, <2>2, <2>3 DEF HasKey, Moves, NoTask
  <2> QED BY <2>4 DEF KeysApart
<1>5. RelayStep \/ (\E r \in RoomId, p \in PeerId : ResumeRoom(r, p)) \/ UNCHANGED systemVars
        => UNCHANGED <<db_peers, peer_keys, tasks>>
  BY DEF RelayStep, ResumeRoom, systemVars, controlVars, dbVars
<1> QED BY <1>1, <1>2, <1>3, <1>4, <1>5 DEF ControlNext

(* A row says where the peer is.                                            *)
LEMMA RowsAreRight ==
  ASSUME TasksTyped, NEW p \in PeerId, PeerAgrees(p), p \in DOMAIN db_peers
  PROVE  RowAgrees(p) /\ p \in DOMAIN peers /\ db_peers[p].virtual_ip = peers[p].virtual_ip
<1>1. CASE \A t \in Task : ~Moves(t, p)
  BY <1>1 DEF PeerAgrees, Absent, Present, RowAgrees, At
<1>2. CASE \E t \in Task : Moves(t, p)
  <2>1. PICK t \in Task : Moves(t, p)
    BY <1>2
  <2>2. Phase(t, p)
    BY DEF PeerAgrees
  <2>3. tasks[t] \in Joining \cup Searching \cup Leaving
    BY <2>1, RequestFacts DEF Moves
  <2>4. RowAgrees(p)
    BY <2>1, <2>2, <2>3
       DEF Phase, Present, Moves, Joins, Leaves, Pending, Joining, Searching, Leaving
  <2> QED BY <2>4 DEF RowAgrees, At
<1> QED BY <1>1, <1>2

(* The tunnel of a peer the step is not about.                              *)
LEMMA OtherTunnels ==
  ASSUME ControlInv, Calm, CalmInv, KeysApart, up, NEW t \in Task, NextStep(t),
         NEW q \in PeerId, ~Moves(t, q), q \in DOMAIN peers,
         NEW k, HasKey(q, k), Tunneled(k, peers[q].virtual_ip)
  PROVE  Tunneled(k, peers[q].virtual_ip)'
<1> DEFINE a == tasks[t].arg
<1>0. /\ StoreTypes /\ TasksTyped /\ Routing /\ IndexConsistent
      /\ q \in DOMAIN peers' /\ peers'[q] = peers[q]
  BY RouterUnaffected DEF ControlInv, StoreTypes, Routing
<1>1. ASSUME Moves(t, a.peer), tasks[t].at # "key", a \in JoinArg
      PROVE  a.key # k /\ a.peer # q
  <2>1. a.peer # q /\ a.peer \in PeerId
    BY <1>1 DEF Moves, JoinArg
  <2>2. HasKey(a.peer, a.key)
    BY <1>1 DEF HasKey
  <2> QED BY <2>1, <2>2 DEF KeysApart
<1>2. CASE UNCHANGED wg
  BY <1>0, <1>2 DEF Tunneled
<1>3. CASE /\ JoinTunnel(t) \/ DeleteRetunnel(t)
           /\ a \in JoinArg /\ wg' = WithTunnel(wg, a.key, a.ip)
  <2>1. Moves(t, a.peer) /\ tasks[t].at # "key"
    BY <1>3 DEF JoinTunnel, DeleteRetunnel, Stands, Moves
  <2>2. Phase(t, a.peer) /\ a.peer \in PeerId
    BY <1>3 DEF CalmInv, PeerAgrees, JoinArg
  <2>3. a.peer \in DOMAIN peers
    BY <1>3, <2>2 DEF Phase, Joins, Leaves, Present, Pending, JoinTunnel, DeleteRetunnel, Stands
  <2>4. peers[a.peer].virtual_ip = a.ip
    BY <2>1, <2>2, <2>3 DEF ControlInv, InPlace, Steady, Calm, At
  <2>5. peers[q].virtual_ip # a.ip
    BY <1>0, <1>1, <1>3, <2>1, <2>3, <2>4 DEF IndexConsistent, AddressesMatchPeers
  <2> QED BY <1>0, <1>1, <1>3, <2>1, <2>5 DEF WithTunnel, Tunneled
<1>4. CASE /\ JoinUntunnel(t) \/ DeleteUntunnel(t)
           /\ a \in JoinArg /\ wg' = Without(wg, {a.key})
  <2>1. Moves(t, a.peer) /\ tasks[t].at # "key"
    BY <1>4 DEF JoinUntunnel, DeleteUntunnel, Stands, Moves
  <2> QED BY <1>0, <1>1, <1>4, <2>1 DEF Without, Restrict, Tunneled
<1> QED BY <1>0, <1>2, <1>3, <1>4, TunnelsOfStep

LEMMA OthersKeepTunnels ==
  ASSUME ControlInv, Calm, CalmInv, KeysApart, up, NEW t \in Task, NextStep(t),
         NEW q \in PeerId, ~Moves(t, q)
  PROVE  /\ RowTunnel(q) => RowTunnel(q)'
         /\ JoinTunneled(q) => JoinTunneled(q)'
         /\ \A k \in DOMAIN wg : Serves(q, k) => k \in DOMAIN wg' /\ Serves(q, k)'
<1>0. /\ StoreTypes /\ TasksTyped /\ PeerAgrees(q) /\ InPlace /\ q \in Steady
      /\ \A u \in Task : u # t => tasks'[u] = tasks[u]
  BY NextStepFacts DEF ControlInv, StoreTypes, CalmInv, Calm, Steady
<1>1. ~Moves(t, q)'
  BY <1>0, NextStepMoves
<1>2. /\ q \in DOMAIN peers <=> q \in DOMAIN peers'
      /\ q \in DOMAIN peers => peers'[q] = peers[q]
      /\ q \in DOMAIN db_peers <=> q \in DOMAIN db_peers'
      /\ q \in DOMAIN db_peers => db_peers'[q] = db_peers[q]
  BY RouterUnaffected, RowsUnaffected
<1>3. \A S : \A u \in Task : /\ Leaves(u, q, S)' <=> Leaves(u, q, S)
                             /\ Joins(u, q, S)' <=> Joins(u, q, S)
                             /\ Joins(u, q, S) => tasks'[u] = tasks[u]
  BY <1>0, <1>1 DEF Leaves, Joins, Moves
<1>4. \A x : q \in DOMAIN peers /\ HasKey(q, x) /\ Tunneled(x, peers[q].virtual_ip)
               => x \in DOMAIN wg' /\ wg'[x] = {peers[q].virtual_ip}
  BY <1>2, OtherTunnels DEF Tunneled
<1>5. ASSUME RowTunnel(q) PROVE RowTunnel(q)'
  <2>1. CASE \E u \in Task : Leaves(u, q, {"delete", "retunnel"})
    BY <1>3, <2>1 DEF RowTunnel
  <2>2. CASE q \in DOMAIN db_peers /\ Tunneled(db_peers[q].key, db_peers[q].virtual_ip)
    <3>1. q \in DOMAIN peers /\ db_peers[q].virtual_ip = peers[q].virtual_ip
      BY <1>0, <2>2, RowsAreRight
    <3>2. HasKey(q, db_peers[q].key)
      BY <2>2 DEF HasKey
    <3> QED BY <1>2, <1>4, <2>2, <3>1, <3>2 DEF RowTunnel, Tunneled
  <2> QED BY <1>2, <1>5, <2>1, <2>2 DEF RowTunnel
<1>6. ASSUME JoinTunneled(q), NEW u \in Task, Joins(u, q, {"insert", "untunnel"})'
      PROVE  tasks'[u].arg.key \in DOMAIN wg' /\ wg'[tasks'[u].arg.key] = {tasks'[u].arg.ip}
  <2>1. Joins(u, q, {"insert", "untunnel"}) /\ tasks'[u] = tasks[u]
    BY <1>3, <1>6
  <2>2. /\ HasKey(q, tasks[u].arg.key) /\ Moves(u, q)
        /\ Tunneled(tasks[u].arg.key, tasks[u].arg.ip)
    BY <1>6, <2>1 DEF HasKey, Joins, Moves, JoinTunneled
  <2>3. q \in DOMAIN peers
    BY <1>0, <2>1 DEF PeerAgrees, Phase, Joins, Pending
  <2>4. tasks[u].arg.ip = peers[q].virtual_ip
    BY <1>0, <2>2, <2>3 DEF InPlace, At
  <2> QED BY <1>4, <2>1, <2>2, <2>3, <2>4
<1>7. ASSUME NEW k \in DOMAIN wg, Serves(q, k)
      PROVE  k \in DOMAIN wg' /\ Serves(q, k)'
  <2>1. HasKey(q, k)
    BY <1>7 DEF Serves, HasKey, Joins, Moves
  <2>2. k \in DOMAIN wg' /\ wg'[k] = {peers[q].virtual_ip}
    BY <1>4, <1>7, <2>1 DEF Serves, Tunneled
  <2> QED BY <1>2, <1>3, <1>7, <2>2 DEF Serves
<1>8. JoinTunneled(q) => JoinTunneled(q)'
  BY <1>6 DEF JoinTunneled, Tunneled
<1> QED BY <1>5, <1>7, <1>8

(* The tunnel of the peer it is about.                                      *)
OwnTunnelKept(p) ==
  /\ RowTunnel(p)' /\ JoinTunneled(p)'
  /\ \A k \in DOMAIN wg' : Serves(p, k)' \/ (k \in DOMAIN wg /\ ~Serves(p, k))

(* What is left of these definitions when there is one request about p.     *)
LEMMA OwnTunnelSuffices ==
  ASSUME ControlInv, Calm, NEW t \in Task, NextStep(t), NEW p \in PeerId, Moves(t, p),
         p \in DOMAIN db_peers' => \/ Tunneled(db_peers[p].key, db_peers[p].virtual_ip)'
                                   \/ Leaves(t, p, {"delete", "retunnel"})',
         Joins(t, p, {"insert", "untunnel"})' => Tunneled(tasks[t].arg.key, tasks[t].arg.ip)',
         \A k \in DOMAIN wg' :
           \/ Serves(p, k)'
           \/ /\ k \in DOMAIN wg
              /\ \/ p \notin DOMAIN db_peers
                 \/ db_peers[p].key # k
                 \/ Leaves(t, p, {"delete", "retunnel"})
              /\ ~Joins(t, p, {"insert", "untunnel"}) \/ tasks[t].arg.key # k
  PROVE  OwnTunnelKept(p)
<1>1. \A u \in Task : u # t => ~Moves(u, p) /\ ~Moves(u, p)'
  BY OnlyMover, NextStepFacts DEF ControlInv, StoreTypes, Moves
<1>2. \A S : \A u \in Task : u # t => /\ ~Joins(u, p, S) /\ ~Leaves(u, p, S)
                                      /\ ~Joins(u, p, S)' /\ ~Leaves(u, p, S)'
  BY <1>1 DEF Joins, Leaves, Moves
<1> QED BY <1>2 DEF OwnTunnelKept, RowTunnel, JoinTunneled, Serves, Tunneled

LEMMA AddedTunnel ==
  ASSUME NEW k, NEW ip, wg' = WithTunnel(wg, k, ip)
  PROVE  /\ DOMAIN wg' = DOMAIN wg \cup {k} /\ wg'[k] = {ip}
  BY DEF WithTunnel

LEMMA RemovedTunnel ==
  ASSUME NEW k, wg' = Without(wg, {k})
  PROVE  /\ DOMAIN wg' = DOMAIN wg \ {k} /\ \A x \in DOMAIN wg' : wg'[x] = wg[x]
  BY DEF Without, Restrict

LEMMA JoinKeepsTunnel ==
  ASSUME ControlInv, Calm, CalmInv, NoFaultLeft, up, NEW t \in Task, NextStep(t),
         NEW p \in PeerId, tasks[t].op = "join_room", tasks[t].arg.peer = p,
         RowTunnel(p), JoinTunneled(p)
  PROVE  OwnTunnelKept(p)
<1> DEFINE a == tasks[t].arg
<1>0. /\ Routing /\ InPlace /\ TasksTyped /\ StoreTypes /\ tasks[t] \in Joining /\ p \in Steady
      /\ Moves(t, p) /\ Phase(t, p)
  BY RequestFacts DEF ControlInv, StoreTypes, Moves, CalmInv, PeerAgrees, Calm, Steady
<1>1. UNCHANGED vars => UNCHANGED peers
  BY DEF vars, peerVars
<1>2. UNCHANGED dbVars => UNCHANGED db_peers
  BY DEF dbVars
<1>3. JoinTunnel(t) \/ JoinInsert(t) \/ JoinUntunnel(t) \/ JoinLeave(t) \/ JoinRemember(t)
  BY DEF NextStep, Stands, InsertRoom, DeleteRoomRow, RemoveRoom,
         DeleteForget, DeleteFindKey, DeleteUntunnel, DeletePeerRow, DeleteLeave,
         DeleteReinsert, DeleteRetunnel, UpsertHost, DeleteHostRow, UnregisterStep,
         InsertGameplay, RemoveGameplay
<1>4. tasks[t].at \in Pending => p \notin DOMAIN db_peers /\ p \in DOMAIN peers
                                 /\ peers[p].virtual_ip = a.ip
  BY <1>0 DEF Phase, Joins, InPlace, At
<1>5. ~Leaves(t, p, {"delete", "retunnel"})
  BY DEF Leaves
<1>6. ASSUME tasks'[t] = NoTask PROVE \A S : ~Joins(t, p, S)' /\ ~Leaves(t, p, S)'
  BY <1>6 DEF Joins, Leaves, NoTask
<1>7. CASE JoinTunnel(t)
  <2>1. tasks[t].at = "tunnel" /\ UNCHANGED <<peers, db_peers>>
    BY <1>1, <1>2, <1>7 DEF JoinTunnel, Stands
  <2>2. p \notin DOMAIN db_peers' /\ ~Joins(t, p, {"insert", "untunnel"})
    BY <1>4, <2>1 DEF Pending, Joins
  <2>3. CASE wg' = WithTunnel(wg, a.key, a.ip) /\ Goto(t, "insert")
    <3>1. tasks'[t].op = "join_room" /\ tasks'[t].at = "insert" /\ tasks'[t].arg = a
      BY <1>0, <2>3, GotoFacts
    <3>2. DOMAIN wg' = DOMAIN wg \cup {a.key} /\ wg'[a.key] = {a.ip}
      BY <2>3, AddedTunnel
    <3>3. \A k : k = a.key => Serves(p, k)'
      BY <1>4, <2>1, <3>1, <3>2 DEF Serves, Joins, Pending
    <3>4. Tunneled(tasks[t].arg.key, tasks[t].arg.ip)'
      BY <3>1, <3>2 DEF Tunneled
    <3>5. \A k \in DOMAIN wg' : Serves(p, k)' \/ k \in DOMAIN wg
      BY <3>2, <3>3
    <3> QED BY <1>0, <2>2, <3>4, <3>5, <1>4, <2>1, OwnTunnelSuffices DEF Pending
  <2>4. CASE UNCHANGED wg /\ Goto(t, "leave")
    <3>1. tasks'[t].op = "join_room" /\ tasks'[t].at = "leave"
      BY <1>0, <2>4, GotoFacts
    <3>2. ~Joins(t, p, {"insert", "untunnel"})'
      BY <3>1 DEF Joins
    <3> QED BY <1>0, <1>4, <2>1, <2>2, <2>4, <3>2, OwnTunnelSuffices DEF Pending
  <2>5. \/ wg' = WithTunnel(wg, a.key, a.ip) /\ Goto(t, "insert")
        \/ UNCHANGED wg /\ Goto(t, "leave")
    <3>1. faults \in Nat
      BY <1>0 DEF StoreTypes
    <3> QED BY <1>7, <3>1 DEF JoinTunnel, AddPeer, NoFault, Fault
  <2> QED BY <2>3, <2>4, <2>5

<1>8. CASE JoinInsert(t)
  <2>1. /\ tasks[t].at = "insert" /\ UNCHANGED <<peers, wg>>
        /\ p \notin DOMAIN db_peers /\ p \in DOMAIN peers
        /\ Tunneled(a.key, a.ip)
    BY <1>1, <1>4, <1>8 DEF JoinInsert, Stands, Pending, JoinTunneled, Joins
  <2>2. CASE InsertPeerRow(a) /\ Goto(t, "remember")
    <3>1. tasks'[t].op = "join_room" /\ tasks'[t].at = "remember" /\ tasks'[t].arg = a
      BY <1>0, <2>2, GotoFacts
    <3>2. p \in DOMAIN db_peers' /\ db_peers'[p] = PeerRow(a)
      BY <2>2 DEF InsertPeerRow, Put
    <3>3. db_peers'[p].key = a.key /\ db_peers'[p].virtual_ip = a.ip
      BY <3>2 DEF PeerRow
    <3>4. Tunneled(db_peers[p].key, db_peers[p].virtual_ip)'
      BY <2>1, <3>3 DEF Tunneled
    <3>5. /\ ~Joins(t, p, {"insert", "untunnel"})' /\ ~Leaves(t, p, {"delete", "retunnel"})'
      BY <3>1 DEF Joins, Leaves
    <3>6. \A u \in Task : ~Leaves(u, p, {"delete", "retunnel"})'
      BY <1>0, <3>5, OnlyMover, NextStepFacts DEF ControlInv, StoreTypes, Moves, Leaves
    <3>7. \A k \in DOMAIN wg' : Serves(p, k)' \/ (k \in DOMAIN wg /\ k # a.key)
      <4> SUFFICES ASSUME NEW k, k = a.key PROVE Serves(p, k)'
        BY <2>1
      <4>1. wg'[k] = {peers'[p].virtual_ip} /\ p \in DOMAIN peers'
        BY <1>4, <2>1 DEF Tunneled, Pending
      <4> QED BY <3>2, <3>3, <3>6, <4>1 DEF Serves
    <3> QED BY <1>0, <2>1, <3>4, <3>5, <3>7, OwnTunnelSuffices
  <2>3. CASE UNCHANGED dbVars /\ Goto(t, "untunnel")
    <3>1. tasks'[t].op = "join_room" /\ tasks'[t].at = "untunnel" /\ tasks'[t].arg = a
      BY <1>0, <2>3, GotoFacts
    <3>2. Tunneled(tasks[t].arg.key, tasks[t].arg.ip)'
      BY <2>1, <3>1 DEF Tunneled
    <3>3. Joins(t, p, {"insert", "untunnel"})'
      BY <3>1 DEF Joins
    <3>4. \A k \in DOMAIN wg' : Serves(p, k)' \/ (k \in DOMAIN wg /\ k # a.key)
      <4> SUFFICES ASSUME NEW k, k = a.key PROVE Serves(p, k)'
        BY <2>1
      <4>1. wg'[k] = {peers'[p].virtual_ip} /\ p \in DOMAIN peers'
        BY <1>4, <2>1 DEF Tunneled, Pending
      <4> QED BY <3>1, <3>3, <4>1 DEF Serves
    <3>5. p \notin DOMAIN db_peers'
      BY <1>2, <2>1, <2>3
    <3> QED BY <1>0, <2>1, <3>2, <3>4, <3>5, OwnTunnelSuffices
  <2> QED BY <1>8, <2>2, <2>3 DEF JoinInsert
<1>9. CASE JoinUntunnel(t)
  <2>1. /\ tasks[t].at = "untunnel" /\ UNCHANGED <<peers, db_peers>>
        /\ p \notin DOMAIN db_peers
    BY <1>1, <1>2, <1>4, <1>9 DEF JoinUntunnel, Stands, Pending
  <2>2. wg' = Without(wg, {a.key})
    <3>1. faults >= MaxFaults /\ faults \in Nat /\ MaxFaults \in Nat
      BY <1>0, <1>9, ControlAssumption DEF NoFaultLeft, JoinUntunnel, StoreTypes
    <3> QED BY <1>9, <3>1 DEF JoinUntunnel, RemovePeer, Fault
  <2>3. tasks'[t].op = "join_room" /\ tasks'[t].at = "leave"
    BY <1>0, <1>9, GotoFacts DEF JoinUntunnel
  <2>4. ~Joins(t, p, {"insert", "untunnel"})'
    BY <2>3 DEF Joins
  <2> QED BY <1>0, <2>1, <2>2, <2>4, RemovedTunnel, OwnTunnelSuffices
<1>10. CASE JoinLeave(t)
  <2>1. /\ tasks[t].at = "leave" /\ UNCHANGED <<db_peers, wg>> /\ tasks'[t] = NoTask
        /\ p \notin DOMAIN db_peers
    BY <1>0, <1>2, <1>4, <1>10, ReturnFacts DEF JoinLeave, Stands, Pending
  <2>2. ~Joins(t, p, {"insert", "untunnel"}) /\ ~Joins(t, p, {"insert", "untunnel"})'
    BY <1>6, <2>1 DEF Joins
  <2> QED BY <1>0, <2>1, <2>2, OwnTunnelSuffices
<1>11. CASE JoinRemember(t)
  <2>1. /\ tasks[t].at = "remember" /\ UNCHANGED <<peers, db_peers, wg>> /\ tasks'[t] = NoTask
    BY <1>0, <1>1, <1>2, <1>11, ReturnFacts DEF JoinRemember, Stands
  <2>2. /\ p \in DOMAIN db_peers /\ p \in DOMAIN peers /\ RowAgrees(p)
    BY <1>0, <2>1 DEF Phase, Joins
  <2>3. \A u \in Task : ~Leaves(u, p, {"delete", "retunnel"})
    BY <1>0, <1>5, OnlyMover DEF Moves, Leaves
  <2>4. \A u \in Task : ~Leaves(u, p, {"delete", "retunnel"})'
    BY <1>0, <1>6, <2>1, <2>3, NextStepFacts DEF StoreTypes, Leaves
  <2>5. Tunneled(db_peers[p].key, db_peers[p].virtual_ip)
    BY <2>2, <2>3 DEF RowTunnel
  <2>6. \A k \in DOMAIN wg' : Serves(p, k)' \/ (k \in DOMAIN wg /\ db_peers[p].key # k)
    BY <2>1, <2>2, <2>4, <2>5 DEF Serves, Tunneled, RowAgrees, At
  <2>7. ~Joins(t, p, {"insert", "untunnel"})' /\ ~Joins(t, p, {"insert", "untunnel"})
    BY <1>6, <2>1 DEF Joins
  <2>8. Tunneled(db_peers[p].key, db_peers[p].virtual_ip)'
    BY <2>1, <2>5 DEF Tunneled
  <2> QED BY <1>0, <2>6, <2>7, <2>8, OwnTunnelSuffices
<1> QED BY <1>3, <1>7, <1>8, <1>9, <1>10, <1>11

LEMMA DeleteKeepsTunnel ==
  ASSUME ControlInv, Calm, CalmInv, NoFaultLeft, up, NEW t \in Task, NextStep(t),
         NEW p \in PeerId, tasks[t].op = "delete_peer", tasks[t].arg.peer = p,
         RowTunnel(p)
  PROVE  OwnTunnelKept(p)
<1> DEFINE a == tasks[t].arg
<1>0. /\ Routing /\ InPlace /\ TasksTyped /\ StoreTypes /\ tasks[t] \in Searching \cup Leaving
      /\ p \in Steady /\ Moves(t, p) /\ Phase(t, p) /\ IsTable(peer_keys, PeerId, Key)
  BY RequestFacts DEF ControlInv, StoreTypes, Moves, CalmInv, PeerAgrees, Calm, Steady
<1>1. UNCHANGED vars => UNCHANGED peers
  BY DEF vars, peerVars
<1>2. UNCHANGED dbVars => UNCHANGED db_peers
  BY DEF dbVars
<1>3. \/ DeleteFindKey(t) \/ DeleteUntunnel(t) \/ DeletePeerRow(t) \/ DeleteLeave(t)
      \/ DeleteForget(t) \/ DeleteReinsert(t) \/ DeleteRetunnel(t)
  BY DEF NextStep, Stands, InsertRoom, DeleteRoomRow, RemoveRoom,
         JoinTunnel, JoinInsert, JoinUntunnel, JoinLeave, JoinRemember,
         UpsertHost, DeleteHostRow, UnregisterStep, InsertGameplay, RemoveGameplay
<1>4. /\ tasks'[t] = NoTask \/ tasks'[t].op = "delete_peer"
      /\ \A u \in Task : u # t => tasks'[u] = tasks[u]
  BY <1>0, NextStepFacts DEF Continued
<1>5. \A S : ~Joins(t, p, S) /\ ~Joins(t, p, S)'
  BY <1>4 DEF Joins, NoTask
<1>6. ASSUME NEW S PROVE \A u \in Task : u # t => ~Leaves(u, p, S) /\ ~Leaves(u, p, S)'
  BY <1>0, <1>4, OnlyMover DEF Leaves, Moves
(* The tunnel is there, and the row stays.                                  *)
<1>7. ASSUME UNCHANGED <<peers, db_peers, wg>>, Present(p),
             ~Leaves(t, p, {"delete", "retunnel"}), ~Leaves(t, p, {"delete", "retunnel"})'
      PROVE  OwnTunnelKept(p)
  <2>1. /\ p \in DOMAIN db_peers /\ p \in DOMAIN peers /\ RowAgrees(p)
        /\ Tunneled(db_peers[p].key, db_peers[p].virtual_ip)
    BY <1>6, <1>7 DEF Present, RowTunnel
  <2>2. \A u \in Task : ~Leaves(u, p, {"delete", "retunnel"})'
    BY <1>6, <1>7
  <2>3. \A k \in DOMAIN wg' : Serves(p, k)' \/ (k \in DOMAIN wg /\ db_peers[p].key # k)
    BY <1>7, <2>1, <2>2 DEF Serves, Tunneled, RowAgrees, At
  <2>4. Tunneled(db_peers[p].key, db_peers[p].virtual_ip)'
    BY <1>7, <2>1 DEF Tunneled
  <2> QED BY <1>0, <1>5, <2>3, <2>4, OwnTunnelSuffices
(* There is no row, or the tunnel is being removed.                         *)
<1>8. ASSUME p \notin DOMAIN db_peers \/ Leaves(t, p, {"delete", "retunnel"}),
             p \notin DOMAIN db_peers' \/ Leaves(t, p, {"delete", "retunnel"})',
             UNCHANGED wg
      PROVE  OwnTunnelKept(p)
  BY <1>0, <1>5, <1>8, OwnTunnelSuffices
<1>9. CASE DeleteFindKey(t)
  <2>1. Present(p) /\ ~Leaves(t, p, {"delete", "retunnel"}) /\ UNCHANGED <<peers, db_peers, wg>>
    BY <1>0, <1>1, <1>2, <1>9 DEF Phase, Leaves, DeleteFindKey, Stands
  <2>2. tasks'[t].at = "untunnel"
    BY <1>0, <1>9, <2>1, FindKeyFacts DEF Present
  <2> QED BY <1>7, <2>1, <2>2 DEF Leaves
<1>10. CASE DeleteUntunnel(t)
  <2>1. /\ Present(p) /\ peer_keys[p] = a.key /\ ~Leaves(t, p, {"delete", "retunnel"})
        /\ UNCHANGED <<peers, db_peers>> /\ faults \in Nat
    BY <1>0, <1>1, <1>2, <1>10 DEF Phase, Leaves, DeleteUntunnel, Stands, StoreTypes
  <2>2. CASE wg' = Without(wg, {a.key}) /\ Goto(t, "delete")
    <3>1. tasks'[t].op = "delete_peer" /\ tasks'[t].at = "delete" /\ tasks'[t].arg = a
      BY <1>0, <1>10, <2>2, GotoFacts DEF DeleteUntunnel, Stands, Searching
    <3>2. Leaves(t, p, {"delete", "retunnel"})'
      BY <3>1 DEF Leaves
    <3>3. db_peers[p].key = a.key
      BY <2>1 DEF Present
    <3> QED BY <1>0, <1>5, <2>2, <3>2, <3>3, RemovedTunnel, OwnTunnelSuffices
  <2>3. CASE UNCHANGED wg /\ Return(t)
    BY <1>0, <1>7, <2>1, <2>3, ReturnFacts DEF Leaves, NoTask
  <2> QED BY <1>10, <2>1, <2>2, <2>3 DEF DeleteUntunnel, RemovePeer, Fault, NoFault
<1>11. CASE DeletePeerRow(t)
  <2>1. Leaves(t, p, {"delete", "retunnel"}) /\ UNCHANGED wg
    BY <1>11 DEF DeletePeerRow, Stands, Leaves
  <2>2. CASE Goto(t, "retunnel")
    <3>1. tasks'[t].op = "delete_peer" /\ tasks'[t].at = "retunnel" /\ tasks'[t].arg = a
      BY <1>0, <1>11, <2>2, GotoFacts DEF DeletePeerRow, Stands, Searching
    <3> QED BY <1>8, <2>1, <3>1 DEF Leaves
  <2>3. CASE DeleteRows({}, {a.peer}, {})
    <3>1. p \notin DOMAIN db_peers'
      BY <2>3 DEF DeleteRows, Without, Restrict
    <3> QED BY <1>8, <2>1, <3>1
  <2> QED BY <1>11, <2>2, <2>3 DEF DeletePeerRow
<1>12. CASE DeleteLeave(t) \/ DeleteForget(t)
  <2>1. p \notin DOMAIN db_peers /\ UNCHANGED <<db_peers, wg>>
    BY <1>0, <1>2, <1>12 DEF Phase, Leaves, DeleteLeave, DeleteForget, Stands
  <2> QED BY <1>8, <2>1
<1>13. ~DeleteReinsert(t)
  BY <1>0 DEF Phase, Leaves, DeleteReinsert, Stands
<1>14. CASE DeleteRetunnel(t)
  <2>1. /\ Present(p) /\ peer_keys[p] = a.key /\ Leaves(t, p, {"delete", "retunnel"})
        /\ UNCHANGED <<peers, db_peers>> /\ tasks'[t] = NoTask
    BY <1>0, <1>1, <1>2, <1>14, ReturnFacts DEF Phase, Leaves, DeleteRetunnel, Stands
  <2>2. wg' = WithTunnel(wg, a.key, a.ip)
    <3>1. faults >= MaxFaults /\ faults \in Nat /\ MaxFaults \in Nat
      BY <1>0, <1>14, ControlAssumption DEF NoFaultLeft, DeleteRetunnel, StoreTypes
    <3> QED BY <1>14, <3>1 DEF DeleteRetunnel, AddPeer, Fault
  <2>3. DOMAIN wg' = DOMAIN wg \cup {a.key} /\ wg'[a.key] = {a.ip}
    BY <2>2, AddedTunnel
  <2>4. /\ p \in DOMAIN db_peers /\ db_peers[p].key = a.key
        /\ db_peers[p].virtual_ip = a.ip
        /\ p \in DOMAIN peers /\ peers[p].virtual_ip = a.ip
    BY <1>0, <2>1 DEF Present, RowAgrees, At, InPlace
  <2>5. \A u \in Task : ~Leaves(u, p, {"delete", "retunnel"})'
    <3>1. ~Leaves(t, p, {"delete", "retunnel"})'
      BY <2>1 DEF Leaves, NoTask
    <3> QED BY <1>6, <3>1
  <2>6. \A k : k = a.key => Serves(p, k)'
    BY <2>1, <2>3, <2>4, <2>5 DEF Serves
  <2>7. Tunneled(db_peers[p].key, db_peers[p].virtual_ip)'
    BY <2>1, <2>3, <2>4 DEF Tunneled
  <2>8. \A k \in DOMAIN wg' : Serves(p, k)' \/ k \in DOMAIN wg
    BY <2>3, <2>6
  <2> QED BY <1>0, <1>5, <2>1, <2>7, <2>8, OwnTunnelSuffices
<1> QED BY <1>3, <1>9, <1>10, <1>11, <1>12, <1>13, <1>14

LEMMA FaultsGrow ==
  ASSUME StoreTypes, TypeOK, [ControlNext]_systemVars
  PROVE  faults \in Nat /\ faults' \in Nat /\ faults' >= faults
<1>0. faults \in Nat
  BY DEF StoreTypes
<1>1. ASSUME NEW t \in Task, NewRequest(t) PROVE UNCHANGED faults
  BY <1>1, NewRequestFacts DEF StoreTypes
<1>2. ASSUME NEW t \in Task, NextStep(t) PROVE UNCHANGED faults \/ faults' = faults + 1
  BY <1>2 DEF NextStep, InsertRoom, DeleteRoomRow, RemoveRoom, JoinTunnel, JoinInsert,
         JoinUntunnel, JoinLeave, JoinRemember, DeleteForget, DeleteFindKey,
         DeleteUntunnel, DeletePeerRow, DeleteLeave, DeleteReinsert, DeleteRetunnel,
         UpsertHost, DeleteHostRow, UnregisterStep, InsertGameplay, RemoveGameplay,
         AddPeer, RemovePeer, Fault, NoFault
<1>3. UNCHANGED faults \/ faults' = faults + 1
  BY <1>1, <1>2 DEF ControlNext, RelayStep, ResumeRoom, Crash, StartUp, controlVars, systemVars
<1> QED BY <1>0, <1>3

(* The row of a join fits, unless another request disturbs it.              *)
LEMMA JoinFits ==
  ASSUME ControlInv, Calm, CalmInv, RoomInv, KeysApart, OneTask, up,
         NEW t \in Task, JoinInsert(t)
  PROVE  PeerRowFits(tasks[t].arg)
<1> DEFINE a == tasks[t].arg
           p == a.peer
<1>0. /\ TasksTyped /\ InPlace /\ tasks[t] \in Joining /\ p \in PeerId /\ Moves(t, p)
      /\ tasks[t].at = "insert" /\ IndexConsistent /\ StoreTypes
  BY RequestFacts DEF ControlInv, StoreTypes, Routing, JoinInsert, Stands, Joining, JoinArg, Moves
<1>1. p \in DOMAIN peers /\ p \notin DOMAIN db_peers
  <2>1. Phase(t, p) /\ Joins(t, p, Pending)
    BY <1>0 DEF CalmInv, PeerAgrees, Joins, Joining, Pending
  <2> QED BY <2>1 DEF Phase
<1>2. At(a.room, p, a.ip)
  BY <1>0, <1>1 DEF InPlace, Steady
<1>3. a.room \in DOMAIN db_rooms
  <2>1. a.room \in DOMAIN rooms /\ a.room \in RoomId
    BY <1>0, <1>1, <1>2 DEF At, IndexConsistent, MembersMatchPeers, Joining, JoinArg
  <2>2. \A u \in Task : ~Creates(u, a.room) /\ ~Dropped(u, a.room)
    BY <1>0 DEF OneTask, Creates, Dropped, Stands, Joining
  <2> QED BY <2>1, <2>2 DEF RoomInv, RoomAgrees
<1>4. ASSUME NEW q \in DOMAIN db_peers
      PROVE  db_peers[q].virtual_ip # a.ip /\ db_peers[q].key # a.key
  <2>1. q \in PeerId /\ q # p
    BY <1>0, <1>1 DEF StoreTypes, IsTable
  <2>2. q \in DOMAIN peers /\ db_peers[q].virtual_ip = peers[q].virtual_ip
    BY <1>0, <2>1, RowsAreRight DEF CalmInv
  <2>3. peers[q].virtual_ip # peers[p].virtual_ip
    BY <1>0, <1>1, <2>1, <2>2 DEF IndexConsistent, AddressesMatchPeers
  <2>4. HasKey(q, db_peers[q].key) /\ HasKey(p, a.key)
    BY <1>0 DEF HasKey
  <2> QED BY <1>0, <1>2, <2>1, <2>2, <2>3, <2>4 DEF KeysApart, At
<1> QED BY <1>1, <1>3, <1>4 DEF PeerRowFits

LEMMA UndoneAt ==
  ASSUME ControlInv, Calm, CalmInv, up, NEW t \in Task, NextStep(t)
  PROVE  /\ Stands(t, "join_room", "untunnel")' =>
              JoinInsert(t) /\ (~PeerRowFits(tasks[t].arg) \/ Fault)
         /\ Stands(t, "delete_peer", "retunnel")' => DeletePeerRow(t) /\ Fault
<1>0. /\ TasksTyped /\ StoreTypes /\ IsTable(peer_keys, PeerId, Key)
      /\ tasks'[t] = NoTask \/ Continued(t)
  BY NextStepFacts DEF ControlInv, StoreTypes
<1>1. ASSUME Stands(t, "join_room", "untunnel")'
      PROVE  JoinInsert(t) /\ (~PeerRowFits(tasks[t].arg) \/ Fault)
  <2>1. tasks[t].op = "join_room" /\ tasks'[t].at = "untunnel" /\ tasks'[t] # NoTask
    BY <1>0, <1>1 DEF Stands, Continued, NoTask
  <2>2. tasks[t] \in Joining
    BY <1>0, <2>1, RequestFacts
  <2>3. \A at \in {"insert", "leave", "remember"} : ~Goto(t, at)
    BY <1>0, <2>1, <2>2, GotoFacts
  <2>4. ~Return(t)
    BY <1>0, <2>1, ReturnFacts
  <2>5. JoinTunnel(t) \/ JoinInsert(t) \/ JoinUntunnel(t) \/ JoinLeave(t) \/ JoinRemember(t)
    BY <2>1 DEF NextStep, Stands, InsertRoom, DeleteRoomRow, RemoveRoom,
         DeleteForget, DeleteFindKey, DeleteUntunnel, DeletePeerRow, DeleteLeave,
         DeleteReinsert, DeleteRetunnel, UpsertHost, DeleteHostRow, UnregisterStep,
         InsertGameplay, RemoveGameplay
  <2> QED BY <2>3, <2>4, <2>5 DEF JoinTunnel, JoinInsert, JoinUntunnel, JoinLeave, JoinRemember
<1>2. ASSUME Stands(t, "delete_peer", "retunnel")'
      PROVE  DeletePeerRow(t) /\ Fault
  <2>1. tasks[t].op = "delete_peer" /\ tasks'[t].at = "retunnel" /\ tasks'[t] # NoTask
    BY <1>0, <1>2 DEF Stands, Continued, NoTask
  <2>2. tasks[t] \in Searching \cup Leaving
    BY <1>0, <2>1, RequestFacts
  <2>3. ~Return(t)
    BY <1>0, <2>1, ReturnFacts
  <2>4. \/ DeleteFindKey(t) \/ DeleteUntunnel(t) \/ DeletePeerRow(t) \/ DeleteLeave(t)
        \/ DeleteForget(t) \/ DeleteReinsert(t) \/ DeleteRetunnel(t)
    BY <2>1 DEF NextStep, Stands, InsertRoom, DeleteRoomRow, RemoveRoom,
           JoinTunnel, JoinInsert, JoinUntunnel, JoinLeave, JoinRemember,
           UpsertHost, DeleteHostRow, UnregisterStep, InsertGameplay, RemoveGameplay
  <2>5. ~DeleteFindKey(t)
    BY <1>0, <2>1, <2>3, FindKeyFacts DEF DeleteFindKey
  <2>6. ~DeleteReinsert(t)
    <3>1. tasks[t].arg.peer \in PeerId
      BY <2>2 DEF Searching, Leaving, PeerArg, JoinArg
    <3> QED BY <3>1 DEF CalmInv, PeerAgrees, Phase, Leaves, DeleteReinsert, Stands
  <2>7. tasks[t].at # "key" => \A at \in {"delete", "leave", "forget", "reinsert"} : ~Goto(t, at)
    BY <1>0, <2>1, <2>2, GotoFacts DEF Searching
  <2> QED BY <2>3, <2>4, <2>5, <2>6, <2>7
          DEF DeleteUntunnel, DeletePeerRow, DeleteLeave, DeleteForget, DeleteRetunnel, Stands
<1> QED BY <1>1, <1>2

LEMMA ControlKeepsNoFaultLeft ==
  ASSUME TunnelsCalm, ControlInv, CalmInv, RoomInv, KeysApart, NoFaultLeft,
         [ControlNext]_systemVars
  PROVE  NoFaultLeft'
<1> SUFFICES ASSUME NEW u \in Task,
                    Stands(u, "join_room", "untunnel")' \/ Stands(u, "delete_peer", "retunnel")'
             PROVE  faults' >= MaxFaults
  BY DEF NoFaultLeft
<1>0. /\ TasksTyped /\ StoreTypes /\ TypeOK /\ Down /\ Calm /\ MaxFaults \in Nat
      /\ faults \in Nat /\ faults' \in Nat /\ faults' >= faults
  BY FaultsGrow, ControlAssumption DEF ControlInv, StoreTypes, Routing, TunnelsCalm
<1>1. CASE MaxFaults = 0
  BY <1>0, <1>1
<1>2. CASE tasks'[u] = tasks[u]
  <2>1. faults >= MaxFaults
    BY <1>2 DEF NoFaultLeft, Stands
  <2> QED BY <1>0, <2>1
<1>3. CASE OneTask /\ MaxFaults = 1
  <2>1. ASSUME NEW t \in Task, NextStep(t), u = t
        PROVE  faults' >= MaxFaults
    <3>1. up
      BY <1>0, <2>1, NextStepFacts DEF Down, StoreTypes, NoTask
    <3>2. Fault
      BY <1>0, <1>3, <2>1, <3>1, UndoneAt, JoinFits
    <3> QED BY <1>0, <1>3, <3>2 DEF Fault
  <2>2. ASSUME NEW t \in Task, NewRequest(t), u = t
        PROVE  FALSE
    <3>1. Opened(tasks'[t])
      BY <1>0, <2>2, NewRequestFacts
    <3> QED BY <2>2, <3>1 DEF Opened, Creation, Deletion, Joining, Searching, Registering, Playing,
                              Unhosting, Stands
  <2>3. ASSUME NEW t \in Task, NextStep(t) \/ NewRequest(t), u # t
        PROVE  tasks'[u] = tasks[u]
    BY <1>0, <2>3, NextStepFacts, NewRequestFacts DEF StoreTypes
  <2>4. ~Crash
    BY DEF Crash, Stands, NoTask
  <2>5. CASE \E t \in Task : NextStep(t) \/ NewRequest(t)
    BY <1>2, <2>1, <2>2, <2>3, <2>5
  <2>6. CASE UNCHANGED tasks
    BY <1>2, <2>6
  <2> QED BY <2>4, <2>5, <2>6
          DEF ControlNext, RelayStep, ResumeRoom, StartUp, controlVars, systemVars
<1> QED BY <1>1, <1>3 DEF TunnelsCalm

LEMMA NextStepTunnels ==
  ASSUME TunnelsCalm, ControlInv, CalmInv, TunnelInv, up, NEW t \in Task, NextStep(t)
  PROVE  /\ \A p \in PeerId : RowTunnel(p)' /\ JoinTunneled(p)'
         /\ crashes = 0 => \A k \in DOMAIN wg' : \E p \in PeerId : Serves(p, k)'
<1>0. /\ TasksTyped /\ StoreTypes /\ Calm /\ KeysApart /\ NoFaultLeft
      /\ \A p \in PeerId : RowTunnel(p) /\ JoinTunneled(p)
  BY DEF ControlInv, StoreTypes, TunnelsCalm, TunnelInv
<1>1. ASSUME NEW p \in PeerId, Moves(t, p)
      PROVE  OwnTunnelKept(p)
  BY <1>0, <1>1, JoinKeepsTunnel, DeleteKeepsTunnel DEF Moves
<1>2. \A p \in PeerId : RowTunnel(p)' /\ JoinTunneled(p)'
  BY <1>0, <1>1, OthersKeepTunnels DEF OwnTunnelKept
<1>3. ASSUME crashes = 0, NEW k \in DOMAIN wg'
      PROVE  \E p \in PeerId : Serves(p, k)'
  <2>1. CASE \E p \in PeerId : Moves(t, p)
    <3>1. PICK p \in PeerId : Moves(t, p)
      BY <2>1
    <3>2. CASE k \in DOMAIN wg /\ ~Serves(p, k)
      <4>1. PICK q \in PeerId : Serves(q, k)
        BY <1>3, <3>2 DEF TunnelInv, NoStrays
      <4>2. ~Moves(t, q)
        BY <3>1, <3>2, <4>1 DEF Moves
      <4> QED BY <1>0, <3>2, <4>1, <4>2, OthersKeepTunnels
    <3> QED BY <1>1, <1>3, <3>1, <3>2 DEF OwnTunnelKept
  <2>2. CASE \A p \in PeerId : ~Moves(t, p)
    <3>1. UNCHANGED wg
      <4>1. ASSUME tasks[t].arg \in JoinArg,
                   JoinTunnel(t) \/ DeleteRetunnel(t) \/ JoinUntunnel(t) \/ DeleteUntunnel(t)
            PROVE  FALSE
        BY <2>2, <4>1 DEF JoinTunnel, DeleteRetunnel, JoinUntunnel, DeleteUntunnel, Stands,
                          Moves, JoinArg
      <4> QED BY <1>0, <4>1, TunnelsOfStep
    <3>2. PICK q \in PeerId : Serves(q, k)
      BY <1>3, <3>1 DEF TunnelInv, NoStrays
    <3> QED BY <1>0, <2>2, <3>1, <3>2, OthersKeepTunnels
  <2> QED BY <2>1, <2>2
<1> QED BY <1>2, <1>3

(* Nothing happens to the rows, the tunnels and the requests that matter.   *)
LEMMA SameTunnels ==
  ASSUME UNCHANGED <<wg, db_peers>>,
         \A p \in DOMAIN peers : p \in DOMAIN peers' /\ peers'[p].virtual_ip = peers[p].virtual_ip,
         \A t \in Task : \A p \in PeerId :
           /\ Joins(t, p, {"insert", "untunnel"})' =>
                Joins(t, p, {"insert", "untunnel"}) /\ tasks'[t] = tasks[t]
           /\ Joins(t, p, {"insert", "untunnel"}) => tasks'[t] = tasks[t]
           /\ Leaves(t, p, {"delete", "retunnel"})' <=> Leaves(t, p, {"delete", "retunnel"})
  PROVE  /\ \A p \in PeerId : /\ RowTunnel(p) => RowTunnel(p)'
                              /\ JoinTunneled(p) => JoinTunneled(p)'
         /\ \A p \in PeerId : \A k : Serves(p, k) => Serves(p, k)'
<1>1. \A p \in PeerId : RowTunnel(p) => RowTunnel(p)'
  BY DEF RowTunnel, Tunneled
<1>2. \A p \in PeerId : JoinTunneled(p) => JoinTunneled(p)'
  BY DEF JoinTunneled, Tunneled
<1>3. ASSUME NEW p \in PeerId, NEW k, Serves(p, k) PROVE Serves(p, k)'
  <2>1. p \in DOMAIN peers' /\ wg'[k] = {peers'[p].virtual_ip}
    BY <1>3 DEF Serves
  <2>2. CASE \E t \in Task : Joins(t, p, {"insert", "untunnel"}) /\ tasks[t].arg.key = k
    <3>1. PICK t \in Task : Joins(t, p, {"insert", "untunnel"}) /\ tasks[t].arg.key = k
      BY <2>2
    <3>2. tasks'[t] = tasks[t]
      BY <3>1
    <3>3. Joins(t, p, {"insert", "untunnel"})' /\ tasks'[t].arg.key = k
      BY <3>1, <3>2 DEF Joins
    <3> QED BY <2>1, <3>3 DEF Serves
  <2> QED BY <1>3, <2>1, <2>2 DEF Serves
<1> QED BY <1>1, <1>2, <1>3

LEMMA NewRequestTunnels ==
  ASSUME ControlInv, TunnelInv, NEW t \in Task, NewRequest(t)
  PROVE  /\ \A p \in PeerId : RowTunnel(p)' /\ JoinTunneled(p)'
         /\ crashes = 0 => \A k \in DOMAIN wg' : \E p \in PeerId : Serves(p, k)'
<1> DEFINE x == tasks'[t]
<1>0. /\ StoreTypes /\ TypeOK /\ Opened(x) /\ tasks[t] = NoTask /\ up
      /\ UNCHANGED <<wg, db_peers>>
      /\ \A u \in Task : u # t => tasks'[u] = tasks[u]
  BY NewRequestFacts DEF ControlInv, Routing, StoreTypes, dbVars
<1> HIDE DEF x
<1>1. \A p \in DOMAIN peers : p \in DOMAIN peers' /\ peers'[p].virtual_ip = peers[p].virtual_ip
  <2>1. ASSUME NEW r, NEW q, NEW ip, JoinRoom(r, q, ip)
        PROVE  \A p \in DOMAIN peers : p \in DOMAIN peers' /\ peers'[p] = peers[p]
    BY <2>1 DEF JoinRoom, Put
  <2> QED BY <1>0, <2>1 DEF Opened, CreateRoomWithId, SameMembers, vars, peerVars
<1>2. x.op = "join_room" => x.at = "tunnel"
  BY <1>0 DEF Opened, Creation, Deletion, Joining, Searching, Registering, Playing, Unhosting
<1>3. x.op = "delete_peer" => x.at = "key"
  BY <1>0 DEF Opened, Creation, Deletion, Joining, Searching, Registering, Playing, Unhosting
<1>4. NoTask.op = "none"
  BY DEF NoTask
<1>5. \A u \in Task : \A p \in PeerId :
        /\ Joins(u, p, {"insert", "untunnel"})' =>
             Joins(u, p, {"insert", "untunnel"}) /\ tasks'[u] = tasks[u]
        /\ Joins(u, p, {"insert", "untunnel"}) => tasks'[u] = tasks[u]
        /\ Leaves(u, p, {"delete", "retunnel"})' <=> Leaves(u, p, {"delete", "retunnel"})
  BY <1>0, <1>2, <1>3, <1>4 DEF Joins, Leaves, x
<1> QED BY <1>0, <1>1, <1>5, SameTunnels DEF TunnelInv, NoStrays

LEMMA StartUpTunnels ==
  ASSUME ControlInv, StartUp
  PROVE  /\ \A p \in PeerId : RowTunnel(p)' /\ JoinTunneled(p)'
         /\ crashes' > 0
<1>0. StoreTypes /\ Schema /\ Down
  BY DEF ControlInv
<1>1. \A t \in Task : tasks'[t] = NoTask
  BY <1>0 DEF StartUp, Down
<1>2. \A p \in PeerId : JoinTunneled(p)'
  BY <1>1 DEF JoinTunneled, Joins, NoTask
<1>3. \A p \in PeerId : RowTunnel(p)'
  <2>1. \A p \in DOMAIN db_peers : /\ db_peers[p].key \in DOMAIN RestoredTunnels
                                   /\ RestoredTunnels[db_peers[p].key] = {db_peers[p].virtual_ip}
    BY <1>0, RestoredTunnelFacts
  <2> QED BY <2>1 DEF StartUp, RowTunnel, Tunneled
<1> QED BY <1>0, <1>2, <1>3 DEF StartUp, Down

LEMMA TunnelNextInv ==
  ASSUME TunnelsCalm
  PROVE  ControlInv /\ CalmInv /\ RoomInv /\ TunnelInv /\ [ControlNext]_systemVars => TunnelInv'
<1> SUFFICES ASSUME ControlInv, CalmInv, RoomInv, TunnelInv, [ControlNext]_systemVars
             PROVE  TunnelInv'
  OBVIOUS
<1>0. TypeOK /\ StoreTypes /\ Down /\ Calm
  BY DEF ControlInv, Routing, TunnelsCalm
<1>1. KeysApart' /\ NoFaultLeft'
  BY ControlKeepsKeysApart, ControlKeepsNoFaultLeft DEF TunnelInv, TunnelsCalm
<1> DEFINE Tunnels == up' => /\ \A p \in PeerId : RowTunnel(p)' /\ JoinTunneled(p)'
                             /\ crashes' = 0 => \A k \in DOMAIN wg' : \E p \in PeerId : Serves(p, k)'
<1>2. ASSUME NEW t \in Task, NextStep(t) PROVE Tunnels
  <2>1. up
    BY <1>0, <1>2, NextStepFacts DEF Down, StoreTypes, NoTask
  <2>2. crashes' = crashes
    BY <1>2 DEF NextStep, InsertRoom, DeleteRoomRow, RemoveRoom, JoinTunnel, JoinInsert,
         JoinUntunnel, JoinLeave, JoinRemember, DeleteForget, DeleteFindKey,
         DeleteUntunnel, DeletePeerRow, DeleteLeave, DeleteReinsert, DeleteRetunnel,
         UpsertHost, DeleteHostRow, UnregisterStep, InsertGameplay, RemoveGameplay
  <2> QED BY <1>2, <2>1, <2>2, NextStepTunnels
<1>3. ASSUME NEW t \in Task, NewRequest(t) PROVE Tunnels
  <2>1. UNCHANGED crashes
    BY <1>0, <1>3, NewRequestFacts DEF StoreTypes
  <2> QED BY <1>3, <2>1, NewRequestTunnels
<1>4. ASSUME StartUp PROVE Tunnels
  BY <1>4, StartUpTunnels
<1>5. ASSUME Crash PROVE Tunnels
  BY <1>5 DEF Crash
<1>6. ASSUME \/ RelayStep \/ (\E r \in RoomId, q \in PeerId : ResumeRoom(r, q))
             \/ UNCHANGED systemVars
      PROVE  Tunnels
  <2>1. /\ UNCHANGED <<wg, db_peers, tasks, up, crashes>>
        /\ \A p \in DOMAIN peers : p \in DOMAIN peers' /\ peers'[p].virtual_ip = peers[p].virtual_ip
    BY <1>0, <1>6, QuietRouter DEF systemVars, vars, peerVars, controlVars, dbVars
  <2>2. \A t \in Task : \A p \in PeerId :
          /\ Joins(t, p, {"insert", "untunnel"})' <=> Joins(t, p, {"insert", "untunnel"})
          /\ Leaves(t, p, {"delete", "retunnel"})' <=> Leaves(t, p, {"delete", "retunnel"})
    BY <2>1 DEF Joins, Leaves
  <2> QED BY <2>1, <2>2, SameTunnels DEF TunnelInv, NoStrays
<1>7. Tunnels
  BY <1>2, <1>3, <1>4, <1>5, <1>6 DEF ControlNext
<1> QED BY <1>1, <1>7 DEF TunnelInv, NoStrays

LEMMA TunnelInvHolds ==
  ASSUME TunnelsCalm
  PROVE  ControlSpec => [](ControlInv /\ CalmInv /\ RoomInv /\ TunnelInv)
<1>1. Calm /\ RoomsCalm
  BY DEF TunnelsCalm, RoomsCalm
<1>2. ControlInit => TunnelInv
  BY DEF ControlInit, Init, TunnelInv, KeysApart, HasKey, NoFaultLeft, NoStrays, RowTunnel,
         JoinTunneled, Joins, Moves, Stands, NoTask, NoTables
<1>3. ControlInv /\ CalmInv /\ RoomInv /\ TunnelInv /\ [ControlNext]_systemVars => TunnelInv'
  BY TunnelNextInv
<1> QED BY <1>1, <1>2, <1>3, RoomInvHolds, PTL DEF ControlSpec

(* Every peer has its tunnel and, while the process has not crashed, every  *)
(* tunnel its peer, as soon as no request is in progress.                   *)
LEMMA SettledTunnels ==
  ASSUME ControlInv, CalmInv, TunnelInv
  PROVE  TunnelsMatchPeers
<1> SUFFICES ASSUME Settled
             PROVE  /\ \A p \in DOMAIN peers :
                         /\ p \in DOMAIN peer_keys
                         /\ \E k \in DOMAIN wg : peer_keys[p] = k /\ wg[k] = {peers[p].virtual_ip}
                    /\ crashes = 0 => \A k \in DOMAIN wg : \E p \in DOMAIN peers :
                         p \in DOMAIN peer_keys /\ peer_keys[p] = k
  BY DEF TunnelsMatchPeers
<1>1. \A p \in PeerId : Absent(p) \/ Present(p)
  BY DEF CalmInv, PeerAgrees, Settled, Moves
<1>2. \A t \in Task : \A p \in PeerId : \A S : ~Joins(t, p, S) /\ ~Leaves(t, p, S)
  BY DEF Settled, Joins, Leaves
<1>3. \A p \in DOMAIN peers : p \in PeerId /\ Present(p)
  BY <1>1 DEF ControlInv, Routing, TypeOK, IsTable, Absent
<1>4. ASSUME NEW p \in DOMAIN peers
      PROVE  /\ p \in DOMAIN peer_keys /\ peer_keys[p] \in DOMAIN wg
             /\ wg[peer_keys[p]] = {peers[p].virtual_ip}
  <2>1. Tunneled(db_peers[p].key, db_peers[p].virtual_ip)
    BY <1>2, <1>3 DEF TunnelInv, RowTunnel, Settled, Present
  <2> QED BY <1>3, <2>1 DEF Tunneled, Present, RowAgrees, At
<1>5. ASSUME crashes = 0, NEW k \in DOMAIN wg
      PROVE  \E p \in DOMAIN peers : p \in DOMAIN peer_keys /\ peer_keys[p] = k
  <2>1. PICK p \in PeerId : Serves(p, k)
    BY <1>5 DEF TunnelInv, NoStrays, Settled
  <2> QED BY <1>2, <1>3, <2>1 DEF Serves, Present
<1> QED BY <1>4, <1>5

(* add_peer and remove_peer, as join_room and delete_peer call them and as  *)
(* they undo one another, keep the interface in step with the members,      *)
(* whichever request takes its step first.                                  *)
THEOREM TunnelsAlwaysMatch ==
  ASSUME TunnelsCalm
  PROVE  ControlSpec => []TunnelsMatchPeers
<1>1. ControlInv /\ CalmInv /\ RoomInv /\ TunnelInv => TunnelsMatchPeers
  BY SettledTunnels
<1> QED BY <1>1, TunnelInvHolds, PTL

(* All four stores at once: what the requests leave behind is consistent.   *)
THEOREM StoresAlwaysAgree ==
  ASSUME TunnelsCalm
  PROVE  ControlSpec => []StoresAgree
<1>1. Calm /\ RoomsCalm
  BY DEF TunnelsCalm, RoomsCalm
<1>2. RowsAgree /\ KeysAgree /\ TunnelsMatchPeers => StoresAgree
  BY DEF StoresAgree
<1> QED BY <1>1, <1>2, RowsAlwaysAgree, KeysAlwaysAgree, TunnelsAlwaysMatch, PTL

(* No address is ever routed to a key of somebody else, not even while      *)
(* requests are in progress, as long as the process has not crashed (a      *)
(* tunnel left over from before may have an address that is given anew).    *)
THEOREM AddressesBound ==
  ASSUME TunnelsCalm, MaxCrashes = 0
  PROVE  ControlSpec => []AddressBoundToKey
<1>1. ControlInv /\ CalmInv /\ RoomInv /\ TunnelInv => AddressBoundToKey
  <2> SUFFICES ASSUME ControlInv, CalmInv, TunnelInv, up,
                      NEW k \in DOMAIN wg, NEW ip \in wg[k] \cap DOMAIN virtual_ips
               PROVE  k \in KeysOf(virtual_ips[ip])
    BY DEF AddressBoundToKey
  <2>1. crashes = 0 /\ TasksTyped /\ IndexConsistent
    BY DEF ControlInv, StoreTypes, Routing
  <2>2. PICK p \in PeerId : Serves(p, k)
    BY <2>1 DEF TunnelInv, NoStrays
  <2>3. virtual_ips[ip] = p
    BY <2>1, <2>2 DEF Serves, IndexConsistent, AddressesMatchPeers
  <2>4. ASSUME NEW t \in Task, Moves(t, p), tasks[t].at # "key", tasks[t].arg.key = k
        PROVE  k \in KeysOf(p)
    <3>1. tasks[t] \in Joining \cup Leaving
      BY <2>1, <2>4, RequestFacts DEF Moves, Searching
    <3>2. "key" \in DOMAIN tasks[t].arg
      <4>1. tasks[t].arg \in JoinArg
        BY <3>1 DEF Joining, Leaving
      <4> QED BY <4>1 DEF JoinArg
    <3>3. Concerns(t, p)
      BY <2>1, <2>4, MovesConcern
    <3> QED BY <2>4, <3>2, <3>3 DEF KeysOf
  <2>5. CASE \E t \in Task : Joins(t, p, {"insert", "untunnel"}) /\ tasks[t].arg.key = k
    BY <2>3, <2>4, <2>5 DEF Joins, Moves
  <2>6. CASE p \in DOMAIN db_peers /\ db_peers[p].key = k
    <3>1. CASE p \in DOMAIN peer_keys /\ peer_keys[p] = k
      BY <2>3, <3>1 DEF KeysOf
    <3>2. CASE \E t \in Task : Joins(t, p, {"remember"}) /\ tasks[t].arg.key = k
      BY <2>3, <2>4, <3>2 DEF Joins, Moves
    <3>3. \/ p \in DOMAIN peer_keys /\ peer_keys[p] = k
          \/ \E t \in Task : Joins(t, p, {"remember"}) /\ tasks[t].arg.key = k
      <4>1. PeerAgrees(p)
        BY DEF CalmInv
      <4>2. CASE \A t \in Task : ~Moves(t, p)
        BY <2>6, <4>1, <4>2 DEF PeerAgrees, Absent, Present
      <4>3. CASE \E t \in Task : Moves(t, p)
        <5>1. PICK t \in Task : Moves(t, p)
          BY <4>3
        <5>2. Phase(t, p) /\ tasks[t] \in Joining \cup Searching \cup Leaving
          BY <2>1, <4>1, <5>1, RequestFacts DEF PeerAgrees, Moves
        <5>3. CASE Joins(t, p, {"remember"})
          BY <2>6, <5>2, <5>3 DEF Phase
        <5>4. CASE ~Joins(t, p, {"remember"})
          BY <2>6, <5>1, <5>2, <5>4
             DEF Phase, Present, Moves, Joins, Leaves, Pending, Joining, Searching, Leaving
        <5> QED BY <5>3, <5>4
      <4> QED BY <4>2, <4>3
    <3> QED BY <3>1, <3>2, <3>3
  <2> QED BY <2>2, <2>5, <2>6 DEF Serves
<1> QED BY <1>1, TunnelInvHolds, PTL

-----------------------------------------------------------------------------
(* ControlPlane implements PeerRegistry.                                    *)

LEMMA SeatedFacts ==
  /\ DOMAIN Seated = DOMAIN peers
  /\ \A p \in DOMAIN peers : Seated[p] = Seat(peers[p])
  /\ Seated' = [p \in DOMAIN peers' |-> Seat(peers'[p])]
  BY DEF Seated, Seat

LEMMA RegisteredFacts ==
  /\ DOMAIN Registered = DOMAIN db_peers
  /\ \A p \in DOMAIN db_peers : Registered[p] = Seat(db_peers[p])
  /\ Registered' = [p \in DOMAIN db_peers' |-> Seat(db_peers'[p])]
  BY DEF Registered, Seat

LEMMA MovingFacts ==
  /\ \A p : p \in Moving <=> \E t \in Task : Moves(t, p)
  /\ \A p : p \in Moving' <=> \E t \in Task : Moves(t, p)'
  BY DEF Moving, Moves

LEMMA SeatedStays ==
  ASSUME DOMAIN peers' = DOMAIN peers,
         \A p \in DOMAIN peers : /\ peers'[p].room_id = peers[p].room_id
                                 /\ peers'[p].virtual_ip = peers[p].virtual_ip
  PROVE  Seated' = Seated
<1>1. \A p \in DOMAIN peers : Seat(peers'[p]) = Seat(peers[p])
  BY DEF Seat
<1>2. Seated = [p \in DOMAIN peers |-> Seat(peers[p])]
  BY DEF Seated
<1> QED BY <1>1, <1>2, SeatedFacts

LEMMA RegisteredStays ==
  ASSUME DOMAIN db_peers' = DOMAIN db_peers,
         \A p \in DOMAIN db_peers : db_peers'[p] = db_peers[p]
  PROVE  Registered' = Registered
<1>1. Registered = [p \in DOMAIN db_peers |-> Seat(db_peers[p])]
  BY DEF Registered
<1> QED BY <1>1, RegisteredFacts

(* A player is being moved until the request about it is answered.          *)
LEMMA MovingStays ==
  ASSUME StoreTypes, NEW t \in Task, NextStep(t),
         Continued(t) \/ tasks[t].op \notin {"join_room", "delete_peer"}
  PROVE  Moving' = Moving
<1>1. /\ TasksTyped /\ NoTask.op = "none"
      /\ \A u \in Task : u # t => tasks'[u] = tasks[u]
      /\ tasks'[t] = NoTask \/ Continued(t)
  BY NextStepFacts DEF StoreTypes, NoTask
<1>2. \A p : Moves(t, p)' <=> Moves(t, p)
  BY <1>1 DEF Moves, Continued
<1>3. \A u \in Task : u # t => \A p : Moves(u, p)' <=> Moves(u, p)
  BY <1>1 DEF Moves
<1> QED BY <1>2, <1>3, MovingFacts

LEMMA MovingEnds ==
  ASSUME ControlInv, Calm, NEW t \in Task, NextStep(t), NEW p \in PeerId, Moves(t, p),
         tasks'[t] = NoTask
  PROVE  Moving' = Moving \ {p}
<1>1. \A u \in Task : u # t => tasks'[u] = tasks[u] /\ ~Moves(u, p)
  BY NextStepFacts, OnlyMover DEF ControlInv, StoreTypes
<1>2. \A q : ~Moves(t, q)'
  BY DEF Moves, NoTask
<1>3. \A q : Moves(t, q) => q = p
  BY DEF Moves
<1>4. \A u \in Task : u # t => \A q : Moves(u, q)' <=> Moves(u, q)
  BY <1>1 DEF Moves
<1> QED BY <1>1, <1>2, <1>3, <1>4, MovingFacts

-----------------------------------------------------------------------------
LEMMA RegistryInitial == ControlInit => Registry!RegistryInit
<1> SUFFICES ASSUME ControlInit PROVE Registry!RegistryInit
  OBVIOUS
<1>1. peers = NoTables /\ db_peers = NoTables /\ DOMAIN NoTables = {}
  BY DEF ControlInit, Init, NoTables
<1>2. Seated = Registry!Nobody
  BY <1>1 DEF Seated, Registry!Nobody
<1>3. Registered = Registry!Nobody
  BY <1>1 DEF Registered, Registry!Nobody
<1>4. Moving = {}
  BY MovingFacts DEF ControlInit, Moves, NoTask
<1> QED BY <1>2, <1>3, <1>4 DEF ControlInit, Registry!RegistryInit

(* A request is taken up: a join has seated its peer, a delete has found    *)
(* its own in the router.                                                   *)
LEMMA NewRequestRegistry ==
  ASSUME ControlInv, Calm, CalmInv, NEW t \in Task, NewRequest(t)
  PROVE  [Registry!RegistryNext]_(Registry!registryVars)
<1> DEFINE x == tasks'[t]
<1>0. TypeOK /\ TasksTyped /\ Routing /\ StoreTypes /\ NoTask.op = "none"
  BY DEF ControlInv, Routing, StoreTypes, NoTask
<1>1. /\ TasksTyped' /\ Opened(x) /\ MayOverlap(x.arg) /\ up /\ tasks[t] = NoTask
      /\ \A u \in Task : u # t => tasks'[u] = tasks[u]
      /\ UNCHANGED <<db_peers, up>>
  BY <1>0, NewRequestFacts DEF dbVars
<1>2. Registered' = Registered
  BY <1>1, RegisteredStays
<1>3. /\ \A q : ~Moves(t, q)
      /\ \A u \in Task : u # t => \A q : Moves(u, q)' <=> Moves(u, q)
  BY <1>0, <1>1 DEF Moves
<1>4. \A q : Moves(t, q)' <=> x.op \in {"join_room", "delete_peer"} /\ x.arg.peer = q
  BY DEF Moves
<1> HIDE DEF x
<1>5. CASE x.op \notin {"join_room", "delete_peer"}
  <2>1. UNCHANGED peers
    BY <1>1, <1>5 DEF Opened, Joining, Searching, CreateRoomWithId, SameMembers, vars, peerVars
  <2>2. Seated' = Seated
    BY <2>1, SeatedStays
  <2>3. Moving' = Moving
    BY <1>3, <1>4, <1>5, MovingFacts
  <2> QED BY <1>1, <1>2, <2>2, <2>3 DEF Registry!registryVars
<1>6. CASE x.op \in {"join_room", "delete_peer"}
  <2>1. \/ x \in Joining /\ JoinRoom(x.arg.room, x.arg.peer, x.arg.ip)
        \/ x \in Searching /\ At(x.arg.room, x.arg.peer, x.arg.ip) /\ UNCHANGED vars
    BY <1>1, <1>6 DEF Opened, Creation, Deletion, Registering, Playing, Unhosting
  <2>2. x.arg.room \in RoomId /\ x.arg.peer \in PeerId /\ x.arg.ip \in VirtualIp
    BY <2>1 DEF Joining, Searching, JoinArg, PeerArg
  <2>p. PICK p \in PeerId : x.arg.peer = p
    BY <2>2
  <2>3. \A u \in Task : ~Moves(u, p)
    <3>1. CASE OneTask
      BY <1>3, <3>1 DEF OneTask
    <3>2. CASE Retried = {}
      <4>1. Concerns(t, p)'
        BY <1>1, <1>4, <1>6, <2>p, MovesConcernNext
      <4>2. "peer" \in DOMAIN x.arg
        BY <4>1 DEF Concerns, x
      <4>3. \A u \in Task : ~Concerns(u, p)
        BY <1>1, <2>p, <3>2, <4>2 DEF MayOverlap
      <4> QED BY <1>0, <4>3, MovesConcern
    <3> QED BY <3>1, <3>2 DEF Calm
  <2>4. Moving' = Moving \cup {p} /\ p \notin Moving
    BY <1>3, <1>4, <1>6, <2>3, <2>p, MovingFacts
  <2>5. Absent(p) \/ Present(p)
    BY <1>1, <2>3 DEF CalmInv, PeerAgrees
  <2>6. CASE JoinRoom(x.arg.room, p, x.arg.ip)
    <3>1. p \notin DOMAIN peers /\ p \notin DOMAIN db_peers
      BY <2>5, <2>6 DEF JoinRoom, Absent, Present
    <3>2. \A q \in DOMAIN peers : peers[q].virtual_ip # x.arg.ip
      BY <1>0, <2>6 DEF JoinRoom, Routing, IndexConsistent, AddressesMatchPeers
    <3>3. \A q \in DOMAIN Seated : Seated[q].address # x.arg.ip
      BY <3>2, SeatedFacts DEF Seat
    <3>4. /\ DOMAIN peers' = DOMAIN peers \cup {p}
          /\ \A q \in DOMAIN peers : peers'[q] = peers[q]
          /\ Seat(peers'[p]) = [room |-> x.arg.room, address |-> x.arg.ip]
      BY <2>6, <3>1 DEF JoinRoom, Put, Seat
    <3>5. Seated' = Registry!Seating(Seated, p, [room |-> x.arg.room, address |-> x.arg.ip])
      <4>1. \A q \in DOMAIN peers \cup {p} :
              Seat(peers'[q]) = IF q = p THEN [room |-> x.arg.room, address |-> x.arg.ip]
                                ELSE Seated[q]
        BY <3>1, <3>4, SeatedFacts
      <4> QED BY <3>4, <4>1, SeatedFacts DEF Registry!Seating
    <3>6. Registry!Admit(p, x.arg.room, x.arg.ip)
      BY <1>1, <1>2, <2>4, <3>1, <3>3, <3>5, SeatedFacts, RegisteredFacts DEF Registry!Admit
    <3> QED BY <2>2, <3>6 DEF Registry!RegistryNext
  <2>7. CASE At(x.arg.room, p, x.arg.ip) /\ UNCHANGED vars
    <3>1. Seated' = Seated
      BY <2>7, SeatedStays DEF vars, peerVars
    <3>2. p \in DOMAIN peers /\ p \in DOMAIN db_peers
      BY <2>5, <2>7 DEF At, Absent, Present
    <3>3. Registry!Dismiss(p)
      BY <1>1, <1>2, <2>4, <3>1, <3>2, SeatedFacts, RegisteredFacts DEF Registry!Dismiss
    <3> QED BY <2>2, <3>3 DEF Registry!RegistryNext
  <2> QED BY <2>1, <2>6, <2>7, <2>p
<1> QED BY <1>5, <1>6

(* Requests about rooms, hosts and games change neither seats nor rows of   *)
(* peers, and a step for one peer leaves the others where they are.         *)
LEMMA OtherSeats ==
  ASSUME ControlInv, Calm, CalmInv, up, NEW t \in Task, NextStep(t),
         NEW p \in PeerId, ~Moves(t, p)
  PROVE  /\ p \in DOMAIN peers <=> p \in DOMAIN peers'
         /\ p \in DOMAIN peers => peers'[p] = peers[p]
         /\ p \in DOMAIN db_peers <=> p \in DOMAIN db_peers'
         /\ p \in DOMAIN db_peers => db_peers'[p] = db_peers[p]
  BY RouterUnaffected, RowsUnaffected

LEMMA OtherStepRegistry ==
  ASSUME ControlInv, Calm, CalmInv, up, NEW t \in Task, NextStep(t),
         tasks[t].op \notin {"join_room", "delete_peer"}, ControlInv'
  PROVE  UNCHANGED Registry!registryVars
<1>1. \A p \in PeerId : ~Moves(t, p)
  BY DEF Moves
<1>2. /\ DOMAIN peers \subseteq PeerId /\ DOMAIN peers' \subseteq PeerId
      /\ DOMAIN db_peers \subseteq PeerId /\ DOMAIN db_peers' \subseteq PeerId
  BY DEF ControlInv, Routing, TypeOK, StoreTypes, IsTable
<1>3. Seated' = Seated
  BY <1>1, <1>2, OtherSeats, SeatedStays
<1>4. Registered' = Registered
  BY <1>1, <1>2, OtherSeats, RegisteredStays
<1>5. Moving' = Moving
  BY MovingStays DEF ControlInv
<1>6. UNCHANGED up
  BY DEF NextStep, InsertRoom, DeleteRoomRow, RemoveRoom, JoinTunnel, JoinInsert,
         JoinUntunnel, JoinLeave, JoinRemember, DeleteForget, DeleteFindKey,
         DeleteUntunnel, DeletePeerRow, DeleteLeave, DeleteReinsert, DeleteRetunnel,
         UpsertHost, DeleteHostRow, UnregisterStep, InsertGameplay, RemoveGameplay
<1> QED BY <1>3, <1>4, <1>5, <1>6 DEF Registry!registryVars

(* The request has changed neither the router nor the table: it goes on, or *)
(* it is answered, and then the two agree.                                  *)
LEMMA QuietStepRegistry ==
  ASSUME ControlInv, Calm, CalmInv, up, NEW t \in Task, NextStep(t), NEW p \in PeerId,
         Moves(t, p), UNCHANGED <<peers, db_peers, up>>
  PROVE  [Registry!RegistryNext]_(Registry!registryVars)
<1>1. Seated' = Seated /\ Registered' = Registered
  BY SeatedStays, RegisteredStays
<1>2. tasks'[t] = NoTask \/ Continued(t)
  BY NextStepFacts DEF ControlInv, StoreTypes
<1>3. CASE Continued(t)
  <2>1. Moving' = Moving
    BY <1>3, MovingStays DEF ControlInv
  <2> QED BY <1>1, <2>1 DEF Registry!registryVars
<1>4. CASE tasks'[t] = NoTask
  <2>1. Moving' = Moving \ {p} /\ p \in Moving
    BY <1>4, MovingEnds, MovingFacts
  <2>2. \A u \in Task : ~Moves(u, p)'
    BY <2>1, MovingFacts
  <2>3. PeerAgrees(p)'
    BY NextStepAgrees
  <2>4. Absent(p)' \/ Present(p)'
    BY <2>2, <2>3 DEF PeerAgrees
  <2>5. /\ p \in DOMAIN peers <=> p \in DOMAIN db_peers
        /\ p \in DOMAIN peers => /\ db_peers[p].room_id = peers[p].room_id
                                 /\ db_peers[p].virtual_ip = peers[p].virtual_ip
    BY <2>4 DEF Absent, Present, RowAgrees, At
  <2>6. p \in DOMAIN Seated => Seated[p] = Registered[p]
    BY <2>5, SeatedFacts, RegisteredFacts DEF Seat
  <2>7. Registry!Settle(p)
    BY <1>1, <2>1, <2>5, <2>6, SeatedFacts, RegisteredFacts DEF Registry!Settle
  <2> QED BY <2>7 DEF Registry!RegistryNext
<1> QED BY <1>2, <1>3, <1>4

(* The peer leaves the router: its row is gone, or was never written.       *)
LEMMA LeaveRegistry ==
  ASSUME ControlInv, Calm, CalmInv, up, NEW t \in Task, NextStep(t), NEW p \in PeerId,
         Moves(t, p), LeaveRoom(tasks[t].arg.room, p), p \in DOMAIN peers,
         p \notin DOMAIN db_peers, UNCHANGED <<db_peers, up>>
  PROVE  Registry!Unseat(p)
<1>1. /\ DOMAIN peers' = DOMAIN peers \ {p}
      /\ \A q \in DOMAIN peers' : peers'[q] = peers[q]
  BY LeaveFacts
<1>2. Seated' = Registry!Leaving(Seated, p)
  <2>1. \A q \in DOMAIN peers \ {p} : Seat(peers'[q]) = Seated[q]
    BY <1>1, SeatedFacts
  <2> QED BY <1>1, <2>1, SeatedFacts DEF Registry!Leaving
<1>3. Registered' = Registered
  BY RegisteredStays
<1>4. Moving' \in {Moving, Moving \ {p}}
  <2>1. tasks'[t] = NoTask \/ Continued(t)
    BY NextStepFacts DEF ControlInv, StoreTypes
  <2> QED BY <2>1, MovingStays, MovingEnds DEF ControlInv
<1>5. p \in Moving
  BY MovingFacts
<1> QED BY <1>2, <1>3, <1>4, <1>5, SeatedFacts, RegisteredFacts DEF Registry!Unseat

LEMMA JoinRegistry ==
  ASSUME ControlInv, Calm, CalmInv, up, NEW t \in Task, NextStep(t), NEW p \in PeerId,
         tasks[t].op = "join_room", tasks[t].arg.peer = p
  PROVE  [Registry!RegistryNext]_(Registry!registryVars)
<1> DEFINE a == tasks[t].arg
<1>0. /\ Routing /\ InPlace /\ TasksTyped /\ StoreTypes /\ tasks[t] \in Joining
      /\ p \in Steady /\ Moves(t, p) /\ Phase(t, p)
  BY RequestFacts DEF ControlInv, StoreTypes, Moves, CalmInv, PeerAgrees, Calm, Steady
<1>1. UNCHANGED vars => UNCHANGED peers
  BY DEF vars, peerVars
<1>2. UNCHANGED dbVars => UNCHANGED db_peers
  BY DEF dbVars
<1>3. JoinTunnel(t) \/ JoinInsert(t) \/ JoinUntunnel(t) \/ JoinLeave(t) \/ JoinRemember(t)
  BY DEF NextStep, Stands, InsertRoom, DeleteRoomRow, RemoveRoom,
         DeleteForget, DeleteFindKey, DeleteUntunnel, DeletePeerRow, DeleteLeave,
         DeleteReinsert, DeleteRetunnel, UpsertHost, DeleteHostRow, UnregisterStep,
         InsertGameplay, RemoveGameplay
<1>4. tasks[t].at \in Pending => p \in DOMAIN peers /\ p \notin DOMAIN db_peers
  BY <1>0 DEF Phase, Joins
<1>5. p \in DOMAIN peers => At(a.room, p, a.ip)
  BY <1>0 DEF InPlace
<1>6. CASE JoinTunnel(t) \/ JoinUntunnel(t) \/ JoinRemember(t)
  <2>1. UNCHANGED <<peers, db_peers, up>>
    BY <1>1, <1>2, <1>6 DEF JoinTunnel, JoinUntunnel, JoinRemember
  <2> QED BY <1>0, <2>1, QuietStepRegistry
<1>7. CASE JoinInsert(t)
  <2>1. UNCHANGED <<peers, up>>
    BY <1>1, <1>7 DEF JoinInsert
  <2>2. CASE UNCHANGED dbVars
    BY <1>0, <1>2, <2>1, <2>2, QuietStepRegistry
  <2>3. CASE InsertPeerRow(a) /\ Goto(t, "remember")
    <3>1. p \in DOMAIN peers /\ p \notin DOMAIN db_peers /\ At(a.room, p, a.ip)
      BY <1>4, <1>5, <1>7 DEF JoinInsert, Stands, Pending
    <3>2. /\ DOMAIN db_peers' = DOMAIN db_peers \cup {p}
          /\ \A q \in DOMAIN db_peers : db_peers'[q] = db_peers[q]
          /\ db_peers'[p].room_id = a.room /\ db_peers'[p].virtual_ip = a.ip
      BY <2>3, <3>1 DEF InsertPeerRow, Put, PeerRow
    <3>3. Seat(db_peers'[p]) = Seated[p]
      BY <3>1, <3>2, SeatedFacts DEF Seat, At
    <3>4. \A q \in DOMAIN db_peers \cup {p} :
            Seat(db_peers'[q]) = IF q = p THEN Seated[p] ELSE Registered[q]
      BY <3>1, <3>2, <3>3, RegisteredFacts
    <3>5. Registered' = Registry!Seating(Registered, p, Seated[p])
      BY <3>2, <3>4, RegisteredFacts DEF Registry!Seating
    <3>6. Seated' = Seated
      BY <2>1, SeatedStays
    <3>7. Continued(t)
      <4>1. tasks'[t] # NoTask
        BY <1>0, <2>3, GotoFacts DEF NoTask
      <4> QED BY <1>0, <4>1, NextStepFacts DEF StoreTypes
    <3>8. Moving' = Moving /\ p \in Moving
      BY <1>0, <3>7, MovingStays, MovingFacts
    <3>9. Registry!Register(p)
      BY <2>1, <3>1, <3>5, <3>6, <3>8, SeatedFacts, RegisteredFacts DEF Registry!Register
    <3> QED BY <3>9 DEF Registry!RegistryNext
  <2> QED BY <1>7, <2>2, <2>3 DEF JoinInsert
<1>8. CASE JoinLeave(t)
  <2>1. p \in DOMAIN peers /\ p \notin DOMAIN db_peers /\ At(a.room, p, a.ip)
    BY <1>4, <1>5, <1>8 DEF JoinLeave, Stands, Pending
  <2>2. IsIn(a.room, p)
    BY <1>0, <2>1 DEF At, IsIn, Routing, IndexConsistent, MembersMatchPeers
  <2>3. LeaveRoom(a.room, p) /\ UNCHANGED <<db_peers, up>>
    BY <1>2, <1>8, <2>2 DEF JoinLeave
  <2>4. Registry!Unseat(p)
    BY <1>0, <2>1, <2>3, LeaveRegistry
  <2> QED BY <2>4 DEF Registry!RegistryNext
<1> QED BY <1>3, <1>6, <1>7, <1>8

LEMMA DeleteRegistry ==
  ASSUME ControlInv, Calm, CalmInv, up, NEW t \in Task, NextStep(t), NEW p \in PeerId,
         tasks[t].op = "delete_peer", tasks[t].arg.peer = p
  PROVE  [Registry!RegistryNext]_(Registry!registryVars)
<1> DEFINE a == tasks[t].arg
<1>0. /\ Routing /\ InPlace /\ TasksTyped /\ StoreTypes
      /\ tasks[t] \in Searching \cup Leaving
      /\ p \in Steady /\ Moves(t, p) /\ Phase(t, p)
  BY RequestFacts DEF ControlInv, StoreTypes, Moves, CalmInv, PeerAgrees, Calm, Steady
<1>1. UNCHANGED vars => UNCHANGED peers
  BY DEF vars, peerVars
<1>2. UNCHANGED dbVars => UNCHANGED db_peers
  BY DEF dbVars
<1>3. \/ DeleteFindKey(t) \/ DeleteUntunnel(t) \/ DeletePeerRow(t) \/ DeleteLeave(t)
      \/ DeleteForget(t) \/ DeleteReinsert(t) \/ DeleteRetunnel(t)
  BY DEF NextStep, Stands, InsertRoom, DeleteRoomRow, RemoveRoom,
         JoinTunnel, JoinInsert, JoinUntunnel, JoinLeave, JoinRemember,
         UpsertHost, DeleteHostRow, UnregisterStep, InsertGameplay, RemoveGameplay
<1>4. ~DeleteReinsert(t)
  BY <1>0 DEF Phase, Leaves, DeleteReinsert, Stands
<1>5. CASE DeleteFindKey(t) \/ DeleteUntunnel(t) \/ DeleteForget(t) \/ DeleteRetunnel(t)
  <2>1. UNCHANGED <<peers, db_peers, up>>
    BY <1>1, <1>2, <1>5 DEF DeleteFindKey, DeleteUntunnel, DeleteForget, DeleteRetunnel
  <2> QED BY <1>0, <2>1, QuietStepRegistry
<1>6. CASE DeletePeerRow(t)
  <2>1. UNCHANGED <<peers, up>>
    BY <1>1, <1>6 DEF DeletePeerRow
  <2>2. CASE UNCHANGED dbVars
    BY <1>0, <1>2, <2>1, <2>2, QuietStepRegistry
  <2>3. CASE DeleteRows({}, {a.peer}, {}) /\ Goto(t, "leave")
    <3>1. p \in DOMAIN peers /\ p \in DOMAIN db_peers
      BY <1>0, <1>6 DEF Phase, Leaves, DeletePeerRow, Stands, Present
    <3>2. /\ DOMAIN db_peers' = DOMAIN db_peers \ {p}
          /\ \A q \in DOMAIN db_peers' : db_peers'[q] = db_peers[q]
      BY <2>3 DEF DeleteRows, Without, Restrict
    <3>3. \A q \in DOMAIN db_peers \ {p} : Seat(db_peers'[q]) = Registered[q]
      BY <3>2, RegisteredFacts
    <3>4. Registered' = Registry!Leaving(Registered, p)
      BY <3>2, <3>3, RegisteredFacts DEF Registry!Leaving
    <3>5. Seated' = Seated
      BY <2>1, SeatedStays
    <3>6. tasks[t] \in Leaving
      BY <1>0, <1>6 DEF DeletePeerRow, Stands, Searching
    <3>7. Continued(t)
      <4>1. tasks'[t] # NoTask
        BY <1>0, <2>3, <3>6, GotoFacts DEF NoTask
      <4> QED BY <1>0, <4>1, NextStepFacts DEF StoreTypes
    <3>8. Moving' = Moving /\ p \in Moving
      BY <1>0, <3>7, MovingStays, MovingFacts
    <3>9. Registry!Strike(p)
      BY <2>1, <3>1, <3>4, <3>5, <3>8, SeatedFacts, RegisteredFacts DEF Registry!Strike
    <3> QED BY <3>9 DEF Registry!RegistryNext
  <2> QED BY <1>6, <2>2, <2>3 DEF DeletePeerRow
<1>7. CASE DeleteLeave(t)
  <2>1. p \in DOMAIN peers /\ p \notin DOMAIN db_peers
    BY <1>0, <1>7 DEF Phase, Leaves, DeleteLeave, Stands
  <2>2. IsIn(a.room, p)
    <3>1. At(a.room, p, a.ip)
      BY <1>0, <2>1 DEF InPlace
    <3> QED BY <1>0, <3>1 DEF At, IsIn, Routing, IndexConsistent, MembersMatchPeers
  <2>3. LeaveRoom(a.room, p) /\ UNCHANGED <<db_peers, up>>
    BY <1>2, <1>7, <2>2 DEF DeleteLeave
  <2>4. Registry!Unseat(p)
    BY <1>0, <2>1, <2>3, LeaveRegistry
  <2> QED BY <2>4 DEF Registry!RegistryNext
<1> QED BY <1>3, <1>4, <1>5, <1>6, <1>7

(* A crash empties the seats, and a start takes them from the register.     *)
LEMMA ProcessRegistry ==
  ASSUME ControlInv, Crash \/ StartUp
  PROVE  Registry!Stop \/ Registry!Recover
<1>1. \A t \in Task : tasks'[t] = NoTask
  BY DEF ControlInv, Down, Crash, StartUp
<1>2. Moving' = {}
  BY <1>1, MovingFacts DEF Moves, NoTask
<1>3. UNCHANGED db_peers
  BY DEF Crash, StartUp, dbVars
<1>4. Registered' = Registered
  BY <1>3, RegisteredStays
<1>5. CASE Crash
  <2>1. DOMAIN peers' = {}
    BY <1>5 DEF Crash, Restore, NoTables
  <2>2. Seated' = Registry!Nobody
    BY <2>1, SeatedFacts DEF Registry!Nobody
  <2> QED BY <1>2, <1>4, <1>5, <2>2 DEF Crash, Registry!Stop
<1>6. CASE StartUp
  <2>1. /\ DOMAIN peers' = DOMAIN db_peers
        /\ \A p \in DOMAIN db_peers : /\ peers'[p].room_id = db_peers[p].room_id
                                      /\ peers'[p].virtual_ip = db_peers[p].virtual_ip
    BY <1>6 DEF StartUp, Restore
  <2>2. \A p \in DOMAIN db_peers : Seat(peers'[p]) = Seat(db_peers[p])
    BY <2>1 DEF Seat
  <2>3. Registered = [p \in DOMAIN db_peers |-> Seat(db_peers[p])]
    BY DEF Registered
  <2>4. Seated' = Registered
    BY <2>1, <2>2, <2>3, SeatedFacts
  <2>5. Moving = {}
    BY <1>6, MovingFacts DEF ControlInv, Down, StartUp, Moves, NoTask
  <2> QED BY <1>2, <1>4, <1>6, <2>4, <2>5 DEF StartUp, Registry!Recover
<1> QED BY <1>5, <1>6

LEMMA NextRegistry ==
  ASSUME Calm, ControlInv, CalmInv, ControlInv', [ControlNext]_systemVars
  PROVE  [Registry!RegistryNext]_(Registry!registryVars)
<1>0. TypeOK /\ StoreTypes /\ Down
  BY DEF ControlInv, Routing
<1>1. ASSUME NEW t \in Task, NewRequest(t)
      PROVE  [Registry!RegistryNext]_(Registry!registryVars)
  BY <1>1, NewRequestRegistry
<1>2. ASSUME NEW t \in Task, NextStep(t)
      PROVE  [Registry!RegistryNext]_(Registry!registryVars)
  <2>1. up
    <3>1. tasks[t].op # "none"
      BY <1>0, <1>2, NextStepFacts DEF StoreTypes
    <3> QED BY <1>0, <3>1 DEF Down, NoTask
  <2>2. CASE tasks[t].op \notin {"join_room", "delete_peer"}
    BY <1>2, <2>1, <2>2, OtherStepRegistry
  <2>3. CASE tasks[t].op \in {"join_room", "delete_peer"}
    <3>1. tasks[t] \in Joining \cup Searching \cup Leaving
      BY <1>0, <2>3, RequestFacts DEF StoreTypes
    <3>2. tasks[t].arg.peer \in PeerId
      BY <3>1 DEF Joining, Searching, Leaving, JoinArg, PeerArg
    <3> QED BY <1>2, <2>1, <2>3, <3>2, JoinRegistry, DeleteRegistry
  <2> QED BY <2>2, <2>3
<1>3. CASE Crash \/ StartUp
  BY <1>3, ProcessRegistry DEF Registry!RegistryNext
<1>4. CASE RelayStep \/ \E r \in RoomId, q \in PeerId : ResumeRoom(r, q)
  <2>1. Seated' = Seated
    BY <1>4, QuietRouter, SeatedStays
  <2>2. UNCHANGED <<db_peers, tasks, up>>
    BY <1>4, QuietRouter DEF controlVars, dbVars
  <2>3. Registered' = Registered /\ Moving' = Moving
    BY <2>2, RegisteredStays, MovingFacts DEF Moves
  <2> QED BY <2>1, <2>2, <2>3 DEF Registry!registryVars
<1>5. CASE UNCHANGED systemVars
  <2>1. UNCHANGED <<peers, db_peers, tasks, up>>
    BY <1>5 DEF systemVars, vars, peerVars, controlVars, dbVars
  <2>2. Registered' = Registered /\ Seated' = Seated /\ Moving' = Moving
    BY <2>1, SeatedStays, RegisteredStays, MovingFacts DEF Moves
  <2> QED BY <2>1, <2>2 DEF Registry!registryVars
<1> QED BY <1>1, <1>2, <1>3, <1>4, <1>5 DEF ControlNext

(* As long as no sweep removes peers and no two requests meet over one, the *)
(* server is one that keeps a register: whatever fails, and wherever the    *)
(* process stops, the row of a peer is written after its seat and deleted   *)
(* before it, no request ends while they differ, and a start seats exactly  *)
(* the players of the register.                                             *)
THEOREM ServerKeepsRegistry ==
  ASSUME Calm
  PROVE  ControlSpec => ImplementsRegistry
<1>1. ControlInv /\ ControlInv' /\ CalmInv /\ [ControlNext]_systemVars =>
        [Registry!RegistryNext]_(Registry!registryVars)
  BY NextRegistry
<1> QED BY <1>1, RegistryInitial, CalmInvHolds, PTL
        DEF ControlSpec, ImplementsRegistry, Registry!RegistrySpec
=============================================================================

--------------------------- MODULE RelayDispatcher ---------------------------
(***************************************************************************)
(* The data plane: clients send envelopes over WireGuard, the network      *)
(* loses, duplicates and (if Reordering) reorders them, and                *)
(* RelayDispatcher::handle_datagram (src/server/src/relay.rs) checks each  *)
(* one against the room router and the per-peer sequence tracker           *)
(* (RelayMetrics::record_sequence) and forwards it.  It composes with      *)
(* RoomRouter: the API handlers act on the same tables between datagrams,  *)
(* the sweep runs between them too, and the process may restart, which     *)
(* rebuilds the router from the database.                                  *)
(*                                                                         *)
(* handle_datagram holds the router's write lock from the look-up of the   *)
(* source to its return, so one call is one action.  A call that returns   *)
(* Err before mark_peer_seen changes nothing: such a datagram is lost.     *)
(***************************************************************************)
EXTENDS RoomRouter, SequencesExt

CONSTANTS Reordering,     \* datagrams of one sender may overtake one another
          Legacy,         \* v1 clients, whose envelopes carry no metadata
          Rejoining,      \* clients join again under the peer id they had
          Persistent,     \* rooms and peers survive a restart of the server
          MaxTrackers,    \* MAX_SEQUENCE_TRACKERS
          MaxInFlight, MaxSent, MaxResets, MaxRestarts  \* bounds of the model

ASSUME NetworkAssumption ==
  /\ {Reordering, Legacy, Rejoining, Persistent} \subseteq BOOLEAN
  /\ MaxTrackers \in Nat \ {0}
  /\ {MaxInFlight, MaxSent, MaxResets, MaxRestarts} \subseteq Nat

VARIABLES
  stored,         \* the rows of `peers` in the database, and the WireGuard peers
  last_sequence,  \* SequenceTracker.last_seen
  client,         \* what a client knows: its epoch and its last sequence
  net,            \* the datagrams in flight, by the WireGuard key they came under
  history         \* see History below; no action reads it

relayVars == <<stored, last_sequence, client, net, history>>
allVars   == <<vars, relayVars>>

-----------------------------------------------------------------------------
(* Envelopes.  "Refused" stands for the messages handle_datagram turns down *)
(* after it has recorded their sequence: the outbound kinds, an oversized   *)
(* payload, a port outside the allowed ones.                                *)
Probe   == [kind |-> "RelayProbe"]
Refused == [kind |-> "Refused"]
Requests  == [kind : {"DiscoveryRequest"}, request_id : DiscoveryRequestId,
              port : DiscoveryPort]
Responses == [kind : {"DiscoveryResponse"}, request_id : DiscoveryRequestId,
              host_session_id : HostSessionId]
Gameplay  == [kind : {"GameplayPacket"}, session_id : GameplaySessionId]
Messages  == {Probe, Refused} \cup Requests \cup Responses \cup Gameplay

(* History variables: how many envelopes p has sent, which of them (by that *)
(* number) the relay has accepted, how often p has restarted its numbering, *)
(* has joined again, was resumed, and was lifted out of a suspension, and   *)
(* the restarts of the server.  An envelope carries its number and two of   *)
(* its sender's counts in its stamp.                                        *)
History == [sent     : [PeerId -> 0..MaxSent],
            accepted : [PeerId -> SUBSET (1..MaxSent)],
            resets   : [PeerId -> 0..MaxResets],
            rejoined : [PeerId -> 0..MaxResets],
            resumed  : [PeerId -> 0..MaxResets],
            lifted   : [PeerId -> 0..MaxResets],
            restarts : 0..MaxRestarts]

Datagram == [source : VirtualIp, epoch : 0..MaxEpoch, sequence : 0..MaxSent,
             message : Messages,
             stamp : [n : 1..MaxSent, rejoined : 0..MaxResets, lifted : 0..MaxResets]]

Nothing == [p \in PeerId |-> 0]

RelayInit ==
  /\ Init
  /\ stored = NoTables
  /\ last_sequence = NoTables
  /\ client = NoTables
  /\ net = [p \in PeerId |-> << >>]
  /\ history = [sent |-> Nothing, accepted |-> [p \in PeerId |-> {}],
                resets |-> Nothing, rejoined |-> Nothing, resumed |-> Nothing, lifted |-> Nothing,
                restarts |-> 0]

-----------------------------------------------------------------------------
(* Clients.                                                                 *)

(* RelaySession::next_envelope_meta numbers every envelope; a v1 client     *)
(* sends epoch 0 and sequence 0.                                            *)
Send(p, m, legacy) ==
  /\ p \in DOMAIN client
  /\ Len(net[p]) < MaxInFlight
  /\ history.sent[p] < MaxSent
  /\ LET next == client[p].sequence + 1
         n    == history.sent[p] + 1
         d    == [source |-> client[p].virtual_ip,
                  epoch |-> IF legacy THEN 0 ELSE client[p].epoch,
                  sequence |-> IF legacy THEN 0 ELSE next,
                  message |-> m,
                  stamp |-> [n |-> n, rejoined |-> history.rejoined[p],
                             lifted |-> history.lifted[p]]]
     IN  /\ net' = [net EXCEPT ![p] = Append(@, d)]
         /\ client' = [client EXCEPT ![p].sequence = IF legacy THEN @ ELSE next]
         /\ history' = [history EXCEPT !.sent[p] = n]
  /\ UNCHANGED <<vars, stored, last_sequence>>

-----------------------------------------------------------------------------
(* handle_datagram.                                                         *)

(* The datagram at place i of p's queue reaches the relay: WireGuard lets   *)
(* only the address it assigned to p's key through.                         *)
Arrives(p, i) ==
  /\ i \in DOMAIN net[p]
  /\ i = 1 \/ Reordering
  /\ p \in DOMAIN stored
  /\ stored[p].virtual_ip = net[p][i].source

(* The look-up of the source, the epoch check and mark_peer_seen succeed.   *)
(* A legacy envelope has epoch 0, which is not compared.                    *)
Admitted(d) ==
  /\ d.source \in DOMAIN virtual_ips
  /\ LET q == virtual_ips[d.source]
     IN  /\ d.epoch = 0 \/ d.epoch = peers[q].epoch
         /\ ~peers[q].disconnected

Sender(d) == virtual_ips[d.source]

(* record_sequence: Duplicate only when equal to the last one of the peer;  *)
(* a smaller one is Reordered and a 0 is Legacy, and both are accepted.     *)
IsDuplicate_bug(q, n) ==
  n # 0 /\ q \in DOMAIN last_sequence /\ n <= last_sequence[q]

IsDuplicate(q, n) ==
  n # 0 /\ q \in DOMAIN last_sequence /\ last_sequence[q] = n

(* Recording the 0 of a legacy envelope; keeping the first number for ever. *)
RecordSequence_bugLegacy(q, n) ==
  IF q \in DOMAIN last_sequence
  THEN [last_sequence EXCEPT ![q] = IF n > @ THEN n ELSE @]
  ELSE Put(last_sequence, q, n)

RecordSequence_bugFirst(q, n) ==
  IF n = 0 \/ q \in DOMAIN last_sequence THEN last_sequence
  ELSE Put(last_sequence, q, n)

RecordSequence(q, n) ==
  IF n = 0 THEN last_sequence
  ELSE IF q \in DOMAIN last_sequence
       THEN [last_sequence EXCEPT ![q] = IF n > @ THEN n ELSE @]
       ELSE Put(IF Cardinality(DOMAIN last_sequence) >= MaxTrackers
                THEN NoTables ELSE last_sequence, q, n)

(* The network hands over a datagram and forgets it, or keeps a duplicate.  *)
TakeFrom(p, i) ==
  \/ net' = [net EXCEPT ![p] = RemoveAt(@, i)]
  \/ UNCHANGED net

(* A response is routed if it comes from the peer that owns the host session*)
(* (SourcePeerMismatch otherwise) and the router lets the host answer.      *)
ResponseRoutes_bug(q, m) ==
  /\ m.kind = "DiscoveryResponse"
  /\ MayAnswer(m.request_id, m.host_session_id)

ResponseRoutes(q, m) ==
  /\ m.kind = "DiscoveryResponse"
  /\ MayAnswer(m.request_id, m.host_session_id)
  /\ hosts[m.host_session_id].peer_id = q

(* The tables after RoomRouter::dispatch, which fails without effect.       *)
DispatchRequest(q, m) ==
  /\ m.kind = "DiscoveryRequest"
  /\ TouchDiscovery(peers[q].room_id, q, m.request_id, m.port)
  /\ UNCHANGED gameplay

DispatchGameplay(q, m) ==
  /\ m.kind = "GameplayPacket"
  /\ TouchGameplay(m.session_id, q)
  /\ UNCHANGED discoveries

DispatchTouchesNothing(q, m) ==
  /\ m.kind = "DiscoveryRequest" =>
       ~CanDiscover(peers[q].room_id, q, m.request_id, m.port)
  /\ m.kind = "GameplayPacket" => ~CanRoute(m.session_id, q)
  /\ UNCHANGED sessionVars

(* A probe refreshes the lease and is acknowledged; its sequence number is  *)
(* not recorded.                                                            *)
AnswerProbe(p, i) ==
  LET d == net[p][i]
  IN  /\ Arrives(p, i) /\ Admitted(d)
      /\ d.message.kind = "RelayProbe"
      /\ TouchPeer(Sender(d))
      /\ TakeFrom(p, i)
      /\ UNCHANGED <<roomVars, virtual_ips, hostVars, sessionVars,
                     stored, last_sequence, client, history>>

(* DuplicateSequence, after mark_peer_seen.                                 *)
Drops(p, i) ==
  LET d == net[p][i]
  IN  /\ Arrives(p, i) /\ Admitted(d)
      /\ d.message.kind # "RelayProbe"
      /\ IsDuplicate(Sender(d), d.sequence)

DropDuplicate(p, i) ==
  /\ Drops(p, i)
  /\ TouchPeer(Sender(net[p][i]))
  /\ TakeFrom(p, i)
  /\ UNCHANGED <<roomVars, virtual_ips, hostVars, sessionVars,
                 stored, last_sequence, client, history>>

Accepts(p, i) ==
  LET d == net[p][i]
  IN  /\ Arrives(p, i) /\ Admitted(d)
      /\ d.message.kind # "RelayProbe"
      /\ ~IsDuplicate(Sender(d), d.sequence)

Accept(p, i) ==
  LET d == net[p][i]
      q == Sender(d)
  IN  /\ Accepts(p, i)
      /\ TouchPeer(q)
      /\ last_sequence' = RecordSequence(q, d.sequence)
      /\ \/ DispatchRequest(q, d.message)
         \/ DispatchGameplay(q, d.message)
         \/ DispatchTouchesNothing(q, d.message)
      /\ history' = [history EXCEPT !.accepted[p] = @ \cup {d.stamp.n}]
      /\ TakeFrom(p, i)
      /\ UNCHANGED <<roomVars, virtual_ips, hostVars, stored, client>>

(* Lost on the way, or refused before mark_peer_seen.                       *)
Lose(p, i) ==
  /\ i \in DOMAIN net[p]
  /\ net' = [net EXCEPT ![p] = RemoveAt(@, i)]
  /\ UNCHANGED <<vars, stored, last_sequence, client, history>>

(* action_to_datagrams: what is sent, where to, and the address it claims.  *)
Outbound(q, m) ==
  IF /\ m.kind = "DiscoveryRequest"
     /\ CanDiscover(peers[q].room_id, q, m.request_id, m.port)
  THEN {[to |-> hosts[h].virtual_ip, from |-> peers[q].virtual_ip] :
          h \in DiscoveryTargets(peers[q].room_id)}
  ELSE IF ResponseRoutes(q, m)
  THEN {[to |-> peers[discoveries[m.request_id].client_peer_id].virtual_ip,
         from |-> hosts[m.host_session_id].virtual_ip]}
  ELSE IF m.kind = "GameplayPacket" /\ CanRoute(m.session_id, q)
  THEN {[to |-> GameplayRoute(m.session_id, q).ip, from |-> peers[q].virtual_ip]}
  ELSE {}

-----------------------------------------------------------------------------
(* Control requests, as far as they change what the data plane relies on.   *)

(* A join answers with epoch 1 and stores the peer; it is one step here and *)
(* meets no leftover of an expired peer (ControlPlane has its steps, and    *)
(* what becomes of it then).  A client may ask for a peer id it had before. *)
ApiJoin(r, p, ip) ==
  /\ JoinRoom(r, p, ip)
  /\ p \notin DOMAIN stored
  /\ \A q \in DOMAIN stored : stored[q].virtual_ip # ip
  /\ stored' = Put(stored, p, [room_id |-> r, virtual_ip |-> ip])
  /\ client' = Put(client, p, [virtual_ip |-> ip, epoch |-> 1, sequence |-> 0])
  /\ IF p \in DOMAIN client
     THEN /\ Rejoining
          /\ history.resets[p] < MaxResets
          /\ history' = [history EXCEPT !.resets[p] = @ + 1, !.rejoined[p] = @ + 1]
     ELSE UNCHANGED history
  /\ UNCHANGED <<last_sequence, net>>

(* A resume answers with the peer's epoch; run_with_reconnect takes it and  *)
(* numbers from 0 again, unless the answer is lost on the way.              *)
ApiResume(r, p) ==
  LET lifts == peers[p].disconnected
  IN  /\ p \in DOMAIN client
      /\ history.resumed[p] < MaxResets
      /\ history.resets[p] < MaxResets
      /\ ResumePeer(r, p)
      /\ \/ /\ client' = [client EXCEPT ![p].epoch = peers'[p].epoch,
                                        ![p].sequence = 0]
            /\ history' = [history EXCEPT
                             !.resets[p] = @ + 1, !.resumed[p] = @ + 1,
                             !.lifted[p] = IF lifts THEN @ + 1 ELSE @]
         \/ /\ UNCHANGED client
            /\ history' = [history EXCEPT
                             !.resumed[p] = @ + 1,
                             !.lifted[p] = IF lifts THEN @ + 1 ELSE @]
      /\ UNCHANGED <<stored, last_sequence, net>>

ApiLeave(r, p) ==
  /\ LeaveRoom(r, p)
  /\ stored' = Without(stored, {p})
  /\ UNCHANGED <<last_sequence, client, net, history>>

(* Deleting a room deletes the rows of its peers (ON DELETE CASCADE).       *)
ApiDeleteRoom(r) ==
  /\ RemoveEmptyRoom(r)
  /\ stored' = Without(stored, InRoom(stored, DOMAIN stored, r))
  /\ UNCHANGED <<last_sequence, client, net, history>>

(* The process restarts; sessions and the sequence tracker are lost.  With  *)
(* a database rooms and peers come back, each peer as if it had just joined *)
(* (ControlPlane says when they can be read back); without one they do not, *)
(* and clients join again.                                                  *)
Restart ==
  LET codes == [r \in DOMAIN rooms |-> rooms[r].code]
  IN  /\ history.restarts < MaxRestarts
      /\ \/ /\ Persistent
            /\ Restorable(codes, stored)
            /\ Restore(codes, stored)
            /\ UNCHANGED stored
         \/ /\ ~Persistent
            /\ Restore(NoTables, NoTables)
            /\ stored' = NoTables
      /\ last_sequence' = NoTables
      /\ history' = [history EXCEPT !.restarts = @ + 1]
      /\ UNCHANGED <<client, net>>

-----------------------------------------------------------------------------
(* The requests that touch only the router, the sweep and the clock.        *)
RouterStep ==
  /\ \/ \E r \in RoomId, c \in RoomCode : CreateRoomWithId(r, c)
     \/ HostNext
     \/ RegisterAgain
     \/ \E g \in GameplaySessionId :
          \/ \E r \in RoomId, p \in PeerId, h \in HostSessionId : SelectHost(r, p, h, g)
          \/ RemoveGameplaySession(g)
     \/ Expire
     \/ Tick
  /\ UNCHANGED relayVars

MembershipStep ==
  \E r \in RoomId :
    \/ ApiDeleteRoom(r)
    \/ \E p \in PeerId : ApiResume(r, p) \/ ApiLeave(r, p)
    \/ \E p \in PeerId, ip \in VirtualIp : ApiJoin(r, p, ip)

ClientStep ==
  \E p \in PeerId, m \in Messages, legacy \in {FALSE, Legacy} : Send(p, m, legacy)

NetworkStep ==
  \E p \in PeerId, i \in 1..MaxInFlight :
    AnswerProbe(p, i) \/ DropDuplicate(p, i) \/ Accept(p, i) \/ Lose(p, i)

RelayNext == RouterStep \/ MembershipStep \/ ClientStep \/ NetworkStep \/ Restart

RelaySpec == RelayInit /\ [][RelayNext]_allVars

-----------------------------------------------------------------------------
(* Properties.                                                              *)

(* The relay's own tables, the clients and the network keep their types.    *)
RelayTypeOK ==
  /\ TypeOK
  /\ IsTable(stored, PeerId, [room_id : RoomId, virtual_ip : VirtualIp])
  /\ IsTable(last_sequence, PeerId, 1..MaxSent)
  /\ IsTable(client, PeerId, [virtual_ip : VirtualIp, epoch : 1..MaxEpoch,
                              sequence : 0..MaxSent])
  /\ \A p \in PeerId : \A i \in DOMAIN net[p] : net[p][i] \in Datagram
  /\ history \in History

(* Whatever a client names in an envelope (its own ids, stale ones, those   *)
(* of another room), and whatever happened since it was sent: what the      *)
(* relay would forward now goes to the current address of a peer that is    *)
(* now in the room of the peer it came from.                                *)
ForwardedWithinRoom ==
  \A p \in PeerId : \A i \in DOMAIN net[p] :
    Accepts(p, i) =>
      \A o \in Outbound(Sender(net[p][i]), net[p][i].message) :
        /\ o.to \in DOMAIN virtual_ips
        /\ peers[virtual_ips[o.to]].room_id = peers[Sender(net[p][i])].room_id

(* The source address the relay writes into what it forwards is that of the *)
(* peer whose WireGuard key the datagram came under: no datagram in flight  *)
(* is attributed to the next owner of the address, and no host session is   *)
(* answered for by a peer that does not own it.                             *)
HonestSource ==
  \A p \in PeerId : \A i \in DOMAIN net[p] :
    Accepts(p, i) =>
      /\ Sender(net[p][i]) = p
      /\ \A o \in Outbound(p, net[p][i].message) : o.from = stored[p].virtual_ip

(* A peer that was suspended and resumed is on a new link: no envelope it   *)
(* numbered before the suspension was lifted is accepted afterwards, unless *)
(* the client has left and joined again meanwhile, which starts the epochs  *)
(* over.  (v1 envelopes have no epoch and are exempt.)                      *)
ReconnectFences ==
  \A p \in PeerId : \A i \in DOMAIN net[p] :
    LET d == net[p][i]
    IN  Accepts(p, i) /\ d.epoch # 0 /\ d.stamp.rejoined = history.rejoined[p]
          => d.stamp.lifted = history.lifted[p]

(* As long as a client has not started to number from 1 again, an envelope  *)
(* dropped as DuplicateSequence is one that was accepted before.            *)
DroppedWasAccepted ==
  \A p \in PeerId : \A i \in DOMAIN net[p] :
    Drops(p, i) /\ history.resets[p] = 0 =>
      net[p][i].stamp.n \in history.accepted[p]

(* ... and a numbered one is accepted twice only if a later one was accepted*)
(* in between: record_sequence remembers the highest number and nothing of  *)
(* the ones below it, which it takes for reordered.                         *)
OnlyOvertakenReplays ==
  \A p \in PeerId : \A i \in DOMAIN net[p] :
    LET d == net[p][i]
    IN  /\ Accepts(p, i)
        /\ d.sequence # 0
        /\ history.resets[p] = 0
        /\ d.stamp.n \in history.accepted[p]
        => \E n \in history.accepted[p] : n > d.stamp.n

(* What the message of the error promises without these conditions.         *)

(* relay.rs:50: "relay packet sequence {0} was already accepted".           *)
DuplicateWasAccepted ==
  \A p \in PeerId : \A i \in DOMAIN net[p] :
    Drops(p, i) => net[p][i].stamp.n \in history.accepted[p]
=============================================================================

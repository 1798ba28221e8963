---------------------------- MODULE RelayProofs -----------------------------
(***************************************************************************)
(* Theorems about the data plane: what the relay forwards stays in the     *)
(* room and carries the address of its sender, what it drops was accepted  *)
(* before, and when it accepts an envelope twice or after a suspension;    *)
(* for any number of clients, datagrams, duplicates and restarts, with and *)
(* without reordering.                                                     *)
(***************************************************************************)
EXTENDS RelayDispatcher, RoomRouterProofs, SequenceTheorems, FiniteSetTheorems

(* Every datagram in flight was in flight before.                           *)
NoneNew == \A q \in PeerId : \A j \in DOMAIN net'[q] :
             \E k \in DOMAIN net[q] : net'[q][j] = net[q][k]

LEMMA RemoveAtFacts ==
  ASSUME NEW S, NEW s \in Seq(S), NEW i \in DOMAIN s
  PROVE  /\ RemoveAt(s, i) \in Seq(S)
         /\ \A j \in DOMAIN RemoveAt(s, i) :
              \E k \in DOMAIN s : RemoveAt(s, i)[j] = s[k]
<1> DEFINE a == SubSeq(s, 1, i - 1)
           b == SubSeq(s, i + 1, Len(s))
<1>1. Len(s) \in Nat /\ i \in 1..Len(s) /\ DOMAIN s = 1..Len(s)
  OBVIOUS
<1>2. /\ a \in Seq(S) /\ Len(a) = i - 1
      /\ \A j \in 1..(i - 1) : a[j] = s[j]
  <2>1. \A j \in 1..(i - 1) : s[j] \in S
    BY <1>1
  <2>2. 1 \in Int /\ i - 1 \in Int
    BY <1>1
  <2> QED BY <1>1, <2>1, <2>2, SubSeqProperties
<1>3. /\ b \in Seq(S) /\ Len(b) = Len(s) - i
      /\ \A j \in 1..(Len(s) - i) : b[j] = s[i + j]
  <2>1. \A j \in (i + 1)..Len(s) : s[j] \in S
    BY <1>1
  <2>2. i + 1 \in Int /\ Len(s) \in Int
    BY <1>1
  <2> QED BY <1>1, <2>1, <2>2, SubSeqProperties
<1>4. RemoveAt(s, i) = a \o b
  BY DEF RemoveAt
<1> HIDE DEF a, b
<1>5. /\ a \o b \in Seq(S)
      /\ Len(a \o b) = Len(a) + Len(b)
      /\ \A j \in 1..(Len(a) + Len(b)) :
           (a \o b)[j] = IF j <= Len(a) THEN a[j] ELSE b[j - Len(a)]
  BY <1>2, <1>3, ConcatProperties
<1>6. ASSUME NEW j \in DOMAIN (a \o b)
      PROVE  \E k \in DOMAIN s : (a \o b)[j] = s[k]
  <2>1. j \in 1..(Len(a) + Len(b))
    BY <1>5
  <2>2. CASE j <= Len(a)
    BY <1>1, <1>2, <1>5, <2>1, <2>2
  <2>3. CASE ~(j <= Len(a))
    <3>1. j - Len(a) \in 1..(Len(s) - i)
      BY <1>1, <1>2, <1>3, <2>1, <2>3
    <3>2. (a \o b)[j] = s[i + (j - Len(a))]
      BY <1>3, <1>5, <2>1, <2>3, <3>1
    <3>3. i + (j - Len(a)) \in DOMAIN s
      BY <1>1, <1>2, <3>1
    <3> QED BY <3>2, <3>3
  <2> QED BY <2>2, <2>3
<1> QED BY <1>4, <1>5, <1>6

(* The types, and the counts that keep the counters within their bounds.    *)
Counted ==
  \A p \in PeerId :
    /\ history.rejoined[p] <= history.resets[p]
    /\ history.lifted[p] <= history.resumed[p]
    /\ p \in DOMAIN client => client[p].sequence <= history.sent[p]

RowType    == [room_id : RoomId, virtual_ip : VirtualIp]
ClientType == [virtual_ip : VirtualIp, epoch : 1..MaxEpoch, sequence : 0..MaxSent]

OwnTypes ==
  /\ IsTable(stored, PeerId, RowType)
  /\ IsTable(last_sequence, PeerId, 1..MaxSent)
  /\ IsTable(client, PeerId, ClientType)
  /\ net \in [PeerId -> Seq(Datagram)]
  /\ history \in History
  /\ Counted

Typed == TypeOK /\ OwnTypes

LEMMA RemoveFacts ==
  ASSUME Typed, NEW p \in PeerId, NEW i \in DOMAIN net[p],
         net' = [net EXCEPT ![p] = RemoveAt(@, i)]
  PROVE  net' \in [PeerId -> Seq(Datagram)] /\ NoneNew
<1>1. net \in [PeerId -> Seq(Datagram)]
  BY DEF Typed, OwnTypes
<1>2. /\ RemoveAt(net[p], i) \in Seq(Datagram)
      /\ \A j \in DOMAIN RemoveAt(net[p], i) :
           \E k \in DOMAIN net[p] : RemoveAt(net[p], i)[j] = net[p][k]
  <2>1. net[p] \in Seq(Datagram)
    BY <1>1
  <2> QED BY <2>1, RemoveAtFacts
<1>3. /\ net'[p] = RemoveAt(net[p], i)
      /\ \A q \in PeerId : q # p => net'[q] = net[q]
  BY <1>1
<1> QED BY <1>1, <1>2, <1>3 DEF NoneNew

LEMMA TakeFacts ==
  ASSUME Typed, NEW p \in PeerId, NEW i \in DOMAIN net[p], TakeFrom(p, i)
  PROVE  net' \in [PeerId -> Seq(Datagram)] /\ NoneNew
<1>1. CASE net' = [net EXCEPT ![p] = RemoveAt(@, i)]
  BY <1>1, RemoveFacts
<1>2. CASE UNCHANGED net
  BY <1>2 DEF Typed, OwnTypes, NoneNew
<1> QED BY <1>1, <1>2 DEF TakeFrom

(* A datagram in flight is one a client may have sent.                      *)
LEMMA InFlight ==
  ASSUME Typed, NEW p \in PeerId, NEW i \in DOMAIN net[p]
  PROVE  net[p][i] \in Datagram
  BY DEF Typed, OwnTypes

-----------------------------------------------------------------------------
(* What each step does to the router.                                       *)

LEMMA TouchFacts ==
  ASSUME TypeOK, NEW q, TouchPeer(q)
  PROVE  /\ IsTable(peers', PeerId, PeerState)
         /\ DOMAIN peers' = DOMAIN peers
         /\ SameOwner(peers)
  BY TtlAssumption DEF TouchPeer, TypeOK, IsTable, PeerState, SameOwner

(* All but a datagram that is accepted and a restart are steps of the       *)
(* router, or leave it alone.                                               *)
LEMMA SeenIsNext ==
  ASSUME Typed, NEW q, TouchPeer(q),
         UNCHANGED <<roomVars, virtual_ips, hostVars, sessionVars>>
  PROVE  Next
<1>1. q \in PeerId
  BY DEF TouchPeer, Typed, TypeOK, IsTable
<1> QED BY <1>1 DEF MarkPeerSeen, PeerNext, Next

LEMMA RouterStepIsNext ==
  ASSUME RouterStep
  PROVE  Next
  BY DEF RouterStep, Next, RoomNext, GameplayNext

LEMMA MembershipIsNext ==
  ASSUME MembershipStep
  PROVE  Next
  BY DEF MembershipStep, ApiDeleteRoom, ApiResume, ApiLeave, ApiJoin, Next, RoomNext, PeerNext

(* An accepted datagram: mark_peer_seen and dispatch in one step.           *)
LEMMA AcceptKeepsRouterTypes ==
  ASSUME Typed, NEW p \in PeerId, NEW i \in DOMAIN net[p], Accept(p, i)
  PROVE  TypeOK'
<1> DEFINE m == net[p][i].message
           q == Sender(net[p][i])
<1>1. IsTable(peers', PeerId, PeerState)
  BY TouchFacts DEF Accept, Typed
<1>2. UNCHANGED <<rooms, rooms_by_code, virtual_ips, hosts, host_by_peer>>
  BY DEF Accept, roomVars, hostVars
<1>3. q \in PeerId
  BY DEF Accept, TouchPeer, Typed, TypeOK, IsTable
<1>4. peers[q].room_id \in RoomId
  BY DEF Accept, TouchPeer, Typed, TypeOK, IsTable, PeerState
<1>5. m \in Messages
  BY InFlight DEF Datagram
<1>6. \/ DispatchRequest(q, m)
      \/ DispatchGameplay(q, m)
      \/ DispatchTouchesNothing(q, m)
  BY DEF Accept
<1> HIDE DEF m, q
<1>7. IsTable(discoveries', DiscoveryRequestId, DiscoveryState)
  <2>1. CASE DispatchRequest(q, m)
    <3>1. m.request_id \in DiscoveryRequestId /\ m.port \in DiscoveryPort
      BY <1>5, <2>1 DEF DispatchRequest, Messages, Probe, Refused, Requests, Responses, Gameplay
    <3>2. DiscoveryEntry(peers[q].room_id, q, m.port) \in DiscoveryState
      BY <1>3, <1>4, <3>1, TtlAssumption DEF DiscoveryEntry, DiscoveryState
    <3> QED BY <2>1, <3>1, <3>2, PutTable DEF DispatchRequest, TouchDiscovery, Typed, TypeOK
  <2>2. CASE UNCHANGED discoveries
    BY <2>2 DEF Typed, TypeOK
  <2> QED BY <1>6, <2>1, <2>2 DEF DispatchGameplay, DispatchTouchesNothing, sessionVars
<1>8. IsTable(gameplay', GameplaySessionId, GameplayState)
  <2>1. CASE DispatchGameplay(q, m)
    <3>1. GameplayIdleTtl \in 0..GameplayIdleTtl
      BY TtlAssumption
    <3>2. [gameplay[m.session_id] EXCEPT !.ttl = GameplayIdleTtl] \in GameplayState
      BY <2>1, <3>1, GameplayTtl
         DEF DispatchGameplay, TouchGameplay, CanRoute, Typed, TypeOK, IsTable
    <3> QED BY <2>1, <3>2 DEF DispatchGameplay, TouchGameplay, Typed, TypeOK, IsTable
  <2>2. CASE UNCHANGED gameplay
    BY <2>2 DEF Typed, TypeOK
  <2> QED BY <1>6, <2>1, <2>2 DEF DispatchRequest, DispatchTouchesNothing, sessionVars
<1> QED BY <1>1, <1>2, <1>7, <1>8 DEF Typed, TypeOK

LEMMA AcceptKeepsRouting ==
  ASSUME Typed, Routing, NEW p \in PeerId, NEW i \in DOMAIN net[p], Accept(p, i)
  PROVE  Routing'
<1> DEFINE m == net[p][i].message
           q == Sender(net[p][i])
<1>1. TypeOK'
  BY AcceptKeepsRouterTypes
<1>2. UNCHANGED <<rooms, rooms_by_code, virtual_ips, hosts, host_by_peer>>
  BY DEF Accept, roomVars, hostVars
<1>3. DOMAIN peers' = DOMAIN peers /\ SameOwner(peers)
  BY TouchFacts DEF Accept, Typed
<1>4. \/ DispatchRequest(q, m)
      \/ DispatchGameplay(q, m)
      \/ DispatchTouchesNothing(q, m)
  BY DEF Accept
<1>5. SameOwner(hosts)
  BY <1>2 DEF SameOwner
<1> HIDE DEF m, q
<1>6. CASE SameSessions
  BY <1>1, <1>2, <1>3, <1>5, <1>6, DeadlinesDoNotMatter
<1>7. CASE DispatchTouchesNothing(q, m)
  <2>1. SameSessions
    BY <1>7 DEF DispatchTouchesNothing, sessionVars, SameSessions
  <2> QED BY <1>6, <2>1
<1>8. CASE DispatchGameplay(q, m)
  <2>1. SameSessions
    BY <1>8 DEF DispatchGameplay, TouchGameplay, SameSessions, Typed, TypeOK, IsTable, GameplayState
  <2> QED BY <1>6, <2>1
<1>9. CASE DispatchRequest(q, m)
  <2> DEFINE d == m.request_id
  <2>1. UNCHANGED gameplay
    BY <1>9 DEF DispatchRequest
  <2>2. /\ CodesMatchRooms' /\ MembersMatchPeers' /\ AddressesMatchPeers'
        /\ HostsMatchRooms' /\ HostsInPlace' /\ SessionsInPlace' /\ GameplayHasHost'
    <3>1. CodesMatchRooms' /\ MembersMatchPeers' /\ AddressesMatchPeers'
      BY <1>2, <1>3 DEF Routing, IndexConsistent, CodesMatchRooms, MembersMatchPeers,
                        AddressesMatchPeers, SameOwner
    <3>2. HostsMatchRooms'
      BY <1>2 DEF Routing, IndexConsistent, HostsMatchRooms, HostKey
    <3>3. HostsInPlace' /\ SessionsInPlace'
      BY <1>2, <1>3, <2>1
         DEF Routing, RouteIntegrity, HostsInPlace, SessionsInPlace, At, SameOwner
    <3>4. GameplayHasHost'
      BY <1>2, <2>1 DEF Routing, GameplayHasHost
    <3> QED BY <3>1, <3>2, <3>3, <3>4
  <2>3. /\ DOMAIN discoveries' = DOMAIN discoveries \cup {d}
        /\ discoveries'[d].room_id = peers[q].room_id
        /\ discoveries'[d].client_peer_id = q
        /\ \A x \in DOMAIN discoveries : x # d => discoveries'[x] = discoveries[x]
    BY <1>9 DEF DispatchRequest, TouchDiscovery, DiscoveryEntry, Put
  <2>4. q \in DOMAIN peers
    BY <1>9 DEF DispatchRequest, TouchDiscovery, CanDiscover, IsMember
  <2>5. DiscoveriesInPlace'
    BY <1>3, <2>3, <2>4 DEF Routing, RouteIntegrity, DiscoveriesInPlace, SameOwner
  <2> QED BY <1>1, <2>2, <2>5 DEF Routing, IndexConsistent, RouteIntegrity
<1> QED BY <1>4, <1>7, <1>8, <1>9

(* The rows of the database and the router: a peer is stored, at its        *)
(* address and in its room; rows (those of swept peers too) have addresses  *)
(* of their own, in rooms that exist.                                       *)
RowsCoverPeers ==
  \A p \in DOMAIN peers : /\ p \in DOMAIN stored
                          /\ stored[p].room_id = peers[p].room_id
                          /\ stored[p].virtual_ip = peers[p].virtual_ip
RowsApart ==
  \A p, q \in DOMAIN stored : stored[p].virtual_ip = stored[q].virtual_ip => p = q
RowsInRooms ==
  \A p \in DOMAIN stored : stored[p].room_id \in DOMAIN rooms

Rows == RowsCoverPeers /\ RowsApart /\ RowsInRooms

LEMMA RestartKeepsRouting ==
  ASSUME Typed, Routing, Rows, Restart
  PROVE  Routing'
<1> DEFINE codes == [r \in DOMAIN rooms |-> rooms[r].code]
<1>1. DOMAIN codes = DOMAIN rooms /\ IsTable(codes, RoomId, RoomCode)
  BY DEF Typed, TypeOK, IsTable, RoomState
<1>2. \A r, x \in DOMAIN codes : codes[r] = codes[x] => r = x
  BY DEF Routing, IndexConsistent, CodesMatchRooms
<1>3. \/ Restore(codes, stored)
      \/ Restore(NoTables, NoTables)
  BY DEF Restart
<1> HIDE DEF codes
<1>4. CASE Restore(codes, stored)
  BY <1>1, <1>2, <1>4, RestoreKeepsRouting
     DEF Typed, OwnTypes, Rows, RowsApart, RowsInRooms, IsTable, RowType
<1>5. CASE Restore(NoTables, NoTables)
  BY <1>5, EmptyKeepsRouting
<1> QED BY <1>3, <1>4, <1>5

-----------------------------------------------------------------------------
(* Types of the relay's own tables.                                         *)

LEMMA Bounds ==
  /\ MaxSent \in Nat /\ MaxResets \in Nat /\ MaxRestarts \in Nat
  /\ MaxEpoch \in Nat /\ 1 \in 1..MaxEpoch
  BY NetworkAssumption, LimitAssumption

LEMMA HistoryFields ==
  ASSUME NEW h \in History
  PROVE  /\ \A x \in [PeerId -> 0..MaxSent] : [h EXCEPT !.sent = x] \in History
         /\ \A x \in [PeerId -> SUBSET (1..MaxSent)] : [h EXCEPT !.accepted = x] \in History
         /\ \A x \in [PeerId -> 0..MaxResets] : [h EXCEPT !.resets = x] \in History
         /\ \A x \in [PeerId -> 0..MaxResets] : [h EXCEPT !.rejoined = x] \in History
         /\ \A x \in [PeerId -> 0..MaxResets] : [h EXCEPT !.resumed = x] \in History
         /\ \A x \in [PeerId -> 0..MaxResets] : [h EXCEPT !.lifted = x] \in History
         /\ \A x \in 0..MaxRestarts : [h EXCEPT !.restarts = x] \in History
  BY DEF History

LEMMA SendKeepsOwnTypes ==
  ASSUME Typed, NEW p \in PeerId, NEW m \in Messages, NEW legacy \in BOOLEAN, Send(p, m, legacy)
  PROVE  OwnTypes'
<1> DEFINE next == client[p].sequence + 1
           n == history.sent[p] + 1
           d == [source |-> client[p].virtual_ip,
                 epoch |-> IF legacy THEN 0 ELSE client[p].epoch,
                 sequence |-> IF legacy THEN 0 ELSE next,
                 message |-> m,
                 stamp |-> [n |-> n, rejoined |-> history.rejoined[p],
                            lifted |-> history.lifted[p]]]
<1>1. /\ p \in DOMAIN client
      /\ history.sent[p] < MaxSent
      /\ net' = [net EXCEPT ![p] = Append(@, d)]
      /\ client' = [client EXCEPT ![p].sequence = IF legacy THEN @ ELSE next]
      /\ history' = [history EXCEPT !.sent[p] = n]
      /\ UNCHANGED <<stored, last_sequence>>
  BY DEF Send
<1>2. /\ client[p].virtual_ip \in VirtualIp
      /\ client[p].epoch \in 1..MaxEpoch
      /\ client[p].sequence \in 0..MaxSent
      /\ client[p] \in ClientType
  BY <1>1 DEF Typed, OwnTypes, IsTable, ClientType
<1>3. /\ history.sent[p] \in 0..MaxSent
      /\ history.rejoined[p] \in 0..MaxResets
      /\ history.lifted[p] \in 0..MaxResets
  BY DEF Typed, OwnTypes, History
<1>4. client[p].sequence <= history.sent[p]
  BY <1>1 DEF Typed, OwnTypes, Counted
<1>5. next \in 1..MaxSent /\ n \in 1..MaxSent /\ next <= n
  BY <1>1, <1>2, <1>3, <1>4, Bounds
<1>6. d \in Datagram
  <2>1. d.epoch \in 0..MaxEpoch /\ d.sequence \in 0..MaxSent
    BY <1>2, <1>5, Bounds
  <2>2. d.stamp \in [n : 1..MaxSent, rejoined : 0..MaxResets, lifted : 0..MaxResets]
    BY <1>3, <1>5
  <2> QED BY <1>2, <2>1, <2>2 DEF Datagram
<1> HIDE DEF d, next, n
<1>7. net' \in [PeerId -> Seq(Datagram)]
  <2>1. net[p] \in Seq(Datagram) /\ net \in [PeerId -> Seq(Datagram)]
    BY DEF Typed, OwnTypes
  <2>2. Append(net[p], d) \in Seq(Datagram)
    BY <1>6, <2>1, AppendProperties
  <2> QED BY <1>1, <2>1, <2>2
<1>8. IsTable(client', PeerId, ClientType)
  <2>1. client'[p] = [client[p] EXCEPT !.sequence = IF legacy THEN @ ELSE next]
    BY <1>1
  <2>2. (IF legacy THEN client[p].sequence ELSE next) \in 0..MaxSent
    BY <1>2, <1>5, Bounds
  <2>3. client'[p] \in ClientType
    BY <1>2, <2>1, <2>2 DEF ClientType
  <2>4. /\ DOMAIN client' = DOMAIN client
        /\ \A x \in DOMAIN client : x # p => client'[x] = client[x]
        /\ client' = [x \in DOMAIN client |-> client'[x]]
    BY <1>1 DEF Typed, OwnTypes, IsTable
  <2> QED BY <2>3, <2>4 DEF Typed, OwnTypes, IsTable
<1>9. history' \in History
  <2>1. [history.sent EXCEPT ![p] = n] \in [PeerId -> 0..MaxSent]
    BY <1>5, Bounds DEF Typed, OwnTypes, History
  <2>2. history' = [history EXCEPT !.sent = [history.sent EXCEPT ![p] = n]]
    BY <1>1 DEF Typed, OwnTypes, History
  <2> QED BY <2>1, <2>2, HistoryFields DEF Typed, OwnTypes
<1>10. Counted'
  <2>1. /\ history'.rejoined = history.rejoined /\ history'.resets = history.resets
        /\ history'.lifted = history.lifted /\ history'.resumed = history.resumed
        /\ history'.sent = [history.sent EXCEPT ![p] = n]
    BY <1>1 DEF Typed, OwnTypes, History
  <2>2. client'[p].sequence = IF legacy THEN client[p].sequence ELSE next
    BY <1>1, <1>2 DEF ClientType, Typed, OwnTypes, IsTable
  <2>3. history'.sent[p] = n /\ \A x \in PeerId : x # p => history'.sent[x] = history.sent[x]
    BY <2>1 DEF Typed, OwnTypes, History
  <2>4. client'[p].sequence <= history'.sent[p]
    BY <1>2, <1>3, <1>4, <1>5, <2>2, <2>3 DEF n
  <2>5. \A x \in DOMAIN client' : x # p => x \in DOMAIN client /\ client'[x] = client[x]
    BY <1>1 DEF Typed, OwnTypes, IsTable
  <2> QED BY <2>1, <2>3, <2>4, <2>5 DEF Typed, OwnTypes, Counted
<1> QED BY <1>1, <1>7, <1>8, <1>9, <1>10 DEF Typed, OwnTypes

(* Steps that leave the clients' numbering alone.                           *)
LEMMA QuietKeepsOwnTypes ==
  ASSUME Typed, net' \in [PeerId -> Seq(Datagram)],
         UNCHANGED <<stored, last_sequence, client, history>>
  PROVE  OwnTypes'
  BY DEF Typed, OwnTypes, IsTable, Counted

LEMMA AcceptKeepsOwnTypes ==
  ASSUME Typed, NEW p \in PeerId, NEW i \in DOMAIN net[p], Accept(p, i)
  PROVE  OwnTypes'
<1> DEFINE d == net[p][i]
           q == Sender(d)
<1>1. /\ last_sequence' = RecordSequence(q, d.sequence)
      /\ history' = [history EXCEPT !.accepted[p] = @ \cup {d.stamp.n}]
      /\ UNCHANGED <<stored, client>>
      /\ q \in PeerId
  BY DEF Accept, TouchPeer, Typed, TypeOK, IsTable
<1>2. net' \in [PeerId -> Seq(Datagram)]
  BY TakeFacts DEF Accept
<1>3. d.sequence \in 0..MaxSent /\ d.stamp.n \in 1..MaxSent
  BY InFlight DEF Datagram
<1> HIDE DEF d, q
<1>4. IsTable(last_sequence', PeerId, 1..MaxSent)
  <2>1. IsTable(last_sequence, PeerId, 1..MaxSent) /\ IsTable(NoTables, PeerId, 1..MaxSent)
    BY DEF Typed, OwnTypes, NoTables, IsTable
  <2>2. CASE d.sequence = 0
    BY <1>1, <2>1, <2>2 DEF RecordSequence
  <2>3. CASE d.sequence # 0 /\ q \in DOMAIN last_sequence
    <3>1. d.sequence \in 1..MaxSent
      BY <1>3, <2>3, Bounds
    <3>2. last_sequence' = [last_sequence EXCEPT ![q] = IF d.sequence > @ THEN d.sequence ELSE @]
      BY <1>1, <2>3 DEF RecordSequence
    <3> QED BY <2>1, <3>1, <3>2 DEF IsTable
  <2>4. CASE d.sequence # 0 /\ q \notin DOMAIN last_sequence
    <3>1. d.sequence \in 1..MaxSent
      BY <1>3, <2>4, Bounds
    <3>2. \/ last_sequence' = Put(NoTables, q, d.sequence)
          \/ last_sequence' = Put(last_sequence, q, d.sequence)
      BY <1>1, <2>4 DEF RecordSequence
    <3> QED BY <1>1, <2>1, <3>1, <3>2, PutTable
  <2> QED BY <2>2, <2>3, <2>4
<1>5. history' \in History
  <2> DEFINE accepted == [history.accepted EXCEPT ![p] = @ \cup {d.stamp.n}]
  <2>1. accepted \in [PeerId -> SUBSET (1..MaxSent)]
    BY <1>3 DEF Typed, OwnTypes, History
  <2>2. history' = [history EXCEPT !.accepted = accepted]
    BY <1>1 DEF Typed, OwnTypes, History
  <2> HIDE DEF accepted
  <2> QED BY <2>1, <2>2, HistoryFields DEF Typed, OwnTypes
<1>6. Counted'
  <2>1. /\ history'.rejoined = history.rejoined /\ history'.resets = history.resets
        /\ history'.lifted = history.lifted /\ history'.resumed = history.resumed
        /\ history'.sent = history.sent
    BY <1>1 DEF Typed, OwnTypes, History
  <2> QED BY <1>1, <2>1 DEF Typed, OwnTypes, Counted
<1> QED BY <1>1, <1>2, <1>4, <1>5, <1>6 DEF Typed, OwnTypes, IsTable

LEMMA RestartKeepsOwnTypes ==
  ASSUME Typed, Restart
  PROVE  OwnTypes'
<1>1. /\ history.restarts < MaxRestarts
      /\ stored' = stored \/ stored' = NoTables
      /\ last_sequence' = NoTables
      /\ history' = [history EXCEPT !.restarts = @ + 1]
      /\ UNCHANGED <<client, net>>
  BY DEF Restart
<1>2. IsTable(NoTables, PeerId, 1..MaxSent) /\ IsTable(NoTables, PeerId, RowType)
  BY DEF NoTables, IsTable
<1>3. history' \in History
  <2>1. history.restarts + 1 \in 0..MaxRestarts
    BY <1>1, Bounds DEF Typed, OwnTypes, History
  <2> QED BY <1>1, <2>1, HistoryFields DEF Typed, OwnTypes
<1>4. Counted'
  <2>1. /\ history'.rejoined = history.rejoined /\ history'.resets = history.resets
        /\ history'.lifted = history.lifted /\ history'.resumed = history.resumed
        /\ history'.sent = history.sent
    BY <1>1 DEF Typed, OwnTypes, History
  <2> QED BY <1>1, <2>1 DEF Typed, OwnTypes, Counted
<1> QED BY <1>1, <1>2, <1>3, <1>4 DEF Typed, OwnTypes, IsTable

LEMMA JoinKeepsOwnTypes ==
  ASSUME Typed, NEW r \in RoomId, NEW p \in PeerId, NEW ip \in VirtualIp, ApiJoin(r, p, ip)
  PROVE  OwnTypes'
<1> DEFINE answer == [virtual_ip |-> ip, epoch |-> 1, sequence |-> 0]
<1>1. /\ stored' = Put(stored, p, [room_id |-> r, virtual_ip |-> ip])
      /\ client' = Put(client, p, answer)
      /\ UNCHANGED <<last_sequence, net>>
  BY DEF ApiJoin
<1>2. answer \in ClientType
  BY Bounds DEF ClientType
<1>3. answer.sequence = 0
  OBVIOUS
<1> HIDE DEF answer
<1>4. IsTable(stored', PeerId, RowType)
  BY <1>1, PutTable DEF Typed, OwnTypes, RowType
<1>5. IsTable(client', PeerId, ClientType)
  BY <1>1, <1>2, PutTable DEF Typed, OwnTypes
<1>6. /\ DOMAIN client' = DOMAIN client \cup {p}
      /\ client'[p] = answer
      /\ \A x \in DOMAIN client : x # p => client'[x] = client[x]
  BY <1>1, PutFacts
<1>7. history.sent \in [PeerId -> 0..MaxSent] /\ history.sent[p] >= 0
  BY Bounds DEF Typed, OwnTypes, History
<1>8. CASE p \notin DOMAIN client
  <2>1. UNCHANGED history
    BY <1>8 DEF ApiJoin
  <2>2. Counted'
    BY <1>3, <1>6, <1>7, <2>1 DEF Typed, OwnTypes, Counted
  <2> QED BY <1>1, <1>4, <1>5, <2>1, <2>2 DEF Typed, OwnTypes, IsTable
<1>9. CASE p \in DOMAIN client
  <2> DEFINE resets   == [history.resets EXCEPT ![p] = @ + 1]
             rejoined == [history.rejoined EXCEPT ![p] = @ + 1]
  <2>1. /\ history.resets[p] < MaxResets
        /\ history' = [history EXCEPT !.resets[p] = @ + 1, !.rejoined[p] = @ + 1]
    BY <1>9 DEF ApiJoin
  <2>2. /\ history.resets \in [PeerId -> 0..MaxResets]
        /\ history.rejoined \in [PeerId -> 0..MaxResets]
        /\ history.rejoined[p] <= history.resets[p]
    BY DEF Typed, OwnTypes, History, Counted
  <2>3. resets \in [PeerId -> 0..MaxResets] /\ rejoined \in [PeerId -> 0..MaxResets]
    <3>1. history.resets[p] + 1 \in 0..MaxResets /\ history.rejoined[p] + 1 \in 0..MaxResets
      BY <2>1, <2>2, Bounds
    <3> QED BY <2>2, <3>1
  <2>4. history' = [[history EXCEPT !.resets = resets] EXCEPT !.rejoined = rejoined]
    BY <2>1 DEF Typed, OwnTypes, History
  <2>5. /\ history'.resets = resets /\ history'.rejoined = rejoined
        /\ history'.lifted = history.lifted /\ history'.resumed = history.resumed
        /\ history'.sent = history.sent
    BY <2>1 DEF Typed, OwnTypes, History
  <2>6. \A x \in PeerId : rejoined[x] <= resets[x]
    BY <2>2 DEF Typed, OwnTypes, Counted, History
  <2> HIDE DEF resets, rejoined
  <2>7. history' \in History
    BY <2>3, <2>4, HistoryFields DEF Typed, OwnTypes
  <2>8. Counted'
    BY <1>3, <1>6, <1>7, <2>5, <2>6 DEF Typed, OwnTypes, Counted
  <2> QED BY <1>1, <1>4, <1>5, <2>7, <2>8 DEF Typed, OwnTypes, IsTable
<1> QED BY <1>8, <1>9

LEMMA ResumeKeepsOwnTypes ==
  ASSUME Typed, TypeOK', NEW r \in RoomId, NEW p \in PeerId, ApiResume(r, p)
  PROVE  OwnTypes'
<1> DEFINE lifts   == peers[p].disconnected
           resets  == [history.resets EXCEPT ![p] = @ + 1]
           resumed == [history.resumed EXCEPT ![p] = @ + 1]
           lifted  == [history.lifted EXCEPT ![p] = IF lifts THEN @ + 1 ELSE @]
<1>1. /\ p \in DOMAIN client
      /\ history.resumed[p] < MaxResets
      /\ history.resets[p] < MaxResets
      /\ ResumePeer(r, p)
      /\ UNCHANGED <<stored, last_sequence, net>>
  BY DEF ApiResume
<1>2. /\ history.resets \in [PeerId -> 0..MaxResets]
      /\ history.resumed \in [PeerId -> 0..MaxResets]
      /\ history.lifted \in [PeerId -> 0..MaxResets]
      /\ \A x \in PeerId : history.lifted[x] <= history.resumed[x]
      /\ \A x \in PeerId : history.rejoined[x] <= history.resets[x]
      /\ history.rejoined \in [PeerId -> 0..MaxResets]
      /\ history.sent \in [PeerId -> 0..MaxSent]
  BY DEF Typed, OwnTypes, History, Counted
<1>3. /\ resets \in [PeerId -> 0..MaxResets]
      /\ resumed \in [PeerId -> 0..MaxResets]
      /\ lifted \in [PeerId -> 0..MaxResets]
  <2>1. /\ history.resets[p] + 1 \in 0..MaxResets
        /\ history.resumed[p] + 1 \in 0..MaxResets
        /\ history.lifted[p] + 1 \in 0..MaxResets
    BY <1>1, <1>2, Bounds
  <2> QED BY <1>2, <2>1
<1>4. /\ \A x \in PeerId : history.rejoined[x] <= resets[x]
      /\ \A x \in PeerId : lifted[x] <= resumed[x]
  BY <1>2
<1>5. \/ /\ client' = [client EXCEPT ![p].epoch = peers'[p].epoch, ![p].sequence = 0]
         /\ history' = [[[history EXCEPT !.resets = resets] EXCEPT !.resumed = resumed]
                           EXCEPT !.lifted = lifted]
      \/ /\ UNCHANGED client
         /\ history' = [[history EXCEPT !.resumed = resumed] EXCEPT !.lifted = lifted]
  BY DEF ApiResume, Typed, OwnTypes, History
<1> HIDE DEF lifts, resets, resumed, lifted
<1>6. history' \in History
  <2>1. /\ [history EXCEPT !.resets = resets] \in History
        /\ [history EXCEPT !.resumed = resumed] \in History
    BY <1>3, HistoryFields DEF Typed, OwnTypes
  <2>2. [[history EXCEPT !.resets = resets] EXCEPT !.resumed = resumed] \in History
    BY <1>3, <2>1, HistoryFields
  <2>3. /\ [[history EXCEPT !.resumed = resumed] EXCEPT !.lifted = lifted] \in History
        /\ [[[history EXCEPT !.resets = resets] EXCEPT !.resumed = resumed]
              EXCEPT !.lifted = lifted] \in History
    BY <1>3, <2>1, <2>2, HistoryFields
  <2> QED BY <1>5, <2>3
<1>7. /\ \A x \in PeerId : history'.rejoined[x] <= history'.resets[x]
      /\ \A x \in PeerId : history'.lifted[x] <= history'.resumed[x]
      /\ history'.sent = history.sent
  BY <1>2, <1>4, <1>5 DEF Typed, OwnTypes, History
<1>8. IsTable(client', PeerId, ClientType)
      /\ DOMAIN client' = DOMAIN client
      /\ \A x \in DOMAIN client : client'[x].sequence <= client[x].sequence
  <2>1. IsTable(client, PeerId, ClientType) /\ \A x \in DOMAIN client : client[x].sequence \in Nat
    BY Bounds DEF Typed, OwnTypes, IsTable, ClientType
  <2>2. CASE UNCHANGED client
    BY <2>1, <2>2
  <2>3. CASE client' = [client EXCEPT ![p].epoch = peers'[p].epoch, ![p].sequence = 0]
    <3>1. peers'[p].epoch \in 1..MaxEpoch
      <4>1. p \in DOMAIN peers'
        BY <1>1 DEF ResumePeer
      <4> QED BY <4>1 DEF TypeOK, IsTable, PeerState
    <3>2. /\ DOMAIN client' = DOMAIN client
          /\ client'[p] = [virtual_ip |-> client[p].virtual_ip, epoch |-> peers'[p].epoch,
                           sequence |-> 0]
          /\ \A x \in DOMAIN client : x # p => client'[x] = client[x]
          /\ client' = [x \in DOMAIN client |-> client'[x]]
      BY <1>1, <2>1, <2>3 DEF IsTable, ClientType
    <3>3. client'[p] \in ClientType /\ client'[p].sequence = 0
      BY <1>1, <2>1, <3>1, <3>2, Bounds DEF IsTable, ClientType
    <3> QED BY <2>1, <3>2, <3>3 DEF IsTable
  <2> QED BY <1>5, <2>2, <2>3
<1>9. Counted'
  <2>1. \A x \in DOMAIN client : /\ client'[x].sequence \in Nat /\ client[x].sequence \in Nat
                                 /\ x \in PeerId
    BY <1>8, Bounds DEF Typed, OwnTypes, IsTable, ClientType
  <2>2. \A x \in PeerId : history.sent[x] \in Nat
    BY <1>2, Bounds
  <2> QED BY <1>7, <1>8, <2>1, <2>2 DEF Typed, OwnTypes, Counted
<1> QED BY <1>1, <1>6, <1>8, <1>9 DEF Typed, OwnTypes, IsTable

LEMMA WithdrawKeepsOwnTypes ==
  ASSUME Typed, NEW S, stored' = Without(stored, S),
         UNCHANGED <<last_sequence, client, net, history>>
  PROVE  OwnTypes'
<1>1. IsTable(stored', PeerId, RowType)
  BY WithoutTable DEF Typed, OwnTypes
<1> QED BY <1>1 DEF Typed, OwnTypes, IsTable, Counted

-----------------------------------------------------------------------------
(* The rows of the database.                                                *)

LEMMA RowsStay ==
  ASSUME Rows, UNCHANGED stored, DOMAIN peers' \subseteq DOMAIN peers, SameOwner(peers),
         DOMAIN rooms \subseteq DOMAIN rooms'
  PROVE  Rows'
  BY DEF Rows, RowsCoverPeers, RowsApart, RowsInRooms, SameOwner

LEMMA RouterStepKeepsRows ==
  ASSUME Typed, Rows, RouterStep
  PROVE  Rows'
<1>1. UNCHANGED stored
  BY DEF RouterStep, relayVars
<1>2. CASE UNCHANGED peers /\ DOMAIN rooms \subseteq DOMAIN rooms'
  BY <1>1, <1>2, RowsStay DEF SameOwner
<1>3. ASSUME NEW r \in RoomId, NEW c \in RoomCode, CreateRoomWithId(r, c)
      PROVE  Rows'
  <2>1. UNCHANGED peers /\ DOMAIN rooms \subseteq DOMAIN rooms'
    BY <1>3 DEF CreateRoomWithId, Put, peerVars
  <2> QED BY <1>2, <2>1
<1>4. CASE HostNext \/ RegisterAgain
  <2>1. UNCHANGED peers /\ DOMAIN rooms \subseteq DOMAIN rooms'
    BY <1>4 DEF HostNext, RegisterAgain, UnregisterHost, Purge, RegisterNewHost, HeartbeatHost,
                RegisterExistingHost, RefreshHost, peerVars, roomVars
  <2> QED BY <1>2, <2>1
<1>5. ASSUME NEW g \in GameplaySessionId,
             \/ \E r \in RoomId, p \in PeerId, h \in HostSessionId : SelectHost(r, p, h, g)
             \/ RemoveGameplaySession(g)
      PROVE  Rows'
  <2>1. UNCHANGED peers /\ DOMAIN rooms \subseteq DOMAIN rooms'
    BY <1>5 DEF SelectHost, RemoveGameplaySession, peerVars, roomVars
  <2> QED BY <1>2, <2>1
<1>6. CASE Expire
  <2>1. DOMAIN peers' \subseteq DOMAIN peers /\ SameOwner(peers)
    BY <1>6 DEF Expire, Suspended, SameOwner, Typed, TypeOK, IsTable, PeerState
  <2>2. DOMAIN rooms \subseteq DOMAIN rooms'
    BY <1>6 DEF Expire, Purge
  <2> QED BY <1>1, <2>1, <2>2, RowsStay
<1>7. CASE Tick
  <2>1. DOMAIN peers' \subseteq DOMAIN peers /\ SameOwner(peers)
    BY <1>7 DEF Tick, SameOwner, Typed, TypeOK, IsTable, PeerState
  <2>2. DOMAIN rooms \subseteq DOMAIN rooms'
    BY <1>7 DEF Tick, roomVars
  <2> QED BY <1>1, <2>1, <2>2, RowsStay
<1> QED BY <1>3, <1>4, <1>5, <1>6, <1>7 DEF RouterStep

LEMMA JoinKeepsRows ==
  ASSUME Typed, Rows, NEW r \in RoomId, NEW p \in PeerId, NEW ip \in VirtualIp,
         ApiJoin(r, p, ip)
  PROVE  Rows'
<1> DEFINE row == [room_id |-> r, virtual_ip |-> ip]
<1>1. /\ DOMAIN peers' = DOMAIN peers \cup {p}
      /\ peers'[p].room_id = r /\ peers'[p].virtual_ip = ip
      /\ \A x \in DOMAIN peers : x # p /\ peers'[x] = peers[x]
  BY DEF ApiJoin, JoinRoom, Put
<1>2. stored' = Put(stored, p, row) /\ row.room_id = r /\ row.virtual_ip = ip
  BY DEF ApiJoin
<1> HIDE DEF row
<1>3. /\ DOMAIN stored' = DOMAIN stored \cup {p}
      /\ stored'[p].room_id = r /\ stored'[p].virtual_ip = ip
      /\ \A x \in DOMAIN stored : x # p => stored'[x] = stored[x]
  BY <1>2 DEF Put
<1>4. p \notin DOMAIN stored /\ \A x \in DOMAIN stored : stored[x].virtual_ip # ip
  BY DEF ApiJoin
<1>5. r \in DOMAIN rooms /\ DOMAIN rooms' = DOMAIN rooms
  BY DEF ApiJoin, JoinRoom, Typed, TypeOK, IsTable
<1>6. RowsCoverPeers'
  BY <1>1, <1>3 DEF Rows, RowsCoverPeers
<1>7. RowsApart'
  BY <1>3, <1>4 DEF Rows, RowsApart
<1>8. RowsInRooms'
  BY <1>3, <1>5 DEF Rows, RowsInRooms
<1> QED BY <1>6, <1>7, <1>8 DEF Rows

LEMMA ResumeKeepsRows ==
  ASSUME Typed, Rows, NEW r \in RoomId, NEW p \in PeerId, ApiResume(r, p)
  PROVE  Rows'
<1>1. UNCHANGED <<stored, rooms>>
  BY DEF ApiResume, ResumePeer, roomVars
<1>2. DOMAIN peers' \subseteq DOMAIN peers /\ SameOwner(peers)
  BY DEF ApiResume, ResumePeer, Resumed, SameOwner, Typed, TypeOK, IsTable, PeerState
<1> QED BY <1>1, <1>2, RowsStay

LEMMA LeaveKeepsRows ==
  ASSUME Typed, Rows, NEW r \in RoomId, NEW p \in PeerId, ApiLeave(r, p)
  PROVE  Rows'
<1>1. /\ DOMAIN peers' = DOMAIN peers \ {p}
      /\ \A x \in DOMAIN peers' : peers'[x] = peers[x]
      /\ DOMAIN stored' = DOMAIN stored \ {p}
      /\ \A x \in DOMAIN stored' : stored'[x] = stored[x]
  BY DEF ApiLeave, LeaveRoom, Without, Restrict
<1>2. DOMAIN rooms' = DOMAIN rooms
  BY DEF ApiLeave, LeaveRoom, Purge
<1> QED BY <1>1, <1>2 DEF Rows, RowsCoverPeers, RowsApart, RowsInRooms

(* The cascade takes the rows of the room and, since it has no members, of  *)
(* no peer.                                                                 *)
LEMMA DeleteKeepsRows ==
  ASSUME Routing, Rows, NEW r \in RoomId, ApiDeleteRoom(r)
  PROVE  Rows'
<1> DEFINE taken == InRoom(stored, DOMAIN stored, r)
<1>1. DOMAIN rooms' = DOMAIN rooms \ {r} /\ UNCHANGED peers
  BY WithoutFacts DEF ApiDeleteRoom, RemoveEmptyRoom, peerVars
<1>2. /\ DOMAIN stored' = DOMAIN stored \ taken
      /\ \A x \in DOMAIN stored' : stored'[x] = stored[x]
  BY DEF ApiDeleteRoom, Without, Restrict
<1>3. \A x \in DOMAIN stored : x \in taken <=> stored[x].room_id = r
  BY DEF InRoom
<1> HIDE DEF taken
<1>4. \A x \in DOMAIN peers : peers[x].room_id # r
  BY DEF ApiDeleteRoom, RemoveEmptyRoom, Routing, IndexConsistent, MembersMatchPeers
<1>5. RowsCoverPeers'
  BY <1>1, <1>2, <1>3, <1>4 DEF Rows, RowsCoverPeers
<1>6. RowsApart' /\ RowsInRooms'
  BY <1>1, <1>2, <1>3 DEF Rows, RowsApart, RowsInRooms
<1> QED BY <1>5, <1>6 DEF Rows

LEMMA RestartKeepsRows ==
  ASSUME Rows, Restart
  PROVE  Rows'
<1> DEFINE codes == [r \in DOMAIN rooms |-> rooms[r].code]
<1>1. CASE Restore(codes, stored) /\ UNCHANGED stored
  <2>1. /\ DOMAIN peers' = DOMAIN stored
        /\ \A p \in DOMAIN stored : /\ peers'[p].room_id = stored[p].room_id
                                    /\ peers'[p].virtual_ip = stored[p].virtual_ip
        /\ DOMAIN rooms' = DOMAIN rooms
    BY <1>1 DEF Restore
  <2> QED BY <1>1, <2>1 DEF Rows, RowsCoverPeers, RowsApart, RowsInRooms
<1>2. CASE Restore(NoTables, NoTables) /\ stored' = NoTables
  <2>1. DOMAIN peers' = {} /\ DOMAIN stored' = {}
    BY <1>2 DEF Restore, NoTables
  <2> QED BY <2>1 DEF Rows, RowsCoverPeers, RowsApart, RowsInRooms
<1> QED BY <1>1, <1>2 DEF Restart

-----------------------------------------------------------------------------
(* The invariant.                                                           *)

RelayInv == Typed /\ Routing /\ Rows

LEMMA InitRelay == RelayInit => RelayInv
<1> SUFFICES ASSUME RelayInit PROVE RelayInv
  OBVIOUS
<1>1. Routing
  BY InitRouting DEF RelayInit
<1>2. /\ DOMAIN stored = {} /\ DOMAIN peers = {} /\ DOMAIN client = {}
      /\ DOMAIN last_sequence = {}
  BY DEF RelayInit, Init, NoTables
<1>3. OwnTypes
  <2>1. /\ IsTable(stored, PeerId, RowType)
        /\ IsTable(last_sequence, PeerId, 1..MaxSent)
        /\ IsTable(client, PeerId, ClientType)
    BY DEF RelayInit, NoTables, IsTable
  <2>2. net \in [PeerId -> Seq(Datagram)]
    BY DEF RelayInit
  <2>3. history \in History
    <3>1. 0 \in 0..MaxSent /\ 0 \in 0..MaxResets /\ 0 \in 0..MaxRestarts
      BY Bounds
    <3> QED BY <3>1 DEF RelayInit, History, Nothing
  <2>4. Counted
    BY <1>2 DEF RelayInit, Counted, Nothing
  <2> QED BY <2>1, <2>2, <2>3, <2>4 DEF OwnTypes
<1>4. Rows
  BY <1>2 DEF Rows, RowsCoverPeers, RowsApart, RowsInRooms
<1> QED BY <1>1, <1>3, <1>4 DEF RelayInv, Typed, Routing

LEMMA RouterStepKeepsInv ==
  ASSUME RelayInv, RouterStep
  PROVE  RelayInv'
<1>1. Routing'
  BY RouterStepIsNext, NextRouting DEF RelayInv
<1>2. OwnTypes'
  <2>1. UNCHANGED <<stored, last_sequence, client, net, history>>
    BY DEF RouterStep, relayVars
  <2>2. net' \in [PeerId -> Seq(Datagram)]
    BY <2>1 DEF RelayInv, Typed, OwnTypes
  <2> QED BY <2>1, <2>2, QuietKeepsOwnTypes DEF RelayInv
<1>3. Rows'
  BY RouterStepKeepsRows DEF RelayInv
<1> QED BY <1>1, <1>2, <1>3 DEF RelayInv, Typed, Routing

LEMMA MembershipKeepsInv ==
  ASSUME RelayInv, MembershipStep
  PROVE  RelayInv'
<1>1. Routing'
  BY MembershipIsNext, NextRouting DEF RelayInv
<1>2. TypeOK'
  BY <1>1 DEF Routing
<1>3. ASSUME NEW r \in RoomId, ApiDeleteRoom(r)
      PROVE  OwnTypes' /\ Rows'
  BY <1>3, WithdrawKeepsOwnTypes, DeleteKeepsRows DEF RelayInv, ApiDeleteRoom
<1>4. ASSUME NEW r \in RoomId, NEW p \in PeerId, ApiResume(r, p)
      PROVE  OwnTypes' /\ Rows'
  BY <1>2, <1>4, ResumeKeepsOwnTypes, ResumeKeepsRows DEF RelayInv
<1>5. ASSUME NEW r \in RoomId, NEW p \in PeerId, ApiLeave(r, p)
      PROVE  OwnTypes' /\ Rows'
  BY <1>5, WithdrawKeepsOwnTypes, LeaveKeepsRows DEF RelayInv, ApiLeave
<1>6. ASSUME NEW r \in RoomId, NEW p \in PeerId, NEW ip \in VirtualIp, ApiJoin(r, p, ip)
      PROVE  OwnTypes' /\ Rows'
  BY <1>6, JoinKeepsOwnTypes, JoinKeepsRows DEF RelayInv
<1>7. OwnTypes' /\ Rows'
  BY <1>3, <1>4, <1>5, <1>6 DEF MembershipStep
<1> QED BY <1>1, <1>2, <1>7 DEF RelayInv, Typed

LEMMA NothingMoved ==
  ASSUME RelayInv, UNCHANGED vars, UNCHANGED <<stored, last_sequence, client, history>>,
         OwnTypes'
  PROVE  RelayInv'
<1>1. Routing'
  BY NextRouting DEF RelayInv
<1>2. UNCHANGED <<peers, rooms>>
  BY DEF vars, peerVars, roomVars
<1>3. Rows'
  BY <1>2, RowsStay DEF RelayInv, SameOwner
<1> QED BY <1>1, <1>3 DEF RelayInv, Typed, Routing

LEMMA SendKeepsInv ==
  ASSUME RelayInv, ClientStep
  PROVE  RelayInv'
<1> SUFFICES ASSUME NEW p \in PeerId, NEW m \in Messages, NEW legacy \in {FALSE, Legacy},
                    Send(p, m, legacy)
             PROVE  RelayInv'
  BY DEF ClientStep
<1>1. legacy \in BOOLEAN
  BY NetworkAssumption
<1>2. OwnTypes'
  BY <1>1, SendKeepsOwnTypes DEF RelayInv
<1>3. Routing'
  BY NextRouting DEF RelayInv, Send
<1>4. Rows'
  <2>1. UNCHANGED <<peers, rooms, stored>>
    BY DEF Send, vars, peerVars, roomVars
  <2> QED BY <2>1, RowsStay DEF RelayInv, SameOwner
<1> QED BY <1>2, <1>3, <1>4 DEF RelayInv, Typed, Routing

(* A probe or a duplicate: mark_peer_seen and nothing else.                 *)
LEMMA SeenKeepsInv ==
  ASSUME RelayInv, NEW p \in PeerId, NEW i, AnswerProbe(p, i) \/ DropDuplicate(p, i)
  PROVE  RelayInv'
<1> DEFINE q == Sender(net[p][i])
<1>1. /\ TouchPeer(q)
      /\ UNCHANGED <<roomVars, virtual_ips, hostVars, sessionVars>>
      /\ UNCHANGED <<stored, last_sequence, client, history>>
      /\ i \in DOMAIN net[p]
      /\ TakeFrom(p, i)
  BY DEF AnswerProbe, DropDuplicate, Drops, Arrives
<1> HIDE DEF q
<1>2. Routing'
  BY <1>1, SeenIsNext, NextRouting DEF RelayInv
<1>3. OwnTypes'
  BY <1>1, TakeFacts, QuietKeepsOwnTypes DEF RelayInv
<1>4. Rows'
  <2>1. DOMAIN peers' \subseteq DOMAIN peers /\ SameOwner(peers)
    BY <1>1, TouchFacts DEF RelayInv, Typed
  <2>2. UNCHANGED <<stored, rooms>>
    BY <1>1 DEF roomVars
  <2> QED BY <2>1, <2>2, RowsStay DEF RelayInv
<1> QED BY <1>2, <1>3, <1>4 DEF RelayInv, Typed, Routing

LEMMA AcceptKeepsInv ==
  ASSUME RelayInv, NEW p \in PeerId, NEW i \in DOMAIN net[p], Accept(p, i)
  PROVE  RelayInv'
<1>1. Routing'
  BY AcceptKeepsRouting DEF RelayInv
<1>2. OwnTypes'
  BY AcceptKeepsOwnTypes DEF RelayInv
<1>3. Rows'
  <2>1. DOMAIN peers' \subseteq DOMAIN peers /\ SameOwner(peers)
    BY TouchFacts DEF Accept, RelayInv, Typed
  <2>2. UNCHANGED <<stored, rooms>>
    BY DEF Accept, roomVars
  <2> QED BY <2>1, <2>2, RowsStay DEF RelayInv
<1> QED BY <1>1, <1>2, <1>3 DEF RelayInv, Typed, Routing

LEMMA LoseKeepsInv ==
  ASSUME RelayInv, NEW p \in PeerId, NEW i, Lose(p, i)
  PROVE  RelayInv'
<1>1. /\ i \in DOMAIN net[p]
      /\ net' = [net EXCEPT ![p] = RemoveAt(@, i)]
      /\ UNCHANGED vars
      /\ UNCHANGED <<stored, last_sequence, client, history>>
  BY DEF Lose
<1>2. net' \in [PeerId -> Seq(Datagram)]
  BY <1>1, RemoveFacts DEF RelayInv
<1>3. OwnTypes'
  BY <1>1, <1>2, QuietKeepsOwnTypes DEF RelayInv
<1> QED BY <1>1, <1>3, NothingMoved

LEMMA NetworkKeepsInv ==
  ASSUME RelayInv, NetworkStep
  PROVE  RelayInv'
<1>1. ASSUME NEW p \in PeerId, NEW i, Accept(p, i)
      PROVE  RelayInv'
  <2>1. i \in DOMAIN net[p]
    BY <1>1 DEF Accept, Accepts, Arrives
  <2> QED BY <1>1, <2>1, AcceptKeepsInv
<1> QED BY <1>1, SeenKeepsInv, LoseKeepsInv DEF NetworkStep

LEMMA RestartKeepsInv ==
  ASSUME RelayInv, Restart
  PROVE  RelayInv'
<1>1. Routing'
  BY RestartKeepsRouting DEF RelayInv
<1>2. OwnTypes' /\ Rows'
  BY RestartKeepsOwnTypes, RestartKeepsRows DEF RelayInv
<1> QED BY <1>1, <1>2 DEF RelayInv, Typed, Routing

LEMMA NextRelay == RelayInv /\ [RelayNext]_allVars => RelayInv'
<1> SUFFICES ASSUME RelayInv, [RelayNext]_allVars PROVE RelayInv'
  OBVIOUS
<1>1. CASE UNCHANGED allVars
  <2>1. UNCHANGED vars /\ UNCHANGED <<stored, last_sequence, client, history>> /\ UNCHANGED net
    BY <1>1 DEF allVars, relayVars
  <2>2. OwnTypes'
    BY <2>1, QuietKeepsOwnTypes DEF RelayInv, Typed, OwnTypes
  <2> QED BY <2>1, <2>2, NothingMoved
<1> QED BY <1>1, RouterStepKeepsInv, MembershipKeepsInv, SendKeepsInv, NetworkKeepsInv,
           RestartKeepsInv DEF RelayNext

LEMMA RelayInvHolds == RelaySpec => []RelayInv
  BY InitRelay, NextRelay, PTL DEF RelaySpec

-----------------------------------------------------------------------------
(* What follows for the datagrams.                                          *)

(* The relay's tables, the clients and the network keep their types, and    *)
(* the counters their bounds.                                               *)
THEOREM RelayTypes == RelaySpec => []RelayTypeOK
<1>1. RelayInv => RelayTypeOK
  BY DEF RelayInv, Typed, OwnTypes, RelayTypeOK, RowType, ClientType
<1> QED BY <1>1, RelayInvHolds, PTL

(* WireGuard vouches for the address, the rows for whose it is.             *)
LEMMA SenderIsKeyOwner ==
  ASSUME RelayInv, NEW p \in PeerId, NEW i, Arrives(p, i), Admitted(net[p][i])
  PROVE  /\ Sender(net[p][i]) = p
         /\ p \in DOMAIN peers /\ p \in DOMAIN stored
         /\ stored[p].virtual_ip = peers[p].virtual_ip
<1> DEFINE ip == net[p][i].source
           q  == virtual_ips[ip]
<1>1. p \in DOMAIN stored /\ stored[p].virtual_ip = ip /\ ip \in DOMAIN virtual_ips
  BY DEF Arrives, Admitted
<1>2. q \in DOMAIN peers /\ peers[q].virtual_ip = ip
  BY <1>1 DEF RelayInv, Routing, IndexConsistent, AddressesMatchPeers
<1>3. q \in DOMAIN stored /\ stored[q].virtual_ip = ip
  BY <1>2 DEF RelayInv, Rows, RowsCoverPeers
<1>4. q = p
  BY <1>1, <1>3 DEF RelayInv, Rows, RowsApart
<1> QED BY <1>1, <1>2, <1>4 DEF Sender

(* What goes out for an accepted datagram: where to, and from whom.         *)
LEMMA OutboundFacts ==
  ASSUME RelayInv, NEW q \in DOMAIN peers, NEW m, NEW o \in Outbound(q, m)
  PROVE  /\ o.to \in DOMAIN virtual_ips
         /\ peers[virtual_ips[o.to]].room_id = peers[q].room_id
         /\ o.from = peers[q].virtual_ip
<1> DEFINE r == peers[q].room_id
<1>1. \A p \in DOMAIN peers : /\ peers[p].virtual_ip \in DOMAIN virtual_ips
                              /\ virtual_ips[peers[p].virtual_ip] = p
  BY DEF RelayInv, Routing, IndexConsistent, AddressesMatchPeers
<1>2. \A h \in DOMAIN hosts : At(hosts[h].room_id, hosts[h].peer_id, hosts[h].virtual_ip)
  BY DEF RelayInv, Routing, RouteIntegrity, HostsInPlace
<1>3. CASE /\ m.kind = "DiscoveryRequest"
           /\ CanDiscover(peers[q].room_id, q, m.request_id, m.port)
  <2>1. PICK h \in DiscoveryTargets(r) : o = [to |-> hosts[h].virtual_ip, from |-> peers[q].virtual_ip]
    BY <1>3 DEF Outbound
  <2>2. r \in DOMAIN rooms /\ h \in rooms[r].host_sessions /\ h \in DOMAIN hosts
    BY <1>3, <2>1 DEF CanDiscover, IsMember, DiscoveryTargets
  <2>3. hosts[h].room_id = r
    BY <2>2 DEF RelayInv, Routing, IndexConsistent, HostsMatchRooms
  <2> QED BY <1>1, <1>2, <2>1, <2>2, <2>3 DEF At
<1>4. CASE /\ ~(/\ m.kind = "DiscoveryRequest"
                /\ CanDiscover(peers[q].room_id, q, m.request_id, m.port))
           /\ ResponseRoutes(q, m)
  <2> DEFINE d == m.request_id
             h == m.host_session_id
  <2>1. o = [to |-> peers[discoveries[d].client_peer_id].virtual_ip, from |-> hosts[h].virtual_ip]
    BY <1>4 DEF Outbound
  <2>2. /\ d \in DOMAIN discoveries /\ h \in DOMAIN hosts
        /\ hosts[h].room_id = discoveries[d].room_id
        /\ hosts[h].peer_id = q
    BY <1>4 DEF ResponseRoutes, MayAnswer
  <2>3. /\ discoveries[d].client_peer_id \in DOMAIN peers
        /\ peers[discoveries[d].client_peer_id].room_id = discoveries[d].room_id
    BY <2>2 DEF RelayInv, Routing, RouteIntegrity, DiscoveriesInPlace
  <2> HIDE DEF d, h
  <2> QED BY <1>1, <1>2, <2>1, <2>2, <2>3 DEF At
<1>5. CASE /\ ~(/\ m.kind = "DiscoveryRequest"
                /\ CanDiscover(peers[q].room_id, q, m.request_id, m.port))
           /\ ~ResponseRoutes(q, m)
  <2> DEFINE g == m.session_id
  <2>1. /\ CanRoute(g, q)
        /\ o = [to |-> GameplayRoute(g, q).ip, from |-> peers[q].virtual_ip]
    BY <1>5 DEF Outbound
  <2>2. /\ g \in DOMAIN gameplay
        /\ q \in {gameplay[g].client_peer_id, gameplay[g].host_peer_id}
    BY <2>1 DEF CanRoute
  <2>3. /\ At(gameplay[g].room_id, gameplay[g].host_peer_id, gameplay[g].host_virtual_ip)
        /\ At(gameplay[g].room_id, gameplay[g].client_peer_id, gameplay[g].client_virtual_ip)
    BY <2>2 DEF RelayInv, Routing, RouteIntegrity, SessionsInPlace
  <2>4. GameplayRoute(g, q).ip \in {gameplay[g].host_virtual_ip, gameplay[g].client_virtual_ip}
    BY DEF GameplayRoute
  <2> HIDE DEF g
  <2> QED BY <1>1, <2>1, <2>2, <2>3, <2>4 DEF At
<1> QED BY <1>3, <1>4, <1>5

(* Nothing leaves the room of its sender, whatever ids an envelope names and*)
(* whatever joins, leaves, sweeps and restarts happened while it was on its *)
(* way.                                                                     *)
THEOREM ForwardingStaysInRoom == RelaySpec => []ForwardedWithinRoom
<1>1. RelayInv => ForwardedWithinRoom
  <2> SUFFICES ASSUME RelayInv, NEW p \in PeerId, NEW i \in DOMAIN net[p], Accepts(p, i),
                      NEW o \in Outbound(Sender(net[p][i]), net[p][i].message)
               PROVE  /\ o.to \in DOMAIN virtual_ips
                      /\ peers[virtual_ips[o.to]].room_id = peers[Sender(net[p][i])].room_id
    BY DEF ForwardedWithinRoom
  <2>1. Sender(net[p][i]) \in DOMAIN peers
    BY SenderIsKeyOwner DEF Accepts
  <2> QED BY <2>1, OutboundFacts
<1> QED BY <1>1, RelayInvHolds, PTL

(* Every forwarded datagram carries the address of the peer whose key it    *)
(* came under, also when the address has changed hands meanwhile.           *)
THEOREM SourceIsHonest == RelaySpec => []HonestSource
<1>1. RelayInv => HonestSource
  <2> SUFFICES ASSUME RelayInv, NEW p \in PeerId, NEW i \in DOMAIN net[p], Accepts(p, i)
               PROVE  /\ Sender(net[p][i]) = p
                      /\ \A o \in Outbound(p, net[p][i].message) : o.from = stored[p].virtual_ip
    BY DEF HonestSource
  <2>1. /\ Sender(net[p][i]) = p
        /\ p \in DOMAIN peers
        /\ stored[p].virtual_ip = peers[p].virtual_ip
    BY SenderIsKeyOwner DEF Accepts
  <2>2. \A o \in Outbound(p, net[p][i].message) : o.from = peers[p].virtual_ip
    BY <2>1, OutboundFacts
  <2> QED BY <2>1, <2>2
<1> QED BY <1>1, RelayInvHolds, PTL

-----------------------------------------------------------------------------
(* Sequence numbers.  While a client has never restarted its numbering, a   *)
(* number names one envelope, and the number the tracker remembers is that  *)
(* of an accepted one.                                                      *)
NumbersNameEnvelopes(p) ==
  /\ \A i \in DOMAIN net[p] : net[p][i].sequence <= client[p].sequence
  /\ \A i, j \in DOMAIN net[p] :
       net[p][i].sequence = net[p][j].sequence /\ net[p][i].sequence # 0 =>
         net[p][i].stamp.n = net[p][j].stamp.n

MarkWasAccepted(p) ==
  p \in DOMAIN last_sequence =>
    /\ last_sequence[p] <= client[p].sequence
    /\ \A i \in DOMAIN net[p] :
         net[p][i].sequence = last_sequence[p] => net[p][i].stamp.n \in history.accepted[p]

Numbering ==
  \A p \in PeerId : history.resets[p] = 0 =>
    IF p \in DOMAIN client
    THEN NumbersNameEnvelopes(p) /\ MarkWasAccepted(p)
    ELSE DOMAIN net[p] = {} /\ p \notin DOMAIN last_sequence

(* A step that only loses datagrams or marks, and accepts more.             *)
LEMMA NumberingStays ==
  ASSUME Numbering, NoneNew, UNCHANGED client,
         \A p \in PeerId : history'.resets[p] = history.resets[p],
         \A p \in PeerId : history.accepted[p] \subseteq history'.accepted[p],
         \A p \in DOMAIN last_sequence' :
           p \in DOMAIN last_sequence /\ last_sequence'[p] = last_sequence[p]
  PROVE  Numbering'
<1> SUFFICES ASSUME NEW p \in PeerId, history.resets[p] = 0
             PROVE  IF p \in DOMAIN client
                    THEN NumbersNameEnvelopes(p)' /\ MarkWasAccepted(p)'
                    ELSE DOMAIN net'[p] = {} /\ p \notin DOMAIN last_sequence'
  BY DEF Numbering
<1>1. \A j \in DOMAIN net'[p] : \E k \in DOMAIN net[p] : net'[p][j] = net[p][k]
  BY DEF NoneNew
<1>2. CASE p \notin DOMAIN client
  BY <1>1, <1>2 DEF Numbering
<1>3. CASE p \in DOMAIN client
  <2>1. NumbersNameEnvelopes(p) /\ MarkWasAccepted(p)
    BY <1>3 DEF Numbering
  <2>2. NumbersNameEnvelopes(p)'
    BY <1>1, <2>1 DEF NumbersNameEnvelopes
  <2>3. MarkWasAccepted(p)'
    BY <1>1, <2>1 DEF MarkWasAccepted
  <2> QED BY <1>3, <2>2, <2>3
<1> QED BY <1>2, <1>3

LEMMA NothingSaidStays ==
  ASSUME Numbering, UNCHANGED <<net, client, history, last_sequence>>
  PROVE  Numbering'
  BY DEF Numbering, NumbersNameEnvelopes, MarkWasAccepted

LEMMA SendKeepsNumbering ==
  ASSUME Typed, Numbering, NEW p \in PeerId, NEW m \in Messages, NEW legacy \in BOOLEAN,
         Send(p, m, legacy)
  PROVE  Numbering'
<1> DEFINE next == client[p].sequence + 1
           n == history.sent[p] + 1
           d == [source |-> client[p].virtual_ip,
                 epoch |-> IF legacy THEN 0 ELSE client[p].epoch,
                 sequence |-> IF legacy THEN 0 ELSE next,
                 message |-> m,
                 stamp |-> [n |-> n, rejoined |-> history.rejoined[p],
                            lifted |-> history.lifted[p]]]
<1>1. /\ p \in DOMAIN client
      /\ net' = [net EXCEPT ![p] = Append(@, d)]
      /\ client' = [client EXCEPT ![p].sequence = IF legacy THEN @ ELSE next]
      /\ history' = [history EXCEPT !.sent[p] = n]
      /\ UNCHANGED last_sequence
  BY DEF Send
<1>2. client[p].sequence \in Nat /\ client[p] \in ClientType
  BY <1>1, Bounds DEF Typed, OwnTypes, IsTable, ClientType
<1>3. d.sequence = IF legacy THEN 0 ELSE next
  OBVIOUS
<1>4. /\ DOMAIN client' = DOMAIN client
      /\ client'[p].sequence = IF legacy THEN client[p].sequence ELSE next
      /\ \A x \in DOMAIN client : x # p => client'[x] = client[x]
  BY <1>1, <1>2 DEF ClientType, Typed, OwnTypes, IsTable
<1>5. history'.resets = history.resets /\ history'.accepted = history.accepted
  BY <1>1 DEF Typed, OwnTypes, History
<1> HIDE DEF d, n
<1>6. net[p] \in Seq(Datagram) /\ net \in [PeerId -> Seq(Datagram)]
  BY DEF Typed, OwnTypes
<1>7. /\ net'[p] = Append(net[p], d)
      /\ \A x \in PeerId : x # p => net'[x] = net[x]
  BY <1>1, <1>6
<1>8. /\ Len(net[p]) \in Nat
      /\ DOMAIN net[p] = 1..Len(net[p])
      /\ DOMAIN net'[p] = 1..(Len(net[p]) + 1)
      /\ \A i \in DOMAIN net[p] : net'[p][i] = net[p][i]
      /\ net'[p][Len(net[p]) + 1] = d
  BY <1>6, <1>7
<1>9. \A i \in DOMAIN net'[p] : i \in DOMAIN net[p] \/ net'[p][i] = d
  BY <1>8
<1>10. \A i \in DOMAIN net[p] : net[p][i].sequence \in Nat
  BY InFlight, Bounds DEF Datagram
<1>11. ASSUME NEW x \in PeerId, x # p, history.resets[x] = 0
       PROVE  IF x \in DOMAIN client
              THEN NumbersNameEnvelopes(x)' /\ MarkWasAccepted(x)'
              ELSE DOMAIN net'[x] = {} /\ x \notin DOMAIN last_sequence'
  BY <1>1, <1>4, <1>5, <1>7, <1>11 DEF Numbering, NumbersNameEnvelopes, MarkWasAccepted
<1>12. ASSUME history.resets[p] = 0
       PROVE  NumbersNameEnvelopes(p)' /\ MarkWasAccepted(p)'
  <2>1. NumbersNameEnvelopes(p) /\ MarkWasAccepted(p)
    BY <1>1, <1>12 DEF Numbering
  <2>2. \A i \in DOMAIN net[p] : net[p][i].sequence <= client[p].sequence
    BY <2>1 DEF NumbersNameEnvelopes
  <2>3. d.sequence = 0 \/ d.sequence > client[p].sequence
    BY <1>2, <1>3
  <2>4. d.sequence <= client'[p].sequence /\ client[p].sequence <= client'[p].sequence
    BY <1>2, <1>3, <1>4
  <2>5. NumbersNameEnvelopes(p)'
    <3>1. \A i \in DOMAIN net'[p] : net'[p][i].sequence <= client'[p].sequence
      <4> SUFFICES ASSUME NEW i \in DOMAIN net'[p]
                   PROVE  net'[p][i].sequence <= client'[p].sequence
        OBVIOUS
      <4>1. client'[p].sequence \in Nat
        BY <1>2, <1>4
      <4>2. CASE i \in DOMAIN net[p]
        BY <1>2, <1>8, <1>10, <2>2, <2>4, <4>1, <4>2
      <4>3. CASE net'[p][i] = d
        BY <2>4, <4>3
      <4> QED BY <1>9, <4>2, <4>3
    <3>2. ASSUME NEW i \in DOMAIN net'[p], NEW j \in DOMAIN net'[p],
                 net'[p][i].sequence = net'[p][j].sequence, net'[p][i].sequence # 0
          PROVE  net'[p][i].stamp.n = net'[p][j].stamp.n
      <4>1. CASE i \in DOMAIN net[p] /\ j \in DOMAIN net[p]
        BY <1>8, <2>1, <3>2, <4>1 DEF NumbersNameEnvelopes
      <4>2. CASE net'[p][i] = d /\ net'[p][j] = d
        BY <4>2
      <4>3. CASE i \in DOMAIN net[p] /\ net'[p][j] = d
        BY <1>2, <1>8, <1>10, <2>2, <2>3, <3>2, <4>3
      <4>4. CASE j \in DOMAIN net[p] /\ net'[p][i] = d
        BY <1>2, <1>8, <1>10, <2>2, <2>3, <3>2, <4>4
      <4> QED BY <1>9, <4>1, <4>2, <4>3, <4>4
    <3> QED BY <3>1, <3>2 DEF NumbersNameEnvelopes
  <2>6. MarkWasAccepted(p)'
    <3> SUFFICES ASSUME p \in DOMAIN last_sequence
                 PROVE  /\ last_sequence[p] <= client'[p].sequence
                        /\ \A i \in DOMAIN net'[p] :
                             net'[p][i].sequence = last_sequence[p] =>
                               net'[p][i].stamp.n \in history.accepted[p]
      BY <1>1, <1>5 DEF MarkWasAccepted
    <3>1. last_sequence[p] \in Nat \ {0}
      BY Bounds DEF Typed, OwnTypes, IsTable
    <3>2. last_sequence[p] <= client[p].sequence
      BY <2>1 DEF MarkWasAccepted
    <3>3. client'[p].sequence \in Nat
      BY <1>2, <1>4
    <3>4. d.sequence # last_sequence[p]
      BY <1>2, <2>3, <3>1, <3>2
    <3>5. \A i \in DOMAIN net[p] : net[p][i].sequence = last_sequence[p] =>
            net[p][i].stamp.n \in history.accepted[p]
      BY <2>1 DEF MarkWasAccepted
    <3>6. last_sequence[p] <= client'[p].sequence
      BY <1>2, <2>4, <3>1, <3>2, <3>3
    <3> QED BY <1>8, <1>9, <3>4, <3>5, <3>6
  <2> QED BY <2>5, <2>6
<1> QED BY <1>1, <1>4, <1>5, <1>11, <1>12 DEF Numbering

(* After record_sequence the mark of the sender is the old one or that of   *)
(* the envelope; the other marks stay or, when the tracker is full, go.     *)
LEMMA RecordFacts ==
  ASSUME NEW q, NEW n, last_sequence' = RecordSequence(q, n)
  PROVE  \A x \in DOMAIN last_sequence' :
           \/ x \in DOMAIN last_sequence /\ last_sequence'[x] = last_sequence[x]
           \/ x = q /\ last_sequence'[x] = n
<1>1. CASE n = 0
  BY <1>1 DEF RecordSequence
<1>2. CASE n # 0 /\ q \in DOMAIN last_sequence
  <2>1. last_sequence' = [last_sequence EXCEPT ![q] = IF n > @ THEN n ELSE @]
    BY <1>2 DEF RecordSequence
  <2> QED BY <2>1
<1>3. CASE n # 0 /\ q \notin DOMAIN last_sequence
  <2>1. last_sequence' = Put(NoTables, q, n) \/ last_sequence' = Put(last_sequence, q, n)
    BY <1>3 DEF RecordSequence
  <2> QED BY <2>1 DEF Put, NoTables
<1> QED BY <1>1, <1>2, <1>3

LEMMA AcceptKeepsNumbering ==
  ASSUME RelayInv, Numbering, NEW p \in PeerId, NEW i \in DOMAIN net[p], Accept(p, i)
  PROVE  Numbering'
<1> DEFINE d == net[p][i]
<1>1. Sender(d) = p
  BY SenderIsKeyOwner DEF Accept, Accepts
<1>2. /\ last_sequence' = RecordSequence(p, d.sequence)
      /\ history' = [history EXCEPT !.accepted[p] = @ \cup {d.stamp.n}]
      /\ UNCHANGED client
  BY <1>1 DEF Accept
<1>3. NoneNew
  BY TakeFacts DEF Accept, RelayInv
<1>4. /\ history'.resets = history.resets
      /\ history'.accepted[p] = history.accepted[p] \cup {d.stamp.n}
      /\ \A x \in PeerId : x # p => history'.accepted[x] = history.accepted[x]
  BY <1>2 DEF RelayInv, Typed, OwnTypes, History
<1>5. \A x \in DOMAIN last_sequence' :
        \/ x \in DOMAIN last_sequence /\ last_sequence'[x] = last_sequence[x]
        \/ x = p /\ last_sequence'[x] = d.sequence
  BY <1>2, RecordFacts
<1>6. \A x \in DOMAIN last_sequence' : last_sequence'[x] \in Nat \ {0}
  <2>1. IsTable(last_sequence', PeerId, 1..MaxSent)
    BY AcceptKeepsOwnTypes DEF RelayInv, OwnTypes
  <2> QED BY <2>1, Bounds DEF IsTable
<1>7. \A x \in PeerId : \A j \in DOMAIN net'[x] : \E k \in DOMAIN net[x] : net'[x][j] = net[x][k]
  BY <1>3 DEF NoneNew
<1>8. ASSUME NEW x \in PeerId, x # p, history.resets[x] = 0
      PROVE  IF x \in DOMAIN client
             THEN NumbersNameEnvelopes(x)' /\ MarkWasAccepted(x)'
             ELSE DOMAIN net'[x] = {} /\ x \notin DOMAIN last_sequence'
  <2>1. CASE x \notin DOMAIN client
    BY <1>5, <1>7, <1>8, <2>1 DEF Numbering
  <2>2. CASE x \in DOMAIN client
    <3>1. NumbersNameEnvelopes(x) /\ MarkWasAccepted(x)
      BY <1>8, <2>2 DEF Numbering
    <3>2. NumbersNameEnvelopes(x)'
      BY <1>2, <1>7, <3>1 DEF NumbersNameEnvelopes
    <3>3. MarkWasAccepted(x)'
      BY <1>2, <1>4, <1>5, <1>7, <1>8, <3>1 DEF MarkWasAccepted
    <3> QED BY <2>2, <3>2, <3>3
  <2> QED BY <2>1, <2>2
<1>9. ASSUME history.resets[p] = 0
      PROVE  p \in DOMAIN client /\ NumbersNameEnvelopes(p)' /\ MarkWasAccepted(p)'
  <2>1. p \in DOMAIN client /\ NumbersNameEnvelopes(p) /\ MarkWasAccepted(p)
    BY <1>9 DEF Numbering
  <2>2. NumbersNameEnvelopes(p)'
    BY <1>2, <1>7, <2>1 DEF NumbersNameEnvelopes
  <2>3. MarkWasAccepted(p)'
    <3> SUFFICES ASSUME p \in DOMAIN last_sequence'
                 PROVE  /\ last_sequence'[p] <= client[p].sequence
                        /\ \A j \in DOMAIN net'[p] :
                             net'[p][j].sequence = last_sequence'[p] =>
                               net'[p][j].stamp.n \in history'.accepted[p]
      BY <1>2 DEF MarkWasAccepted
    <3>1. CASE p \in DOMAIN last_sequence /\ last_sequence'[p] = last_sequence[p]
      BY <1>4, <1>7, <2>1, <3>1 DEF MarkWasAccepted
    <3>2. CASE last_sequence'[p] = d.sequence
      <4>1. last_sequence'[p] <= client[p].sequence
        BY <2>1, <3>2 DEF NumbersNameEnvelopes
      <4>2. ASSUME NEW k \in DOMAIN net[p], net[p][k].sequence = d.sequence
            PROVE  net[p][k].stamp.n = d.stamp.n
        <5>1. d.sequence # 0
          BY <1>6, <3>2
        <5> QED BY <2>1, <4>2, <5>1 DEF NumbersNameEnvelopes
      <4> QED BY <1>4, <1>7, <3>2, <4>1, <4>2
    <3> QED BY <1>5, <3>1, <3>2
  <2> QED BY <2>1, <2>2, <2>3
<1> QED BY <1>2, <1>4, <1>8, <1>9 DEF Numbering

(* A client that joins for the first time has sent nothing; any other new   *)
(* numbering is counted.                                                    *)
LEMMA JoinKeepsNumbering ==
  ASSUME Typed, Numbering, NEW r \in RoomId, NEW p \in PeerId, NEW ip \in VirtualIp,
         ApiJoin(r, p, ip)
  PROVE  Numbering'
<1>1. /\ DOMAIN client' = DOMAIN client \cup {p}
      /\ \A x \in DOMAIN client : x # p => client'[x] = client[x]
      /\ UNCHANGED <<last_sequence, net>>
  BY DEF ApiJoin, Put
<1>2. CASE p \notin DOMAIN client
  <2>1. UNCHANGED history
    BY <1>2 DEF ApiJoin
  <2>2. ASSUME history.resets[p] = 0
        PROVE  NumbersNameEnvelopes(p)' /\ MarkWasAccepted(p)'
    BY <1>1, <1>2, <2>2 DEF Numbering, NumbersNameEnvelopes, MarkWasAccepted
  <2>3. ASSUME NEW x \in PeerId, x # p, history.resets[x] = 0
        PROVE  IF x \in DOMAIN client
               THEN NumbersNameEnvelopes(x)' /\ MarkWasAccepted(x)'
               ELSE DOMAIN net[x] = {} /\ x \notin DOMAIN last_sequence
    BY <1>1, <2>1, <2>3 DEF Numbering, NumbersNameEnvelopes, MarkWasAccepted
  <2> QED BY <1>1, <2>1, <2>2, <2>3 DEF Numbering
<1>3. CASE p \in DOMAIN client
  <2>1. history' = [history EXCEPT !.resets[p] = @ + 1, !.rejoined[p] = @ + 1]
    BY <1>3 DEF ApiJoin
  <2>2. /\ \A x \in PeerId : x # p => history'.resets[x] = history.resets[x]
        /\ history'.resets[p] = history.resets[p] + 1
        /\ history.resets[p] \in Nat
        /\ history'.accepted = history.accepted
    BY <2>1, Bounds DEF Typed, OwnTypes, History
  <2>3. history'.resets[p] # 0
    BY <2>2
  <2>4. ASSUME NEW x \in PeerId, x # p, history.resets[x] = 0
        PROVE  IF x \in DOMAIN client
               THEN NumbersNameEnvelopes(x)' /\ MarkWasAccepted(x)'
               ELSE DOMAIN net[x] = {} /\ x \notin DOMAIN last_sequence
    BY <1>1, <2>2, <2>4 DEF Numbering, NumbersNameEnvelopes, MarkWasAccepted
  <2> QED BY <1>1, <2>2, <2>3, <2>4 DEF Numbering
<1> QED BY <1>2, <1>3

LEMMA ResumeKeepsNumbering ==
  ASSUME Typed, Numbering, NEW r \in RoomId, NEW p \in PeerId, ApiResume(r, p)
  PROVE  Numbering'
<1> DEFINE lifts == peers[p].disconnected
<1>1. p \in DOMAIN client /\ UNCHANGED <<last_sequence, net>>
  BY DEF ApiResume
<1>2. CASE /\ client' = [client EXCEPT ![p].epoch = peers'[p].epoch, ![p].sequence = 0]
           /\ history' = [history EXCEPT
                             !.resets[p] = @ + 1, !.resumed[p] = @ + 1,
                             !.lifted[p] = IF lifts THEN @ + 1 ELSE @]
  <2>1. /\ DOMAIN client' = DOMAIN client
        /\ \A x \in DOMAIN client : x # p => client'[x] = client[x]
    BY <1>2 DEF Typed, OwnTypes, IsTable
  <2>2. /\ \A x \in PeerId : x # p => history'.resets[x] = history.resets[x]
        /\ history'.resets[p] = history.resets[p] + 1
        /\ history.resets[p] \in Nat
        /\ history'.accepted = history.accepted
    BY <1>2, Bounds DEF Typed, OwnTypes, History
  <2>3. history'.resets[p] # 0
    BY <2>2
  <2>4. ASSUME NEW x \in PeerId, x # p, history.resets[x] = 0
        PROVE  IF x \in DOMAIN client
               THEN NumbersNameEnvelopes(x)' /\ MarkWasAccepted(x)'
               ELSE DOMAIN net[x] = {} /\ x \notin DOMAIN last_sequence
    BY <1>1, <2>1, <2>2, <2>4 DEF Numbering, NumbersNameEnvelopes, MarkWasAccepted
  <2> QED BY <1>1, <2>1, <2>2, <2>3, <2>4 DEF Numbering
<1>3. CASE /\ UNCHANGED client
           /\ history' = [history EXCEPT
                             !.resumed[p] = @ + 1,
                             !.lifted[p] = IF lifts THEN @ + 1 ELSE @]
  <2>1. history'.resets = history.resets /\ history'.accepted = history.accepted
    BY <1>3 DEF Typed, OwnTypes, History
  <2> QED BY <1>1, <1>3, <2>1 DEF Numbering, NumbersNameEnvelopes, MarkWasAccepted
<1> QED BY <1>2, <1>3 DEF ApiResume

LEMMA RestartKeepsNumbering ==
  ASSUME Typed, Numbering, Restart
  PROVE  Numbering'
<1>1. /\ DOMAIN last_sequence' = {}
      /\ UNCHANGED <<client, net>>
      /\ history'.resets = history.resets /\ history'.accepted = history.accepted
  BY DEF Restart, NoTables, Typed, OwnTypes, History
<1> QED BY <1>1 DEF Numbering, NumbersNameEnvelopes, MarkWasAccepted

LEMMA NextNumbering == RelayInv /\ Numbering /\ [RelayNext]_allVars => Numbering'
<1> SUFFICES ASSUME RelayInv, Numbering, [RelayNext]_allVars PROVE Numbering'
  OBVIOUS
<1>1. CASE UNCHANGED allVars \/ RouterStep
  <2>1. UNCHANGED <<net, client, history, last_sequence>>
    BY <1>1 DEF allVars, relayVars, RouterStep
  <2> QED BY <2>1, NothingSaidStays
<1>2. CASE MembershipStep
  <2>1. ASSUME NEW r \in RoomId, ApiDeleteRoom(r) \/ \E p \in PeerId : ApiLeave(r, p)
        PROVE  Numbering'
    <3>1. UNCHANGED <<net, client, history, last_sequence>>
      BY <2>1 DEF ApiDeleteRoom, ApiLeave
    <3> QED BY <3>1, NothingSaidStays
  <2> QED BY <1>2, <2>1, JoinKeepsNumbering, ResumeKeepsNumbering DEF MembershipStep, RelayInv
<1>3. CASE ClientStep
  <2>1. FALSE \in BOOLEAN /\ Legacy \in BOOLEAN
    BY NetworkAssumption
  <2> QED BY <1>3, <2>1, SendKeepsNumbering DEF ClientStep, RelayInv
<1>4. ASSUME NEW p \in PeerId, NEW i, AnswerProbe(p, i) \/ DropDuplicate(p, i) \/ Lose(p, i)
      PROVE  Numbering'
  <2>1. UNCHANGED <<last_sequence, client, history>> /\ NoneNew
    BY <1>4, TakeFacts, RemoveFacts
       DEF AnswerProbe, DropDuplicate, Drops, Arrives, Lose, RelayInv
  <2> QED BY <2>1, NumberingStays
<1>5. ASSUME NEW p \in PeerId, NEW i, Accept(p, i)
      PROVE  Numbering'
  <2>1. i \in DOMAIN net[p]
    BY <1>5 DEF Accept, Accepts, Arrives
  <2> QED BY <1>5, <2>1, AcceptKeepsNumbering
<1>6. CASE Restart
  BY <1>6, RestartKeepsNumbering DEF RelayInv
<1> QED BY <1>1, <1>2, <1>3, <1>4, <1>5, <1>6 DEF RelayNext, NetworkStep

(* Until a client starts to number from 1 again, what is dropped for its    *)
(* sequence number was accepted before.                                     *)
THEOREM DropsAreRepeats == RelaySpec => []DroppedWasAccepted
<1>1. RelayInit => Numbering
  BY DEF RelayInit, Numbering, NoTables
<1>2. RelayInv /\ Numbering => DroppedWasAccepted
  <2> SUFFICES ASSUME RelayInv, Numbering, NEW p \in PeerId, NEW i \in DOMAIN net[p],
                      Drops(p, i), history.resets[p] = 0
               PROVE  net[p][i].stamp.n \in history.accepted[p]
    BY DEF DroppedWasAccepted
  <2>1. Sender(net[p][i]) = p
    BY SenderIsKeyOwner DEF Drops
  <2>2. p \in DOMAIN last_sequence /\ last_sequence[p] = net[p][i].sequence
    BY <2>1 DEF Drops, IsDuplicate
  <2>3. p \in DOMAIN client /\ MarkWasAccepted(p)
    BY DEF Numbering
  <2> QED BY <2>2, <2>3 DEF MarkWasAccepted
<1> QED BY <1>1, <1>2, NextNumbering, RelayInvHolds, PTL DEF RelaySpec

-----------------------------------------------------------------------------
(* Epochs.  A peer has at most one epoch more than it has been lifted out   *)
(* of suspensions, and every numbered envelope is behind its sender by at   *)
(* least the suspensions lifted since, unless the sender has joined again.  *)
Behind(p, d) ==
  /\ d.stamp.rejoined <= history.rejoined[p]
  /\ d.stamp.lifted <= history.lifted[p]
  /\ p \in DOMAIN peers /\ d.epoch # 0 /\ d.stamp.rejoined = history.rejoined[p] =>
       d.epoch + history.lifted[p] <= peers[p].epoch + d.stamp.lifted

EpochsCounted(p) ==
  p \in DOMAIN peers => /\ p \in DOMAIN client
                        /\ client[p].epoch <= peers[p].epoch
                        /\ peers[p].epoch <= 1 + history.lifted[p]

Fenced(p) ==
  /\ EpochsCounted(p)
  /\ DOMAIN net[p] # {} => p \in DOMAIN client
  /\ \A i \in DOMAIN net[p] : Behind(p, net[p][i])

Fences == \A p \in PeerId : Fenced(p)

(* Every peer was there and has the epoch it had.                           *)
SameEpochs ==
  \A p \in DOMAIN peers' : p \in DOMAIN peers /\ peers'[p].epoch = peers[p].epoch

LEMMA FencesStay ==
  ASSUME Fences, NoneNew, UNCHANGED client, SameEpochs,
         history'.rejoined = history.rejoined, history'.lifted = history.lifted
  PROVE  Fences'
<1> SUFFICES ASSUME NEW p \in PeerId
             PROVE  Fenced(p)'
  BY DEF Fences
<1>1. Fenced(p) /\ \A j \in DOMAIN net'[p] : \E k \in DOMAIN net[p] : net'[p][j] = net[p][k]
  BY DEF Fences, NoneNew
<1>2. EpochsCounted(p)'
  BY <1>1 DEF Fenced, EpochsCounted, SameEpochs
<1>3. \A i \in DOMAIN net[p] : \A d : d = net[p][i] =>
        /\ d.stamp.rejoined <= history'.rejoined[p]
        /\ d.stamp.lifted <= history'.lifted[p]
        /\ p \in DOMAIN peers' /\ d.epoch # 0 /\ d.stamp.rejoined = history'.rejoined[p] =>
             d.epoch + history'.lifted[p] <= peers'[p].epoch + d.stamp.lifted
  BY <1>1 DEF Fenced, Behind, SameEpochs
<1>4. \A j \in DOMAIN net'[p] : Behind(p, net[p][j])'
  BY <1>1, <1>3 DEF Behind
<1> QED BY <1>1, <1>2, <1>4 DEF Fenced

LEMMA RouterStepKeepsEpochs ==
  ASSUME Typed, RouterStep
  PROVE  SameEpochs
<1>1. CASE Expire
  BY <1>1 DEF Expire, Suspended, SameEpochs, Typed, TypeOK, IsTable, PeerState
<1>2. CASE Tick
  BY <1>2 DEF Tick, SameEpochs, Typed, TypeOK, IsTable, PeerState
<1>3. CASE ~Expire /\ ~Tick
  <2>1. UNCHANGED peers
    BY <1>3 DEF RouterStep, CreateRoomWithId, HostNext, RegisterAgain, UnregisterHost, Purge,
                RegisterNewHost, HeartbeatHost, RegisterExistingHost, RefreshHost, SelectHost,
                RemoveGameplaySession, peerVars
  <2> QED BY <2>1 DEF SameEpochs
<1> QED BY <1>1, <1>2, <1>3

LEMMA TouchKeepsEpochs ==
  ASSUME Typed, NEW q, TouchPeer(q)
  PROVE  SameEpochs
  BY DEF TouchPeer, SameEpochs, Typed, TypeOK, IsTable, PeerState

(* next_envelope_meta: what a new envelope says, and what its client counts.*)
Sent(p, m, legacy) ==
  [source |-> client[p].virtual_ip,
   epoch |-> IF legacy THEN 0 ELSE client[p].epoch,
   sequence |-> IF legacy THEN 0 ELSE client[p].sequence + 1,
   message |-> m,
   stamp |-> [n |-> history.sent[p] + 1, rejoined |-> history.rejoined[p],
              lifted |-> history.lifted[p]]]

LEMMA SendFacts ==
  ASSUME Typed, NEW p \in PeerId, NEW m \in Messages, NEW legacy \in BOOLEAN, Send(p, m, legacy)
  PROVE  /\ p \in DOMAIN client /\ DOMAIN client' = DOMAIN client
         /\ \A x \in DOMAIN client : client'[x].epoch = client[x].epoch
         /\ history'.sent[p] = history.sent[p] + 1
         /\ \A x \in PeerId : x # p => history'.sent[x] = history.sent[x]
         /\ \A f \in {"accepted", "resets", "rejoined", "lifted"} : history'[f] = history[f]
         /\ \A q \in PeerId : \A j \in DOMAIN net'[q] :
              \/ \E k \in DOMAIN net[q] : net'[q][j] = net[q][k]
              \/ q = p /\ net'[q][j] = Sent(p, m, legacy)
<1> DEFINE d == Sent(p, m, legacy)
<1>1. /\ p \in DOMAIN client
      /\ net' = [net EXCEPT ![p] = Append(@, d)]
      /\ client' = [client EXCEPT ![p].sequence = IF legacy THEN @ ELSE client[p].sequence + 1]
      /\ history' = [history EXCEPT !.sent[p] = history.sent[p] + 1]
  BY DEF Send, Sent
<1> HIDE DEF d
<1>2. /\ DOMAIN client' = DOMAIN client
      /\ \A x \in DOMAIN client : client'[x].epoch = client[x].epoch
  BY <1>1 DEF Typed, OwnTypes, IsTable, ClientType
<1>3. /\ history'.sent[p] = history.sent[p] + 1
      /\ \A x \in PeerId : x # p => history'.sent[x] = history.sent[x]
      /\ \A f \in {"accepted", "resets", "rejoined", "lifted"} : history'[f] = history[f]
  BY <1>1 DEF Typed, OwnTypes, History
<1>4. ASSUME NEW q \in PeerId, NEW j \in DOMAIN net'[q]
      PROVE  \/ \E k \in DOMAIN net[q] : net'[q][j] = net[q][k]
             \/ q = p /\ net'[q][j] = d
  <2>1. net \in [PeerId -> Seq(Datagram)] /\ net[q] \in Seq(Datagram)
    BY DEF Typed, OwnTypes
  <2>2. CASE q # p
    BY <1>1, <1>4, <2>1, <2>2
  <2>3. CASE q = p
    <3>1. net'[q] = Append(net[q], d)
      BY <1>1, <2>1, <2>3
    <3>2. j \in DOMAIN net[q] \/ j = Len(net[q]) + 1
      BY <1>4, <2>1, <3>1
    <3> QED BY <2>1, <2>3, <3>1, <3>2
  <2> QED BY <2>2, <2>3
<1> QED BY <1>1, <1>2, <1>3, <1>4 DEF d

LEMMA SendKeepsFences ==
  ASSUME Typed, Fences, NEW p \in PeerId, NEW m \in Messages, NEW legacy \in BOOLEAN,
         Send(p, m, legacy)
  PROVE  Fences'
<1> DEFINE d == Sent(p, m, legacy)
<1>1. /\ d.epoch \in {0, client[p].epoch}
      /\ d.stamp.rejoined = history.rejoined[p]
      /\ d.stamp.lifted = history.lifted[p]
      /\ \A q \in PeerId : \A j \in DOMAIN net'[q] :
           \/ \E k \in DOMAIN net[q] : net'[q][j] = net[q][k]
           \/ q = p /\ net'[q][j] = d
  BY SendFacts DEF Sent
<1> HIDE DEF d
<1>2. /\ p \in DOMAIN client /\ DOMAIN client' = DOMAIN client
      /\ \A x \in DOMAIN client : client'[x].epoch = client[x].epoch
      /\ history'.rejoined = history.rejoined /\ history'.lifted = history.lifted
      /\ UNCHANGED peers
  BY SendFacts DEF Send, vars, peerVars
<1> SUFFICES ASSUME NEW q \in PeerId
             PROVE  Fenced(q)'
  BY DEF Fences
<1>3. Fenced(q)
  BY DEF Fences
<1>4. EpochsCounted(q)'
  BY <1>2, <1>3 DEF Fenced, EpochsCounted
<1>5. \A i \in DOMAIN net[q] : \A x : x = net[q][i] => Behind(q, x)
  BY <1>3 DEF Fenced
<1>6. q = p => Behind(p, d)
  <2>1. /\ history.lifted[p] \in Nat /\ history.rejoined[p] \in Nat
        /\ client[p].epoch \in Nat
        /\ p \in DOMAIN peers => peers[p].epoch \in Nat
    BY <1>2, Bounds DEF Typed, OwnTypes, History, IsTable, ClientType, TypeOK, PeerState
  <2> QED BY <1>1, <1>3, <2>1 DEF Behind, Fenced, EpochsCounted
<1>7. \A j \in DOMAIN net'[q] : Behind(q, net'[q][j])
  BY <1>1, <1>5, <1>6
<1>8. \A j \in DOMAIN net'[q] : Behind(q, net[q][j])'
  BY <1>2, <1>7 DEF Behind
<1>9. DOMAIN net'[q] # {} => q \in DOMAIN client'
  BY <1>1, <1>2, <1>3 DEF Fenced
<1> QED BY <1>4, <1>8, <1>9 DEF Fenced

(* A join starts at epoch 1; a client that joins again leaves what it sent  *)
(* before behind.                                                           *)
LEMMA JoinKeepsFences ==
  ASSUME Typed, Fences, NEW r \in RoomId, NEW p \in PeerId, NEW ip \in VirtualIp,
         ApiJoin(r, p, ip)
  PROVE  Fences'
<1>1. /\ DOMAIN client' = DOMAIN client \cup {p} /\ client'[p].epoch = 1
      /\ \A x \in DOMAIN client : x # p => client'[x] = client[x]
      /\ DOMAIN peers' = DOMAIN peers \cup {p} /\ peers'[p].epoch = 1
      /\ \A x \in DOMAIN peers : x # p => peers'[x] = peers[x]
      /\ UNCHANGED net
  BY DEF ApiJoin, JoinRoom, Put
<1>2. /\ history'.lifted = history.lifted
      /\ \A x \in PeerId : x # p => history'.rejoined[x] = history.rejoined[x]
      /\ p \in DOMAIN client => history'.rejoined[p] = history.rejoined[p] + 1
  <2>1. CASE p \notin DOMAIN client
    BY <2>1 DEF ApiJoin
  <2>2. CASE p \in DOMAIN client
    <3>1. history' = [history EXCEPT !.resets[p] = @ + 1, !.rejoined[p] = @ + 1]
      BY <2>2 DEF ApiJoin
    <3> QED BY <3>1 DEF Typed, OwnTypes, History
  <2> QED BY <2>1, <2>2
<1>3. history.lifted[p] \in Nat /\ history.rejoined[p] \in Nat
  BY Bounds DEF Typed, OwnTypes, History
<1>4. Fenced(p)'
  <2>1. EpochsCounted(p)'
    BY <1>1, <1>2, <1>3 DEF EpochsCounted
  <2>2. ASSUME NEW i \in DOMAIN net[p]
        PROVE  Behind(p, net[p][i])'
    <3>1. p \in DOMAIN client /\ Behind(p, net[p][i])
      BY <2>2 DEF Fences, Fenced
    <3>2. net[p][i].stamp.rejoined \in Nat
      BY InFlight, Bounds DEF Datagram
    <3> QED BY <1>1, <1>2, <1>3, <3>1, <3>2 DEF Behind
  <2> QED BY <1>1, <2>1, <2>2 DEF Fenced
<1>5. ASSUME NEW q \in PeerId, q # p
      PROVE  Fenced(q)'
  <2>1. Fenced(q)
    BY DEF Fences
  <2>2. EpochsCounted(q)'
    BY <1>1, <1>2, <1>5, <2>1 DEF Fenced, EpochsCounted
  <2>3. \A i \in DOMAIN net[q] : Behind(q, net[q][i])'
    BY <1>1, <1>2, <1>5, <2>1 DEF Fenced, Behind
  <2> QED BY <1>1, <2>1, <2>2, <2>3 DEF Fenced
<1> QED BY <1>4, <1>5 DEF Fences

(* A resume that lifts a suspension counts both: the epoch has not reached  *)
(* its limit, where it would stay.                                          *)
LEMMA ResumeKeepsFences ==
  ASSUME MaxResets < MaxEpoch, Typed, Fences, NEW r \in RoomId, NEW p \in PeerId, ApiResume(r, p)
  PROVE  Fences'
<1> DEFINE lifts == peers[p].disconnected
<1>1. /\ p \in DOMAIN client /\ DOMAIN client' = DOMAIN client
      /\ client'[p].epoch \in {client[p].epoch, peers'[p].epoch}
      /\ \A x \in DOMAIN client : x # p => client'[x] = client[x]
      /\ UNCHANGED net
  BY DEF ApiResume, Typed, OwnTypes, IsTable, ClientType
<1>2. /\ history'.rejoined = history.rejoined
      /\ history'.lifted[p] = IF lifts THEN history.lifted[p] + 1 ELSE history.lifted[p]
      /\ \A x \in PeerId : x # p => history'.lifted[x] = history.lifted[x]
  <2>1. \/ history' = [history EXCEPT !.resets[p] = @ + 1, !.resumed[p] = @ + 1,
                                      !.lifted[p] = IF lifts THEN @ + 1 ELSE @]
        \/ history' = [history EXCEPT !.resumed[p] = @ + 1,
                                      !.lifted[p] = IF lifts THEN @ + 1 ELSE @]
    BY DEF ApiResume
  <2> DEFINE lifted == [history.lifted EXCEPT ![p] = IF lifts THEN @ + 1 ELSE @]
  <2>2. history'.rejoined = history.rejoined /\ history'.lifted = lifted
    BY <2>1 DEF Typed, OwnTypes, History
  <2>3. history.lifted \in [PeerId -> 0..MaxResets]
    BY DEF Typed, OwnTypes, History
  <2> HIDE DEF lifts
  <2> QED BY <2>2, <2>3
<1>3. /\ history.lifted[p] \in Nat /\ history.lifted[p] < MaxResets
      /\ MaxResets \in Nat /\ MaxEpoch \in Nat
  BY Bounds DEF ApiResume, Typed, OwnTypes, History, Counted
<1>4. /\ p \in DOMAIN peers /\ DOMAIN peers' = DOMAIN peers
      /\ peers[p].epoch \in Nat
      /\ client[p].epoch \in Nat
      /\ peers'[p].epoch = IF lifts THEN NextEpoch(peers[p].epoch) ELSE peers[p].epoch
      /\ \A x \in DOMAIN peers : x # p => peers'[x] = peers[x]
  <2>1. /\ p \in DOMAIN peers /\ peers[p] \in PeerState
        /\ peers' = [peers EXCEPT ![p] = Resumed(@)]
    BY DEF ApiResume, ResumePeer, Typed, TypeOK, IsTable
  <2>2. /\ DOMAIN peers' = DOMAIN peers /\ peers'[p] = Resumed(peers[p])
        /\ \A x \in DOMAIN peers : x # p => peers'[x] = peers[x]
    BY <2>1
  <2>3. /\ Resumed(peers[p]).epoch = IF lifts THEN NextEpoch(peers[p].epoch) ELSE peers[p].epoch
        /\ peers[p].epoch \in Nat
    BY <2>1, Bounds DEF Resumed, PeerState
  <2>4. client[p].epoch \in Nat
    BY <1>1, Bounds DEF Typed, OwnTypes, IsTable, ClientType
  <2> QED BY <2>1, <2>2, <2>3, <2>4
<1>5. Fenced(p) /\ EpochsCounted(p)
  BY DEF Fences, Fenced
<1>6. peers[p].epoch < MaxEpoch
  BY <1>3, <1>4, <1>5 DEF EpochsCounted
<1>7. \/ peers'[p].epoch = peers[p].epoch + 1 /\ history'.lifted[p] = history.lifted[p] + 1
      \/ peers'[p].epoch = peers[p].epoch /\ history'.lifted[p] = history.lifted[p]
  BY <1>2, <1>4, <1>6 DEF NextEpoch
<1> HIDE DEF lifts
<1>8. Fenced(p)'
  <2>1. EpochsCounted(p)'
    BY <1>1, <1>3, <1>4, <1>5, <1>7 DEF EpochsCounted
  <2>2. ASSUME NEW i \in DOMAIN net[p]
        PROVE  Behind(p, net[p][i])'
    <3>1. Behind(p, net[p][i])
      BY <1>5 DEF Fenced
    <3>2. /\ net[p][i].stamp.lifted \in Nat
          /\ net[p][i].epoch \in Nat
      BY InFlight, Bounds DEF Datagram
    <3> QED BY <1>1, <1>2, <1>3, <1>4, <1>7, <3>1, <3>2 DEF Behind
  <2> QED BY <1>1, <2>1, <2>2 DEF Fenced
<1>9. ASSUME NEW q \in PeerId, q # p
      PROVE  Fenced(q)'
  <2>1. Fenced(q)
    BY DEF Fences
  <2>2. EpochsCounted(q)'
    BY <1>1, <1>2, <1>4, <1>9, <2>1 DEF Fenced, EpochsCounted
  <2>3. \A i \in DOMAIN net[q] : Behind(q, net[q][i])'
    BY <1>1, <1>2, <1>4, <1>9, <2>1 DEF Fenced, Behind
  <2> QED BY <1>1, <2>1, <2>2, <2>3 DEF Fenced
<1> QED BY <1>8, <1>9 DEF Fences

LEMMA NextFences ==
  ASSUME MaxResets < MaxEpoch, ~Persistent \/ MaxRestarts = 0
  PROVE  RelayInv /\ Fences /\ [RelayNext]_allVars => Fences'
<1> SUFFICES ASSUME RelayInv, Fences, [RelayNext]_allVars PROVE Fences'
  OBVIOUS
<1>0. Typed
  BY DEF RelayInv
<1>1. ASSUME UNCHANGED <<net, client, history>>, SameEpochs
      PROVE  Fences'
  BY <1>1, FencesStay DEF NoneNew
<1>2. CASE UNCHANGED allVars
  BY <1>1, <1>2 DEF allVars, relayVars, vars, peerVars, SameEpochs
<1>3. CASE RouterStep
  BY <1>0, <1>1, <1>3, RouterStepKeepsEpochs DEF RouterStep, relayVars
<1>4. CASE MembershipStep
  <2>1. ASSUME NEW r \in RoomId, ApiDeleteRoom(r)
        PROVE  Fences'
    <3>1. UNCHANGED <<net, client, history, peers>>
      BY <2>1 DEF ApiDeleteRoom, RemoveEmptyRoom, peerVars
    <3> QED BY <1>1, <3>1 DEF SameEpochs
  <2>2. ASSUME NEW r \in RoomId, NEW p \in PeerId, ApiLeave(r, p)
        PROVE  Fences'
    <3>1. UNCHANGED <<net, client, history>> /\ peers' = Without(peers, {p})
      BY <2>2 DEF ApiLeave, LeaveRoom
    <3>2. \A x \in DOMAIN peers' : x \in DOMAIN peers /\ peers'[x] = peers[x]
      BY <3>1 DEF Without, Restrict
    <3> QED BY <1>1, <3>1, <3>2 DEF SameEpochs
  <2>3. ASSUME NEW r \in RoomId, NEW p \in PeerId, ApiResume(r, p)
        PROVE  Fences'
    BY <1>0, <2>3, ResumeKeepsFences
  <2>4. ASSUME NEW r \in RoomId, NEW p \in PeerId, NEW ip \in VirtualIp, ApiJoin(r, p, ip)
        PROVE  Fences'
    BY <1>0, <2>4, JoinKeepsFences
  <2> QED BY <1>4, <2>1, <2>2, <2>3, <2>4 DEF MembershipStep
<1>5. CASE ClientStep
  <2>1. FALSE \in BOOLEAN /\ Legacy \in BOOLEAN
    BY NetworkAssumption
  <2> QED BY <1>0, <1>5, <2>1, SendKeepsFences DEF ClientStep
<1>6. ASSUME NEW p \in PeerId, NEW i, AnswerProbe(p, i) \/ DropDuplicate(p, i)
      PROVE  Fences'
  <2>1. UNCHANGED <<client, history>> /\ NoneNew
    BY <1>0, <1>6, TakeFacts DEF AnswerProbe, DropDuplicate, Drops, Arrives
  <2>2. SameEpochs
    BY <1>0, <1>6, TouchKeepsEpochs DEF AnswerProbe, DropDuplicate
  <2> QED BY <2>1, <2>2, FencesStay
<1>7. ASSUME NEW p \in PeerId, NEW i, Accept(p, i)
      PROVE  Fences'
  <2>1. UNCHANGED client /\ NoneNew
    BY <1>0, <1>7, TakeFacts DEF Accept, Accepts, Arrives
  <2>2. history'.rejoined = history.rejoined /\ history'.lifted = history.lifted
    BY <1>0, <1>7 DEF Accept, Typed, OwnTypes, History
  <2>3. SameEpochs
    BY <1>0, <1>7, TouchKeepsEpochs DEF Accept
  <2> QED BY <2>1, <2>2, <2>3, FencesStay
<1>8. ASSUME NEW p \in PeerId, NEW i, Lose(p, i)
      PROVE  Fences'
  <2>1. UNCHANGED <<client, history>> /\ NoneNew
    BY <1>0, <1>8, RemoveFacts DEF Lose
  <2>2. SameEpochs
    BY <1>8 DEF Lose, vars, peerVars, SameEpochs
  <2> QED BY <2>1, <2>2, FencesStay
<1>9. CASE Restart
  <2>1. history.restarts < MaxRestarts /\ history.restarts \in Nat
    BY <1>0, <1>9, Bounds DEF Restart, Typed, OwnTypes, History
  <2>2. ~Persistent
    BY <2>1
  <2>3. Restore(NoTables, NoTables)
    BY <1>9, <2>2 DEF Restart
  <2>4. SameEpochs
    BY <2>3 DEF Restore, NoTables, SameEpochs
  <2>5. /\ UNCHANGED <<client, net>>
        /\ history'.rejoined = history.rejoined /\ history'.lifted = history.lifted
    BY <1>0, <1>9 DEF Restart, Typed, OwnTypes, History
  <2> QED BY <2>4, <2>5, FencesStay DEF NoneNew
<1> QED BY <1>2, <1>3, <1>4, <1>5, <1>6, <1>7, <1>8, <1>9 DEF RelayNext, NetworkStep

LEMMA FencesHold ==
  ASSUME MaxResets < MaxEpoch, ~Persistent \/ MaxRestarts = 0
  PROVE  RelaySpec => [](RelayInv /\ Fences)
<1>1. RelayInit => Fences
  BY DEF RelayInit, Init, Fences, Fenced, EpochsCounted, NoTables
<1>2. RelayInv /\ Fences /\ [RelayNext]_allVars => Fences'
  BY NextFences
<1> QED BY <1>1, <1>2, RelayInvHolds, PTL DEF RelaySpec

(* connection_epoch: what a client sent before its peer was suspended and   *)
(* resumed is refused for ever (as long as the client has not joined again),*)
(* whatever the network still holds.  The epoch must not have reached its   *)
(* limit, where resuming no longer changes it, and no restart may have put  *)
(* it back to 1.                                                            *)
THEOREM SuspensionFences ==
  ASSUME MaxResets < MaxEpoch, ~Persistent \/ MaxRestarts = 0
  PROVE  RelaySpec => []ReconnectFences
<1>1. RelayInv /\ Fences => ReconnectFences
  <2> SUFFICES ASSUME RelayInv, Fences, NEW p \in PeerId, NEW i \in DOMAIN net[p],
                      Accepts(p, i), net[p][i].epoch # 0,
                      net[p][i].stamp.rejoined = history.rejoined[p]
               PROVE  net[p][i].stamp.lifted = history.lifted[p]
    BY DEF ReconnectFences
  <2> DEFINE d == net[p][i]
  <2>1. Sender(d) = p /\ p \in DOMAIN peers
    BY SenderIsKeyOwner DEF Accepts
  <2>2. d.epoch = peers[p].epoch
    BY <2>1 DEF Accepts, Admitted, Sender
  <2>3. Behind(p, d)
    BY DEF Fences, Fenced
  <2>4. /\ d.epoch \in Nat /\ d.stamp.lifted \in Nat
        /\ history.lifted[p] \in Nat
    <3>1. Typed /\ d \in Datagram
      BY InFlight DEF RelayInv
    <3> QED BY <3>1, Bounds DEF Datagram, Typed, OwnTypes, History
  <2> QED BY <2>1, <2>2, <2>3, <2>4 DEF Behind
<1> QED BY <1>1, FencesHold, PTL

-----------------------------------------------------------------------------
(* Replays.  Every envelope counts, in the order it was numbered; the mark  *)
(* of a peer is the number of an accepted envelope, and no lower than that  *)
(* of any other accepted one.                                               *)
StampsCounted(p) ==
  /\ \A i \in DOMAIN net[p] : net[p][i].stamp.n <= history.sent[p]
  /\ \A n \in history.accepted[p] : n <= history.sent[p]
  /\ \A i, j \in DOMAIN net[p] : net[p][i].stamp.n = net[p][j].stamp.n =>
                                   net[p][i].sequence = net[p][j].sequence

InOrder(p) ==
  \A i, j \in DOMAIN net[p] :
    net[p][i].sequence # 0 /\ net[p][i].sequence < net[p][j].sequence =>
      net[p][i].stamp.n < net[p][j].stamp.n

Overtakes(p) ==
  p \in DOMAIN last_sequence =>
    \E n \in history.accepted[p] : \A i \in DOMAIN net[p] :
      net[p][i].sequence # 0 /\ net[p][i].sequence < last_sequence[p] => net[p][i].stamp.n < n

Remembers(p) ==
  p \in DOMAIN peers => \A i \in DOMAIN net[p] :
    net[p][i].sequence # 0 /\ net[p][i].stamp.n \in history.accepted[p] =>
      p \in DOMAIN last_sequence /\ net[p][i].sequence <= last_sequence[p]

Marked(p) == InOrder(p) /\ Overtakes(p) /\ Remembers(p)

Marks ==
  \A p \in PeerId : StampsCounted(p) /\ (history.resets[p] = 0 => Marked(p))

(* What is said of p is about its own entries only.                         *)
LEMMA MarkedStays ==
  ASSUME NEW p \in PeerId, Marked(p),
         \A j \in DOMAIN net'[p] : \E k \in DOMAIN net[p] : net'[p][j] = net[p][k],
         history'.accepted[p] = history.accepted[p],
         p \in DOMAIN last_sequence' <=> p \in DOMAIN last_sequence,
         p \in DOMAIN last_sequence => last_sequence'[p] = last_sequence[p],
         p \in DOMAIN peers' => p \in DOMAIN peers
  PROVE  Marked(p)'
<1>1. InOrder(p)'
  BY DEF Marked, InOrder
<1>2. Overtakes(p)'
  BY DEF Marked, Overtakes
<1>3. Remembers(p)'
  BY DEF Marked, Remembers
<1> QED BY <1>1, <1>2, <1>3 DEF Marked

LEMMA StampsStay ==
  ASSUME NEW p \in PeerId, StampsCounted(p),
         \A j \in DOMAIN net'[p] : \E k \in DOMAIN net[p] : net'[p][j] = net[p][k],
         \A n \in history'.accepted[p] : n <= history.sent[p],
         history'.sent[p] = history.sent[p]
  PROVE  StampsCounted(p)'
  BY DEF StampsCounted

LEMMA MarksStay ==
  ASSUME Marks, NoneNew, DOMAIN peers' \subseteq DOMAIN peers, UNCHANGED last_sequence,
         history'.sent = history.sent, history'.accepted = history.accepted,
         history'.resets = history.resets
  PROVE  Marks'
<1> SUFFICES ASSUME NEW p \in PeerId
             PROVE  StampsCounted(p)' /\ (history'.resets[p] = 0 => Marked(p)')
  BY DEF Marks
<1>1. \A j \in DOMAIN net'[p] : \E k \in DOMAIN net[p] : net'[p][j] = net[p][k]
  BY DEF NoneNew
<1>2. StampsCounted(p) /\ (history.resets[p] = 0 => Marked(p))
  BY DEF Marks
<1>3. StampsCounted(p)'
  <2>1. \A n \in history'.accepted[p] : n <= history.sent[p]
    BY <1>2 DEF StampsCounted
  <2> QED BY <1>1, <1>2, <2>1, StampsStay
<1> QED BY <1>1, <1>2, <1>3, MarkedStays

(* A tracker with room for every peer forgets nothing.                      *)
LEMMA RecordKeeps ==
  ASSUME IsFiniteSet(PeerId), Cardinality(PeerId) <= MaxTrackers,
         Typed, NEW q \in PeerId, NEW n \in 0..MaxSent, last_sequence' = RecordSequence(q, n)
  PROVE  /\ DOMAIN last_sequence' = IF n = 0 THEN DOMAIN last_sequence
                                    ELSE DOMAIN last_sequence \cup {q}
         /\ \A x \in DOMAIN last_sequence : x # q => last_sequence'[x] = last_sequence[x]
         /\ q \in DOMAIN last_sequence =>
              \/ last_sequence'[q] = last_sequence[q] /\ n <= last_sequence[q]
              \/ last_sequence'[q] = n /\ last_sequence[q] <= n /\ n # 0
         /\ q \notin DOMAIN last_sequence /\ n # 0 => last_sequence'[q] = n
<1>1. /\ DOMAIN last_sequence \subseteq PeerId
      /\ \A x \in DOMAIN last_sequence : last_sequence[x] \in Nat /\ last_sequence[x] # 0
      /\ n \in Nat
  BY Bounds DEF Typed, OwnTypes, IsTable
<1>2. CASE n = 0
  BY <1>1, <1>2 DEF RecordSequence
<1>3. CASE n # 0 /\ q \in DOMAIN last_sequence
  <2>1. last_sequence' = [last_sequence EXCEPT ![q] = IF n > @ THEN n ELSE @]
    BY <1>3 DEF RecordSequence
  <2> QED BY <1>1, <1>3, <2>1
<1>4. CASE n # 0 /\ q \notin DOMAIN last_sequence
  <2>1. Cardinality(DOMAIN last_sequence) < MaxTrackers
    <3>1. IsFiniteSet(DOMAIN last_sequence)
      BY <1>1, FS_Subset
    <3>2. /\ IsFiniteSet(DOMAIN last_sequence \cup {q})
          /\ Cardinality(DOMAIN last_sequence \cup {q}) = Cardinality(DOMAIN last_sequence) + 1
      BY <1>4, <3>1, FS_AddElement
    <3>3. Cardinality(DOMAIN last_sequence \cup {q}) <= Cardinality(PeerId)
      BY <1>1, FS_Subset
    <3>4. /\ Cardinality(DOMAIN last_sequence) \in Nat
          /\ Cardinality(PeerId) \in Nat /\ MaxTrackers \in Nat
      BY <3>1, FS_CardinalityType, NetworkAssumption
    <3> QED BY <3>2, <3>3, <3>4
  <2>2. ~(Cardinality(DOMAIN last_sequence) >= MaxTrackers)
    <3>1. Cardinality(DOMAIN last_sequence) \in Nat /\ MaxTrackers \in Nat
      BY <1>1, FS_Subset, FS_CardinalityType, NetworkAssumption
    <3> QED BY <2>1, <3>1
  <2>3. last_sequence' = Put(last_sequence, q, n)
    BY <1>4, <2>2 DEF RecordSequence
  <2>4. /\ DOMAIN last_sequence' = DOMAIN last_sequence \cup {q}
        /\ last_sequence'[q] = n
        /\ \A x \in DOMAIN last_sequence : x # q => last_sequence'[x] = last_sequence[x]
    BY <1>4, <2>3 DEF Put
  <2> QED BY <1>4, <2>4
<1> QED BY <1>2, <1>3, <1>4

LEMMA SendKeepsMarks ==
  ASSUME Typed, Numbering, Marks, NEW p \in PeerId, NEW m \in Messages, NEW legacy \in BOOLEAN,
         Send(p, m, legacy)
  PROVE  Marks'
<1> DEFINE d == Sent(p, m, legacy)
<1>1. /\ d.sequence \in {0, client[p].sequence + 1}
      /\ d.stamp.n = history.sent[p] + 1
  BY DEF Sent
<1> HIDE DEF d
<1>2. /\ p \in DOMAIN client
      /\ history'.accepted = history.accepted /\ history'.resets = history.resets
      /\ history'.sent[p] = history.sent[p] + 1
      /\ \A x \in PeerId : x # p => history'.sent[x] = history.sent[x]
      /\ \A q \in PeerId : \A j \in DOMAIN net'[q] :
           \/ \E k \in DOMAIN net[q] : net'[q][j] = net[q][k]
           \/ q = p /\ net'[q][j] = d
      /\ UNCHANGED <<peers, last_sequence>>
  <2>1. UNCHANGED <<peers, last_sequence>>
    BY DEF Send, vars, peerVars
  <2>2. /\ p \in DOMAIN client
        /\ history'.accepted = history.accepted /\ history'.resets = history.resets
        /\ history'.sent[p] = history.sent[p] + 1
        /\ \A x \in PeerId : x # p => history'.sent[x] = history.sent[x]
    BY SendFacts
  <2>3. \A q \in PeerId : \A j \in DOMAIN net'[q] :
          \/ \E k \in DOMAIN net[q] : net'[q][j] = net[q][k]
          \/ q = p /\ net'[q][j] = d
    BY SendFacts DEF d
  <2> QED BY <2>1, <2>2, <2>3
<1>3. ASSUME NEW q \in PeerId, q # p
      PROVE  StampsCounted(q)' /\ (history'.resets[q] = 0 => Marked(q)')
  <2>1. StampsCounted(q) /\ (history.resets[q] = 0 => Marked(q))
    BY DEF Marks
  <2>2. \A j \in DOMAIN net'[q] : \E k \in DOMAIN net[q] : net'[q][j] = net[q][k]
    BY <1>2, <1>3
  <2>3. StampsCounted(q)'
    <3>1. \A n \in history'.accepted[q] : n <= history.sent[q]
      BY <1>2, <2>1 DEF StampsCounted
    <3> QED BY <1>2, <1>3, <2>1, <2>2, <3>1, StampsStay
  <2> QED BY <1>2, <2>1, <2>2, <2>3, MarkedStays
<1>4. /\ client[p].sequence \in Nat /\ history.sent[p] \in Nat
      /\ \A i \in DOMAIN net[p] : net[p][i].sequence \in Nat /\ net[p][i].stamp.n \in Nat
      /\ \A n \in history.accepted[p] : n \in Nat
  <2>1. client[p].sequence \in Nat
    BY <1>2, Bounds DEF Typed, OwnTypes, IsTable, ClientType
  <2>2. history.sent[p] \in Nat /\ \A n \in history.accepted[p] : n \in Nat
    BY Bounds DEF Typed, OwnTypes, History
  <2>3. \A i \in DOMAIN net[p] : net[p][i].sequence \in Nat /\ net[p][i].stamp.n \in Nat
    BY InFlight, Bounds DEF Datagram
  <2> QED BY <2>1, <2>2, <2>3
<1>5. StampsCounted(p) /\ (history.resets[p] = 0 => Marked(p))
  BY DEF Marks
<1>6. \A i \in DOMAIN net[p] : \A x : x = net[p][i] => x.stamp.n < d.stamp.n
  BY <1>1, <1>4, <1>5 DEF StampsCounted
<1>7. StampsCounted(p)'
  <2>1. \A j \in DOMAIN net'[p] : net'[p][j].stamp.n <= history'.sent[p]
    BY <1>1, <1>2, <1>4, <1>5 DEF StampsCounted
  <2>2. \A n \in history'.accepted[p] : n <= history'.sent[p]
    BY <1>2, <1>4, <1>5 DEF StampsCounted
  <2>3. ASSUME NEW i \in DOMAIN net'[p], NEW j \in DOMAIN net'[p],
               net'[p][i].stamp.n = net'[p][j].stamp.n
        PROVE  net'[p][i].sequence = net'[p][j].sequence
    <3>1. CASE net'[p][i] = d /\ net'[p][j] = d
      BY <3>1
    <3>2. CASE net'[p][i] = d /\ \E k \in DOMAIN net[p] : net'[p][j] = net[p][k]
      BY <1>1, <1>4, <1>6, <2>3, <3>2
    <3>3. CASE net'[p][j] = d /\ \E k \in DOMAIN net[p] : net'[p][i] = net[p][k]
      BY <1>1, <1>4, <1>6, <2>3, <3>3
    <3>4. CASE \E k, l \in DOMAIN net[p] : net'[p][i] = net[p][k] /\ net'[p][j] = net[p][l]
      BY <1>5, <2>3, <3>4 DEF StampsCounted
    <3> QED BY <1>2, <3>1, <3>2, <3>3, <3>4
  <2> QED BY <2>1, <2>2, <2>3 DEF StampsCounted
<1>8. ASSUME history.resets[p] = 0
      PROVE  Marked(p)'
  <2>1. Marked(p) /\ NumbersNameEnvelopes(p) /\ MarkWasAccepted(p)
    BY <1>2, <1>5, <1>8 DEF Numbering
  <2>2. \A i \in DOMAIN net[p] : \A x : x = net[p][i] => ~(d.sequence # 0 /\ d.sequence < x.sequence)
    BY <1>1, <1>4, <2>1 DEF NumbersNameEnvelopes
  <2>3. InOrder(p)'
    <3> SUFFICES ASSUME NEW i \in DOMAIN net'[p], NEW j \in DOMAIN net'[p],
                        net'[p][i].sequence # 0, net'[p][i].sequence < net'[p][j].sequence
                 PROVE  net'[p][i].stamp.n < net'[p][j].stamp.n
      BY DEF InOrder
    <3>1. CASE net'[p][i] = d /\ net'[p][j] = d
      BY <1>1, <1>4, <3>1
    <3>2. CASE net'[p][i] = d /\ \E k \in DOMAIN net[p] : net'[p][j] = net[p][k]
      BY <2>2, <3>2
    <3>3. CASE net'[p][j] = d /\ \E k \in DOMAIN net[p] : net'[p][i] = net[p][k]
      BY <1>6, <3>3
    <3>4. CASE \E k, l \in DOMAIN net[p] : net'[p][i] = net[p][k] /\ net'[p][j] = net[p][l]
      BY <2>1, <3>4 DEF Marked, InOrder
    <3> QED BY <1>2, <3>1, <3>2, <3>3, <3>4
  <2>4. Overtakes(p)'
    <3> SUFFICES ASSUME p \in DOMAIN last_sequence
                 PROVE  \E n \in history.accepted[p] : \A i \in DOMAIN net'[p] :
                          net'[p][i].sequence # 0 /\ net'[p][i].sequence < last_sequence[p] =>
                            net'[p][i].stamp.n < n
      BY <1>2 DEF Overtakes
    <3>1. PICK n \in history.accepted[p] : \A i \in DOMAIN net[p] : \A x : x = net[p][i] =>
            (x.sequence # 0 /\ x.sequence < last_sequence[p] => x.stamp.n < n)
      BY <2>1 DEF Marked, Overtakes
    <3>2. last_sequence[p] \in Nat /\ last_sequence[p] <= client[p].sequence
      BY <2>1, Bounds DEF MarkWasAccepted, Typed, OwnTypes, IsTable
    <3>3. ~(d.sequence # 0 /\ d.sequence < last_sequence[p])
      BY <1>1, <1>4, <3>2
    <3> QED BY <1>2, <3>1, <3>3
  <2>5. Remembers(p)'
    <3>1. d.stamp.n \notin history.accepted[p]
      BY <1>1, <1>4, <1>5 DEF StampsCounted
    <3>2. p \in DOMAIN peers => \A i \in DOMAIN net[p] : \A x : x = net[p][i] =>
            (x.sequence # 0 /\ x.stamp.n \in history.accepted[p] =>
               p \in DOMAIN last_sequence /\ x.sequence <= last_sequence[p])
      BY <2>1 DEF Marked, Remembers
    <3> QED BY <1>2, <3>1, <3>2 DEF Remembers
  <2> QED BY <2>3, <2>4, <2>5 DEF Marked
<1> QED BY <1>2, <1>3, <1>7, <1>8 DEF Marks

(* An accepted envelope becomes the mark of its sender, or is below it.     *)
LEMMA AcceptKeepsMarks ==
  ASSUME IsFiniteSet(PeerId), Cardinality(PeerId) <= MaxTrackers,
         RelayInv, Numbering, Marks, NEW p \in PeerId, NEW i \in DOMAIN net[p], Accept(p, i)
  PROVE  Marks'
<1> DEFINE d == net[p][i]
<1>0. Typed
  BY DEF RelayInv
<1>1. Sender(d) = p
  BY SenderIsKeyOwner DEF Accept, Accepts
<1>2. /\ last_sequence' = RecordSequence(p, d.sequence)
      /\ history' = [history EXCEPT !.accepted[p] = @ \cup {d.stamp.n}]
      /\ DOMAIN peers' = DOMAIN peers
  BY <1>0, <1>1, TouchFacts DEF Accept, Typed
<1>3. \A x \in PeerId : \A j \in DOMAIN net'[x] : \E k \in DOMAIN net[x] : net'[x][j] = net[x][k]
  BY <1>0, TakeFacts DEF Accept, NoneNew
<1>4. /\ history'.resets = history.resets /\ history'.sent = history.sent
      /\ history'.accepted[p] = history.accepted[p] \cup {d.stamp.n}
      /\ \A x \in PeerId : x # p => history'.accepted[x] = history.accepted[x]
  BY <1>0, <1>2 DEF Typed, OwnTypes, History
<1>5. d.sequence \in 0..MaxSent /\ d.sequence \in Nat
  BY <1>0, InFlight, Bounds DEF Datagram
<1>6. /\ DOMAIN last_sequence' = IF d.sequence = 0 THEN DOMAIN last_sequence
                                 ELSE DOMAIN last_sequence \cup {p}
      /\ \A x \in DOMAIN last_sequence : x # p => last_sequence'[x] = last_sequence[x]
      /\ p \in DOMAIN last_sequence =>
           \/ last_sequence'[p] = last_sequence[p] /\ d.sequence <= last_sequence[p]
           \/ last_sequence'[p] = d.sequence /\ last_sequence[p] <= d.sequence /\ d.sequence # 0
      /\ p \notin DOMAIN last_sequence /\ d.sequence # 0 => last_sequence'[p] = d.sequence
  BY <1>0, <1>2, <1>5, RecordKeeps
<1>7. ASSUME NEW x \in PeerId
      PROVE  StampsCounted(x)'
  <2>1. StampsCounted(x) /\ StampsCounted(p)
    BY DEF Marks
  <2>2. \A n \in history'.accepted[x] : n <= history.sent[x]
    BY <1>4, <2>1 DEF StampsCounted
  <2> QED BY <1>3, <1>4, <2>1, <2>2, StampsStay
<1>8. ASSUME NEW x \in PeerId, x # p, history.resets[x] = 0
      PROVE  Marked(x)'
  <2>1. Marked(x)
    BY <1>8 DEF Marks
  <2> QED BY <1>2, <1>3, <1>4, <1>6, <1>8, <2>1, MarkedStays
<1>9. ASSUME history.resets[p] = 0
      PROVE  Marked(p)'
  <2>1. Marked(p) /\ StampsCounted(p)
    BY <1>9 DEF Marks
  <2>2. InOrder(p)'
    BY <1>3, <2>1 DEF Marked, InOrder
  <2>3. Overtakes(p)'
    <3> SUFFICES ASSUME p \in DOMAIN last_sequence'
                 PROVE  \E n \in history'.accepted[p] : \A k \in DOMAIN net[p] :
                          net[p][k].sequence # 0 /\ net[p][k].sequence < last_sequence'[p] =>
                            net[p][k].stamp.n < n
      BY <1>3 DEF Overtakes
    <3>1. CASE p \in DOMAIN last_sequence /\ last_sequence'[p] = last_sequence[p]
      BY <1>4, <2>1, <3>1 DEF Marked, Overtakes
    <3>2. CASE last_sequence'[p] = d.sequence
      BY <1>4, <2>1, <3>2 DEF Marked, InOrder
    <3> QED BY <1>6, <3>1, <3>2
  <2>4. Remembers(p)'
    <3> SUFFICES ASSUME p \in DOMAIN peers, NEW k \in DOMAIN net[p],
                        net[p][k].sequence # 0, net[p][k].stamp.n \in history'.accepted[p]
                 PROVE  /\ p \in DOMAIN last_sequence'
                        /\ net[p][k].sequence <= last_sequence'[p]
      BY <1>2, <1>3 DEF Remembers
    <3>1. net[p][k].sequence \in Nat
      BY <1>0, InFlight, Bounds DEF Datagram
    <3>2. p \in DOMAIN last_sequence => last_sequence[p] \in Nat
      BY <1>0, Bounds DEF Typed, OwnTypes, IsTable
    <3>3. CASE net[p][k].stamp.n \in history.accepted[p]
      BY <1>5, <1>6, <2>1, <3>1, <3>2, <3>3 DEF Marked, Remembers
    <3>4. CASE net[p][k].stamp.n = d.stamp.n
      <4>1. net[p][k].sequence = d.sequence
        BY <2>1, <3>4 DEF StampsCounted
      <4> QED BY <1>5, <1>6, <3>2, <4>1
    <3> QED BY <1>4, <3>3, <3>4
  <2> QED BY <2>2, <2>3, <2>4 DEF Marked
<1> QED BY <1>4, <1>7, <1>8, <1>9 DEF Marks

(* A client that joins for the first time has sent nothing yet; one that    *)
(* numbers from 1 again is left out of account.                             *)
LEMMA RenumberingKeepsMarks ==
  ASSUME Numbering, Marks, NEW p \in PeerId, UNCHANGED <<net, last_sequence>>,
         history'.sent = history.sent, history'.accepted = history.accepted,
         \A x \in PeerId : x # p => history'.resets[x] = history.resets[x],
         history'.resets[p] # 0 \/ (p \notin DOMAIN client /\ history.resets[p] = 0),
         \A x \in DOMAIN peers' : x # p => x \in DOMAIN peers
  PROVE  Marks'
<1> SUFFICES ASSUME NEW x \in PeerId
             PROVE  StampsCounted(x)' /\ (history'.resets[x] = 0 => Marked(x)')
  BY DEF Marks
<1>1. StampsCounted(x) /\ (history.resets[x] = 0 => Marked(x))
  BY DEF Marks
<1>2. StampsCounted(x)'
  BY <1>1 DEF StampsCounted
<1>3. CASE x # p
  BY <1>1, <1>2, <1>3, MarkedStays
<1>4. CASE x = p
  <2>1. ASSUME history'.resets[p] = 0
        PROVE  DOMAIN net[p] = {} /\ p \notin DOMAIN last_sequence
    BY <2>1 DEF Numbering
  <2> QED BY <1>2, <1>4, <2>1 DEF Marked, InOrder, Overtakes, Remembers
<1> QED BY <1>3, <1>4

LEMMA MembershipKeepsMarks ==
  ASSUME Typed, Numbering, Marks, MembershipStep
  PROVE  Marks'
<1>1. ASSUME UNCHANGED <<net, last_sequence, history>>, DOMAIN peers' \subseteq DOMAIN peers
      PROVE  Marks'
  BY <1>1, MarksStay DEF NoneNew
<1>2. ASSUME NEW r \in RoomId, ApiDeleteRoom(r)
      PROVE  Marks'
  <2>1. UNCHANGED <<net, last_sequence, history, peers>>
    BY <1>2 DEF ApiDeleteRoom, RemoveEmptyRoom, peerVars
  <2> QED BY <1>1, <2>1
<1>3. ASSUME NEW r \in RoomId, NEW p \in PeerId, ApiLeave(r, p)
      PROVE  Marks'
  <2>1. UNCHANGED <<net, last_sequence, history>> /\ peers' = Without(peers, {p})
    BY <1>3 DEF ApiLeave, LeaveRoom
  <2>2. DOMAIN peers' \subseteq DOMAIN peers
    BY <2>1 DEF Without, Restrict
  <2> QED BY <1>1, <2>1, <2>2
<1>4. ASSUME NEW r \in RoomId, NEW p \in PeerId, ApiResume(r, p)
      PROVE  Marks'
  <2>1. UNCHANGED <<net, last_sequence>> /\ DOMAIN peers' = DOMAIN peers
    BY <1>4 DEF ApiResume, ResumePeer
  <2>2. \/ \E x : history' = [history EXCEPT !.resets[p] = @ + 1, !.resumed[p] = @ + 1,
                                             !.lifted[p] = x]
        \/ \E x : history' = [history EXCEPT !.resumed[p] = @ + 1, !.lifted[p] = x]
    BY <1>4 DEF ApiResume
  <2>3. CASE \E x : history' = [history EXCEPT !.resets[p] = @ + 1, !.resumed[p] = @ + 1,
                                               !.lifted[p] = x]
    <3>1. /\ history'.sent = history.sent /\ history'.accepted = history.accepted
          /\ history'.resets = [history.resets EXCEPT ![p] = @ + 1]
      BY <2>3 DEF Typed, OwnTypes, History
    <3>2. history.resets \in [PeerId -> Nat]
      BY Bounds DEF Typed, OwnTypes, History
    <3> QED BY <2>1, <3>1, <3>2, RenumberingKeepsMarks
  <2>4. CASE \E x : history' = [history EXCEPT !.resumed[p] = @ + 1, !.lifted[p] = x]
    <3>1. /\ history'.sent = history.sent /\ history'.accepted = history.accepted
          /\ history'.resets = history.resets
      BY <2>4 DEF Typed, OwnTypes, History
    <3> QED BY <2>1, <3>1, MarksStay DEF NoneNew
  <2> QED BY <2>2, <2>3, <2>4
<1>5. ASSUME NEW r \in RoomId, NEW p \in PeerId, NEW ip \in VirtualIp, ApiJoin(r, p, ip)
      PROVE  Marks'
  <2>1. UNCHANGED <<net, last_sequence>> /\ DOMAIN peers' = DOMAIN peers \cup {p}
    BY <1>5 DEF ApiJoin, JoinRoom, Put
  <2>2. CASE p \notin DOMAIN client
    <3>1. UNCHANGED history
      BY <1>5, <2>2 DEF ApiJoin
    <3> QED BY <2>1, <2>2, <3>1, RenumberingKeepsMarks
  <2>3. CASE p \in DOMAIN client
    <3>1. history' = [history EXCEPT !.resets[p] = @ + 1, !.rejoined[p] = @ + 1]
      BY <1>5, <2>3 DEF ApiJoin
    <3>2. /\ history'.sent = history.sent /\ history'.accepted = history.accepted
          /\ history'.resets = [history.resets EXCEPT ![p] = @ + 1]
      BY <3>1 DEF Typed, OwnTypes, History
    <3>3. history.resets \in [PeerId -> Nat]
      BY Bounds DEF Typed, OwnTypes, History
    <3> QED BY <2>1, <3>2, <3>3, RenumberingKeepsMarks
  <2> QED BY <2>2, <2>3
<1> QED BY <1>2, <1>3, <1>4, <1>5 DEF MembershipStep

(* Without a database nobody is a member after a restart: no envelope is    *)
(* accepted from a peer whose mark went with the process.                   *)
LEMMA RestartKeepsMarks ==
  ASSUME ~Persistent \/ MaxRestarts = 0, Typed, Marks, Restart
  PROVE  Marks'
<1>1. history.restarts < MaxRestarts /\ history.restarts \in Nat
  BY Bounds DEF Restart, Typed, OwnTypes, History
<1>2. Restore(NoTables, NoTables)
  BY <1>1 DEF Restart
<1>3. DOMAIN peers' = {} /\ DOMAIN last_sequence' = {} /\ UNCHANGED net
  BY <1>2 DEF Restart, Restore, NoTables
<1>4. /\ history'.sent = history.sent /\ history'.accepted = history.accepted
      /\ history'.resets = history.resets
  BY DEF Restart, Typed, OwnTypes, History
<1> QED BY <1>3, <1>4 DEF Marks, StampsCounted, Marked, InOrder, Overtakes, Remembers

LEMMA NextMarks ==
  ASSUME IsFiniteSet(PeerId), Cardinality(PeerId) <= MaxTrackers,
         ~Persistent \/ MaxRestarts = 0
  PROVE  RelayInv /\ Numbering /\ Marks /\ [RelayNext]_allVars => Marks'
<1> SUFFICES ASSUME RelayInv, Numbering, Marks, [RelayNext]_allVars PROVE Marks'
  OBVIOUS
<1>0. Typed
  BY DEF RelayInv
<1>1. CASE UNCHANGED allVars
  BY <1>1, MarksStay DEF allVars, relayVars, vars, peerVars, NoneNew
<1>2. CASE RouterStep
  <2>1. DOMAIN peers' \subseteq DOMAIN peers
    BY <1>0, <1>2, RouterStepKeepsEpochs DEF SameEpochs
  <2> QED BY <1>2, <2>1, MarksStay DEF RouterStep, relayVars, NoneNew
<1>3. CASE MembershipStep
  BY <1>0, <1>3, MembershipKeepsMarks
<1>4. CASE ClientStep
  <2>1. FALSE \in BOOLEAN /\ Legacy \in BOOLEAN
    BY NetworkAssumption
  <2> QED BY <1>0, <1>4, <2>1, SendKeepsMarks DEF ClientStep
<1>5. ASSUME NEW p \in PeerId, NEW i, AnswerProbe(p, i) \/ DropDuplicate(p, i)
      PROVE  Marks'
  <2>1. UNCHANGED <<last_sequence, history>> /\ NoneNew
    BY <1>0, <1>5, TakeFacts DEF AnswerProbe, DropDuplicate, Drops, Arrives
  <2>2. DOMAIN peers' \subseteq DOMAIN peers
    BY <1>0, <1>5, TouchKeepsEpochs DEF AnswerProbe, DropDuplicate, SameEpochs
  <2> QED BY <2>1, <2>2, MarksStay
<1>6. ASSUME NEW p \in PeerId, NEW i, Accept(p, i)
      PROVE  Marks'
  <2>1. i \in DOMAIN net[p]
    BY <1>6 DEF Accept, Accepts, Arrives
  <2> QED BY <1>6, <2>1, AcceptKeepsMarks
<1>7. ASSUME NEW p \in PeerId, NEW i, Lose(p, i)
      PROVE  Marks'
  <2>1. UNCHANGED <<last_sequence, history, peers>> /\ NoneNew
    BY <1>0, <1>7, RemoveFacts DEF Lose, vars, peerVars
  <2> QED BY <2>1, MarksStay
<1>8. CASE Restart
  BY <1>0, <1>8, RestartKeepsMarks
<1> QED BY <1>1, <1>2, <1>3, <1>4, <1>5, <1>6, <1>7, <1>8 DEF RelayNext, NetworkStep

(* record_sequence: a numbered envelope of a client that has not restarted  *)
(* its numbering is accepted twice only if a later one was accepted in      *)
(* between.  The tracker must have room for every peer (a full one is       *)
(* cleared) and no restart may have emptied it while its peers stay.        *)
THEOREM OnlyOvertakenRepeat ==
  ASSUME IsFiniteSet(PeerId), Cardinality(PeerId) <= MaxTrackers,
         ~Persistent \/ MaxRestarts = 0
  PROVE  RelaySpec => []OnlyOvertakenReplays
<1>1. RelayInit => Numbering /\ Marks
  BY DEF RelayInit, Numbering, Marks, StampsCounted, Marked, InOrder, Overtakes, Remembers,
         NoTables
<1>2. RelayInv /\ Numbering /\ Marks => OnlyOvertakenReplays
  <2> SUFFICES ASSUME RelayInv, Numbering, Marks, NEW p \in PeerId, NEW i \in DOMAIN net[p],
                      Accepts(p, i), net[p][i].sequence # 0, history.resets[p] = 0,
                      net[p][i].stamp.n \in history.accepted[p]
               PROVE  \E n \in history.accepted[p] : n > net[p][i].stamp.n
    BY DEF OnlyOvertakenReplays
  <2> DEFINE d == net[p][i]
  <2>1. Sender(d) = p /\ p \in DOMAIN peers /\ Marked(p)
    BY SenderIsKeyOwner DEF Accepts, Marks
  <2>2. p \in DOMAIN last_sequence /\ d.sequence <= last_sequence[p]
    BY <2>1 DEF Marked, Remembers
  <2>3. d.sequence # last_sequence[p]
    BY <2>1, <2>2 DEF Accepts, IsDuplicate
  <2>4. /\ last_sequence[p] \in Nat /\ d.sequence \in Nat /\ d.stamp.n \in Nat
        /\ \A n \in history.accepted[p] : n \in Nat
    <3>1. Typed /\ d \in Datagram
      BY InFlight DEF RelayInv
    <3>2. d.sequence \in Nat /\ d.stamp.n \in Nat
      BY <3>1, Bounds DEF Datagram
    <3>3. last_sequence[p] \in Nat
      BY <2>2, <3>1, Bounds DEF Typed, OwnTypes, IsTable
    <3>4. \A n \in history.accepted[p] : n \in Nat
      BY <3>1, Bounds DEF Typed, OwnTypes, History
    <3> QED BY <3>2, <3>3, <3>4
  <2>5. d.sequence < last_sequence[p]
    BY <2>2, <2>3, <2>4
  <2>6. PICK n \in history.accepted[p] : d.sequence # 0 /\ d.sequence < last_sequence[p] =>
                                           d.stamp.n < n
    BY <2>1, <2>2 DEF Marked, Overtakes
  <2> QED BY <2>4, <2>5, <2>6
<1>3. RelayInv /\ Numbering /\ Marks /\ [RelayNext]_allVars => Marks'
  BY NextMarks
<1> QED BY <1>1, <1>2, <1>3, NextNumbering, RelayInvHolds, PTL DEF RelaySpec
=============================================================================

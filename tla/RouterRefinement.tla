-------------------------- MODULE RouterRefinement --------------------------
(***************************************************************************)
(* RoomRouter implements LanRooms.  The mapping takes a player's hosting   *)
(* from the host sessions, and the ends of a game from the copies of peer  *)
(* ids and addresses in the gameplay session, which is where datagrams go. *)
(***************************************************************************)
EXTENDS RoomRouter

SeatOf(peer) == [room |-> peer.room_id, address |-> peer.virtual_ip]

EndsOf(session) ==
  [client |-> [player  |-> session.client_peer_id,
               address |-> session.client_virtual_ip],
   host   |-> [player  |-> session.host_peer_id,
               address |-> session.host_virtual_ip]]

OpenRooms == DOMAIN rooms
Seats     == [p \in DOMAIN peers |-> SeatOf(peers[p])]
Away      == {p \in DOMAIN peers : peers[p].disconnected}
Hosting   == {hosts[h].peer_id : h \in DOMAIN hosts}
Games     == [g \in DOMAIN gameplay |-> EndsOf(gameplay[g])]

Lan == INSTANCE LanRooms WITH
         Room    <- RoomId,
         Player  <- PeerId,
         Address <- VirtualIp,
         Game    <- GameplaySessionId,
         open    <- OpenRooms,
         seats   <- Seats,
         away    <- Away,
         hosting <- Hosting,
         games   <- Games

(* Every method of the router is one step of LanRooms, or invisible to the  *)
(* players: no sequence of joins, leaves, sweeps, resumes and host changes  *)
(* shows them anything but what LanRooms promises.                          *)
ImplementsLanRooms == Lan!LanSpec
=============================================================================

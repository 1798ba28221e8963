------------------------- MODULE ControlRefinement --------------------------
(***************************************************************************)
(* ControlPlane implements PeerRegistry: the router has the seats, the     *)
(* table of peers is the register, and a player is being moved while a     *)
(* join or a delete of it is in progress.                                  *)
(***************************************************************************)
EXTENDS ControlPlane

Seat(row) == [room |-> row.room_id, address |-> row.virtual_ip]

Seated     == [p \in DOMAIN peers |-> Seat(peers[p])]
Registered == [p \in DOMAIN db_peers |-> Seat(db_peers[p])]
Moving     == {tasks[t].arg.peer :
                 t \in {u \in Task : tasks[u].op \in {"join_room", "delete_peer"}}}

Registry == INSTANCE PeerRegistry WITH
              Room       <- RoomId,
              Player     <- PeerId,
              Address    <- VirtualIp,
              serving    <- up,
              seated     <- Seated,
              registered <- Registered,
              moving     <- Moving

(* The server keeps its register as PeerRegistry says, at every await of    *)
(* every handler, whatever fails and wherever the process stops: a handler  *)
(* is not done with a peer before router and table agree about it, no peer  *)
(* leaves the router while it has a row, and after a restart every peer     *)
(* that no request was moving is in its room and at its address.            *)
ImplementsRegistry == Registry!RegistrySpec
=============================================================================

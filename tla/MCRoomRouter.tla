---------------------------- MODULE MCRoomRouter ----------------------------
(* Instances of RoomRouter for TLC.  Ids of a kind are interchangeable, so   *)
(* each set of model values is a symmetry set in the runs that check no      *)
(* liveness.                                                                 *)
EXTENDS RouterRefinement, TLC

Interchangeable ==
  Permutations(RoomId) \cup Permutations(RoomCode) \cup Permutations(PeerId)
    \cup Permutations(VirtualIp) \cup Permutations(HostSessionId)
    \cup Permutations(GameplaySessionId)

(* A smaller group, for the run with more ids of every kind.                 *)
InterchangeablePeers ==
  Permutations(RoomId) \cup Permutations(RoomCode) \cup Permutations(PeerId)
=============================================================================

------------------------------- MODULE MCRelay -------------------------------
(* Instances of RelayDispatcher for TLC; the ids are symmetric.              *)
EXTENDS RelayDispatcher, TLC

Interchangeable ==
  Permutations(RoomId) \cup Permutations(PeerId) \cup Permutations(VirtualIp)
    \cup Permutations(HostSessionId)
=============================================================================

----------------------------- MODULE MCControl -----------------------------
(* Instances of ControlPlane for TLC; the ids of a kind are symmetric, the   *)
(* peers as far as they are all named by overlapping requests or none is.    *)
EXTENDS ControlRefinement, TLC

Interchangeable ==
  Permutations(RoomId) \cup Permutations(Retried) \cup Permutations(PeerId \ Retried)
    \cup Permutations(VirtualIp)
    \cup Permutations(RoomCode) \cup Permutations(Key) \cup Permutations(Task)
=============================================================================

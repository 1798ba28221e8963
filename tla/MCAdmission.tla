---------------------------- MODULE MCAdmission -----------------------------
(* Instances of Admission for TLC; the ids of a kind are symmetric.          *)
EXTENDS Admission, TLC

Interchangeable ==
  Permutations(Name) \cup Permutations(Password) \cup Permutations(Token)
    \cup Permutations(Task)
=============================================================================

------------------------------- MODULE MCChat -------------------------------
(* Small instances of Chat for TLC. *)
EXTENDS Chat, TLC

Symmetry == Permutations(Workers) \cup Permutations(Conversations) \cup Permutations(Users)
=============================================================================

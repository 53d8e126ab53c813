-------------------------- MODULE MCLeaderlessLoad --------------------------
(* Small instances of LeaderlessLoad for TLC. *)
EXTENDS LeaderlessLoad, TLC

Symmetry == Permutations(Writes) \cup Permutations(Values)
=============================================================================

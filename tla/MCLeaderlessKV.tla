--------------------------- MODULE MCLeaderlessKV ---------------------------
(* Small instances of LeaderlessKV for TLC. *)
EXTENDS LeaderlessKV, TLC

CONSTANTS n1, n2, n3, w1, w2, r1, v1, v2

Symmetry == Permutations(Writes) \cup Permutations(Values)
=============================================================================

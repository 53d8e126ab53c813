----------------------------- MODULE MCLeaderKV -----------------------------
(* Small instances of LeaderKV for TLC. *)
EXTENDS LeaderKV, TLC

CONSTANTS f1, f2, w1, w2, r1, v1, v2

(* Requests are interchangeable and so are the values. *)
RequestSymmetry == Permutations(Writes) \cup Permutations(Reads)
                     \cup Permutations(Values)
=============================================================================

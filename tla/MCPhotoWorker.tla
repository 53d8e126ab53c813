--------------------------- MODULE MCPhotoWorker ----------------------------
(* Small instances of PhotoWorker for TLC. *)
EXTENDS PhotoWorker, TLC

Symmetry == Permutations(Deletes)

(* Bound: while a delete is under way no PUT is between two attempts.  A   *)
(* PUT touches albums alone, which no delete looks at.                     *)
PutsBeforeDeletes ==
    (\E d \in Deletes : deletes[d].phase # "new")
    => \A u \in Puts : puts[u].attempts > 0 => puts[u].phase = "answered"
=============================================================================

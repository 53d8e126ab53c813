----------------------------- MODULE MCLoadTest -----------------------------
(* Small instances of LoadTest for TLC. *)
EXTENDS LoadTest, TLC

(* Bounds: with a read in a behaviour, the leader restarts or a follower   *)
(* does, not both.  The run's other read follows the first, both of the    *)
(* leader, in a behaviour in which no node has restarted, no call of a     *)
(* write has failed and the client has entered no answer.                  *)
FirstRead == CHOOSE r \in Reads : TRUE

Begun(r) == reads[r].phase # "idle"

ReadsBound ==
    /\ (\E r \in Reads : Begun(r)) =>
          \/ restarts[Leader] = 0
          \/ \A f \in Followers : restarts[f] = 0
    /\ (\E r \in Reads \ {FirstRead} : Begun(r)) =>
          /\ reads[FirstRead].phase = "answered"
          /\ \A r \in Reads : reads[r].node = Leader /\ checked[r] = "no"
          /\ \A n \in Nodes : restarts[n] = 0
          /\ \A w \in Writes : Returned(calls[w], "failed") = {}
          /\ recorded = {}

Symmetry == Permutations(Writes) \cup Permutations(Values)
=============================================================================

------------------------------ MODULE LoadTest ------------------------------
(***************************************************************************)
(* The load generator (Assignment 10/loadtest/main.go) against the leader- *)
(* follower store.  Its workers send the writes and reads of LeaderKV and, *)
(* some time after the server has answered, enter the answer in the        *)
(* VersionTracker they share: RecordWrite for a 201, CheckRead for a 200.  *)
(* CheckRead compares with what the tracker knows by then.                 *)
(***************************************************************************)
EXTENDS LeaderKV, VersionTracker

VARIABLES versions,   \* VersionTracker.versions
          recorded,   \* writes whose answer the client has dealt with
          checked,    \* read -> how it was counted
          known       \* history: read -> versions[key] when it was sent

client == <<versions, recorded, checked, known>>
loadVars == <<vars, client>>

LoadTypeOK ==
    /\ TypeOK
    /\ versions \in [Keys -> Nat]
    /\ recorded \subseteq Writes
    /\ checked \in [Reads -> {"no", "fresh", "stale", "error"}]
    /\ known \in [Reads -> Nat]

LoadInit ==
    /\ Init
    /\ versions = [k \in Keys |-> 0]
    /\ recorded = {}
    /\ checked = [r \in Reads |-> "no"]
    /\ known = [r \in Reads |-> 0]

(* The worker that sent write w gets a 201.  One whose client gives up     *)
(* after its ten seconds, and any other status, leaves no trace.           *)
WriteReturns(w) ==
    /\ writes[w].phase = "created"
    /\ w \notin recorded
    /\ recorded' = recorded \cup {w}
    /\ versions' = RecordWrite(versions, writes[w].key, writes[w].version)
    /\ UNCHANGED <<vars, checked, known>>

(* The worker that sent read r gets its answer: only a 200 is checked. *)
ReadReturns(r) ==
    /\ reads[r].phase = "answered"
    /\ checked[r] = "no"
    /\ checked' = [checked EXCEPT ![r] =
                     Counted(versions, reads[r].key, reads[r].best.version)]
    /\ UNCHANGED <<vars, versions, recorded, known>>

(* A step of the store.  A read is sent when its handler starts. *)
ServerStep ==
    /\ Next
    /\ known' = [r \in Reads |->
                   IF reads[r].phase = "idle" /\ reads'[r].phase # "idle"
                   THEN versions[reads'[r].key] ELSE known[r]]
    /\ UNCHANGED <<versions, recorded, checked>>

LoadNext ==
    \/ ServerStep
    \/ \E w \in Writes : WriteReturns(w)
    \/ \E r \in Reads : ReadReturns(r)

LoadSpec == LoadInit /\ [][LoadNext]_loadVars

-----------------------------------------------------------------------------
(* Properties *)

(* How reads are counted, in whatever order workers enter answers: one     *)
(* that returned an entry older than the tracker knew when it was sent is  *)
(* counted as stale; one that returned the newest version there is is not, *)
(* as long as the leader does not restart and give old versions again.     *)
CountedRightly ==
    \A r \in Reads :
        LET version == reads[r].best.version
        IN  /\ Stored(reads[r].best) /\ version < known[r] =>
                  checked[r] \in {"no", "stale"}
            /\ restarts[Leader] = 0
               /\ version = store[Leader][reads[r].key].version =>
                  checked[r] # "stale"
=============================================================================

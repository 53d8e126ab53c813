--------------------------- MODULE LeaderlessLoad ---------------------------
(***************************************************************************)
(* The load generator (Assignment 10/loadtest/main.go) in leaderless mode: *)
(* each write goes to a random node, which coordinates it, and each read   *)
(* to a random node.  The tracker is the one of leader mode; it compares   *)
(* versions, which coordinators give independently of each other.          *)
(***************************************************************************)
EXTENDS LeaderlessKV, VersionTracker

VARIABLES versions,   \* VersionTracker.versions
          recorded,   \* writes whose 201 a worker has entered
          checked,    \* read -> how it was counted
          known       \* history: read -> writes entered when it was sent

client == <<versions, recorded, checked, known>>
loadVars == <<vars, client>>

LoadTypeOK ==
    /\ TypeOK
    /\ versions \in [Keys -> Nat]
    /\ recorded \subseteq Writes
    /\ checked \in [Reads -> {"no", "fresh", "stale", "error"}]
    /\ known \in [Reads -> SUBSET Writes]

LoadInit ==
    /\ Init
    /\ versions = [k \in Keys |-> 0]
    /\ recorded = {}
    /\ checked = [r \in Reads |-> "no"]
    /\ known = [r \in Reads |-> {}]

(* The worker that sent write w gets a 201. *)
WriteReturns(w) ==
    /\ writes[w].phase = "created"
    /\ w \notin recorded
    /\ recorded' = recorded \cup {w}
    /\ versions' = RecordWrite(versions, writes[w].key, writes[w].version)
    /\ UNCHANGED <<vars, checked, known>>

(* The worker that sent read r gets its answer. *)
ReadReturns(r) ==
    /\ reads[r].done
    /\ checked[r] = "no"
    /\ checked' = [checked EXCEPT ![r] =
                     Counted(versions, reads[r].key, reads[r].result.version)]
    /\ UNCHANGED <<vars, versions, recorded, known>>

(* A step of the store.  A read is sent when its handler starts. *)
ServerStep ==
    /\ Next
    /\ known' = [r \in Reads |-> IF ~reads[r].done /\ reads'[r].done
                                 THEN recorded ELSE known[r]]
    /\ UNCHANGED <<versions, recorded, checked>>

LoadNext ==
    \/ ServerStep
    \/ \E w \in Writes : WriteReturns(w)
    \/ \E r \in Reads : ReadReturns(r)

LoadSpec == LoadInit /\ [][LoadNext]_loadVars

-----------------------------------------------------------------------------
(* Properties *)

(* What a fresh read says in leaderless mode: its version is at least that *)
(* of every write of the key entered before it was sent, from whichever    *)
(* coordinators and in whatever order the answers came in.  Only where one *)
(* node has coordinated the key does it say that the read saw them: two    *)
(* coordinators may have given its version to two values.                  *)
FreshSeesRecorded ==
    \A r \in Reads :
        checked[r] = "fresh" =>
            \A w \in {x \in known[r] : writes[x].key = reads[r].key} :
                /\ reads[r].result.version >= writes[w].version
                /\ SoleCoordinator(reads[r].key) => Sees(r, w)
=============================================================================

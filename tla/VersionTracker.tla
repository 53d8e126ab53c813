--------------------------- MODULE VersionTracker ---------------------------
(***************************************************************************)
(* The load generator's VersionTracker (Assignment 10/loadtest/main.go):   *)
(* key -> newest acknowledged version, 0 for none, shared by all workers   *)
(* and used in both modes.  Its lock covers each operation.                *)
(***************************************************************************)
EXTENDS Integers

(* Mutant: the answer that arrives last wins. *)
RecordLatestAnswer(versions, k, n) == [versions EXCEPT ![k] = n]

RecordWrite(versions, k, n) ==
    [versions EXCEPT ![k] = IF n > @ THEN n ELSE @]

(* Mutants: an equal version counts as stale; a version is stale only when *)
(* it is more than one behind.                                             *)
CheckReadOrEqual(versions, k, n) == n <= versions[k] /\ versions[k] > 0
CheckReadLenient(versions, k, n) == n + 1 < versions[k] /\ versions[k] > 0

(* Whether a read that returned version n counts as stale. *)
CheckRead(versions, k, n) == n < versions[k] /\ versions[k] > 0

(* How a worker counts a read: only a 200, which has an entry, is checked. *)
Counted(versions, k, n) ==
    IF n = 0 THEN "error"
    ELSE IF CheckRead(versions, k, n) THEN "stale" ELSE "fresh"
=============================================================================

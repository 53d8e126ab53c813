--------------------------- MODULE VersionedStore ---------------------------
(***************************************************************************)
(* The in-memory store of one key-value node (KVStore), the same code in   *)
(* the leader-follower and in the leaderless program.  A store maps every  *)
(* key to an entry.  The program gives its first write version 1, so       *)
(* version 0 stands for "no entry": it is also the version of the zero     *)
(* Entry{} that Get returns with ok = false.                               *)
(***************************************************************************)
EXTENDS Integers

CONSTANTS Keys, Values, NoValue

ASSUME NoValueAssumption == NoValue \notin Values

Entry == [value : Values \cup {NoValue}, version : Nat]

NoEntry == [value |-> NoValue, version |-> 0]

EmptyStore == [k \in Keys |-> NoEntry]

(* The boolean that Get returns beside the entry. *)
Stored(e) == e.version > 0

(* Mutants of the two updates: plausible slips in Set and SetLocal. *)
SetAlways(s, k, e) == [s EXCEPT ![k] = e]
SetIfAbsent(s, k, e) == IF s[k].version = 0 THEN [s EXCEPT ![k] = e] ELSE s
VersionDecremented(s, k) == s[k].version - 1
VersionNotBumped(s, k) == IF s[k].version = 0 THEN 1 ELSE s[k].version
SetLocalOldVersion(s, k, v) == [s EXCEPT ![k].value = v]

(* Set: a replicated update is applied only when it is newer.  "Absent" is *)
(* version 0 and replicated versions start at 1, so !ok || v > existing is *)
(* one comparison.                                                         *)
Set(s, k, e) ==
    IF e.version > s[k].version THEN [s EXCEPT ![k] = e] ELSE s

(* SetLocal: the version that the coordinator of a write gives it. *)
NextVersion(s, k) == s[k].version + 1

SetLocal(s, k, v) ==
    [s EXCEPT ![k] = [value |-> v, version |-> NextVersion(s, k)]]
=============================================================================

------------------------ MODULE VersionedStore_proofs -------------------------
(***************************************************************************)
(* Lemmas about the operations of one node's store, for the theorems about *)
(* both programs built on it.                                              *)
(***************************************************************************)
EXTENDS VersionedStore, TLAPS

(* The store's operations keep its type. *)
LEMMA SetType ==
    ASSUME NEW s \in [Keys -> Entry], NEW k \in Keys, NEW e \in Entry
    PROVE  Set(s, k, e) \in [Keys -> Entry]
BY DEF Set

(* SetLocal keeps the type of a node's map. *)
LEMMA SetLocalType ==
    ASSUME NEW s \in [Keys -> Entry], NEW k \in Keys, NEW v \in Values
    PROVE  /\ SetLocal(s, k, v) \in [Keys -> Entry]
           /\ NextVersion(s, k) \in Nat
BY DEF SetLocal, NextVersion, Entry

(* The map of a new process is well typed. *)
LEMMA EmptyStoreType == EmptyStore \in [Keys -> Entry] /\ NoEntry \in Entry
BY DEF EmptyStore, NoEntry, Entry

(* An applied update leaves no entry older, its own key at its version. *)
LEMMA SetAdvances ==
    ASSUME NEW s \in [Keys -> Entry], NEW k \in Keys, NEW e \in Entry
    PROVE  /\ Set(s, k, e)[k].version >= e.version
           /\ \A j \in Keys : Set(s, k, e)[j].version >= s[j].version
BY DEF Set, Entry

(* What each operation does to the entry of its key and to the others. *)
LEMMA SetChoice ==
    ASSUME NEW s \in [Keys -> Entry], NEW k \in Keys, NEW e \in Entry
    PROVE  \/ Set(s, k, e) = s
           \/ /\ e.version > s[k].version
              /\ Set(s, k, e) = [s EXCEPT ![k] = e]
BY DEF Set

(* SetLocal gives its key the next version and leaves the others alone. *)
LEMMA SetLocalEntry ==
    ASSUME NEW s \in [Keys -> Entry], NEW k \in Keys, NEW v \in Values
    PROVE  /\ SetLocal(s, k, v)[k] = [value |-> v, version |-> s[k].version + 1]
           /\ \A j \in Keys \ {k} : SetLocal(s, k, v)[j] = s[j]
BY DEF SetLocal, NextVersion
=============================================================================

------------------------- MODULE ReplicatedRegister -------------------------
(***************************************************************************)
(* What the key-value cluster promises of its copies, with no messages and *)
(* no quorums: the cluster assigns a value to every version of a key at    *)
(* most once, in increasing order, and each copy only ever holds an        *)
(* assigned entry and moves to newer ones.  A copy may be forgotten when   *)
(* its process restarts: nothing is persisted.                             *)
(***************************************************************************)
EXTENDS VersionedStore

CONSTANT Nodes

VARIABLES assigned,  \* every entry some write was given, with its key
          copies     \* the store of each node

vars == <<assigned, copies>>

Assignment == [key : Keys, value : Values, version : Nat \ {0}]

EntryOf(a) == [value |-> a.value, version |-> a.version]

Init == /\ assigned = {}
        /\ copies = [n \in Nodes |-> EmptyStore]

(* A write: the node's next version, which must be above every one that    *)
(* was assigned to the key.                                                *)
Assign(n, k, v) ==
    LET a == [key |-> k, value |-> v, version |-> NextVersion(copies[n], k)]
    IN  /\ \A b \in assigned : b.key = k => b.version < a.version
        /\ assigned' = assigned \cup {a}
        /\ copies' = [copies EXCEPT ![n] = SetLocal(@, k, v)]

CatchUp(n, a) ==
    /\ a \in assigned
    /\ a.version > copies[n][a.key].version
    /\ copies' = [copies EXCEPT ![n][a.key] = EntryOf(a)]
    /\ UNCHANGED assigned

Forget(n) ==
    /\ copies' = [copies EXCEPT ![n] = EmptyStore]
    /\ UNCHANGED assigned

Next == \E n \in Nodes :
            \/ \E k \in Keys, v \in Values : Assign(n, k, v)
            \/ \E a \in assigned : CatchUp(n, a)
            \/ Forget(n)

Spec == Init /\ [][Next]_vars

(* A version of a key names one value, whichever copy is asked. *)
OneValuePerVersion ==
    \A m, n \in Nodes, k \in Keys :
        copies[m][k].version = copies[n][k].version =>
            copies[m][k].value = copies[n][k].value
=============================================================================

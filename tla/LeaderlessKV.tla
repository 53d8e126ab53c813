---------------------------- MODULE LeaderlessKV ----------------------------
(***************************************************************************)
(* The leaderless key-value store (Assignment 10/leaderless/main.go).      *)
(*                                                                         *)
(* Any node takes a write and becomes its coordinator: it gives the write  *)
(* the version after its own copy's, sends it to all peers and waits for   *)
(* every answer.  Nothing orders the coordinators, and a peer acknowledges *)
(* an update also when it discards it as not newer.  calls[w][p] is the    *)
(* goroutine of write w for peer p, as in LeaderKV.                        *)
(***************************************************************************)
EXTENDS VersionedStore, FiniteSets

CONSTANTS Nodes,
          Writes,        \* identities of POST /set requests
          Reads,         \* identities of GET /get requests
          Unreliable,    \* peers whose calls may return an error
          Restartable,   \* nodes whose process may restart, losing its map
          MaxRestarts    \* bound on the restarts of one node

ASSUME KeysAssumption == Keys # {}
ASSUME NodesAssumption == /\ IsFiniteSet(Nodes) /\ Nodes # {}
                          /\ Unreliable \subseteq Nodes
                          /\ Restartable \subseteq Nodes
                          /\ MaxRestarts \in Nat

VARIABLES store,     \* node -> its KVStore
          writes,    \* write -> handleSet's local state and its answer
          calls,     \* write -> node -> replication goroutine
          reads,     \* read -> its answer, and what was acknowledged before
          restarts   \* node -> its restarts so far

vars == <<store, writes, calls, reads, restarts>>

Peers(n) == Nodes \ {n}

Write == [phase : {"idle", "waiting", "created", "failed", "lost"},
          node : Nodes, key : Keys, value : Values \cup {NoValue},
          version : Nat]

(* As in LeaderKV.  The coordinator's own update, which SetLocal makes and  *)
(* no call, counts as applied: a restart forgets it as it does the others. *)
Call == [request : {"none", "pending", "applied", "dropped", "forgotten"},
         outcome : {"none", "waiting", "ok", "failed"}]

(* acked: history, the writes of the key that were acknowledged before the *)
(* read and that its node has not lost in a restart.                       *)
Read == [done : BOOLEAN, node : Nodes, key : Keys, result : Entry,
         acked : SUBSET Writes]

TypeOK ==
    /\ store \in [Nodes -> [Keys -> Entry]]
    /\ writes \in [Writes -> Write]
    /\ calls \in [Writes -> [Nodes -> Call]]
    /\ reads \in [Reads -> Read]
    /\ restarts \in [Nodes -> 0..MaxRestarts]

NoCall == [request |-> "none", outcome |-> "none"]

AKey == CHOOSE k \in Keys : TRUE
ANode == CHOOSE n \in Nodes : TRUE

Init ==
    /\ store = [n \in Nodes |-> EmptyStore]
    /\ writes = [w \in Writes |-> [phase |-> "idle", node |-> ANode,
                                   key |-> AKey, value |-> NoValue,
                                   version |-> 0]]
    /\ calls = [w \in Writes |-> [n \in Nodes |-> NoCall]]
    /\ reads = [r \in Reads |-> [done |-> FALSE, node |-> ANode,
                                 key |-> AKey, result |-> NoEntry,
                                 acked |-> {}]]
    /\ restarts = [n \in Nodes |-> 0]

WriteEntry(w) == [value |-> writes[w].value, version |-> writes[w].version]

Returned(c, o) == {n \in Nodes : c[n].outcome = o}

(* Mutants of the wait. *)
VerdictMajority(c) ==
    IF 2 * (Cardinality(Returned(c, "ok")) + 1) > Cardinality(Nodes) THEN "created"
    ELSE IF Returned(c, "waiting") = {} THEN "failed" ELSE "waiting"

VerdictIgnoresFailures(c) ==
    IF Returned(c, "waiting") = {} THEN "created" ELSE "waiting"

(* The wait for all peers in handleSet and the status it ends in, for the  *)
(* outcomes c of the calls of one write.                                   *)
Verdict(c) ==
    IF Returned(c, "waiting") # {} THEN "waiting"
    ELSE IF Cardinality(Returned(c, "ok")) < Cardinality(Nodes) - 1
         THEN "failed" ELSE "created"

(* handleSet on node n, up to the wait. *)
SetAt(w, n, k, v) ==
    /\ writes[w].phase = "idle"
    /\ store' = [store EXCEPT ![n] = SetLocal(@, k, v)]
    /\ calls' = [calls EXCEPT ![w] = [p \in Nodes |->
                    IF p = n THEN [request |-> "applied", outcome |-> "none"]
                    ELSE [request |-> "pending", outcome |-> "waiting"]]]
    /\ writes' = [writes EXCEPT ![w] =
                    [phase |-> Verdict(calls'[w]), node |-> n, key |-> k,
                     value |-> v, version |-> NextVersion(store[n], k)]]
    /\ UNCHANGED <<reads, restarts>>

(* handleReplicate on peer p, from the POST to the reply. *)
Replicate(w, p) ==
    /\ calls[w][p].request = "pending"
    /\ calls' = [calls EXCEPT ![w][p].request = "applied"]
    /\ store' = [store EXCEPT ![p] = Set(@, writes[w].key, WriteEntry(w))]
    /\ UNCHANGED <<writes, reads, restarts>>

(* replicateToPeer returns o and the handler receives it from ackCh. *)
CallReturns(w, p, o) ==
    /\ calls[w][p].outcome = "waiting"
    /\ calls' = [calls EXCEPT ![w][p].outcome = o]
    /\ writes' = IF writes[w].phase = "waiting"
                 THEN [writes EXCEPT ![w].phase = Verdict(calls'[w])]
                 ELSE writes
    /\ UNCHANGED <<store, reads, restarts>>

CallSucceeds(w, p) ==
    /\ calls[w][p].request \in {"applied", "forgotten"}
    /\ CallReturns(w, p, "ok")

(* An error before, while or after the peer handles the request. *)
CallFails(w, p) ==
    /\ p \in Unreliable \cup Restartable
    /\ CallReturns(w, p, "failed")

(* The node has lost the write, or a newer one that it held instead. *)
Forgotten(w, n) == calls[w][n].request = "forgotten"

(* handleGet: the node's own copy. *)
ReadCopy(r, n, k) ==
    /\ ~reads[r].done
    /\ reads' = [reads EXCEPT ![r] =
                   [done |-> TRUE, node |-> n, key |-> k,
                    result |-> store[n][k],
                    acked |-> {w \in Writes : /\ writes[w].phase = "created"
                                              /\ writes[w].key = k
                                              /\ ~Forgotten(w, n)}]]
    /\ UNCHANGED <<store, writes, calls, restarts>>

AfterRestart(request, drops) ==
    IF drops THEN "dropped"
    ELSE IF request = "applied" THEN "forgotten" ELSE request

(* The process of n starts again with an empty store.  Its handlers and    *)
(* goroutines die, and the requests that had reached it; one that is sent  *)
(* later finds the new process.                                            *)
Restart(n) ==
    /\ n \in Restartable
    /\ restarts[n] < MaxRestarts
    /\ restarts' = [restarts EXCEPT ![n] = @ + 1]
    /\ store' = [store EXCEPT ![n] = EmptyStore]
    /\ writes' = [w \in Writes |->
                    IF writes[w].node = n /\ writes[w].phase = "waiting"
                    THEN [writes[w] EXCEPT !.phase = "lost"] ELSE writes[w]]
    /\ \E dropped \in SUBSET {w \in Writes : calls[w][n].request = "pending"} :
          calls' = [w \in Writes |-> [p \in Nodes |->
            [request |-> IF p = n
                         THEN AfterRestart(calls[w][p].request, w \in dropped)
                         ELSE calls[w][p].request,
             outcome |-> IF writes[w].node = n /\ calls[w][p].outcome = "waiting"
                         THEN "failed" ELSE calls[w][p].outcome]]]
    /\ UNCHANGED reads

Next ==
    \/ \E w \in Writes, n \in Nodes :
          \/ \E k \in Keys, v \in Values : SetAt(w, n, k, v)
          \/ Replicate(w, n)
          \/ CallSucceeds(w, n)
          \/ CallFails(w, n)
    \/ \E r \in Reads, n \in Nodes, k \in Keys : ReadCopy(r, n, k)
    \/ \E n \in Nodes : Restart(n)

Spec == Init /\ [][Next]_vars

-----------------------------------------------------------------------------
(* Properties *)

(* One node, which has not restarted, has coordinated all writes of k.     *)
(* Nothing in the code sees to that: the clients must.                     *)
SoleCoordinator(k) ==
    \E n \in Nodes :
        /\ restarts[n] = 0
        /\ \A w \in Writes : writes[w].phase # "idle" /\ writes[w].key = k =>
                                 writes[w].node = n

(* A 201 means that every node holds the write's version or a newer one,   *)
(* or held it and lost it in a restart, although peers acknowledge updates *)
(* they discard and apply those of several coordinators in any order.      *)
AckedVersionEverywhere ==
    \A w \in Writes : writes[w].phase = "created" =>
        \A n \in Nodes :
            \/ store[n][writes[w].key].version >= writes[w].version
            \/ Forgotten(w, n)

(* "W=N: coordinator must write to ALL nodes before responding": after a   *)
(* 201 every node holds the write itself or one with a newer version.      *)
AckedWriteEverywhere ==
    \A w \in Writes : writes[w].phase = "created" =>
        \A n \in Nodes :
            LET e == store[n][writes[w].key]
            IN  e = WriteEntry(w) \/ e.version > writes[w].version

(* The read returns write w or a newer one. *)
Sees(r, w) == \/ reads[r].result = WriteEntry(w)
              \/ reads[r].result.version > writes[w].version

(* A read of the coordinator after its acknowledgement sees the write,     *)
(* with any number of other coordinators: the coordinator already has its  *)
(* version when their updates arrive.                                      *)
CoordinatorReadsOwnWrite ==
    \A r \in Reads : reads[r].done =>
        \A w \in reads[r].acked :
            writes[w].node = reads[r].node => Sees(r, w)

(* A read of any node sees every write of the key acknowledged before it,  *)
(* if the key has a sole coordinator.                                      *)
EveryReadSeesAcked ==
    \A r \in Reads : reads[r].done /\ SoleCoordinator(reads[r].key) =>
        \A w \in reads[r].acked : Sees(r, w)

(* Once every update of a key was applied, in any order, and none has been *)
(* lost, all nodes hold the same entry, if it has a sole coordinator.      *)
DeliveredMeansConverged ==
    \A k \in Keys :
        /\ SoleCoordinator(k)
        /\ \A w \in Writes, n \in Nodes :
              writes[w].phase # "idle" /\ writes[w].key = k =>
                  calls[w][n].request = "applied"
        => \A m, n \in Nodes : store[m][k] = store[n][k]

(* Where that is so, the nodes are copies of one sequence of versions. *)
AssignedEntries ==
    {[key |-> writes[w].key, value |-> writes[w].value,
      version |-> writes[w].version] :
        w \in {x \in Writes : writes[x].phase # "idle"}}

Register == INSTANCE ReplicatedRegister
                WITH assigned <- AssignedEntries, copies <- store

SoleCoordinators == \A k \in Keys : SoleCoordinator(k)

Implements == Register!Spec
=============================================================================

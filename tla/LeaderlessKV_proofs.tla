------------------------- MODULE LeaderlessKV_proofs --------------------------
(***************************************************************************)
(* Theorems about LeaderlessKV, and about its load generator, for every    *)
(* number of nodes, keys, values and requests, and every choice of the     *)
(* nodes that fail or restart.                                             *)
(***************************************************************************)
EXTENDS LeaderlessLoad, VersionedStore_proofs, FiniteSetTheorems, TLAPS

(* AKey and ANode, with which Init fills what is not used yet. *)
LEMMA SomeKeyAndNode == AKey \in Keys /\ ANode \in Nodes
BY KeysAssumption, NodesAssumption DEF AKey, ANode

(* The handler waits or has answered. *)
LEMMA VerdictType ==
    ASSUME NEW c PROVE Verdict(c) \in {"created", "failed", "waiting"}
BY DEF Verdict

(* The actions one by one, for the proofs that go through all of them. *)
Step == \/ \E w \in Writes, n \in Nodes : \E k \in Keys, v \in Values : SetAt(w, n, k, v)
        \/ \E w \in Writes, n \in Nodes : Replicate(w, n)
        \/ \E w \in Writes, n \in Nodes : CallSucceeds(w, n) \/ CallFails(w, n)
        \/ \E r \in Reads, n \in Nodes, k \in Keys : ReadCopy(r, n, k)
        \/ \E n \in Nodes : Restart(n)

LEMMA StepCases == [Next]_vars => Step \/ UNCHANGED vars
BY DEF Next, Step

(* Both returns of a call in one. *)
LEMMA ReturnCases ==
    ASSUME NEW w \in Writes, NEW p \in Nodes, CallSucceeds(w, p) \/ CallFails(w, p)
    PROVE  \E o \in {"ok", "failed"} :
              /\ CallReturns(w, p, o)
              /\ o = "ok" => calls[w][p].request \in {"applied", "forgotten"}
BY DEF CallSucceeds, CallFails

(* A restart changes requests of the node's own calls and outcomes of its  *)
(* own writes.                                                             *)
LEMMA RestartCalls ==
    ASSUME TypeOK, NEW n \in Nodes, Restart(n), NEW w \in Writes, NEW p \in Nodes
    PROVE  /\ calls'[w][p] \in Call
           /\ p # n => calls'[w][p].request = calls[w][p].request
           /\ p = n /\ calls[w][p].request \in {"applied", "forgotten"} =>
                 calls'[w][p].request = "forgotten"
           /\ p = n => calls'[w][p].request # "applied"
           /\ calls[w][p].request = "none" => calls'[w][p].request = "none"
           /\ calls'[w][p].outcome =
                 IF writes[w].node = n /\ calls[w][p].outcome = "waiting"
                 THEN "failed" ELSE calls[w][p].outcome
<1>1. PICK dropped \in SUBSET {x \in Writes : calls[x][n].request = "pending"} :
         calls' = [x \in Writes |-> [q \in Nodes |->
            [request |-> IF q = n
                         THEN AfterRestart(calls[x][q].request, x \in dropped)
                         ELSE calls[x][q].request,
             outcome |-> IF writes[x].node = n /\ calls[x][q].outcome = "waiting"
                         THEN "failed" ELSE calls[x][q].outcome]]]
  BY DEF Restart
<1>2. calls[w][p] \in Call
  BY DEF TypeOK
<1>3. calls'[w][p] =
         [request |-> IF p = n
                      THEN AfterRestart(calls[w][p].request, w \in dropped)
                      ELSE calls[w][p].request,
          outcome |-> IF writes[w].node = n /\ calls[w][p].outcome = "waiting"
                      THEN "failed" ELSE calls[w][p].outcome]
  BY <1>1
<1>4. w \in dropped => calls[w][n].request = "pending"
  BY <1>1
<1> QED
  BY <1>2, <1>3, <1>4 DEF Call, AfterRestart

-----------------------------------------------------------------------------
(* Every step keeps the type. *)
LEMMA TypeStep == TypeOK /\ [Next]_vars => TypeOK'
<1> SUFFICES ASSUME TypeOK, [Next]_vars PROVE TypeOK'
  OBVIOUS
<1> USE DEF TypeOK
<1>1. ASSUME NEW w \in Writes, NEW n \in Nodes, NEW k \in Keys, NEW v \in Values,
             SetAt(w, n, k, v)
      PROVE  TypeOK'
  <2>1. store' \in [Nodes -> [Keys -> Entry]]
    BY <1>1, SetLocalType DEF SetAt
  <2>2. calls' \in [Writes -> [Nodes -> Call]]
    BY <1>1 DEF SetAt, Call
  <2>3. NextVersion(store[n], k) \in Nat
    BY SetLocalType
  <2>4. writes' \in [Writes -> Write]
    BY <1>1, <2>3, VerdictType DEF SetAt, Write
  <2> QED
    BY <1>1, <2>1, <2>2, <2>4 DEF SetAt
<1>2. ASSUME NEW w \in Writes, NEW n \in Nodes, Replicate(w, n) PROVE TypeOK'
  <2>1. WriteEntry(w) \in Entry /\ writes[w].key \in Keys
    BY DEF WriteEntry, Entry, Write
  <2>2. store' \in [Nodes -> [Keys -> Entry]]
    BY <1>2, <2>1, SetType DEF Replicate
  <2>3. [calls[w][n] EXCEPT !.request = "applied"] \in Call
    <3>1. calls[w][n] \in Call
      OBVIOUS
    <3> QED
      BY <3>1 DEF Call
  <2> QED
    BY <1>2, <2>2, <2>3 DEF Replicate
<1>3. ASSUME NEW w \in Writes, NEW n \in Nodes, CallSucceeds(w, n) \/ CallFails(w, n)
      PROVE  TypeOK'
  <2>1. PICK o \in {"ok", "failed"} : CallReturns(w, n, o)
    BY <1>3, ReturnCases
  <2>2. [calls[w][n] EXCEPT !.outcome = o] \in Call
    <3>1. calls[w][n] \in Call
      OBVIOUS
    <3> QED
      BY <3>1 DEF Call
  <2>3. calls' \in [Writes -> [Nodes -> Call]]
    BY <2>1, <2>2 DEF CallReturns
  <2>4. writes' \in [Writes -> Write]
    <3> DEFINE new == [writes[w] EXCEPT !.phase = Verdict(calls'[w])]
    <3>1. new \in Write
      <4>1. writes[w] \in Write
        OBVIOUS
      <4> QED
        BY <4>1, VerdictType DEF Write
    <3>2. writes' = writes \/ writes' = [writes EXCEPT ![w] = new]
      BY <2>1 DEF CallReturns
    <3> HIDE DEF new
    <3> QED
      BY <3>1, <3>2
  <2> QED
    BY <2>1, <2>3, <2>4 DEF CallReturns
<1>4. ASSUME NEW r \in Reads, NEW n \in Nodes, NEW k \in Keys, ReadCopy(r, n, k)
      PROVE  TypeOK'
  BY <1>4 DEF ReadCopy, Read
<1>5. ASSUME NEW n \in Nodes, Restart(n) PROVE TypeOK'
  <2>1. store' \in [Nodes -> [Keys -> Entry]]
    BY <1>5, EmptyStoreType DEF Restart
  <2>2. calls' \in [Writes -> [Nodes -> Call]]
    <3>1. \A w \in Writes, p \in Nodes : calls'[w][p] \in Call
      BY <1>5, RestartCalls
    <3>2. calls' = [w \in Writes |-> [p \in Nodes |-> calls'[w][p]]]
      BY <1>5 DEF Restart
    <3> QED
      BY <3>1, <3>2
  <2>3. writes' \in [Writes -> Write]
    <3>1. ASSUME NEW w \in Writes PROVE writes'[w] \in Write
      <4>1. writes[w] \in Write
        OBVIOUS
      <4>2. writes'[w] = writes[w] \/ writes'[w] = [writes[w] EXCEPT !.phase = "lost"]
        BY <1>5 DEF Restart
      <4> QED
        BY <4>1, <4>2 DEF Write
    <3> QED
      BY <1>5, <3>1 DEF Restart
  <2>4. restarts' \in [Nodes -> 0..MaxRestarts]
    BY <1>5, NodesAssumption DEF Restart
  <2> QED
    BY <1>5, <2>1, <2>2, <2>3, <2>4 DEF Restart
<1>6. CASE UNCHANGED vars
  BY <1>6 DEF vars
<1> QED
  BY <1>1, <1>2, <1>3, <1>4, <1>5, <1>6, StepCases DEF Step

(* Every reachable state of the leaderless store is well typed. *)
THEOREM LeaderlessTyped == Spec => []TypeOK
<1>1. Init => TypeOK
  BY SomeKeyAndNode, EmptyStoreType, NodesAssumption
     DEF Init, TypeOK, Write, Call, NoCall, Read
<1> QED
  BY <1>1, TypeStep, PTL DEF Spec

-----------------------------------------------------------------------------
(* What acknowledgements mean *)

(* The coordinator's update is applied at once; a result ok comes after    *)
(* its request was applied; what was applied is in the node's store, at    *)
(* its version or a newer one, until the node restarts; a 201 was given on *)
(* such results of all peers.                                              *)
AckOf(w) ==
    /\ writes[w].phase = "idle" => \A n \in Nodes : calls[w][n] = NoCall
    /\ writes[w].phase # "idle" =>
          /\ calls[w][writes[w].node].request \in {"applied", "forgotten"}
          /\ calls[w][writes[w].node].outcome = "none"
    /\ \A n \in Nodes :
          /\ calls[w][n].outcome = "ok" =>
                calls[w][n].request \in {"applied", "forgotten"}
          /\ calls[w][n].request = "applied" =>
                store[n][writes[w].key].version >= writes[w].version
    /\ writes[w].phase = "created" =>
          \A n \in Peers(writes[w].node) : calls[w][n].outcome = "ok"

AckInv == \A w \in Writes : AckOf(w)

(* A verdict of 201 means that every peer has acknowledged. *)
LEMMA VerdictAll ==
    ASSUME NEW c, NEW n \in Nodes, c[n].outcome # "ok", Verdict(c) = "created"
    PROVE  \A p \in Peers(n) : c[p].outcome = "ok"
<1>1. Returned(c, "ok") \subseteq Nodes \ {n}
  BY DEF Returned
<1>2. /\ IsFiniteSet(Nodes \ {n})
      /\ Cardinality(Nodes \ {n}) = Cardinality(Nodes) - 1
      /\ Cardinality(Nodes) \in Nat
  BY NodesAssumption, FS_RemoveElement, FS_CardinalityType
<1>3. /\ Cardinality(Returned(c, "ok")) <= Cardinality(Nodes \ {n})
      /\ Cardinality(Nodes \ {n}) = Cardinality(Returned(c, "ok")) =>
            Nodes \ {n} = Returned(c, "ok")
      /\ Cardinality(Returned(c, "ok")) \in Nat
  BY <1>1, <1>2, FS_Subset, FS_CardinalityType
<1>4. Cardinality(Returned(c, "ok")) >= Cardinality(Nodes) - 1
  BY <1>2, <1>3 DEF Verdict
<1>5. Nodes \ {n} = Returned(c, "ok")
  BY <1>2, <1>3, <1>4
<1> QED
  BY <1>5 DEF Peers, Returned

(* Every step keeps what a result of a call means. *)
LEMMA AckStep == TypeOK /\ TypeOK' /\ AckInv /\ [Next]_vars => AckInv'
<1> SUFFICES ASSUME TypeOK, TypeOK', AckInv, [Next]_vars, NEW x \in Writes
             PROVE  AckOf(x)'
  BY DEF AckInv
<1>0. /\ AckOf(x)
      /\ writes[x] \in Write /\ writes'[x] \in Write
      /\ \A n \in Nodes : /\ calls[x][n] \in Call /\ calls'[x][n] \in Call
                          /\ store[n] \in [Keys -> Entry]
                          /\ store'[n] \in [Keys -> Entry]
  BY DEF AckInv, TypeOK
<1>1. ASSUME NEW w \in Writes, NEW n \in Nodes, NEW k \in Keys, NEW v \in Values,
             SetAt(w, n, k, v)
      PROVE  AckOf(x)'
  <2>1. /\ \A m \in Nodes \ {n} : store'[m] = store[m]
        /\ store'[n] = SetLocal(store[n], k, v)
        /\ SetLocal(store[n], k, v)[k] =
              [value |-> v, version |-> store[n][k].version + 1]
        /\ \A j \in Keys \ {k} : SetLocal(store[n], k, v)[j] = store[n][j]
        /\ store[n][k].version \in Nat
    <3>1. /\ \A m \in Nodes \ {n} : store'[m] = store[m]
          /\ store'[n] = SetLocal(store[n], k, v)
      BY <1>1 DEF SetAt, TypeOK
    <3>2. store[n] \in [Keys -> Entry]
      BY <1>0
    <3> QED
      BY <3>1, <3>2, SetLocalEntry DEF Entry
  <2>2. \A m \in Nodes, j \in Keys : store'[m][j].version >= store[m][j].version
    BY <1>0, <2>1 DEF Entry
  <2>3. CASE x # w
    <3>1. writes'[x] = writes[x] /\ calls'[x] = calls[x]
      BY <1>1, <2>3 DEF SetAt, TypeOK
    <3>2. writes[x].key \in Keys /\ writes[x].version \in Nat
      BY <1>0 DEF Write
    <3>3. \A m \in Nodes : /\ store[m][writes[x].key].version \in Nat
                           /\ store'[m][writes[x].key].version \in Nat
      BY <1>0, <3>2 DEF Entry
    <3> QED
      BY <1>0, <2>2, <3>1, <3>2, <3>3 DEF AckOf
  <2>4. CASE x = w
    <3>1. /\ calls'[x] = [p \in Nodes |->
                IF p = n THEN [request |-> "applied", outcome |-> "none"]
                ELSE [request |-> "pending", outcome |-> "waiting"]]
          /\ writes'[x] = [phase |-> Verdict(calls'[x]), node |-> n, key |-> k,
                           value |-> v, version |-> NextVersion(store[n], k)]
      BY <1>1, <2>4 DEF SetAt, TypeOK
    <3>2. writes'[x].phase = "created" =>
             \A p \in Peers(n) : calls'[x][p].outcome = "ok"
      BY <3>1, VerdictAll
    <3>3. writes'[x].phase # "idle"
      BY <3>1, VerdictType
    <3> QED
      BY <2>1, <3>1, <3>2, <3>3 DEF AckOf, NextVersion
  <2> QED
    BY <2>3, <2>4
<1>2. ASSUME NEW w \in Writes, NEW n \in Nodes, Replicate(w, n) PROVE AckOf(x)'
  <2>1. /\ \A m \in Nodes \ {n} : store'[m] = store[m]
        /\ store'[n] = Set(store[n], writes[w].key, WriteEntry(w))
        /\ WriteEntry(w) \in Entry /\ writes[w].key \in Keys
        /\ writes' = writes
    BY <1>2 DEF Replicate, TypeOK, WriteEntry, Entry, Write
  <2>2. /\ store'[n][writes[w].key].version >= writes[w].version
        /\ \A j \in Keys : store'[n][j].version >= store[n][j].version
    BY <1>0, <2>1, SetAdvances DEF WriteEntry
  <2>3. /\ \A m \in Nodes : calls'[x][m].outcome = calls[x][m].outcome
        /\ \A m \in Nodes : ~(x = w /\ m = n) => calls'[x][m] = calls[x][m]
        /\ x = w => /\ calls[x][n].request = "pending"
                    /\ calls'[x][n].request = "applied"
    BY <1>0, <1>2 DEF Replicate, TypeOK, Call
  <2>4. x = w => writes[x].phase # "idle"
    BY <1>0, <2>3 DEF AckOf, NoCall
  <2>5. writes[x].key \in Keys /\ writes[x].version \in Nat
    BY <1>0 DEF Write
  <2>6. \A m \in Nodes : /\ store[m][writes[x].key].version \in Nat
                         /\ store'[m][writes[x].key].version \in Nat
    BY <1>0, <2>5 DEF Entry
  <2>7. \A m \in Nodes :
           store'[m][writes[x].key].version >= store[m][writes[x].key].version
    BY <2>1, <2>2, <2>5, <2>6
  <2>8. writes[x].node \in Nodes
    BY <1>0 DEF Write
  <2>9. ASSUME NEW m \in Nodes
        PROVE  /\ calls'[x][m].outcome = "ok" =>
                     calls'[x][m].request \in {"applied", "forgotten"}
               /\ calls'[x][m].request = "applied" =>
                     store'[m][writes[x].key].version >= writes[x].version
    <3>1. CASE x = w /\ m = n
      BY <2>2, <2>3, <3>1
    <3>2. CASE ~(x = w /\ m = n)
      <4>1. calls[x][m].request = "applied" =>
               store[m][writes[x].key].version >= writes[x].version
        BY <1>0 DEF AckOf
      <4>2. calls'[x][m] = calls[x][m]
        BY <2>3, <3>2
      <4>3. store'[m][writes[x].key].version >= store[m][writes[x].key].version
        BY <2>7
      <4>4. calls[x][m].outcome = "ok" =>
               calls[x][m].request \in {"applied", "forgotten"}
        BY <1>0 DEF AckOf
      <4> QED
        BY <2>5, <2>6, <4>1, <4>2, <4>3, <4>4
    <3> QED
      BY <3>1, <3>2
  <2>10. writes[x].phase # "idle" =>
            /\ calls'[x][writes[x].node].request \in {"applied", "forgotten"}
            /\ calls'[x][writes[x].node].outcome = "none"
    BY <1>0, <2>3, <2>8 DEF AckOf
  <2>11. writes[x].phase = "idle" => \A m \in Nodes : calls'[x][m] = NoCall
    BY <1>0, <2>3, <2>4 DEF AckOf
  <2>12. writes[x].phase = "created" =>
            \A p \in Peers(writes[x].node) : calls'[x][p].outcome = "ok"
    BY <1>0, <2>3 DEF AckOf, Peers
  <2> QED
    BY <2>1, <2>9, <2>10, <2>11, <2>12 DEF AckOf, Peers
<1>3. ASSUME NEW w \in Writes, NEW n \in Nodes, CallSucceeds(w, n) \/ CallFails(w, n)
      PROVE  AckOf(x)'
  <2>1. PICK o \in {"ok", "failed"} :
           /\ CallReturns(w, n, o)
           /\ o = "ok" => calls[w][n].request \in {"applied", "forgotten"}
    BY <1>3, ReturnCases
  <2>2. /\ \A m \in Nodes : calls'[x][m].request = calls[x][m].request
        /\ \A m \in Nodes : ~(x = w /\ m = n) => calls'[x][m] = calls[x][m]
        /\ x = w => /\ calls[x][n].outcome = "waiting"
                    /\ calls'[x][n].outcome = o
        /\ store' = store
    BY <1>0, <2>1 DEF CallReturns, TypeOK, Call
  <2>3. /\ writes'[x].node = writes[x].node
        /\ writes'[x].key = writes[x].key
        /\ writes'[x].version = writes[x].version
        /\ \/ writes'[x].phase = writes[x].phase
           \/ /\ x = w /\ writes[x].phase = "waiting"
              /\ writes'[x].phase = Verdict(calls'[x])
    BY <1>0, <2>1 DEF CallReturns, TypeOK, Write
  <2>4. x = w => writes[x].phase # "idle" /\ n # writes[x].node
    BY <1>0, <2>2 DEF AckOf, NoCall
  <2>5. writes[x].phase # "created" /\ writes'[x].phase = "created" =>
           \A p \in Peers(writes[x].node) : calls'[x][p].outcome = "ok"
    <3>1. writes[x].node \in Nodes
      BY <1>0 DEF Write
    <3>2. writes[x].phase = "waiting" =>
             calls'[x][writes[x].node].outcome # "ok"
      BY <1>0, <2>2, <2>4, <3>1 DEF AckOf
    <3> QED
      BY <2>3, <3>1, <3>2, VerdictAll
  <2>6. writes[x].phase # "idle" => writes'[x].phase # "idle"
    BY <2>3, VerdictType
  <2>7. writes[x].phase = "idle" => writes'[x].phase = "idle" /\ calls'[x] = calls[x]
    <3>1. writes[x].phase = "idle" => x # w
      BY <2>4
    <3> QED
      BY <2>1, <2>3, <3>1 DEF CallReturns, TypeOK
  <2>8. writes[x].phase = "created" =>
           \A p \in Peers(writes[x].node) : calls'[x][p].outcome = "ok"
    BY <1>0, <2>2 DEF AckOf, Peers
  <2>9. ASSUME NEW m \in Nodes
        PROVE  /\ calls'[x][m].outcome = "ok" =>
                     calls'[x][m].request \in {"applied", "forgotten"}
               /\ calls'[x][m].request = "applied" =>
                     store'[m][writes[x].key].version >= writes[x].version
    <3>1. CASE x = w /\ m = n
      BY <1>0, <2>1, <2>2, <3>1 DEF AckOf
    <3>2. CASE ~(x = w /\ m = n)
      BY <1>0, <2>2, <3>2 DEF AckOf
    <3> QED
      BY <3>1, <3>2
  <2>10. writes[x].phase # "idle" =>
            /\ calls'[x][writes[x].node].request \in {"applied", "forgotten"}
            /\ calls'[x][writes[x].node].outcome = "none"
    <3>1. writes[x].node \in Nodes
      BY <1>0 DEF Write
    <3> QED
      BY <1>0, <2>2, <2>4, <3>1 DEF AckOf
  <2>11. writes'[x].phase = "idle" => \A m \in Nodes : calls'[x][m] = NoCall
    BY <1>0, <2>6, <2>7 DEF AckOf
  <2>12. writes'[x].phase = "created" =>
            \A p \in Peers(writes[x].node) : calls'[x][p].outcome = "ok"
    BY <2>5, <2>8
  <2> QED
    BY <2>3, <2>7, <2>9, <2>10, <2>11, <2>12 DEF AckOf, Peers
<1>4. ASSUME NEW r \in Reads, NEW n \in Nodes, NEW k \in Keys, ReadCopy(r, n, k)
      PROVE  AckOf(x)'
  BY <1>0, <1>4 DEF ReadCopy, AckOf
<1>5. ASSUME NEW n \in Nodes, Restart(n) PROVE AckOf(x)'
  <2>1. \A m \in Nodes \ {n} : store'[m] = store[m]
    BY <1>5 DEF Restart, TypeOK
  <2>2. /\ writes'[x].node = writes[x].node
        /\ writes'[x].key = writes[x].key
        /\ writes'[x].version = writes[x].version
        /\ \/ writes'[x].phase = writes[x].phase
           \/ writes[x].phase = "waiting" /\ writes'[x].phase = "lost"
    BY <1>0, <1>5 DEF Restart, Write
  <2>3. \A p \in Nodes :
           /\ p # n => calls'[x][p].request = calls[x][p].request
           /\ p = n /\ calls[x][p].request \in {"applied", "forgotten"} =>
                 calls'[x][p].request = "forgotten"
           /\ p = n => calls'[x][p].request # "applied"
           /\ calls[x][p].outcome # "waiting" =>
                 calls'[x][p].outcome = calls[x][p].outcome
           /\ calls'[x][p].outcome = "ok" => calls[x][p].outcome = "ok"
           /\ calls[x][p] = NoCall => calls'[x][p] = NoCall
    BY <1>0, <1>5, RestartCalls DEF NoCall, Call
  <2>4. writes[x].node \in Nodes
    BY <1>0 DEF Write
  <2> QED
    BY <1>0, <2>1, <2>2, <2>3, <2>4 DEF AckOf, Peers
<1>6. CASE UNCHANGED vars
  BY <1>0, <1>6 DEF vars, AckOf, Peers
<1> QED
  BY <1>1, <1>2, <1>3, <1>4, <1>5, <1>6, StepCases DEF Step

(* In every reachable state. *)
LEMMA AckInvariant == Spec => []AckInv
<1>1. Init => AckInv
  BY SomeKeyAndNode DEF Init, AckInv, AckOf, NoCall
<1> QED
  BY <1>1, LeaderlessTyped, AckStep, PTL DEF Spec

(* After a 201 every node holds the write's version or a newer one, or     *)
(* lost it in a restart of its own.                                        *)
THEOREM AckedEverywhere == Spec => []AckedVersionEverywhere
<1>1. TypeOK /\ AckInv => AckedVersionEverywhere
  <2> SUFFICES ASSUME TypeOK, AckInv, NEW w \in Writes, writes[w].phase = "created",
                      NEW n \in Nodes
               PROVE  \/ store[n][writes[w].key].version >= writes[w].version
                      \/ Forgotten(w, n)
    BY DEF AckedVersionEverywhere
  <2>1. calls[w][n].request \in {"applied", "forgotten"}
    BY DEF AckInv, AckOf, Peers
  <2> QED
    BY <2>1 DEF AckInv, AckOf, Forgotten
<1> QED
  BY <1>1, LeaderlessTyped, AckInvariant, PTL

-----------------------------------------------------------------------------
(* A coordinator and its own writes *)

Holds(n, w) == \/ store[n][writes[w].key] = WriteEntry(w)
               \/ store[n][writes[w].key].version > writes[w].version

(* A coordinator holds its write or a newer one until it restarts, as all  *)
(* that it applies or chooses later is newer; so its reads saw it.         *)
OwnInv ==
    /\ \A w \in Writes :
          writes[w].phase # "idle"
          /\ calls[w][writes[w].node].request = "applied" =>
                Holds(writes[w].node, w)
    /\ \A r \in Reads : reads[r].done =>
          \A w \in reads[r].acked :
             /\ writes[w].phase # "idle"
             /\ writes[w].node = reads[r].node => Sees(r, w)

(* A write that a coordinator has taken keeps all but its phase. *)
LEMMA WritesKept ==
    ASSUME TypeOK, [Next]_vars, NEW w \in Writes, writes[w].phase # "idle"
    PROVE  /\ writes'[w].phase # "idle"
           /\ writes'[w].node = writes[w].node
           /\ writes'[w].key = writes[w].key
           /\ writes'[w].value = writes[w].value
           /\ writes'[w].version = writes[w].version
<1>0. writes[w] \in Write
  BY DEF TypeOK
<1>1. ASSUME NEW y \in Writes, NEW n \in Nodes, NEW k \in Keys, NEW v \in Values,
             SetAt(y, n, k, v)
      PROVE  writes'[w] = writes[w]
  BY <1>1 DEF SetAt, TypeOK
<1>2. ASSUME NEW y \in Writes, NEW n \in Nodes, NEW o \in {"ok", "failed"},
             CallReturns(y, n, o)
      PROVE  \/ writes'[w] = writes[w]
             \/ writes'[w] = [writes[w] EXCEPT !.phase = Verdict(calls'[w])]
  BY <1>2 DEF CallReturns, TypeOK
<1>3. ASSUME NEW n \in Nodes, Restart(n)
      PROVE  writes'[w] = writes[w] \/ writes'[w] = [writes[w] EXCEPT !.phase = "lost"]
  BY <1>3 DEF Restart
<1>4. \/ writes'[w] = writes[w]
      \/ writes'[w] = [writes[w] EXCEPT !.phase = Verdict(calls'[w])]
      \/ writes'[w] = [writes[w] EXCEPT !.phase = "lost"]
  BY <1>1, <1>2, <1>3, StepCases, ReturnCases
     DEF Step, Replicate, ReadCopy, vars
<1> QED
  BY <1>0, <1>4, VerdictType DEF Write

(* Every step keeps a coordinator's own writes in its copy, and what the *)
(* reads of it have seen.                                                *)
LEMMA OwnStep ==
    TypeOK /\ TypeOK' /\ AckInv /\ OwnInv /\ [Next]_vars => OwnInv'
<1> SUFFICES ASSUME TypeOK, TypeOK', AckInv, OwnInv, [Next]_vars PROVE OwnInv'
  OBVIOUS
<1>1. ASSUME NEW x \in Writes, writes'[x].phase # "idle",
             calls'[x][writes'[x].node].request = "applied"
      PROVE  Holds(writes[x].node, x)'
  <2>0. /\ writes[x] \in Write /\ writes'[x] \in Write
        /\ \A n \in Nodes : /\ calls[x][n] \in Call /\ calls'[x][n] \in Call
                            /\ store[n] \in [Keys -> Entry]
                            /\ store'[n] \in [Keys -> Entry]
    BY DEF TypeOK
  <2>1. ASSUME writes[x].phase # "idle",
               calls[x][writes[x].node].request = "applied",
               LET c == writes[x].node  k == writes[x].key
               IN  \/ store'[c][k] = store[c][k]
                   \/ store'[c][k].version > store[c][k].version
        PROVE  Holds(writes[x].node, x)'
    <3>1. writes[x].node \in Nodes /\ writes[x].key \in Keys
          /\ writes[x].version \in Nat
      BY <2>0 DEF Write
    <3>2. /\ store[writes[x].node][writes[x].key].version \in Nat
          /\ store'[writes[x].node][writes[x].key].version \in Nat
      BY <2>0, <3>1 DEF Entry
    <3>3. Holds(writes[x].node, x)
      BY <2>1 DEF OwnInv
    <3>4. /\ writes'[x].node = writes[x].node
          /\ writes'[x].key = writes[x].key
          /\ writes'[x].value = writes[x].value
          /\ writes'[x].version = writes[x].version
      BY <2>1, WritesKept
    <3>5. CASE store'[writes[x].node][writes[x].key] = store[writes[x].node][writes[x].key]
      BY <3>3, <3>4, <3>5 DEF Holds, WriteEntry
    <3>6. CASE store'[writes[x].node][writes[x].key].version
                 > store[writes[x].node][writes[x].key].version
      <4>1. store[writes[x].node][writes[x].key].version >= writes[x].version
        <5>1. WriteEntry(x).version = writes[x].version
          BY DEF WriteEntry
        <5>2. CASE store[writes[x].node][writes[x].key] = WriteEntry(x)
          <6>1. store[writes[x].node][writes[x].key].version = writes[x].version
            BY <5>1, <5>2
          <6> QED
            BY <3>1, <6>1
        <5>3. CASE store[writes[x].node][writes[x].key].version > writes[x].version
          BY <3>1, <3>2, <5>3
        <5> QED
          BY <3>3, <5>2, <5>3 DEF Holds
      <4>2. store'[writes[x].node][writes[x].key].version > writes[x].version
        BY <3>1, <3>2, <3>6, <4>1
      <4> QED
        BY <3>4, <4>2 DEF Holds
    <3> QED
      BY <2>1, <3>5, <3>6
  <2>2. ASSUME NEW w \in Writes, NEW n \in Nodes, NEW k \in Keys, NEW v \in Values,
               SetAt(w, n, k, v)
        PROVE  Holds(writes[x].node, x)'
    <3>1. /\ \A m \in Nodes \ {n} : store'[m] = store[m]
          /\ store'[n][k] = [value |-> v, version |-> store[n][k].version + 1]
          /\ \A j \in Keys \ {k} : store'[n][j] = store[n][j]
      <4>1. /\ \A m \in Nodes \ {n} : store'[m] = store[m]
            /\ store'[n] = SetLocal(store[n], k, v)
        BY <2>2 DEF SetAt, TypeOK
      <4> QED
        BY <2>0, <4>1, SetLocalEntry
    <3>2. CASE x = w
      <4>1. writes'[x] = [phase |-> Verdict(calls'[x]), node |-> n, key |-> k,
                          value |-> v, version |-> NextVersion(store[n], k)]
        BY <2>2, <3>2 DEF SetAt, TypeOK
      <4> QED
        BY <3>1, <4>1 DEF Holds, WriteEntry, NextVersion
    <3>3. CASE x # w
      <4>1. writes'[x] = writes[x] /\ calls'[x] = calls[x]
        BY <2>2, <3>3 DEF SetAt, TypeOK
      <4>2. writes[x].node \in Nodes /\ writes[x].key \in Keys
        BY <2>0 DEF Write
      <4>3. store[n][k].version \in Nat
        BY <2>0 DEF Entry
      <4> QED
        BY <1>1, <2>1, <3>1, <4>1, <4>2, <4>3
    <3> QED
      BY <3>2, <3>3
  <2>3. ASSUME NEW w \in Writes, NEW n \in Nodes, Replicate(w, n)
        PROVE  Holds(writes[x].node, x)'
    <3>1. /\ \A m \in Nodes \ {n} : store'[m] = store[m]
          /\ store'[n] = Set(store[n], writes[w].key, WriteEntry(w))
          /\ WriteEntry(w) \in Entry /\ writes[w].key \in Keys
          /\ writes' = writes
      BY <2>3 DEF Replicate, TypeOK, WriteEntry, Entry, Write
    <3>2. writes[x].node \in Nodes /\ writes[x].key \in Keys
      BY <2>0 DEF Write
    <3>3. \A j \in Keys : \/ store'[n][j] = store[n][j]
                          \/ store'[n][j].version > store[n][j].version
      BY <2>0, <3>1, SetChoice
    <3>4. /\ calls[w][n].request = "pending"
          /\ ~(x = w /\ writes[x].node = n) =>
                calls'[x][writes[x].node] = calls[x][writes[x].node]
      BY <2>3, <3>2 DEF Replicate, TypeOK
    <3>5. ~(x = w /\ writes[x].node = n)
      BY <1>1, <3>1, <3>4 DEF AckInv, AckOf
    <3> QED
      BY <1>1, <2>1, <3>1, <3>2, <3>3, <3>4, <3>5
  <2>4. ASSUME NEW w \in Writes, NEW n \in Nodes, CallSucceeds(w, n) \/ CallFails(w, n)
        PROVE  Holds(writes[x].node, x)'
    <3>1. PICK o \in {"ok", "failed"} : CallReturns(w, n, o)
      BY <2>4, ReturnCases
    <3>2. /\ store' = store
          /\ \A m \in Nodes : calls'[x][m].request = calls[x][m].request
      BY <2>0, <3>1 DEF CallReturns, TypeOK, Call
    <3>3. writes[x].phase = "idle" => writes'[x].phase = "idle"
      BY <3>1 DEF CallReturns, TypeOK
    <3>4. writes[x].node \in Nodes
      BY <2>0 DEF Write
    <3> QED
      BY <1>1, <2>1, <3>2, <3>3, <3>4, WritesKept
  <2>5. ASSUME NEW n \in Nodes, Restart(n) PROVE Holds(writes[x].node, x)'
    <3>1. /\ writes'[x].node = writes[x].node
          /\ writes[x].phase = "idle" => writes'[x].phase = "idle"
          /\ writes[x].node \in Nodes
      BY <2>0, <2>5 DEF Restart, Write
    <3>2. \A p \in Nodes : /\ p # n => calls'[x][p].request = calls[x][p].request
                           /\ p = n => calls'[x][p].request # "applied"
      BY <2>5, RestartCalls
    <3>3. \A m \in Nodes \ {n} : store'[m] = store[m]
      BY <2>5 DEF Restart, TypeOK
    <3> QED
      BY <1>1, <2>1, <3>1, <3>2, <3>3
  <2>6. ASSUME UNCHANGED <<store, writes, calls>> PROVE Holds(writes[x].node, x)'
    BY <1>1, <2>1, <2>6
  <2> QED
    BY <2>2, <2>3, <2>4, <2>5, <2>6, StepCases DEF Step, ReadCopy, vars
<1>2. ASSUME NEW x \in Writes, writes'[x].phase # "idle",
             calls'[x][writes'[x].node].request = "applied"
      PROVE  Holds(writes[x].node, x)'
  BY <1>1, <1>2
<1>3. ASSUME NEW r \in Reads, reads'[r].done, NEW w \in reads'[r].acked
      PROVE  /\ writes'[w].phase # "idle"
             /\ writes'[w].node = reads'[r].node => Sees(r, w)'
  <2>1. ASSUME reads'[r] = reads[r]
        PROVE  /\ writes'[w].phase # "idle"
               /\ writes'[w].node = reads'[r].node => Sees(r, w)'
    <3>1. w \in Writes
      BY <1>3, <2>1 DEF TypeOK, Read
    <3>2. /\ writes[w].phase # "idle"
          /\ writes[w].node = reads[r].node => Sees(r, w)
      BY <1>3, <2>1 DEF OwnInv
    <3> QED
      BY <2>1, <3>1, <3>2, WritesKept DEF Sees, WriteEntry
  <2>2. ASSUME NEW n \in Nodes, NEW k \in Keys, ReadCopy(r, n, k)
        PROVE  /\ writes'[w].phase # "idle"
               /\ writes'[w].node = reads'[r].node => Sees(r, w)'
    <3>1. /\ reads'[r].node = n /\ reads'[r].result = store[n][k]
          /\ w \in Writes /\ writes[w].phase = "created" /\ writes[w].key = k
          /\ ~Forgotten(w, n)
          /\ writes' = writes
      BY <1>3, <2>2 DEF ReadCopy, TypeOK
    <3>2. ASSUME writes[w].node = n PROVE Holds(n, w)
      <4>1. calls[w][n].request = "applied"
        BY <3>1, <3>2 DEF AckInv, AckOf, Forgotten
      <4> QED
        BY <3>1, <3>2, <4>1 DEF OwnInv
    <3> QED
      BY <3>1, <3>2 DEF Holds, Sees, WriteEntry
  <2>3. ASSUME NEW q \in Reads, q # r, NEW n \in Nodes, NEW k \in Keys,
               ReadCopy(q, n, k)
        PROVE  reads'[r] = reads[r]
    BY <2>3 DEF ReadCopy, TypeOK
  <2>4. \/ reads'[r] = reads[r]
        \/ \E n \in Nodes, k \in Keys : ReadCopy(r, n, k)
    BY <2>3, StepCases
       DEF Step, SetAt, Replicate, CallSucceeds, CallFails, CallReturns,
           Restart, vars
  <2> QED
    BY <2>1, <2>2, <2>4
<1> QED
  BY <1>2, <1>3 DEF OwnInv

(* A read of the coordinator after its 201 sees the write or a newer one,  *)
(* with any number of other coordinators of the key, unless the node lost  *)
(* it in a restart.                                                        *)
THEOREM CoordinatorSeesOwn == Spec => []CoordinatorReadsOwnWrite
<1>1. Init => OwnInv
  BY DEF Init, OwnInv
<1>2. OwnInv => CoordinatorReadsOwnWrite
  BY DEF OwnInv, CoordinatorReadsOwnWrite
<1> QED
  BY <1>1, <1>2, LeaderlessTyped, AckInvariant, OwnStep, PTL DEF Spec

-----------------------------------------------------------------------------
(* Several coordinators, and the key that has only one *)

(* The entry e, found for key k, is that of a write of k. *)
FromWrite(e, k) ==
    \/ e = NoEntry
    \/ \E w \in Writes : /\ writes[w].phase # "idle"
                         /\ writes[w].key = k
                         /\ e = WriteEntry(w)

(* What holds with any number of coordinators: writes have versions, an    *)
(* update is forgotten only in a restart, a node gives no version of a key *)
(* twice until it restarts, every entry that is stored or was read is that *)
(* of a write, and a read returns at least the versions of the writes      *)
(* acknowledged before it.                                                 *)
OriginInv ==
    /\ \A w \in Writes : writes[w].phase # "idle" => writes[w].version > 0
    /\ \A w \in Writes, n \in Nodes : Forgotten(w, n) => restarts[n] > 0
    /\ \A w, x \in Writes :
          /\ w # x
          /\ writes[w].phase # "idle" /\ writes[x].phase # "idle"
          /\ writes[w].key = writes[x].key
          /\ writes[w].node = writes[x].node
          /\ restarts[writes[w].node] = 0
          => writes[w].version # writes[x].version
    /\ \A n \in Nodes, k \in Keys : FromWrite(store[n][k], k)
    /\ \A r \in Reads : reads[r].done =>
          /\ FromWrite(reads[r].result, reads[r].key)
          /\ \A w \in reads[r].acked :
                /\ writes[w].phase # "idle"
                /\ writes[w].key = reads[r].key
                /\ reads[r].result.version >= writes[w].version

(* An entry of a write stays one. *)
LEMMA FromWriteStays ==
    ASSUME TypeOK, [Next]_vars, NEW e, NEW k, FromWrite(e, k)
    PROVE  FromWrite(e, k)'
<1>1. ASSUME NEW w \in Writes, writes[w].phase # "idle"
      PROVE  writes'[w].phase # "idle" /\ writes'[w].key = writes[w].key
             /\ WriteEntry(w)' = WriteEntry(w)
  BY <1>1, WritesKept DEF WriteEntry
<1> QED
  BY <1>1 DEF FromWrite

(* The count of a node's restarts goes up in its restarts only. *)
LEMMA RestartsGrow ==
    ASSUME TypeOK, [Next]_vars, NEW n \in Nodes
    PROVE  /\ restarts[n] \in Nat
           /\ \/ restarts'[n] = restarts[n]
              \/ Restart(n) /\ restarts'[n] = restarts[n] + 1
<1>1. restarts \in [Nodes -> 0..MaxRestarts] /\ restarts[n] \in Nat
  BY NodesAssumption DEF TypeOK
<1>2. ASSUME NEW m \in Nodes, Restart(m)
      PROVE  \/ restarts'[n] = restarts[n]
             \/ Restart(n) /\ restarts'[n] = restarts[n] + 1
  <2>1. restarts' = [restarts EXCEPT ![m] = @ + 1]
    BY <1>2 DEF Restart
  <2> QED
    BY <1>1, <1>2, <2>1
<1> QED
  BY <1>1, <1>2, StepCases
     DEF Step, SetAt, Replicate, CallSucceeds, CallFails, CallReturns,
         ReadCopy, vars

(* A write of a coordinator that has not restarted is in its own copy: the *)
(* version it holds is as new as any that it has given.                    *)
LEMMA OwnVersions ==
    ASSUME TypeOK, AckInv, OriginInv,
           NEW w \in Writes, writes[w].phase # "idle",
           restarts[writes[w].node] = 0
    PROVE  writes[w].version <= store[writes[w].node][writes[w].key].version
<1>1. writes[w].node \in Nodes /\ writes[w].key \in Keys
      /\ writes[w].version \in Nat
  BY DEF TypeOK, Write
<1>2. calls[w][writes[w].node].request = "applied"
  BY <1>1 DEF AckInv, AckOf, OriginInv, Forgotten
<1>3. store[writes[w].node][writes[w].key].version >= writes[w].version
  BY <1>1, <1>2 DEF AckInv, AckOf
<1>4. store[writes[w].node][writes[w].key].version \in Nat
  BY <1>1 DEF TypeOK, Entry
<1> QED
  BY <1>1, <1>3, <1>4

(* The steps of the writes keep their versions positive and, for one       *)
(* coordinator and key, distinct.                                          *)
LEMMA VersionsStep ==
    ASSUME TypeOK, TypeOK', AckInv, OriginInv, [Next]_vars
    PROVE  /\ \A w \in Writes : writes'[w].phase # "idle" => writes'[w].version > 0
           /\ \A w, x \in Writes :
                 /\ w # x
                 /\ writes'[w].phase # "idle" /\ writes'[x].phase # "idle"
                 /\ writes'[w].key = writes'[x].key
                 /\ writes'[w].node = writes'[x].node
                 /\ restarts'[writes'[w].node] = 0
                 => writes'[w].version # writes'[x].version
<1>1. ASSUME NEW w \in Writes, writes'[w].phase # "idle"
      PROVE  \/ /\ writes[w].phase # "idle"
                /\ writes'[w].node = writes[w].node
                /\ writes'[w].key = writes[w].key
                /\ writes'[w].version = writes[w].version
             \/ /\ writes[w].phase = "idle"
                /\ \A x \in Writes \ {w} : writes'[x] = writes[x]
                /\ restarts' = restarts
                /\ writes'[w].version
                      = store[writes'[w].node][writes'[w].key].version + 1
  <2>1. CASE writes[w].phase # "idle"
    BY <2>1, WritesKept
  <2>2. CASE writes[w].phase = "idle"
    <3>1. ASSUME NEW y \in Writes, NEW n \in Nodes, NEW o \in {"ok", "failed"},
                 CallReturns(y, n, o)
          PROVE  FALSE
      BY <1>1, <2>2, <3>1 DEF CallReturns, TypeOK
    <3>2. ASSUME NEW n \in Nodes, Restart(n) PROVE FALSE
      BY <1>1, <2>2, <3>2 DEF Restart
    <3>3. ~(writes' = writes)
      BY <1>1, <2>2
    <3>4. PICK y \in Writes, n \in Nodes, k \in Keys, v \in Values : SetAt(y, n, k, v)
      BY <3>1, <3>2, <3>3, StepCases, ReturnCases
         DEF Step, Replicate, ReadCopy, vars
    <3>5. /\ y = w
          /\ writes'[w].node = n /\ writes'[w].key = k
          /\ writes'[w].version = store[n][k].version + 1
          /\ \A x \in Writes \ {w} : writes'[x] = writes[x]
      <4>1. y = w
        BY <1>1, <2>2, <3>4 DEF SetAt, TypeOK
      <4> QED
        BY <3>4, <4>1 DEF SetAt, TypeOK, NextVersion
    <3> QED
      BY <2>2, <3>4, <3>5 DEF SetAt
  <2> QED
    BY <2>1, <2>2
<1>2. \A n \in Nodes, k \in Keys : store[n][k].version \in Nat
  BY DEF TypeOK, Entry
<1>3. ASSUME NEW w \in Writes, writes'[w].phase # "idle"
      PROVE  writes'[w].version > 0
  <2>1. writes'[w].node \in Nodes /\ writes'[w].key \in Keys
    BY DEF TypeOK, Write
  <2> QED
    BY <1>1, <1>2, <1>3, <2>1 DEF OriginInv
<1>4. ASSUME NEW w \in Writes, NEW x \in Writes, w # x,
             writes[w].phase = "idle",
             writes'[w].phase # "idle", writes'[x].phase # "idle",
             writes'[w].key = writes'[x].key,
             writes'[w].node = writes'[x].node,
             restarts'[writes'[w].node] = 0
      PROVE  writes'[w].version # writes'[x].version
  <2>1. /\ writes'[x] = writes[x]
        /\ restarts' = restarts
        /\ writes'[w].version
              = store[writes[x].node][writes[x].key].version + 1
    BY <1>1, <1>4
  <2>2. writes[x].version <= store[writes[x].node][writes[x].key].version
    BY <1>4, <2>1, OwnVersions
  <2>3. /\ store[writes[x].node][writes[x].key].version \in Nat
        /\ writes[x].version \in Nat
    BY <1>2 DEF TypeOK, Write
  <2> QED
    BY <2>1, <2>2, <2>3
<1>5. ASSUME NEW w \in Writes, NEW x \in Writes, w # x,
             writes'[w].phase # "idle", writes'[x].phase # "idle",
             writes'[w].key = writes'[x].key,
             writes'[w].node = writes'[x].node,
             restarts'[writes'[w].node] = 0
      PROVE  writes'[w].version # writes'[x].version
  <2>1. CASE writes[w].phase = "idle"
    BY <1>4, <1>5, <2>1
  <2>2. CASE writes[x].phase = "idle"
    BY <1>4, <1>5, <2>2
  <2>3. CASE writes[w].phase # "idle" /\ writes[x].phase # "idle"
    <3>1. writes[w].node \in Nodes
      BY DEF TypeOK, Write
    <3>2. restarts[writes[w].node] = 0
      BY <1>5, <2>3, <3>1, RestartsGrow, WritesKept
    <3> QED
      BY <1>5, <2>3, <3>2, WritesKept DEF OriginInv
  <2> QED
    BY <2>1, <2>2, <2>3
<1> QED
  BY <1>3, <1>5

(* An update becomes forgotten in a restart of the node that held it. *)
LEMMA ForgottenStep ==
    ASSUME TypeOK, [Next]_vars, NEW w \in Writes, NEW n \in Nodes,
           Forgotten(w, n)'
    PROVE  Forgotten(w, n) \/ restarts'[n] > 0
<1>0. calls[w][n] \in Call /\ restarts[n] \in Nat
  BY RestartsGrow DEF TypeOK
<1>1. ASSUME NEW y \in Writes, NEW m \in Nodes, NEW k \in Keys, NEW v \in Values,
             SetAt(y, m, k, v)
      PROVE  Forgotten(w, n)
  BY <1>1 DEF SetAt, TypeOK, Forgotten
<1>2. ASSUME NEW y \in Writes, NEW m \in Nodes, Replicate(y, m)
      PROVE  Forgotten(w, n)
  BY <1>2 DEF Replicate, TypeOK, Forgotten, Call
<1>3. ASSUME NEW y \in Writes, NEW m \in Nodes, NEW o \in {"ok", "failed"},
             CallReturns(y, m, o)
      PROVE  Forgotten(w, n)
  BY <1>3 DEF CallReturns, TypeOK, Forgotten, Call
<1>4. ASSUME NEW m \in Nodes, Restart(m)
      PROVE  Forgotten(w, n) \/ restarts'[n] > 0
  <2>1. CASE m = n
    <3>1. restarts'[n] = restarts[n] + 1
      BY <1>4, <2>1 DEF Restart, TypeOK
    <3> QED
      BY <1>0, <3>1
  <2>2. CASE m # n
    <3>1. calls'[w][n].request = calls[w][n].request
      BY <1>4, <2>2, RestartCalls
    <3> QED
      BY <3>1 DEF Forgotten
  <2> QED
    BY <2>1, <2>2
<1> QED
  BY <1>1, <1>2, <1>3, <1>4, StepCases, ReturnCases
     DEF Step, ReadCopy, vars, Forgotten

(* Every entry that a step stores is that of a write. *)
LEMMA StoreStep ==
    ASSUME TypeOK, TypeOK', AckInv, OriginInv, [Next]_vars,
           NEW n \in Nodes, NEW j \in Keys
    PROVE  FromWrite(store[n][j], j)'
<1>0. store[n] \in [Keys -> Entry]
  BY DEF TypeOK
<1>1. CASE store'[n][j] = store[n][j]
  <2>1. FromWrite(store[n][j], j)
    BY DEF OriginInv
  <2> QED
    BY <1>1, <2>1, FromWriteStays DEF FromWrite
<1>2. CASE store'[n][j] = NoEntry
  BY <1>2 DEF FromWrite
<1>3. ASSUME NEW w \in Writes, NEW m \in Nodes, NEW k \in Keys, NEW v \in Values,
             SetAt(w, m, k, v), store'[n][j] # store[n][j]
      PROVE  FromWrite(store[n][j], j)'
  <2>1. store'[n] = IF n = m THEN SetLocal(store[n], k, v) ELSE store[n]
    BY <1>3 DEF SetAt, TypeOK
  <2>2. n = m /\ j = k
    <3>1. n = m
      BY <1>3, <2>1
    <3>2. ASSUME j \in Keys \ {k} PROVE SetLocal(store[n], k, v)[j] = store[n][j]
      BY <1>0, <3>2, SetLocalEntry
    <3> QED
      BY <1>3, <2>1, <3>1, <3>2
  <2>3. SetLocal(store[n], k, v)[k]
           = [value |-> v, version |-> store[n][k].version + 1]
    BY <1>0, SetLocalEntry
  <2>4. writes'[w] = [phase |-> Verdict(calls'[w]), node |-> m, key |-> k,
                      value |-> v, version |-> store[n][k].version + 1]
    BY <1>3, <2>2 DEF SetAt, TypeOK, NextVersion
  <2>5. /\ writes'[w].phase # "idle" /\ writes'[w].key = j
        /\ store'[n][j] = WriteEntry(w)'
    BY <2>1, <2>2, <2>3, <2>4, VerdictType DEF WriteEntry
  <2> QED
    BY <2>5 DEF FromWrite
<1>4. ASSUME NEW w \in Writes, NEW m \in Nodes, Replicate(w, m),
             store'[n][j] # store[n][j]
      PROVE  FromWrite(store[n][j], j)'
  <2>1. /\ writes[w].key \in Keys /\ WriteEntry(w) \in Entry
        /\ writes' = writes
    BY <1>4 DEF Replicate, TypeOK, Write, WriteEntry, Entry
  <2>2. store'[n] = IF n = m THEN Set(store[n], writes[w].key, WriteEntry(w))
                             ELSE store[n]
    BY <1>4 DEF Replicate, TypeOK
  <2>3. n = m
    BY <1>4, <2>2
  <2>4. store'[n] = [store[n] EXCEPT ![writes[w].key] = WriteEntry(w)]
    BY <1>0, <1>4, <2>1, <2>2, <2>3, SetChoice
  <2>5. j = writes[w].key /\ store'[n][j] = WriteEntry(w)
    BY <1>0, <1>4, <2>1, <2>4
  <2>6. writes[w].phase # "idle"
    BY <1>4 DEF Replicate, AckInv, AckOf, NoCall
  <2> QED
    BY <2>1, <2>5, <2>6 DEF FromWrite, WriteEntry
<1>5. ASSUME NEW m \in Nodes, Restart(m)
      PROVE  store'[n][j] = store[n][j] \/ store'[n][j] = NoEntry
  BY <1>5 DEF Restart, TypeOK, EmptyStore
<1>6. ASSUME NEW w \in Writes, NEW m \in Nodes,
             CallSucceeds(w, m) \/ CallFails(w, m)
      PROVE  store'[n][j] = store[n][j]
  BY <1>6 DEF CallSucceeds, CallFails, CallReturns
<1> QED
  BY <1>1, <1>2, <1>3, <1>4, <1>5, <1>6, StepCases DEF Step, ReadCopy, vars

(* A step leaves a read alone or answers it, and then it leaves everything *)
(* else alone.                                                             *)
LEMMA ReadCases ==
    ASSUME TypeOK, [Next]_vars, NEW r \in Reads
    PROVE  \/ reads'[r] = reads[r]
           \/ /\ UNCHANGED <<store, writes, calls, restarts>>
              /\ ~reads[r].done
              /\ \E n \in Nodes, k \in Keys :
                    reads'[r] = [done |-> TRUE, node |-> n, key |-> k,
                                 result |-> store[n][k],
                                 acked |-> {w \in Writes :
                                              /\ writes[w].phase = "created"
                                              /\ writes[w].key = k
                                              /\ ~Forgotten(w, n)}]
<1>1. ASSUME NEW q \in Reads, NEW n \in Nodes, NEW k \in Keys,
             ReadCopy(q, n, k), q # r
      PROVE  reads'[r] = reads[r]
  BY <1>1 DEF ReadCopy, TypeOK
<1>2. ASSUME NEW n \in Nodes, NEW k \in Keys, ReadCopy(r, n, k)
      PROVE  /\ UNCHANGED <<store, writes, calls, restarts>>
             /\ ~reads[r].done
             /\ reads'[r] = [done |-> TRUE, node |-> n, key |-> k,
                             result |-> store[n][k],
                             acked |-> {w \in Writes :
                                          /\ writes[w].phase = "created"
                                          /\ writes[w].key = k
                                          /\ ~Forgotten(w, n)}]
  BY <1>2 DEF ReadCopy, TypeOK
<1>3. \/ reads' = reads
      \/ \E q \in Reads, n \in Nodes, k \in Keys : ReadCopy(q, n, k)
  BY StepCases
     DEF Step, SetAt, Replicate, CallSucceeds, CallFails, CallReturns,
         Restart, vars
<1>4. CASE reads' = reads
  BY <1>4
<1>5. ASSUME NEW q \in Reads, NEW n \in Nodes, NEW k \in Keys, ReadCopy(q, n, k)
      PROVE  reads'[r] = reads[r] \/ ReadCopy(r, n, k)
  <2>1. CASE q = r
    BY <1>5, <2>1
  <2>2. CASE q # r
    BY <1>1, <1>5, <2>2
  <2> QED
    BY <2>1, <2>2
<1> QED
  BY <1>2, <1>3, <1>4, <1>5

(* What a read returned, and what was acknowledged before it, keeps its    *)
(* relation to the writes.                                                 *)
LEMMA ReadStep ==
    ASSUME TypeOK, TypeOK', AckInv, OriginInv, [Next]_vars,
           NEW r \in Reads, reads'[r].done
    PROVE  /\ FromWrite(reads[r].result, reads[r].key)'
           /\ \A w \in reads'[r].acked :
                 /\ writes'[w].phase # "idle"
                 /\ writes'[w].key = reads'[r].key
                 /\ reads'[r].result.version >= writes'[w].version
<1>1. CASE reads'[r] = reads[r]
  <2>1. FromWrite(reads[r].result, reads[r].key)
    BY <1>1 DEF OriginInv
  <2>2. FromWrite(reads[r].result, reads[r].key)'
    BY <1>1, <2>1, FromWriteStays DEF FromWrite
  <2>3. \A w \in reads[r].acked : w \in Writes
    BY DEF TypeOK, Read
  <2> QED
    BY <1>1, <2>2, <2>3, WritesKept DEF OriginInv
<1>2. ASSUME UNCHANGED <<store, writes, calls, restarts>>,
             NEW n \in Nodes, NEW k \in Keys,
             reads'[r] = [done |-> TRUE, node |-> n, key |-> k,
                          result |-> store[n][k],
                          acked |-> {w \in Writes :
                                       /\ writes[w].phase = "created"
                                       /\ writes[w].key = k
                                       /\ ~Forgotten(w, n)}]
      PROVE  /\ FromWrite(reads[r].result, reads[r].key)'
             /\ \A w \in reads'[r].acked :
                   /\ writes'[w].phase # "idle"
                   /\ writes'[w].key = reads'[r].key
                   /\ reads'[r].result.version >= writes'[w].version
  <2>1. FromWrite(store[n][k], k)
    BY DEF OriginInv
  <2>2. FromWrite(reads[r].result, reads[r].key)'
    BY <1>2, <2>1, FromWriteStays DEF FromWrite
  <2>3. ASSUME NEW w \in Writes, writes[w].phase = "created",
               writes[w].key = k, ~Forgotten(w, n)
        PROVE  store[n][k].version >= writes[w].version
    <3>1. calls[w][n].request = "applied"
      BY <2>3 DEF AckInv, AckOf, Peers, Forgotten
    <3> QED
      BY <2>3, <3>1 DEF AckInv, AckOf
  <2> QED
    BY <1>2, <2>2, <2>3
<1> QED
  BY <1>1, <1>2, ReadCases

(* In every reachable state. *)
LEMMA OriginInvariant == Spec => []OriginInv
<1>1. Init => OriginInv
  BY SomeKeyAndNode
     DEF Init, OriginInv, FromWrite, EmptyStore, Forgotten, NoCall
<1>2. TypeOK /\ TypeOK' /\ AckInv /\ OriginInv /\ [Next]_vars => OriginInv'
  <2> SUFFICES ASSUME TypeOK, TypeOK', AckInv, OriginInv, [Next]_vars
               PROVE  OriginInv'
    OBVIOUS
  <2>1. ASSUME NEW w \in Writes, NEW n \in Nodes, Forgotten(w, n)'
        PROVE  restarts'[n] > 0
    <3>1. CASE restarts'[n] > 0
      BY <3>1
    <3>2. CASE Forgotten(w, n)
      <4>1. restarts[n] > 0
        BY <3>2 DEF OriginInv
      <4> QED
        BY <4>1, RestartsGrow
    <3> QED
      BY <2>1, <3>1, <3>2, ForgottenStep
  <2>2. \A n \in Nodes, k \in Keys : FromWrite(store[n][k], k)'
    BY StoreStep
  <2>3. \A r \in Reads : reads'[r].done =>
            /\ FromWrite(reads[r].result, reads[r].key)'
            /\ \A w \in reads'[r].acked :
                  /\ writes'[w].phase # "idle"
                  /\ writes'[w].key = reads'[r].key
                  /\ reads'[r].result.version >= writes'[w].version
    BY ReadStep
  <2> QED
    BY <2>1, <2>2, <2>3, VersionsStep DEF OriginInv
<1> QED
  BY <1>1, <1>2, LeaderlessTyped, AckInvariant, PTL DEF Spec

(* Of a key with a sole coordinator, two entries of writes with the same   *)
(* version are the same.                                                   *)
LEMMA SoleVersions ==
    ASSUME TypeOK, OriginInv, NEW k \in Keys, SoleCoordinator(k),
           NEW w \in Writes, writes[w].phase # "idle", writes[w].key = k,
           NEW e \in Entry, FromWrite(e, k), e.version >= writes[w].version
    PROVE  e = WriteEntry(w) \/ e.version > writes[w].version
<1>1. writes[w].version \in Nat /\ e.version \in Nat /\ writes[w].version > 0
  BY DEF TypeOK, Write, Entry, OriginInv
<1>2. PICK x \in Writes : /\ writes[x].phase # "idle"
                          /\ writes[x].key = k
                          /\ e = WriteEntry(x)
  BY <1>1 DEF FromWrite, NoEntry
<1>3. writes[w].node = writes[x].node /\ restarts[writes[w].node] = 0
  BY <1>2 DEF SoleCoordinator
<1>4. CASE e.version = writes[w].version
  <2>1. writes[x].version = writes[w].version
    BY <1>2, <1>4 DEF WriteEntry
  <2>2. x = w
    BY <1>2, <1>3, <2>1 DEF OriginInv
  <2> QED
    BY <1>2, <2>2
<1> QED
  BY <1>1, <1>4

(* If one node has coordinated all writes of a key and has not restarted,  *)
(* a read of any node sees every write of it that was acknowledged before, *)
(* whatever calls fail and whoever else restarts.                          *)
THEOREM SoleCoordinatorReads == Spec => []EveryReadSeesAcked
<1>1. TypeOK /\ OriginInv => EveryReadSeesAcked
  <2> SUFFICES ASSUME TypeOK, OriginInv, NEW r \in Reads, reads[r].done,
                      SoleCoordinator(reads[r].key), NEW w \in reads[r].acked
               PROVE  Sees(r, w)
    BY DEF EveryReadSeesAcked
  <2>1. /\ reads[r].key \in Keys /\ reads[r].result \in Entry
        /\ w \in Writes
    BY DEF TypeOK, Read
  <2>2. /\ FromWrite(reads[r].result, reads[r].key)
        /\ writes[w].phase # "idle"
        /\ writes[w].key = reads[r].key
        /\ reads[r].result.version >= writes[w].version
    BY DEF OriginInv
  <2> QED
    BY <2>1, <2>2, SoleVersions DEF Sees
<1> QED
  BY <1>1, LeaderlessTyped, OriginInvariant, PTL

(* Once every update of a key with a sole coordinator was applied          *)
(* everywhere, in any order, and none has been lost, all copies of it are  *)
(* equal.                                                                  *)
THEOREM SoleCoordinatorConverges == Spec => []DeliveredMeansConverged
<1>1. TypeOK /\ AckInv /\ OriginInv => DeliveredMeansConverged
  <2> SUFFICES ASSUME TypeOK, AckInv, OriginInv, NEW k \in Keys,
                      SoleCoordinator(k),
                      \A w \in Writes, n \in Nodes :
                         writes[w].phase # "idle" /\ writes[w].key = k =>
                             calls[w][n].request = "applied",
                      NEW m \in Nodes, NEW n \in Nodes
               PROVE  store[m][k] = store[n][k]
    BY DEF DeliveredMeansConverged
  <2>1. \A p \in Nodes : /\ store[p][k] \in Entry
                         /\ store[p][k].version \in Nat
                         /\ FromWrite(store[p][k], k)
    BY DEF TypeOK, Entry, OriginInv
  <2>2. ASSUME NEW p \in Nodes, NEW q \in Nodes,
               NEW w \in Writes, writes[w].phase # "idle", writes[w].key = k,
               store[p][k] = WriteEntry(w)
        PROVE  \/ store[q][k] = store[p][k]
               \/ store[q][k].version > store[p][k].version
    <3>1. store[q][k].version >= writes[w].version
      BY <2>2 DEF AckInv, AckOf
    <3> QED
      BY <2>1, <2>2, <3>1, SoleVersions DEF WriteEntry
  <2>3. ASSUME NEW p \in Nodes, NEW q \in Nodes
        PROVE  \/ store[q][k] = store[p][k]
               \/ store[q][k].version > store[p][k].version
    <3>1. CASE store[p][k] = NoEntry
      <4>1. CASE store[q][k] = NoEntry
        BY <3>1, <4>1
      <4>2. CASE store[q][k] # NoEntry
        <5>1. PICK w \in Writes : /\ writes[w].phase # "idle"
                                  /\ store[q][k] = WriteEntry(w)
          BY <2>1, <4>2 DEF FromWrite
        <5> QED
          BY <3>1, <5>1 DEF OriginInv, WriteEntry, NoEntry
      <4> QED
        BY <4>1, <4>2
    <3>2. CASE store[p][k] # NoEntry
      BY <2>1, <2>2, <3>2 DEF FromWrite
    <3> QED
      BY <3>1, <3>2
  <2> QED
    BY <2>1, <2>3
<1> QED
  BY <1>1, LeaderlessTyped, AckInvariant, OriginInvariant, PTL

-----------------------------------------------------------------------------
(* The refinement *)

(* Only SetAt assigns an entry. *)
LEMMA AssignedKept ==
    ASSUME TypeOK, [Next]_vars,
           \A w \in Writes : writes[w].phase = "idle" => writes'[w].phase = "idle"
    PROVE  AssignedEntries' = AssignedEntries
<1>1. \A w \in Writes :
         /\ writes'[w].phase # "idle" <=> writes[w].phase # "idle"
         /\ writes[w].phase # "idle" =>
               /\ writes'[w].key = writes[w].key
               /\ writes'[w].value = writes[w].value
               /\ writes'[w].version = writes[w].version
  BY WritesKept
<1>2. ASSUME NEW b \in AssignedEntries' PROVE b \in AssignedEntries
  BY <1>1, <1>2 DEF AssignedEntries
<1>3. ASSUME NEW b \in AssignedEntries PROVE b \in AssignedEntries'
  BY <1>1, <1>3 DEF AssignedEntries
<1> QED
  BY <1>2, <1>3

(* If every key always has a sole coordinator, the nodes are copies of one *)
(* sequence of versions: a write is an Assign by its coordinator, whose    *)
(* own copy has every version it gave, an applied update is a CatchUp, a   *)
(* restart a Forget, and nothing else shows.  This is what the clients     *)
(* must see to for the program to promise what the leader's does.          *)
THEOREM SoleCoordinatorsImplement ==
    Spec /\ []SoleCoordinators => Implements
<1>1. Init => Register!Init
  BY DEF Init, Register!Init, AssignedEntries, Register!EmptyStore, EmptyStore,
         Register!NoEntry, NoEntry
<1>2. TypeOK /\ TypeOK' /\ AckInv /\ OriginInv /\ SoleCoordinators' /\ [Next]_vars
        => [Register!Next]_(Register!vars)
  <2> SUFFICES ASSUME TypeOK, TypeOK', AckInv, OriginInv, SoleCoordinators', [Next]_vars
               PROVE  \/ Register!Next
                      \/ AssignedEntries' = AssignedEntries /\ store' = store
    BY DEF Register!vars
  <2>1. ASSUME NEW w \in Writes, NEW n \in Nodes, NEW k \in Keys, NEW v \in Values,
               SetAt(w, n, k, v)
        PROVE  Register!Next
    <3> DEFINE a == [key |-> k, value |-> v, version |-> NextVersion(store[n], k)]
    <3>1. /\ writes[w].phase = "idle"
          /\ writes'[w].phase # "idle" /\ writes'[w].node = n
          /\ writes'[w].key = k /\ writes'[w].value = v
          /\ writes'[w].version = NextVersion(store[n], k)
          /\ \A x \in Writes \ {w} : writes'[x] = writes[x]
          /\ restarts' = restarts
      BY <2>1, VerdictType DEF SetAt, TypeOK
    <3>2. AssignedEntries' = AssignedEntries \cup {a}
      <4>1. ASSUME NEW b \in AssignedEntries' PROVE b \in AssignedEntries \cup {a}
        BY <3>1, <4>1 DEF AssignedEntries
      <4>2. ASSUME NEW b \in AssignedEntries PROVE b \in AssignedEntries'
        BY <3>1, <4>2 DEF AssignedEntries
      <4>3. a \in AssignedEntries'
        BY <3>1 DEF AssignedEntries
      <4> QED
        BY <4>1, <4>2, <4>3
    <3>3. PICK m \in Nodes :
             /\ restarts'[m] = 0
             /\ \A x \in Writes : writes'[x].phase # "idle" /\ writes'[x].key = k =>
                                      writes'[x].node = m
      BY DEF SoleCoordinators, SoleCoordinator
    <3>4. m = n /\ restarts[n] = 0
      BY <3>1, <3>3
    <3>5. store[n][k].version \in Nat
      BY DEF TypeOK, Entry
    <3>6. \A b \in AssignedEntries : b.key = k => b.version < a.version
      <4> SUFFICES ASSUME NEW x \in Writes, writes[x].phase # "idle", writes[x].key = k
                   PROVE  writes[x].version < a.version
        BY DEF AssignedEntries
      <4>1. writes[x].node = n
        BY <3>1, <3>3, <3>4
      <4>2. writes[x].version \in Nat /\ writes[x].version <= store[n][k].version
        BY <3>4, <4>1, OwnVersions DEF TypeOK, Write
      <4> QED
        BY <3>5, <4>2 DEF NextVersion
    <3>7. store' = [store EXCEPT ![n] = SetLocal(@, k, v)]
      BY <2>1 DEF SetAt
    <3>8. Register!Assign(n, k, v)
      BY <3>2, <3>6, <3>7
         DEF Register!Assign, Register!NextVersion, NextVersion,
             Register!SetLocal, SetLocal
    <3> QED
      BY <3>8 DEF Register!Next
  <2>2. ASSUME NEW w \in Writes, NEW p \in Nodes, Replicate(w, p)
        PROVE  Register!Next \/ (AssignedEntries' = AssignedEntries /\ store' = store)
    <3> DEFINE a == [key |-> writes[w].key, value |-> writes[w].value,
                     version |-> writes[w].version]
    <3>1. /\ writes[w].key \in Keys
          /\ writes[w].version \in Nat
          /\ WriteEntry(w) \in Entry
          /\ store[p] \in [Keys -> Entry]
      BY DEF TypeOK, Write, WriteEntry, Entry
    <3>2. store' = [store EXCEPT
                      ![p] = Set(store[p], writes[w].key, WriteEntry(w))]
      BY <2>2 DEF Replicate
    <3>3. AssignedEntries' = AssignedEntries
      BY <2>2, AssignedKept DEF Replicate
    <3>4. writes[w].phase # "idle"
      BY <2>2 DEF Replicate, AckInv, AckOf, NoCall
    <3>5. CASE Set(store[p], writes[w].key, WriteEntry(w)) = store[p]
      BY <3>2, <3>3, <3>5 DEF TypeOK
    <3>6. CASE /\ WriteEntry(w).version > store[p][writes[w].key].version
               /\ Set(store[p], writes[w].key, WriteEntry(w))
                     = [store[p] EXCEPT ![writes[w].key] = WriteEntry(w)]
      <4>1. a \in AssignedEntries
        BY <3>4 DEF AssignedEntries
      <4>2. store' = [store EXCEPT ![p][a.key] = Register!EntryOf(a)]
        BY <3>2, <3>6 DEF Register!EntryOf, WriteEntry, TypeOK
      <4>3. Register!CatchUp(p, a)
        BY <3>3, <3>6, <4>1, <4>2 DEF Register!CatchUp, WriteEntry
      <4> QED
        BY <4>1, <4>3 DEF Register!Next
    <3> QED
      BY <3>1, <3>5, <3>6, SetChoice
  <2>3. ASSUME NEW n \in Nodes, Restart(n)
        PROVE  Register!Next
    <3>1. store' = [store EXCEPT ![n] = Register!EmptyStore]
      BY <2>3 DEF Restart, Register!EmptyStore, EmptyStore,
                  Register!NoEntry, NoEntry
    <3>2. \A w \in Writes : writes[w].phase = "idle" => writes'[w].phase = "idle"
      BY <2>3 DEF Restart
    <3> QED
      BY <3>1, <3>2, AssignedKept DEF Register!Forget, Register!Next
  <2>4. ASSUME NEW w \in Writes, NEW p \in Nodes, CallSucceeds(w, p) \/ CallFails(w, p)
        PROVE  AssignedEntries' = AssignedEntries /\ store' = store
    <3>1. PICK o \in {"ok", "failed"} : CallReturns(w, p, o)
      BY <2>4, ReturnCases
    <3>2. \A x \in Writes : writes[x].phase = "idle" => writes'[x].phase = "idle"
      BY <3>1 DEF CallReturns, TypeOK
    <3> QED
      BY <3>1, <3>2, AssignedKept DEF CallReturns
  <2>5. ASSUME UNCHANGED <<store, writes>>
        PROVE  AssignedEntries' = AssignedEntries /\ store' = store
    BY <2>5, AssignedKept
  <2> QED
    BY <2>1, <2>2, <2>3, <2>4, <2>5, StepCases DEF Step, ReadCopy, vars
<1> QED
  BY <1>1, <1>2, LeaderlessTyped, AckInvariant, OriginInvariant, PTL
     DEF Spec, Implements, Register!Spec

-----------------------------------------------------------------------------
(* The load generator changes nothing of the store, so a behaviour of both *)
(* is one of the store.                                                    *)
LEMMA LoadIsSpec == LoadSpec => Spec
<1>1. [LoadNext]_loadVars => [Next]_vars
  BY DEF LoadNext, loadVars, vars, client, ServerStep, WriteReturns, ReadReturns
<1> QED
  BY <1>1, PTL DEF LoadSpec, LoadInit, Spec

(* The load generator's variables keep their types. *)
LEMMA LoadTyped == LoadSpec => []LoadTypeOK
<1> DEFINE ClientTypeOK ==
              /\ versions \in [Keys -> Nat]
              /\ recorded \subseteq Writes
              /\ checked \in [Reads -> {"no", "fresh", "stale", "error"}]
              /\ known \in [Reads -> SUBSET Writes]
<1>1. LoadInit => ClientTypeOK
  BY DEF LoadInit
<1>2. TypeOK /\ ClientTypeOK /\ [LoadNext]_loadVars => ClientTypeOK'
  <2> SUFFICES ASSUME TypeOK, ClientTypeOK, [LoadNext]_loadVars
               PROVE  ClientTypeOK'
    OBVIOUS
  <2>1. CASE ServerStep
    <3>1. known' \in [Reads -> SUBSET Writes]
      BY <2>1 DEF ServerStep
    <3> QED
      BY <2>1, <3>1 DEF ServerStep
  <2>2. ASSUME NEW w \in Writes, WriteReturns(w) PROVE ClientTypeOK'
    <3>1. writes[w].key \in Keys /\ writes[w].version \in Nat
      BY DEF TypeOK, Write
    <3>2. versions' \in [Keys -> Nat]
      BY <2>2, <3>1 DEF WriteReturns, RecordWrite
    <3> QED
      BY <2>2, <3>2 DEF WriteReturns
  <2>3. ASSUME NEW r \in Reads, ReadReturns(r) PROVE ClientTypeOK'
    BY <2>3 DEF ReadReturns, Counted
  <2>4. CASE UNCHANGED loadVars
    BY <2>4 DEF loadVars, client
  <2> QED
    BY <2>1, <2>2, <2>3, <2>4 DEF LoadNext
<1>3. TypeOK /\ ClientTypeOK => LoadTypeOK
  BY DEF LoadTypeOK
<1> QED
  BY <1>1, <1>2, <1>3, LoadIsSpec, LeaderlessTyped, PTL DEF LoadSpec

(* The inductive invariant of the tracker: it knows a version at least as  *)
(* new as each write entered, the writes known when a read was sent were   *)
(* entered, and a read is counted fresh only if it is as new as these.     *)
TrackInv ==
    /\ \A w \in recorded :
          /\ writes[w].phase # "idle"
          /\ versions[writes[w].key] >= writes[w].version
    /\ \A r \in Reads :
          /\ known[r] \subseteq recorded
          /\ checked[r] # "no" => reads[r].done
          /\ checked[r] = "fresh" =>
                \A w \in known[r] : writes[w].key = reads[r].key =>
                    reads[r].result.version >= writes[w].version

(* In every reachable state of the load test. *)
LEMMA TrackInvariant == LoadSpec => []TrackInv
<1>1. LoadInit => TrackInv
  BY DEF LoadInit, TrackInv
<1>2. LoadTypeOK /\ LoadTypeOK' /\ TrackInv /\ [LoadNext]_loadVars => TrackInv'
  <2> SUFFICES ASSUME LoadTypeOK, LoadTypeOK', TrackInv, [LoadNext]_loadVars
               PROVE  TrackInv'
    OBVIOUS
  <2> USE DEF LoadTypeOK
  <2>0. /\ \A w \in Writes : /\ writes[w].key \in Keys
                             /\ writes[w].version \in Nat
        /\ \A r \in Reads : /\ reads[r].key \in Keys
                            /\ reads[r].result.version \in Nat
        /\ \A k \in Keys : versions[k] \in Nat /\ versions'[k] \in Nat
    BY DEF TypeOK, Write, Read, Entry
  <2>1. CASE ServerStep
    <3>1. /\ [Next]_vars /\ versions' = versions
          /\ recorded' = recorded /\ checked' = checked
      BY <2>1 DEF ServerStep
    <3>2. ASSUME NEW w \in recorded
          PROVE  /\ writes'[w].phase # "idle"
                 /\ writes'[w].key = writes[w].key
                 /\ writes'[w].version = writes[w].version
      BY <3>1, WritesKept DEF TrackInv
    <3>3. ASSUME NEW r \in Reads
          PROVE  /\ known'[r] \in {known[r], recorded}
                 /\ checked[r] # "no" =>
                       known'[r] = known[r] /\ reads'[r] = reads[r]
      <4>1. known'[r] = IF ~reads[r].done /\ reads'[r].done
                        THEN recorded ELSE known[r]
        BY <2>1 DEF ServerStep
      <4>2. checked[r] # "no" => reads[r].done
        BY DEF TrackInv
      <4>3. reads[r].done => reads'[r] = reads[r]
        BY <3>1, ReadCases
      <4> QED
        BY <4>1, <4>2, <4>3
    <3>4. \A w \in recorded' : /\ writes'[w].phase # "idle"
                               /\ versions'[writes'[w].key] >= writes'[w].version
      BY <3>1, <3>2 DEF TrackInv
    <3>5. ASSUME NEW r \in Reads
          PROVE  /\ known'[r] \subseteq recorded'
                 /\ checked'[r] # "no" => reads'[r].done
                 /\ checked'[r] = "fresh" =>
                       \A w \in known'[r] : writes'[w].key = reads'[r].key =>
                           reads'[r].result.version >= writes'[w].version
      <4>1. known[r] \subseteq recorded
        BY DEF TrackInv
      <4> QED
        BY <3>1, <3>2, <3>3, <4>1 DEF TrackInv
    <3> QED
      BY <3>4, <3>5 DEF TrackInv
  <2>2. ASSUME NEW w \in Writes, WriteReturns(w) PROVE TrackInv'
    <3>1. /\ UNCHANGED <<writes, reads, checked, known>>
          /\ writes[w].phase = "created"
          /\ recorded' = recorded \cup {w}
          /\ versions' = RecordWrite(versions, writes[w].key, writes[w].version)
      BY <2>2 DEF WriteReturns, vars
    <3>2. /\ \A k \in Keys : versions'[k] >= versions[k]
          /\ versions'[writes[w].key] >= writes[w].version
      BY <2>0, <3>1 DEF RecordWrite
    <3>3. ASSUME NEW x \in recorded'
          PROVE  /\ writes'[x].phase # "idle"
                 /\ versions'[writes'[x].key] >= writes'[x].version
      <4>1. CASE x = w
        BY <3>1, <3>2, <4>1
      <4>2. CASE x # w
        <5>1. x \in recorded /\ x \in Writes
          BY <3>1, <4>2
        <5>2. /\ writes[x].phase # "idle"
              /\ versions[writes[x].key] >= writes[x].version
          BY <5>1 DEF TrackInv
        <5> QED
          BY <2>0, <3>1, <3>2, <5>1, <5>2
      <4> QED
        BY <4>1, <4>2
    <3>4. \A r \in Reads : known'[r] \subseteq recorded'
      BY <3>1 DEF TrackInv
    <3> QED
      BY <3>1, <3>3, <3>4 DEF TrackInv
  <2>3. ASSUME NEW q \in Reads, ReadReturns(q) PROVE TrackInv'
    <3> DEFINE n == reads[q].result.version
    <3>1. /\ UNCHANGED <<writes, reads, versions, recorded, known>>
          /\ reads[q].done
          /\ checked'[q] = Counted(versions, reads[q].key, n)
          /\ \A r \in Reads \ {q} : checked'[r] = checked[r]
      BY <2>3 DEF ReadReturns, vars
    <3>2. checked'[q] = "fresh" => n >= versions[reads[q].key]
      <4>1. n \in Nat /\ versions[reads[q].key] \in Nat
        BY <2>0
      <4> HIDE DEF n
      <4> QED
        BY <3>1, <4>1 DEF Counted, CheckRead
    <3>3. ASSUME checked'[q] = "fresh", NEW w \in known[q],
                 writes[w].key = reads[q].key
          PROVE  n >= writes[w].version
      <4>1. w \in recorded /\ w \in Writes
        BY DEF TrackInv
      <4>2. versions[reads[q].key] >= writes[w].version
        BY <3>3, <4>1 DEF TrackInv
      <4> QED
        BY <2>0, <3>2, <3>3, <4>1, <4>2
    <3>4. ASSUME NEW r \in Reads
          PROVE  /\ known'[r] \subseteq recorded'
                 /\ checked'[r] # "no" => reads'[r].done
                 /\ checked'[r] = "fresh" =>
                       \A w \in known'[r] : writes'[w].key = reads'[r].key =>
                           reads'[r].result.version >= writes'[w].version
      <4>1. CASE r = q
        BY <3>1, <3>3, <4>1 DEF TrackInv
      <4>2. CASE r # q
        BY <3>1, <4>2 DEF TrackInv
      <4> QED
        BY <4>1, <4>2
    <3> QED
      BY <3>1, <3>4 DEF TrackInv
  <2>4. CASE UNCHANGED loadVars
    BY <2>4 DEF loadVars, vars, client, TrackInv
  <2> QED
    BY <2>1, <2>2, <2>3, <2>4 DEF LoadNext
<1> QED
  BY <1>1, <1>2, LoadTyped, PTL DEF LoadSpec

(* A read that is counted as fresh is as new as every write of the key     *)
(* entered before it was sent, whoever coordinated them; if one node did   *)
(* and has not restarted, the read saw them.                               *)
THEOREM FreshMeansSeen == LoadSpec => []FreshSeesRecorded
<1>1. LoadTypeOK /\ OriginInv /\ TrackInv => FreshSeesRecorded
  <2> SUFFICES ASSUME LoadTypeOK, OriginInv, TrackInv, NEW r \in Reads,
                      checked[r] = "fresh",
                      NEW w \in known[r], writes[w].key = reads[r].key
               PROVE  /\ reads[r].result.version >= writes[w].version
                      /\ SoleCoordinator(reads[r].key) => Sees(r, w)
    BY DEF FreshSeesRecorded
  <2>1. /\ TypeOK /\ w \in Writes
        /\ reads[r].key \in Keys /\ reads[r].result \in Entry
    BY DEF LoadTypeOK, TypeOK, Read
  <2>2. /\ reads[r].done
        /\ writes[w].phase # "idle"
        /\ reads[r].result.version >= writes[w].version
    BY DEF TrackInv
  <2>3. FromWrite(reads[r].result, reads[r].key)
    BY <2>2 DEF OriginInv
  <2> QED
    BY <2>1, <2>2, <2>3, SoleVersions DEF Sees
<1> QED
  BY <1>1, LoadTyped, LoadIsSpec, OriginInvariant, TrackInvariant, PTL
=============================================================================

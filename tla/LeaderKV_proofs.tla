--------------------------- MODULE LeaderKV_proofs ---------------------------
(***************************************************************************)
(* Theorems about LeaderKV, for every number of followers, keys, values    *)
(* and requests, every W and R, and every choice of the nodes that fail or *)
(* restart: first what the answers promise; then the versions it gives and *)
(* spreads, that the leader is never behind, that a version names one      *)
(* value, and that the cluster implements ReplicatedRegister; then what    *)
(* reads return, and how the load generator counts it.                     *)
(***************************************************************************)
EXTENDS LoadTest, VersionedStore_proofs, FiniteSetTheorems, TLAPS

(* AKey, with which Init fills what is not used yet, is a key. *)
LEMMA KeyExists == AKey \in Keys
BY KeysAssumption DEF AKey

(* The handler waits or has answered. *)
LEMMA VerdictType ==
    ASSUME NEW c PROVE Verdict(c) \in {"created", "failed", "waiting"}
BY DEF Verdict

(* A change of one call of one write keeps the type of the calls. *)
LEMMA CallsType ==
    ASSUME NEW cs \in [Writes -> [Followers -> Call]],
           NEW w \in Writes, NEW f \in Followers, NEW c \in Call
    PROVE  [cs EXCEPT ![w][f] = c] \in [Writes -> [Followers -> Call]]
<1>1. [cs[w] EXCEPT ![f] = c] \in [Followers -> Call]
  OBVIOUS
<1>2. [cs EXCEPT ![w][f] = c] = [cs EXCEPT ![w] = [cs[w] EXCEPT ![f] = c]]
  OBVIOUS
<1> QED
  BY <1>1, <1>2

-----------------------------------------------------------------------------
(* Every variable keeps its type: in particular every handler ends in one  *)
(* of the phases and restarts stay within their bound.                     *)
THEOREM TypeCorrect == Spec => []TypeOK
<1> USE DEF Nodes
<1>1. Init => TypeOK
  BY KeyExists, EmptyStoreType, FaultAssumption
     DEF Init, TypeOK, Write, WritePhase, Call, NoCall, Read, ReadPhase
<1>2. TypeOK /\ [Next]_vars => TypeOK'
  <2> SUFFICES ASSUME TypeOK, [Next]_vars PROVE TypeOK'
    OBVIOUS
  <2> USE DEF TypeOK
  <2>1. ASSUME NEW w \in Writes, SetAtFollower(w) PROVE TypeOK'
    BY <2>1 DEF SetAtFollower, Write, WritePhase
  <2>2. ASSUME NEW w \in Writes, NEW k \in Keys, NEW v \in Values,
               SetAtLeader(w, k, v)
        PROVE  TypeOK'
    <3>1. store' \in [Nodes -> [Keys -> Entry]]
      BY <2>2, SetLocalType DEF SetAtLeader
    <3>2. calls' \in [Writes -> [Followers -> Call]]
      BY <2>2 DEF SetAtLeader, Call
    <3>3. NextVersion(store[Leader], k) \in Nat
      BY SetLocalType
    <3>4. writes' \in [Writes -> Write]
      BY <2>2, <3>3, VerdictType DEF SetAtLeader, Write, WritePhase
    <3> QED
      BY <2>2, <3>1, <3>2, <3>4 DEF SetAtLeader
  <2>3. ASSUME NEW w \in Writes, NEW f \in Followers, Replicate(w, f)
        PROVE  TypeOK'
    <3>1. WriteEntry(w) \in Entry /\ writes[w].key \in Keys
      BY DEF WriteEntry, Entry, Write
    <3>2. store' \in [Nodes -> [Keys -> Entry]]
      BY <2>3, <3>1, SetType DEF Replicate
    <3>3. calls' \in [Writes -> [Followers -> Call]]
      <4> DEFINE c == [calls[w][f] EXCEPT !.request = "applied"]
      <4>1. c \in Call
        <5>1. calls[w][f] \in Call
          OBVIOUS
        <5> QED
          BY <5>1 DEF Call
      <4>2. calls' = [calls EXCEPT ![w][f] = c]
        BY <2>3 DEF Replicate
      <4> QED
        BY <4>1, <4>2, CallsType
    <3> QED
      BY <2>3, <3>2, <3>3 DEF Replicate
  <2>4. ASSUME NEW w \in Writes, NEW f \in Followers, NEW o \in {"ok", "failed"},
               CallReturns(w, f, o)
        PROVE  TypeOK'
    <3>1. calls' \in [Writes -> [Followers -> Call]]
      <4> DEFINE c == [calls[w][f] EXCEPT !.outcome = o]
      <4>1. c \in Call
        <5>1. calls[w][f] \in Call
          OBVIOUS
        <5> QED
          BY <5>1 DEF Call
      <4>2. calls' = [calls EXCEPT ![w][f] = c]
        BY <2>4 DEF CallReturns
      <4> QED
        BY <4>1, <4>2, CallsType
    <3>2. writes' \in [Writes -> Write]
      <4> DEFINE new == [writes[w] EXCEPT !.phase = Verdict(calls'[w])]
      <4>1. new \in Write
        <5>1. writes[w] \in Write
          OBVIOUS
        <5> QED
          BY <5>1, VerdictType DEF Write, WritePhase
      <4>2. writes' = writes \/ writes' = [writes EXCEPT ![w] = new]
        BY <2>4 DEF CallReturns
      <4> HIDE DEF new
      <4> QED
        BY <4>1, <4>2
    <3> QED
      BY <2>4, <3>1, <3>2 DEF CallReturns
  <2>5. ASSUME NEW r \in Reads, NEW k \in Keys, ReadAtLeader(r, k)
        PROVE  TypeOK'
    <3>1. Acked(k) \subseteq Nat /\ ReadFromLeader(k) \subseteq Nat
      BY DEF Acked, ReadFromLeader, Write, Read, Entry
    <3>2. reads' \in [Reads -> Read]
      BY <2>5, <3>1 DEF ReadAtLeader, Read, ReadPhase
    <3> QED
      BY <2>5, <3>2 DEF ReadAtLeader
  <2>6. ASSUME NEW r \in Reads, NEW n \in Nodes, NEW k \in Keys, ReadCopy(r, n, k)
        PROVE  TypeOK'
    <3>1. Acked(k) \subseteq Nat /\ ReadFromLeader(k) \subseteq Nat
      BY DEF Acked, ReadFromLeader, Write, Read, Entry
    <3>2. reads' \in [Reads -> Read]
      BY <2>6, <3>1 DEF ReadCopy, Read, ReadPhase
    <3> QED
      BY <2>6, <3>2 DEF ReadCopy
  <2>7. ASSUME NEW r \in Reads, NEW f \in Followers, NEW e \in Entry,
               TakeResult(r, f, e)
        PROVE  TypeOK'
    <3>1. reads' \in [Reads -> Read]
      <4> DEFINE oks == reads[r].oks + IF Stored(e) THEN 1 ELSE 0
                 waiting == reads[r].waiting \ {f}
                 new == [reads[r] EXCEPT
                           !.best = IF e.version > @.version THEN e ELSE @,
                           !.oks = oks,
                           !.waiting = waiting,
                           !.phase = IF ReadDone(waiting, oks)
                                     THEN "answered" ELSE @]
      <4>1. reads[r] \in Read /\ oks \in Nat /\ waiting \in SUBSET Followers
        BY DEF Read
      <4>2. new \in Read
        <5> HIDE DEF oks, waiting
        <5> QED BY <4>1 DEF Read, ReadPhase, Entry
      <4>3. reads' = [reads EXCEPT ![r] = new]
        BY <2>7 DEF TakeResult
      <4> HIDE DEF new
      <4> QED
        BY <4>2, <4>3
    <3> QED
      BY <2>7, <3>1 DEF TakeResult
  <2>8. ASSUME NEW f \in Followers, RestartFollower(f) PROVE TypeOK'
    <3>1. store' \in [Nodes -> [Keys -> Entry]]
      BY <2>8, EmptyStoreType DEF RestartFollower
    <3>2. calls' \in [Writes -> [Followers -> Call]]
      <4>1. PICK dropped \in SUBSET Writes :
               calls' = [w \in Writes |->
                           [calls[w] EXCEPT
                              ![f].request = AfterRestart(@, w \in dropped)]]
        BY <2>8 DEF RestartFollower
      <4>2. ASSUME NEW w \in Writes
            PROVE  [calls[w] EXCEPT
                      ![f].request = AfterRestart(@, w \in dropped)]
                     \in [Followers -> Call]
        <5>1. calls[w] \in [Followers -> Call]
          OBVIOUS
        <5> QED
          BY <5>1 DEF Call, AfterRestart
      <4> QED
        BY <4>1, <4>2
    <3>3. restarts' \in [Nodes -> 0..MaxRestarts]
      BY <2>8, FaultAssumption DEF RestartFollower
    <3> QED
      BY <2>8, <3>1, <3>2, <3>3 DEF RestartFollower
  <2>9. CASE RestartLeader
    <3>1. store' \in [Nodes -> [Keys -> Entry]]
      BY <2>9, EmptyStoreType DEF RestartLeader
    <3>2. calls' \in [Writes -> [Followers -> Call]]
      <4> SUFFICES ASSUME NEW w \in Writes, NEW f \in Followers
                   PROVE  [calls[w][f] EXCEPT !.outcome =
                              IF @ = "waiting" THEN "failed" ELSE @] \in Call
        BY <2>9 DEF RestartLeader
      <4>1. calls[w][f] \in Call
        OBVIOUS
      <4> QED
        BY <4>1 DEF Call
    <3>3. writes' \in [Writes -> Write]
      <4> SUFFICES ASSUME NEW w \in Writes
                   PROVE  [writes[w] EXCEPT !.phase =
                              IF @ = "waiting" THEN "lost" ELSE @] \in Write
        BY <2>9 DEF RestartLeader
      <4>1. writes[w] \in Write
        OBVIOUS
      <4> QED
        BY <4>1 DEF Write, WritePhase
    <3>4. reads' \in [Reads -> Read]
      <4> SUFFICES ASSUME NEW r \in Reads
                   PROVE  [reads[r] EXCEPT !.phase =
                              IF @ = "collecting" THEN "lost" ELSE @] \in Read
        BY <2>9 DEF RestartLeader
      <4>1. reads[r] \in Read
        OBVIOUS
      <4> QED
        BY <4>1 DEF Read, ReadPhase
    <3>5. restarts' \in [Nodes -> 0..MaxRestarts]
      BY <2>9, FaultAssumption DEF RestartLeader
    <3> QED
      BY <3>1, <3>2, <3>3, <3>4, <3>5
  <2>10. CASE UNCHANGED vars
    BY <2>10 DEF vars
  <2>11. ASSUME NEW r \in Reads, NEW f \in Followers,
                FollowerAnswers(r, f) \/ FollowerUnreachable(r, f)
         PROVE  TypeOK'
    <3>1. store[f][reads[r].key] \in Entry
      BY DEF Read
    <3> QED
      BY <2>7, <2>11, <3>1, EmptyStoreType
         DEF FollowerAnswers, FollowerUnreachable
  <2> QED
    BY <2>1, <2>2, <2>3, <2>4, <2>5, <2>6, <2>8, <2>9, <2>10, <2>11
       DEF Next, Restart, Nodes, CallSucceeds, CallFails
<1> QED
  BY <1>1, <1>2, PTL DEF Spec

-----------------------------------------------------------------------------
(* The outcomes of a write's calls, counted. *)
LEMMA ReturnedFinite ==
    ASSUME NEW c, NEW o
    PROVE  /\ IsFiniteSet(Returned(c, o))
           /\ Cardinality(Returned(c, o)) \in Nat
<1>1. Returned(c, o) \subseteq Followers
  BY DEF Returned
<1> QED
  BY <1>1, FollowersAssumption, FS_Subset, FS_CardinalityType

(* A subset of a finite set has no more elements than it. *)
LEMMA SmallerSubset ==
    ASSUME NEW S, NEW T \in SUBSET Followers, S \subseteq T
    PROVE  /\ Cardinality(S) \in Nat
           /\ Cardinality(T) \in Nat
           /\ Cardinality(S) <= Cardinality(T)
BY FollowersAssumption, FS_Subset, FS_CardinalityType

(* A verdict of 201 means the acks are there. *)
LEMMA VerdictCreated ==
    ASSUME NEW c, Verdict(c) = "created"
    PROVE  Cardinality(Returned(c, "ok")) >= AcksNeeded
BY DEF Verdict

-----------------------------------------------------------------------------
(* The first strengthened invariant of AckedStays: a handler that answered *)
(* 201 had its W - 1 results ok, and each of them comes from a follower    *)
(* that had applied the write, or refused it as old.                       *)
LEMMA AckInvariant == Spec => []AckInv
<1> USE FollowersAssumption, QuorumAssumption DEF Nodes
<1>1. Init => AckInv
  BY KeyExists DEF Init, AckInv, NoCall, EmptyStore, NoEntry
<1>2. TypeOK /\ TypeOK' /\ AckInv /\ [Next]_vars => AckInv'
  <2> SUFFICES ASSUME TypeOK, TypeOK', AckInv, [Next]_vars PROVE AckInv'
    OBVIOUS
  <2> DEFINE Good(w) ==
        /\ writes[w].phase \in {"idle", "forbidden"} =>
              \A f \in Followers : calls[w][f] = NoCall
        /\ \A f \in Followers :
              /\ calls[w][f].outcome = "ok" =>
                    calls[w][f].request \in {"applied", "forgotten"}
              /\ calls[w][f].request = "applied" =>
                    store[f][writes[w].key].version >= writes[w].version
        /\ writes[w].phase = "created" =>
              Cardinality(Returned(calls[w], "ok")) >= AcksNeeded
  <2>0. \A w \in Writes : Good(w)
    BY DEF AckInv
  <2> SUFFICES ASSUME NEW x \in Writes PROVE Good(x)'
    BY DEF AckInv
  <2>1. ASSUME NEW w \in Writes, SetAtFollower(w) PROVE Good(x)'
    <3>1. writes'[x].key = writes[x].key /\ writes'[x].version = writes[x].version
      BY <2>1 DEF SetAtFollower, TypeOK, Write
    <3>2. writes'[x].phase = writes[x].phase \/ (w = x /\ writes'[x].phase = "forbidden")
      BY <2>1 DEF SetAtFollower, TypeOK, Write
    <3> QED
      BY <2>0, <2>1, <3>1, <3>2 DEF SetAtFollower
  <2>2. ASSUME NEW w \in Writes, NEW k \in Keys, NEW v \in Values,
               SetAtLeader(w, k, v)
        PROVE  Good(x)'
    <3>1. \A f \in Followers : store'[f] = store[f]
      BY <2>2 DEF SetAtLeader, TypeOK
    <3>2. CASE x # w
      <4>1. writes'[x] = writes[x] /\ calls'[x] = calls[x]
        BY <2>2, <3>2 DEF SetAtLeader, TypeOK
      <4> QED
        BY <2>0, <3>1, <4>1
    <3>3. CASE x = w
      <4>1. writes'[x].phase = Verdict(calls'[x])
        BY <2>2, <3>3 DEF SetAtLeader, TypeOK
      <4>2. writes'[x].phase \notin {"idle", "forbidden"}
        BY <4>1, VerdictType
      <4>3. \A f \in Followers : calls'[x][f].request # "applied"
                                 /\ calls'[x][f].outcome # "ok"
        BY <2>0, <2>2, <3>3 DEF SetAtLeader, TypeOK, NoCall
      <4>4. writes'[x].phase = "created" =>
                Cardinality(Returned(calls'[x], "ok")) >= AcksNeeded
        BY <4>1, VerdictCreated
      <4> QED
        BY <4>2, <4>3, <4>4 DEF Returned
    <3> QED
      BY <3>2, <3>3
  <2>3. ASSUME NEW w \in Writes, NEW f \in Followers, Replicate(w, f)
        PROVE  Good(x)'
    <3>1. WriteEntry(w) \in Entry /\ writes[w].key \in Keys
      BY DEF WriteEntry, Entry, Write, TypeOK
    <3>2. \A g \in Followers, k \in Keys :
              store'[g][k].version >= store[g][k].version
      <4> SUFFICES ASSUME NEW g \in Followers, NEW k \in Keys
                   PROVE  store'[g][k].version >= store[g][k].version
        OBVIOUS
      <4>1. store[g] \in [Keys -> Entry] /\ store[g][k].version \in Nat
        BY DEF TypeOK, Entry
      <4>2. \/ store'[g] = store[g]
            \/ store'[g] = Set(store[g], writes[w].key, WriteEntry(w))
        BY <2>3 DEF Replicate, TypeOK
      <4> QED
        BY <3>1, <4>1, <4>2, SetAdvances
    <3>3. store'[f][writes[w].key].version >= writes[w].version
      BY <2>3, <3>1, SetAdvances DEF Replicate, TypeOK, WriteEntry
    <3>4. \A g \in Followers : calls'[x][g].outcome = calls[x][g].outcome
      BY <2>3 DEF Replicate, TypeOK, Call
    <3>5. Returned(calls'[x], "ok") = Returned(calls[x], "ok")
      BY <3>4 DEF Returned
    <3>6. \A g \in Followers :
              \/ calls'[x][g] = calls[x][g]
              \/ x = w /\ g = f /\ calls'[x][g].request = "applied"
      BY <2>3 DEF Replicate, TypeOK, Call
    <3>7. writes' = writes
      BY <2>3 DEF Replicate
    <3>8. writes[w].phase \notin {"idle", "forbidden"}
      BY <2>0, <2>3 DEF Replicate, NoCall
    <3>9. \A g \in Followers, k \in Keys : /\ store[g][k].version \in Nat
                                           /\ store'[g][k].version \in Nat
      BY DEF TypeOK, Entry
    <3>10. writes[x].key \in Keys /\ writes[x].version \in Nat
      BY DEF TypeOK, Write
    <3>11. \A g \in Followers :
              /\ calls'[x][g].outcome = "ok" =>
                    calls'[x][g].request \in {"applied", "forgotten"}
              /\ calls'[x][g].request = "applied" =>
                    store'[g][writes[x].key].version >= writes[x].version
      BY <2>0, <3>2, <3>3, <3>4, <3>6, <3>9, <3>10
    <3> QED
      BY <2>0, <3>5, <3>6, <3>7, <3>8, <3>11
  <2>4. ASSUME NEW w \in Writes, NEW f \in Followers, NEW o \in {"ok", "failed"},
               CallReturns(w, f, o),
               o = "ok" => calls[w][f].request \in {"applied", "forgotten"}
        PROVE  Good(x)'
    <3>1. store' = store
      BY <2>4 DEF CallReturns
    <3>2. \A g \in Followers :
              /\ calls'[x][g].request = calls[x][g].request
              /\ \/ calls'[x][g].outcome = calls[x][g].outcome
                 \/ x = w /\ g = f /\ calls'[x][g].outcome = o
      BY <2>4 DEF CallReturns, TypeOK, Call
    <3>3. Returned(calls[x], "ok") \subseteq Returned(calls'[x], "ok")
      BY <2>4 DEF CallReturns, TypeOK, Call, Returned
    <3>4. /\ Cardinality(Returned(calls[x], "ok")) \in Nat
          /\ Cardinality(Returned(calls'[x], "ok")) \in Nat
          /\ Cardinality(Returned(calls[x], "ok"))
                <= Cardinality(Returned(calls'[x], "ok"))
      BY <3>3, SmallerSubset DEF Returned
    <3>5. /\ writes'[x].key = writes[x].key
          /\ writes'[x].version = writes[x].version
          /\ \/ writes'[x].phase = writes[x].phase
             \/ x = w /\ writes'[x].phase = Verdict(calls'[w])
      BY <2>4 DEF CallReturns, TypeOK, Write
    <3>6. writes'[x].phase \in {"idle", "forbidden"} =>
              \A g \in Followers : calls'[x][g] = NoCall
      <4> SUFFICES ASSUME writes'[x].phase \in {"idle", "forbidden"}
                   PROVE  \A g \in Followers : calls'[x][g] = NoCall
        OBVIOUS
      <4>1. writes[x].phase \in {"idle", "forbidden"}
        BY <3>5, VerdictType
      <4>2. x # w
        BY <2>0, <2>4, <4>1 DEF CallReturns, NoCall
      <4> QED
        BY <2>0, <2>4, <4>1, <4>2 DEF CallReturns, TypeOK
    <3>7. writes'[x].phase = "created" =>
              Cardinality(Returned(calls'[x], "ok")) >= AcksNeeded
      BY <2>0, <3>4, <3>5, VerdictCreated DEF AcksNeeded
    <3>8. \A g \in Followers :
              calls'[x][g].outcome = "ok" =>
                  calls'[x][g].request \in {"applied", "forgotten"}
      BY <2>0, <2>4, <3>2
    <3> QED
      BY <2>0, <3>1, <3>2, <3>5, <3>6, <3>7, <3>8
  <2>5. CASE UNCHANGED <<store, writes, calls>>
    BY <2>0, <2>5
  <2>6. ASSUME NEW f \in Followers, RestartFollower(f) PROVE Good(x)'
    <3>1. \A g \in Followers \ {f} :
              store'[g] = store[g] /\ calls'[x][g] = calls[x][g]
      BY <2>6 DEF RestartFollower, TypeOK
    <3>2. /\ calls'[x][f].request # "applied"
          /\ calls[x][f].request \in {"applied", "forgotten"} =>
                calls'[x][f].request = "forgotten"
          /\ calls'[x][f].outcome = calls[x][f].outcome
          /\ calls[x][f] = NoCall => calls'[x][f] = NoCall
      <4>1. calls[x] \in [Followers -> Call] /\ calls[x][f] \in Call
        BY DEF TypeOK
      <4>2. PICK dropped \in SUBSET {w \in Writes :
                                        calls[w][f].request = "pending"} :
               calls' = [w \in Writes |->
                           [calls[w] EXCEPT
                              ![f].request = AfterRestart(@, w \in dropped)]]
        BY <2>6 DEF RestartFollower
      <4>3. calls'[x] = [calls[x] EXCEPT
                           ![f].request = AfterRestart(@, x \in dropped)]
        BY <4>2
      <4>4. x \in dropped => calls[x][f].request = "pending"
        BY <4>2
      <4> QED
        BY <4>1, <4>3, <4>4 DEF Call, NoCall, AfterRestart
    <3>4. Returned(calls'[x], "ok") = Returned(calls[x], "ok")
      BY <3>1, <3>2 DEF Returned
    <3>5. writes' = writes
      BY <2>6 DEF RestartFollower
    <3> QED
      BY <2>0, <3>1, <3>2, <3>4, <3>5
  <2>7. CASE RestartLeader
    <3>1. \A f \in Followers : store'[f] = store[f]
      BY <2>7 DEF RestartLeader, TypeOK
    <3>2. \A f \in Followers :
              /\ calls'[x][f].request = calls[x][f].request
              /\ calls'[x][f].outcome = "ok" <=> calls[x][f].outcome = "ok"
              /\ calls[x][f] = NoCall => calls'[x][f] = NoCall
      <4> SUFFICES ASSUME NEW f \in Followers
                   PROVE
              /\ calls'[x][f].request = calls[x][f].request
              /\ calls'[x][f].outcome = "ok" <=> calls[x][f].outcome = "ok"
              /\ calls[x][f] = NoCall => calls'[x][f] = NoCall
        OBVIOUS
      <4>1. calls[x][f] \in Call
        BY DEF TypeOK
      <4>2. calls'[x][f] = [calls[x][f] EXCEPT !.outcome =
                              IF @ = "waiting" THEN "failed" ELSE @]
        BY <2>7 DEF RestartLeader
      <4> QED
        BY <4>1, <4>2 DEF Call, NoCall
    <3>3. Returned(calls'[x], "ok") = Returned(calls[x], "ok")
      BY <3>2 DEF Returned
    <3>4. /\ writes'[x].key = writes[x].key
          /\ writes'[x].version = writes[x].version
          /\ writes'[x].phase \in {writes[x].phase, "lost"}
      BY <2>7 DEF RestartLeader, TypeOK, Write
    <3> QED
      BY <2>0, <3>1, <3>2, <3>3, <3>4
  <2>8. ASSUME NEW r \in Reads,
               \/ \E k \in Keys : ReadAtLeader(r, k)
               \/ \E n \in Nodes, k \in Keys : ReadCopy(r, n, k)
               \/ \E f \in Followers : \/ FollowerAnswers(r, f)
                                       \/ FollowerUnreachable(r, f)
        PROVE  Good(x)'
    <3>1. UNCHANGED <<store, writes, calls>>
      BY <2>8 DEF ReadAtLeader, ReadCopy, FollowerAnswers,
                  FollowerUnreachable, TakeResult
    <3> QED
      BY <2>5, <3>1
  <2>9. CASE UNCHANGED vars
    BY <2>5, <2>9 DEF vars
  <2>10. ASSUME NEW w \in Writes, NEW f \in Followers,
                CallSucceeds(w, f) \/ CallFails(w, f)
         PROVE  Good(x)'
    BY <2>4, <2>10 DEF CallSucceeds, CallFails
  <2> HIDE DEF Good
  <2> QED
    BY <2>1, <2>2, <2>3, <2>6, <2>7, <2>8, <2>9, <2>10 DEF Next, Restart, Nodes
<1> QED
  BY <1>1, <1>2, TypeCorrect, PTL DEF Spec

-----------------------------------------------------------------------------
(* Calls whose result is ok or still to come: what a 503 looks at. *)
Open(c) == {f \in Followers : c[f].outcome \in {"ok", "waiting"}}

(* A verdict of 503 means that too few of the calls are open. *)
LEMMA VerdictFailed ==
    ASSUME NEW c, Verdict(c) = "failed"
    PROVE  Cardinality(Open(c)) < AcksNeeded
<1> USE FollowersAssumption, QuorumAssumption
<1> DEFINE failed == Returned(c, "failed")
<1>1. Open(c) \subseteq Followers \ failed /\ failed \in SUBSET Followers
  BY DEF Open, Returned
<1>2. Cardinality(Followers \ failed)
        = Cardinality(Followers) - Cardinality(failed)
  <2>1. Followers \cap failed = failed
    BY <1>1
  <2> QED
    BY <2>1, FS_Difference
<1>3. /\ Cardinality(Open(c)) \in Nat
      /\ Cardinality(Followers \ failed) \in Nat
      /\ Cardinality(Open(c)) <= Cardinality(Followers \ failed)
  BY <1>1, SmallerSubset
<1>4. /\ Cardinality(Returned(c, "ok")) \in Nat
      /\ Cardinality(failed) \in Nat
      /\ Cardinality(Followers) \in Nat
  BY ReturnedFinite, FS_CardinalityType
<1>5. /\ Cardinality(Returned(c, "ok")) < AcksNeeded
      /\ \/ Cardinality(failed) > Cardinality(Followers) - AcksNeeded
         \/ Cardinality(Returned(c, "ok")) + Cardinality(failed)
               = Cardinality(Followers)
  BY DEF Verdict
<1> HIDE DEF failed
<1> QED
  BY <1>2, <1>3, <1>4, <1>5 DEF AcksNeeded

(* Whatever fails or restarts, a 503 is given only when the quorum is out  *)
(* of reach, and it stays out of reach.                                    *)
THEOREM RefusedRightly == Spec => []RefusedOnlyWithoutQuorum
<1> USE FollowersAssumption, QuorumAssumption
<1> DEFINE Good(w) == writes[w].phase = "failed" =>
                          Cardinality(Open(calls[w])) < AcksNeeded
           Inv == \A w \in Writes : Good(w)
<1>1. Init => Inv
  BY DEF Init
<1>2. TypeOK /\ TypeOK' /\ Inv /\ [Next]_vars => Inv'
  <2> SUFFICES ASSUME TypeOK, TypeOK', Inv, [Next]_vars, NEW x \in Writes
               PROVE  Good(x)'
    OBVIOUS
  <2>1. Good(x)
    OBVIOUS
  <2>2. ASSUME Open(calls'[x]) \subseteq Open(calls[x]),
               \/ writes'[x].phase = writes[x].phase
               \/ writes'[x].phase # "failed"
               \/ writes'[x].phase = Verdict(calls'[x])
        PROVE  Good(x)'
    <3>1. /\ Cardinality(Open(calls'[x])) \in Nat
          /\ Cardinality(Open(calls[x])) \in Nat
          /\ Cardinality(Open(calls'[x])) <= Cardinality(Open(calls[x]))
      BY <2>2, SmallerSubset DEF Open
    <3>2. writes'[x].phase = writes[x].phase => Good(x)'
      BY <2>1, <3>1 DEF AcksNeeded
    <3>3. writes'[x].phase = Verdict(calls'[x]) => Good(x)'
      BY VerdictFailed
    <3> QED
      BY <2>2, <3>2, <3>3
  <2>3. CASE UNCHANGED <<writes, calls>>
    BY <2>2, <2>3
  <2>4. ASSUME NEW w \in Writes, SetAtFollower(w) PROVE Good(x)'
    BY <2>2, <2>4 DEF SetAtFollower, TypeOK, Write
  <2>5. ASSUME NEW w \in Writes, NEW k \in Keys, NEW v \in Values,
               SetAtLeader(w, k, v)
        PROVE  Good(x)'
    <3>1. CASE x = w
      BY <2>5, <3>1, VerdictFailed DEF SetAtLeader, TypeOK
    <3>2. CASE x # w
      BY <2>2, <2>5, <3>2 DEF SetAtLeader, TypeOK
    <3> QED
      BY <3>1, <3>2
  <2>6. ASSUME NEW w \in Writes, NEW f \in Followers, Replicate(w, f)
        PROVE  Good(x)'
    <3>1. \A g \in Followers : calls'[x][g].outcome = calls[x][g].outcome
      BY <2>6 DEF Replicate, TypeOK, Call
    <3> QED
      BY <2>2, <2>6, <3>1 DEF Open, Replicate
  <2>7. ASSUME NEW w \in Writes, NEW f \in Followers,
               CallSucceeds(w, f) \/ CallFails(w, f)
        PROVE  Good(x)'
    <3>1. PICK o : CallReturns(w, f, o)
      BY <2>7 DEF CallSucceeds, CallFails
    <3>2. \A g \in Followers : \/ calls'[x][g].outcome = calls[x][g].outcome
                              \/ calls[x][g].outcome = "waiting"
      BY <3>1 DEF CallReturns, TypeOK, Call
    <3>3. \/ writes'[x].phase = writes[x].phase
          \/ x = w /\ writes'[x].phase = Verdict(calls'[w])
      BY <3>1 DEF CallReturns, TypeOK, Write
    <3> QED
      BY <2>2, <3>2, <3>3 DEF Open
  <2>8. ASSUME NEW f \in Followers, RestartFollower(f) PROVE Good(x)'
    <3>1. \A g \in Followers : calls'[x][g].outcome = calls[x][g].outcome
      BY <2>8 DEF RestartFollower, TypeOK, Call
    <3> QED
      BY <2>2, <2>8, <3>1 DEF Open, RestartFollower
  <2>9. CASE RestartLeader
    <3>1. \A g \in Followers :
              \/ calls'[x][g].outcome = calls[x][g].outcome
              \/ calls'[x][g].outcome = "failed"
      <4> SUFFICES ASSUME NEW g \in Followers
                   PROVE  \/ calls'[x][g].outcome = calls[x][g].outcome
                          \/ calls'[x][g].outcome = "failed"
        OBVIOUS
      <4>1. calls[x][g] \in Call
        BY DEF TypeOK
      <4>2. calls'[x][g] = [calls[x][g] EXCEPT !.outcome =
                              IF @ = "waiting" THEN "failed" ELSE @]
        BY <2>9 DEF RestartLeader
      <4> QED
        BY <4>1, <4>2 DEF Call
    <3>2. writes'[x].phase \in {writes[x].phase, "lost"}
      BY <2>9 DEF RestartLeader, TypeOK, Write
    <3> QED
      BY <2>2, <3>1, <3>2 DEF Open
  <2>10. ASSUME NEW r \in Reads,
               \/ \E k \in Keys : ReadAtLeader(r, k)
               \/ \E n \in Nodes, k \in Keys : ReadCopy(r, n, k)
               \/ \E f \in Followers : \/ FollowerAnswers(r, f)
                                       \/ FollowerUnreachable(r, f)
        PROVE  Good(x)'
    <3>1. UNCHANGED <<writes, calls>>
      BY <2>10 DEF ReadAtLeader, ReadCopy, FollowerAnswers,
                   FollowerUnreachable, TakeResult
    <3> QED
      BY <2>3, <3>1
  <2>11. CASE UNCHANGED vars
    BY <2>3, <2>11 DEF vars
  <2> HIDE DEF Good, Inv
  <2> QED
    BY <2>4, <2>5, <2>6, <2>7, <2>8, <2>9, <2>10, <2>11
       DEF Next, Restart, Nodes
<1>3. Inv => RefusedOnlyWithoutQuorum
  BY DEF RefusedOnlyWithoutQuorum, Open
<1> QED
  BY <1>1, <1>2, <1>3, TypeCorrect, PTL DEF Spec

-----------------------------------------------------------------------------
(* What a step may do to the writes, other than a handler on the leader    *)
(* giving one of them its entry: nothing but change phases.                *)
PhasesOnly ==
    \A w \in Writes :
        /\ writes'[w].key = writes[w].key
        /\ writes'[w].value = writes[w].value
        /\ writes'[w].version = writes[w].version
        /\ writes'[w].phase \in {"idle", "forbidden"} =>
              writes[w].phase \in {"idle", "forbidden"}

(* Every step is a write at the leader, an update at a follower, a restart *)
(* or one that leaves all stores alone.                                    *)
Step ==
    \/ \E w \in Writes, k \in Keys, v \in Values : SetAtLeader(w, k, v)
    \/ /\ PhasesOnly
       /\ \/ store' = store
          \/ \E w \in Writes, f \in Followers : Replicate(w, f)
          \/ \E f \in Followers : RestartFollower(f)
    \/ RestartLeader

(* The disjuncts of Next, one by one. *)
LEMMA StepCases ==
    ASSUME TypeOK, TypeOK', [Next]_vars
    PROVE  Step
<1>1. ASSUME writes' = writes PROVE PhasesOnly
  BY <1>1 DEF PhasesOnly
<1>2. ASSUME NEW w \in Writes, SetAtFollower(w) PROVE PhasesOnly /\ store' = store
  BY <1>2 DEF SetAtFollower, PhasesOnly, TypeOK, Write
<1>3. ASSUME NEW w \in Writes, NEW f \in Followers,
             CallSucceeds(w, f) \/ CallFails(w, f)
      PROVE  PhasesOnly /\ store' = store
  <2>1. PICK o : CallReturns(w, f, o)
    BY <1>3 DEF CallSucceeds, CallFails
  <2>2. Verdict(calls'[w]) \notin {"idle", "forbidden"}
    BY VerdictType
  <2> QED
    BY <2>1, <2>2 DEF CallReturns, PhasesOnly, TypeOK, Write
<1>4. ASSUME NEW w \in Writes, NEW f \in Followers, Replicate(w, f)
      PROVE  PhasesOnly
  BY <1>1, <1>4 DEF Replicate
<1>5. ASSUME NEW f \in Followers, RestartFollower(f) PROVE PhasesOnly
  BY <1>1, <1>5 DEF RestartFollower
<1>6. ASSUME NEW r \in Reads,
             \/ \E k \in Keys : ReadAtLeader(r, k)
             \/ \E n \in Nodes, k \in Keys : ReadCopy(r, n, k)
             \/ \E f \in Followers : \/ FollowerAnswers(r, f)
                                     \/ FollowerUnreachable(r, f)
      PROVE  PhasesOnly /\ store' = store
  BY <1>1, <1>6 DEF ReadAtLeader, ReadCopy, FollowerAnswers,
                    FollowerUnreachable, TakeResult
<1>7. CASE UNCHANGED vars
  BY <1>1, <1>7 DEF vars, Step
<1> QED
  BY <1>2, <1>3, <1>4, <1>5, <1>6, <1>7 DEF Next, Step, Restart, Nodes

-----------------------------------------------------------------------------
(* A step that changes the restarts of a node is the node's restart. *)
LEMMA RestartCases ==
    ASSUME TypeOK, [Next]_vars, NEW n \in Nodes
    PROVE  \/ /\ restarts'[n] = restarts[n]
              /\ n = Leader => ~RestartLeader
              /\ n \in Followers => ~RestartFollower(n)
           \/ /\ restarts'[n] = restarts[n] + 1
              /\ \/ n = Leader /\ RestartLeader
                 \/ n \in Followers /\ RestartFollower(n)
<1> USE FollowersAssumption DEF Nodes
<1>1. restarts \in [Nodes -> 0..MaxRestarts] /\ MaxRestarts \in Nat
  BY FaultAssumption DEF TypeOK
<1>2. CASE restarts' = restarts
  <2>1. ~RestartLeader
    BY <1>1, <1>2 DEF RestartLeader
  <2>2. \A f \in Followers : ~RestartFollower(f)
    BY <1>1, <1>2 DEF RestartFollower
  <2> QED
    BY <1>2, <2>1, <2>2
<1>3. ASSUME NEW f \in Followers, RestartFollower(f)
      PROVE  restarts' = [restarts EXCEPT ![f] = @ + 1]
  BY <1>3 DEF RestartFollower
<1>4. ASSUME RestartLeader
      PROVE  restarts' = [restarts EXCEPT ![Leader] = @ + 1]
  BY <1>4 DEF RestartLeader
<1>5. \/ restarts' = restarts
      \/ RestartLeader
      \/ \E f \in Followers : RestartFollower(f)
  <2>1. ASSUME NEW w \in Writes,
               \/ SetAtFollower(w)
               \/ \E k \in Keys, v \in Values : SetAtLeader(w, k, v)
               \/ \E f \in Followers : \/ Replicate(w, f)
                                       \/ CallSucceeds(w, f)
                                       \/ CallFails(w, f)
        PROVE  restarts' = restarts
    BY <2>1 DEF SetAtFollower, SetAtLeader, Replicate, CallSucceeds,
                CallFails, CallReturns
  <2>2. ASSUME NEW r \in Reads,
               \/ \E k \in Keys : ReadAtLeader(r, k)
               \/ \E m \in Nodes, k \in Keys : ReadCopy(r, m, k)
               \/ \E f \in Followers : \/ FollowerAnswers(r, f)
                                       \/ FollowerUnreachable(r, f)
        PROVE  restarts' = restarts
    BY <2>2 DEF ReadAtLeader, ReadCopy, FollowerAnswers,
                FollowerUnreachable, TakeResult
  <2>3. CASE UNCHANGED vars
    BY <2>3 DEF vars
  <2> QED
    BY <2>1, <2>2, <2>3 DEF Next, Restart, Nodes
<1>6. CASE RestartLeader
  <2>1. \A f \in Followers : ~RestartFollower(f)
    BY <1>1, <1>3, <1>4, <1>6
  <2> QED
    BY <1>1, <1>4, <1>6, <2>1
<1>7. ASSUME NEW f \in Followers, RestartFollower(f)
      PROVE  \/ /\ restarts'[n] = restarts[n]
                /\ n = Leader => ~RestartLeader
                /\ n \in Followers => ~RestartFollower(n)
             \/ /\ restarts'[n] = restarts[n] + 1
                /\ n \in Followers /\ RestartFollower(n)
  <2>1. restarts'[n] = IF n = f THEN restarts[n] + 1 ELSE restarts[n]
    BY <1>1, <1>3, <1>7
  <2>2. ~RestartLeader
    BY <1>1, <1>3, <1>4, <1>7
  <2>3. n \in Followers /\ n # f => ~RestartFollower(n)
    BY <1>1, <1>3, <1>7
  <2> QED
    BY <1>7, <2>1, <2>2, <2>3
<1> QED
  BY <1>2, <1>5, <1>6, <1>7

(* The leader has not restarted after a step only if it had not before. *)
LEMMA LeaderUp ==
    ASSUME TypeOK, [Next]_vars, restarts'[Leader] = 0
    PROVE  restarts[Leader] = 0 /\ ~RestartLeader
<1>1. restarts[Leader] \in Nat
  BY FaultAssumption DEF TypeOK, Nodes
<1> QED
  BY <1>1, RestartCases, FollowersAssumption DEF Nodes

(* The strengthened invariant holds until the leader restarts. *)
Kept == restarts[Leader] = 0 => VersionInv

(* It does, in every reachable state. *)
LEMMA VersionInvariant == Spec => []Kept
<1> USE FollowersAssumption DEF Nodes
<1>1. Init => Kept
  BY KeyExists DEF Init, Kept, VersionInv, EmptyStore, NoEntry
<1>2. TypeOK /\ TypeOK' /\ Kept /\ [Next]_vars => Kept'
  <2> SUFFICES ASSUME TypeOK, TypeOK', Kept, [Next]_vars, restarts'[Leader] = 0
               PROVE  VersionInv'
    BY DEF Kept
  <2>0. VersionInv
    BY LeaderUp DEF Kept
  <2> USE <2>0
  <2>1. ASSUME NEW w \in Writes, NEW k \in Keys, NEW v \in Values,
               SetAtLeader(w, k, v)
        PROVE  VersionInv'
    <3> DEFINE new == store[Leader][k].version + 1
    <3>1. store[Leader] \in [Keys -> Entry] /\ new \in Nat
      BY DEF TypeOK, Entry
    <3>2. /\ writes[w].phase = "idle"
          /\ writes[w].version = 0
      BY <2>1 DEF SetAtLeader, VersionInv
    <3>3. /\ writes'[w].key = k
          /\ writes'[w].value = v
          /\ writes'[w].version = new
          /\ writes'[w].phase = Verdict(calls'[w])
          /\ \A x \in Writes \ {w} : writes'[x] = writes[x]
      BY <2>1 DEF SetAtLeader, NextVersion, TypeOK
    <3>4. /\ store'[Leader][k] = [value |-> v, version |-> new]
          /\ \A j \in Keys \ {k} : store'[Leader][j] = store[Leader][j]
          /\ \A f \in Followers : store'[f] = store[f]
      <4>1. /\ store'[Leader] = SetLocal(store[Leader], k, v)
            /\ \A f \in Followers : store'[f] = store[f]
        BY <2>1 DEF SetAtLeader, TypeOK
      <4> QED
        BY <3>1, <4>1, SetLocalEntry
    <3>5. \A x \in Writes : /\ writes[x].key \in Keys
                            /\ writes[x].version \in Nat
                            /\ writes[x].version <=
                                  store[Leader][writes[x].key].version
      BY DEF TypeOK, Write, VersionInv
    <3>6. \A j \in Keys : store[Leader][j].version \in Nat
      BY DEF TypeOK, Entry
    <3> HIDE DEF new
    <3>7. new = store[Leader][k].version + 1
      BY DEF new
    <3>8. \A x \in Writes :
              /\ writes'[x].phase \in {"idle", "forbidden"} =>
                    writes'[x].version = 0
              /\ writes'[x].version <= store'[Leader][writes'[x].key].version
      <4> SUFFICES ASSUME NEW x \in Writes
                   PROVE
              /\ writes'[x].phase \in {"idle", "forbidden"} =>
                    writes'[x].version = 0
              /\ writes'[x].version <= store'[Leader][writes'[x].key].version
        OBVIOUS
      <4>1. CASE x = w
        BY <3>1, <3>3, <3>4, <4>1, VerdictType
      <4>2. CASE x # w
        BY <3>3, <3>4, <3>5, <3>6, <3>7, <4>2 DEF VersionInv
      <4> QED
        BY <4>1, <4>2
    <3>9. \A x, y \in Writes :
              /\ x # y
              /\ writes'[x].key = writes'[y].key
              /\ writes'[x].version = writes'[y].version
              => writes'[x].version = 0
      <4>1. \A x \in Writes \ {w} :
                writes[x].key = k => writes[x].version # new
        BY <3>5, <3>6, <3>7
      <4> QED
        BY <3>3, <4>1 DEF VersionInv
    <3>10. \A n \in Nodes, j \in Keys :
               \/ store'[n][j] = NoEntry
               \/ \E x \in Writes : /\ writes'[x].key = j
                                    /\ writes'[x].version > 0
                                    /\ store'[n][j] = WriteEntry(x)'
      <4> SUFFICES ASSUME NEW n \in Nodes, NEW j \in Keys,
                          store'[n][j] # NoEntry
                   PROVE  \E x \in Writes : /\ writes'[x].key = j
                                            /\ writes'[x].version > 0
                                            /\ store'[n][j] = WriteEntry(x)'
        OBVIOUS
      <4>1. CASE n = Leader /\ j = k
        BY <3>1, <3>3, <3>4, <3>6, <3>7, <4>1 DEF WriteEntry
      <4>2. CASE ~(n = Leader /\ j = k)
        <5>1. store'[n][j] = store[n][j]
          BY <3>4, <4>2
        <5>2. PICK x \in Writes : /\ writes[x].key = j
                                  /\ writes[x].version > 0
                                  /\ store[n][j] = WriteEntry(x)
          BY <5>1 DEF VersionInv
        <5>3. x # w
          BY <3>2, <5>2
        <5> QED
          BY <3>3, <5>1, <5>2, <5>3 DEF WriteEntry
      <4> QED
        BY <4>1, <4>2
    <3> QED
      BY <3>8, <3>9, <3>10 DEF VersionInv
  <2>2. ASSUME PhasesOnly, store'[Leader] = store[Leader],
               \A n \in Nodes, k \in Keys :
                  \/ store'[n][k] = store[n][k]
                  \/ store'[n][k] = NoEntry
                  \/ \E w \in Writes : /\ writes[w].key = k
                                       /\ writes[w].version > 0
                                       /\ store'[n][k] = WriteEntry(w)
        PROVE  VersionInv'
    <3>1. \A w \in Writes : WriteEntry(w)' = WriteEntry(w)
      BY <2>2 DEF PhasesOnly, WriteEntry
    <3>2. \A w \in Writes :
              /\ writes'[w].phase \in {"idle", "forbidden"} =>
                    writes'[w].version = 0
              /\ writes'[w].version <= store'[Leader][writes'[w].key].version
      BY <2>2 DEF PhasesOnly, VersionInv
    <3>3. \A w, x \in Writes :
              /\ w # x
              /\ writes'[w].key = writes'[x].key
              /\ writes'[w].version = writes'[x].version
              => writes'[w].version = 0
      BY <2>2 DEF PhasesOnly, VersionInv
    <3>4. \A n \in Nodes, k \in Keys :
              \/ store'[n][k] = NoEntry
              \/ \E w \in Writes : /\ writes'[w].key = k
                                   /\ writes'[w].version > 0
                                   /\ store'[n][k] = WriteEntry(w)'
      BY <2>2, <3>1 DEF PhasesOnly, VersionInv
    <3> QED
      BY <3>2, <3>3, <3>4 DEF VersionInv
  <2>3. ASSUME PhasesOnly, store' = store PROVE VersionInv'
    BY <2>2, <2>3
  <2>4. ASSUME PhasesOnly, NEW w \in Writes, NEW f \in Followers, Replicate(w, f)
        PROVE  VersionInv'
    <3>1. /\ writes[w].key \in Keys
          /\ writes[w].version \in Nat
          /\ WriteEntry(w) \in Entry
          /\ store[f] \in [Keys -> Entry]
          /\ store[f][writes[w].key].version \in Nat
      BY DEF TypeOK, Write, WriteEntry, Entry
    <3>2. /\ \A n \in Nodes \ {f} : store'[n] = store[n]
          /\ store'[f] = Set(store[f], writes[w].key, WriteEntry(w))
      BY <2>4 DEF Replicate, TypeOK
    <3>3. \A k \in Keys :
              \/ store'[f][k] = store[f][k]
              \/ /\ k = writes[w].key
                 /\ writes[w].version > 0
                 /\ store'[f][k] = WriteEntry(w)
      BY <3>1, <3>2, SetChoice DEF WriteEntry
    <3> QED
      BY <2>2, <2>4, <3>2, <3>3
  <2>5. ASSUME PhasesOnly, NEW f \in Followers, RestartFollower(f)
        PROVE  VersionInv'
    <3>1. /\ \A n \in Nodes \ {f} : store'[n] = store[n]
          /\ \A k \in Keys : store'[f][k] = NoEntry
      BY <2>5 DEF RestartFollower, TypeOK, EmptyStore
    <3> QED
      BY <2>2, <2>5, <3>1
  <2>6. ~RestartLeader
    BY LeaderUp
  <2> QED
    BY <2>1, <2>3, <2>4, <2>5, <2>6, StepCases DEF Step
<1> QED
  BY <1>1, <1>2, TypeCorrect, PTL DEF Spec

(* Until the leader restarts, no follower is ever ahead of it: the local   *)
(* read with which handleLeaderRead begins is the newest there is.         *)
THEOREM LeaderNeverBehind == Spec => []LeaderIsNewest
<1>1. TypeOK /\ Kept => LeaderIsNewest
  <2> SUFFICES ASSUME TypeOK, VersionInv, NEW f \in Followers, NEW k \in Keys
               PROVE  store[f][k].version <= store[Leader][k].version
    BY DEF LeaderIsNewest, Kept
  <2>1. store[Leader][k].version \in Nat
    BY DEF TypeOK, Entry, Nodes
  <2>2. CASE store[f][k] = NoEntry
    BY <2>1, <2>2 DEF NoEntry
  <2>3. CASE store[f][k] # NoEntry
    <3>1. PICK w \in Writes : writes[w].key = k /\ store[f][k] = WriteEntry(w)
      BY <2>3 DEF VersionInv, Nodes
    <3> QED
      BY <3>1 DEF VersionInv, WriteEntry
  <2> QED
    BY <2>2, <2>3
<1> QED
  BY <1>1, TypeCorrect, VersionInvariant, PTL

(* Until the leader restarts, two nodes that hold the same version of a    *)
(* key hold the same value.                                                *)
THEOREM VersionsAgree == Spec => []OneValuePerVersion
<1>1. TypeOK /\ Kept => OneValuePerVersion
  <2> SUFFICES ASSUME TypeOK, VersionInv, NEW m \in Nodes, NEW n \in Nodes,
                      NEW k \in Keys,
                      store[m][k].version = store[n][k].version
               PROVE  store[m][k].value = store[n][k].value
    BY DEF OneValuePerVersion, Kept
  <2> DEFINE Of(w, e) == /\ writes[w].key = k
                         /\ writes[w].version > 0
                         /\ e = WriteEntry(w)
  <2>1. \A e \in {store[m][k], store[n][k]} :
            e = NoEntry \/ \E w \in Writes : Of(w, e)
    BY DEF VersionInv
  <2>2. \A w \in Writes : writes[w].version \in Nat
    BY DEF TypeOK, Write
  <2>3. CASE store[m][k] = NoEntry \/ store[n][k] = NoEntry
    <3>1. store[m][k].version = 0 /\ store[n][k].version = 0
      BY <2>3 DEF NoEntry
    <3>2. ASSUME NEW e, e.version = 0, NEW w \in Writes, Of(w, e) PROVE FALSE
      BY <2>2, <3>2 DEF WriteEntry
    <3> HIDE DEF Of
    <3>3. store[m][k] = NoEntry /\ store[n][k] = NoEntry
      BY <2>1, <3>1, <3>2
    <3> QED
      BY <3>3
  <2>4. CASE store[m][k] # NoEntry /\ store[n][k] # NoEntry
    <3>1. PICK w \in Writes : Of(w, store[m][k])
      BY <2>1, <2>4
    <3>2. PICK x \in Writes : Of(x, store[n][k])
      BY <2>1, <2>4
    <3>3. w = x
      BY <2>2, <3>1, <3>2 DEF WriteEntry, VersionInv
    <3> QED
      BY <3>1, <3>2, <3>3
  <2> QED
    BY <2>3, <2>4
<1> QED
  BY <1>1, TypeCorrect, VersionInvariant, PTL

-----------------------------------------------------------------------------
(* What a follower holds it keeps, as its copy only gets newer.            *)
LEMMA HoldsKept ==
    ASSUME TypeOK, TypeOK', NEW w \in Writes, NEW f \in Followers,
           Holds(f, w),
           writes'[w].key = writes[w].key,
           writes'[w].value = writes[w].value,
           writes'[w].version = writes[w].version,
           \A k \in Keys : \/ store'[f][k] = store[f][k]
                           \/ store'[f][k].version > store[f][k].version
    PROVE  Holds(f, w)'
<1>1. writes[w].key \in Keys /\ writes[w].version \in Nat
  BY DEF TypeOK, Write
<1>2. /\ store[f][writes[w].key].version \in Nat
      /\ store'[f][writes[w].key].version \in Nat
  BY <1>1 DEF TypeOK, Entry, Nodes
<1>3. WriteEntry(w)' = WriteEntry(w) /\ WriteEntry(w).version = writes[w].version
  BY DEF WriteEntry
<1> QED
  BY <1>1, <1>2, <1>3 DEF Holds

(* A request that is applied while the leader's first process runs leaves  *)
(* its write on the follower, or finds a newer one: an entry of the same   *)
(* version is that of the same write.                                      *)
LEMMA AppliedHolds ==
    ASSUME TypeOK, TypeOK', VersionInv, NEW w \in Writes, NEW f \in Followers,
           writes[w].version > 0, Replicate(w, f)
    PROVE  Holds(f, w)'
<1> DEFINE k == writes[w].key
           e == WriteEntry(w)
<1>1. /\ k \in Keys /\ writes[w].version \in Nat
      /\ e \in Entry /\ e.version = writes[w].version
  BY DEF TypeOK, Write, WriteEntry, Entry
<1>2. store[f] \in [Keys -> Entry] /\ store[f][k].version \in Nat
  BY <1>1 DEF TypeOK, Entry, Nodes
<1>3. writes' = writes /\ store'[f] = Set(store[f], k, e)
  BY <1>2, FollowersAssumption DEF Replicate, TypeOK, Nodes
<1>4. WriteEntry(w)' = e
  BY <1>3 DEF WriteEntry
<1>5. CASE e.version > store[f][k].version
  <2>1. store'[f][k] = e
    BY <1>1, <1>2, <1>3, <1>5 DEF Set
  <2> QED
    BY <1>3, <1>4, <2>1 DEF Holds
<1>6. CASE ~(e.version > store[f][k].version)
  <2>1. store'[f] = store[f]
    BY <1>3, <1>6 DEF Set
  <2>2. CASE store[f][k].version > writes[w].version
    BY <1>3, <2>1, <2>2 DEF Holds
  <2>3. CASE store[f][k].version = writes[w].version
    <3>1. store[f][k] # NoEntry
      BY <2>3 DEF NoEntry
    <3>2. PICK x \in Writes : /\ writes[x].key = k
                              /\ writes[x].version > 0
                              /\ store[f][k] = WriteEntry(x)
      BY <1>1, <3>1 DEF VersionInv, Nodes
    <3>3. writes[x].version = writes[w].version
      BY <2>3, <3>2 DEF WriteEntry
    <3>4. x = w
      BY <3>2, <3>3 DEF VersionInv
    <3> QED
      BY <1>3, <1>4, <2>1, <3>2, <3>4 DEF Holds
  <2> QED
    BY <1>1, <1>2, <1>6, <2>2, <2>3
<1> QED
  BY <1>5, <1>6

(* The second strengthened invariant of AckedStays. *)
LEMMA HeldInvariant == Spec => []HeldInv
<1> USE FollowersAssumption DEF Nodes
<1>1. Init => HeldInv
  BY DEF Init, HeldInv, NoCall
<1>2. TypeOK /\ TypeOK' /\ AckInv /\ Kept /\ Kept' /\ HeldInv /\ [Next]_vars
        => HeldInv'
  <2> SUFFICES ASSUME TypeOK, TypeOK', AckInv, Kept, Kept', HeldInv, [Next]_vars
               PROVE  HeldInv'
    OBVIOUS
  <2> DEFINE Good(w, f) ==
        /\ calls[w][f].request # "none" => writes[w].version > 0
        /\ writes[w].term = 0 =>
              /\ restarts[Leader] > 0 => calls[w][f].outcome # "waiting"
              /\ /\ calls[w][f].request = "applied"
                 /\ calls[w][f].outcome = "ok" \/ restarts[Leader] = 0
                 => Holds(f, w)
  <2>0. \A w \in Writes, f \in Followers : Good(w, f)
    BY DEF HeldInv
  <2> SUFFICES ASSUME NEW x \in Writes, NEW g \in Followers PROVE Good(x, g)'
    BY DEF HeldInv
  <2>1. restarts[Leader] \in Nat
    BY FaultAssumption DEF TypeOK
  <2>2. calls[x][g] \in Call /\ calls[x] \in [Followers -> Call]
    BY DEF TypeOK
  <2>3. writes[x].version \in Nat /\ writes[x].key \in Keys
    BY DEF TypeOK, Write
  <2>4. ASSUME writes'[x].key = writes[x].key,
               writes'[x].value = writes[x].value,
               writes'[x].version = writes[x].version,
               writes'[x].term = writes[x].term,
               restarts'[Leader] = restarts[Leader],
               calls'[x][g] = calls[x][g],
               \A k \in Keys : \/ store'[g][k] = store[g][k]
                               \/ store'[g][k].version > store[g][k].version
        PROVE  Good(x, g)'
    <3>1. Holds(g, x) => Holds(g, x)'
      BY <2>4, HoldsKept
    <3> QED
      BY <2>0, <2>4, <3>1
  <2>5. ASSUME NEW w \in Writes, SetAtFollower(w) PROVE Good(x, g)'
    <3>1. /\ writes'[x].key = writes[x].key
          /\ writes'[x].value = writes[x].value
          /\ writes'[x].version = writes[x].version
          /\ writes'[x].term = writes[x].term
      BY <2>5 DEF SetAtFollower, TypeOK, Write
    <3> QED
      BY <2>4, <2>5, <3>1 DEF SetAtFollower
  <2>6. ASSUME NEW w \in Writes, NEW k \in Keys, NEW v \in Values,
               SetAtLeader(w, k, v)
        PROVE  Good(x, g)'
    <3>1. store'[g] = store[g] /\ restarts' = restarts
      BY <2>6 DEF SetAtLeader, TypeOK
    <3>2. CASE x # w
      BY <2>4, <2>6, <3>1, <3>2 DEF SetAtLeader, TypeOK
    <3>3. CASE x = w
      <4>1. /\ writes'[x].version = store[Leader][k].version + 1
            /\ writes'[x].term = restarts[Leader]
        BY <2>6, <3>3 DEF SetAtLeader, TypeOK, NextVersion
      <4>2. store[Leader][k].version \in Nat
        BY DEF TypeOK, Entry
      <4>3. calls'[x][g].request # "applied"
        BY <2>6, <3>3 DEF SetAtLeader, TypeOK, AckInv, NoCall
      <4>4. writes'[x].term = 0 => restarts'[Leader] = 0
        BY <3>1, <4>1
      <4> QED
        BY <4>1, <4>2, <4>3, <4>4
    <3> QED
      BY <3>2, <3>3
  <2>7. ASSUME NEW w \in Writes, NEW f \in Followers, Replicate(w, f)
        PROVE  Good(x, g)'
    <3>1. writes' = writes /\ restarts' = restarts
      BY <2>7 DEF Replicate
    <3>2. \A k \in Keys : \/ store'[g][k] = store[g][k]
                          \/ store'[g][k].version > store[g][k].version
      <4>1. WriteEntry(w) \in Entry /\ writes[w].key \in Keys
        BY DEF WriteEntry, Entry, Write, TypeOK
      <4>2. \/ store'[g] = store[g]
            \/ store'[g] = Set(store[g], writes[w].key, WriteEntry(w))
        BY <2>7 DEF Replicate, TypeOK
      <4>3. store[g] \in [Keys -> Entry]
        BY DEF TypeOK
      <4> QED
        BY <4>1, <4>2, <4>3, SetChoice
    <3>3. CASE ~(x = w /\ g = f)
      <4>1. calls'[x][g] = calls[x][g]
        BY <2>7, <3>3 DEF Replicate, TypeOK
      <4> QED
        BY <2>4, <3>1, <3>2, <4>1
    <3>4. CASE x = w /\ g = f
      <4>1. /\ calls[x][g].request = "pending"
            /\ calls'[x][g].request = "applied"
            /\ calls'[x][g].outcome = calls[x][g].outcome
        BY <2>2, <2>7, <3>4 DEF Replicate, TypeOK, Call
      <4>2. calls[x][g].outcome # "ok" /\ writes[x].version > 0
        BY <2>0, <4>1 DEF AckInv
      <4>3. restarts[Leader] = 0 => Holds(g, x)'
        <5> SUFFICES ASSUME restarts[Leader] = 0 PROVE Holds(g, x)'
          OBVIOUS
        <5>1. VersionInv
          BY DEF Kept
        <5> QED
          BY <2>7, <3>4, <4>2, <5>1, AppliedHolds
      <4> QED
        BY <2>0, <3>1, <4>1, <4>2, <4>3
    <3> QED
      BY <3>3, <3>4
  <2>8. ASSUME NEW w \in Writes, NEW f \in Followers, NEW o \in {"ok", "failed"},
               CallReturns(w, f, o)
        PROVE  Good(x, g)'
    <3>1. store' = store /\ restarts' = restarts
      BY <2>8 DEF CallReturns
    <3>2. /\ writes'[x].key = writes[x].key
          /\ writes'[x].value = writes[x].value
          /\ writes'[x].version = writes[x].version
          /\ writes'[x].term = writes[x].term
      BY <2>8 DEF CallReturns, TypeOK, Write
    <3>3. CASE ~(x = w /\ g = f)
      <4>1. calls'[x][g] = calls[x][g]
        BY <2>8, <3>3 DEF CallReturns, TypeOK
      <4> QED
        BY <2>4, <3>1, <3>2, <4>1
    <3>4. CASE x = w /\ g = f
      <4>1. /\ calls[x][g].outcome = "waiting"
            /\ calls'[x][g].outcome # "waiting"
            /\ calls'[x][g].request = calls[x][g].request
        BY <2>2, <2>8, <3>4 DEF CallReturns, TypeOK, Call
      <4>2. writes[x].term = 0 => restarts[Leader] = 0
        BY <2>0, <2>1, <4>1
      <4>3. Holds(g, x) => Holds(g, x)'
        BY <3>1, <3>2, HoldsKept
      <4> QED
        BY <2>0, <3>1, <3>2, <4>1, <4>2, <4>3
    <3> QED
      BY <3>3, <3>4
  <2>9. ASSUME NEW f \in Followers, RestartFollower(f) PROVE Good(x, g)'
    <3>1. writes' = writes /\ restarts'[Leader] = restarts[Leader]
      BY <2>9 DEF RestartFollower, TypeOK
    <3>2. CASE g # f
      <4>1. store'[g] = store[g] /\ calls'[x][g] = calls[x][g]
        BY <2>9, <3>2 DEF RestartFollower, TypeOK
      <4> QED
        BY <2>4, <3>1, <4>1
    <3>3. CASE g = f
      <4>1. PICK dropped \in SUBSET {w \in Writes :
                                        calls[w][f].request = "pending"} :
               calls' = [w \in Writes |->
                           [calls[w] EXCEPT
                              ![f].request = AfterRestart(@, w \in dropped)]]
        BY <2>9 DEF RestartFollower
      <4>2. calls'[x] = [calls[x] EXCEPT
                           ![f].request = AfterRestart(@, x \in dropped)]
        BY <4>1
      <4>3. x \in dropped => calls[x][g].request = "pending"
        BY <3>3, <4>1
      <4>4. /\ calls'[x][g].outcome = calls[x][g].outcome
            /\ calls'[x][g].request # "applied"
            /\ calls[x][g].request = "none" => calls'[x][g].request = "none"
        BY <2>2, <3>3, <4>2, <4>3 DEF Call, AfterRestart
      <4> QED
        BY <2>0, <3>1, <4>4
    <3> QED
      BY <3>2, <3>3
  <2>10. CASE RestartLeader
    <3>1. store'[g] = store[g] /\ restarts'[Leader] > 0
      BY <2>1, <2>10 DEF RestartLeader, TypeOK
    <3>2. calls'[x][g] = [calls[x][g] EXCEPT !.outcome =
                             IF @ = "waiting" THEN "failed" ELSE @]
      BY <2>10 DEF RestartLeader
    <3>3. /\ calls'[x][g].request = calls[x][g].request
          /\ calls'[x][g].outcome # "waiting"
          /\ calls'[x][g].outcome = "ok" => calls[x][g].outcome = "ok"
      BY <2>2, <3>2 DEF Call
    <3>4. /\ writes'[x].key = writes[x].key
          /\ writes'[x].value = writes[x].value
          /\ writes'[x].version = writes[x].version
          /\ writes'[x].term = writes[x].term
      BY <2>10 DEF RestartLeader, TypeOK, Write
    <3>5. Holds(g, x) => Holds(g, x)'
      BY <3>1, <3>4, HoldsKept
    <3> QED
      BY <2>0, <3>1, <3>3, <3>4, <3>5
  <2>11. CASE UNCHANGED <<store, writes, calls, restarts>>
    BY <2>4, <2>11
  <2>12. ASSUME NEW r \in Reads,
                \/ \E k \in Keys : ReadAtLeader(r, k)
                \/ \E n \in Nodes, k \in Keys : ReadCopy(r, n, k)
                \/ \E f \in Followers : \/ FollowerAnswers(r, f)
                                        \/ FollowerUnreachable(r, f)
         PROVE  Good(x, g)'
    <3>1. UNCHANGED <<store, writes, calls, restarts>>
      BY <2>12 DEF ReadAtLeader, ReadCopy, FollowerAnswers,
                   FollowerUnreachable, TakeResult
    <3> QED
      BY <2>11, <3>1
  <2>13. CASE UNCHANGED vars
    BY <2>11, <2>13 DEF vars
  <2>14. ASSUME NEW w \in Writes, NEW f \in Followers,
                CallSucceeds(w, f) \/ CallFails(w, f)
         PROVE  Good(x, g)'
    BY <2>8, <2>14 DEF CallSucceeds, CallFails
  <2> HIDE DEF Good
  <2> QED
    BY <2>5, <2>6, <2>7, <2>9, <2>10, <2>12, <2>13, <2>14
       DEF Next, Restart, Nodes
<1> QED
  BY <1>1, <1>2, TypeCorrect, AckInvariant, VersionInvariant, PTL DEF Spec

(* Whatever calls fail and whoever restarts, a write answered 201 by the   *)
(* leader's first process is held by W - 1 followers, it or a newer one,   *)
(* or was until they restarted themselves.                                 *)
THEOREM AckedStays == Spec => []AckedOnQuorum
<1> USE QuorumAssumption
<1>1. TypeOK /\ AckInv /\ HeldInv => AckedOnQuorum
  <2> SUFFICES ASSUME TypeOK, AckInv, HeldInv, NEW w \in Writes,
                      writes[w].phase = "created", writes[w].term = 0
               PROVE  Cardinality(Reached(w)) >= AcksNeeded
    BY DEF AckedOnQuorum
  <2>1. Returned(calls[w], "ok") \subseteq Reached(w)
    BY DEF AckInv, HeldInv, Returned, Reached
  <2>2. Reached(w) \in SUBSET Followers
    BY DEF Reached
  <2>3. Cardinality(Returned(calls[w], "ok")) >= AcksNeeded
    BY DEF AckInv
  <2> QED
    BY <2>1, <2>2, <2>3, SmallerSubset DEF AcksNeeded
<1> QED
  BY <1>1, AckInvariant, HeldInvariant, TypeCorrect, PTL

-----------------------------------------------------------------------------
(* No copy goes back to an older version, and none changes the value of    *)
(* the version it holds, until its own node restarts, whatever order       *)
(* updates arrive in and whoever else restarts.                            *)
THEOREM CopiesAdvance == Spec => CopiesOnlyAdvance
<1> USE DEF Nodes
<1> DEFINE A == \A n \in Nodes : restarts'[n] = restarts[n] =>
                    \A k \in Keys :
                        \/ store'[n][k] = store[n][k]
                        \/ store'[n][k].version > store[n][k].version
<1>1. TypeOK /\ TypeOK' /\ [Next]_vars => A
  <2> SUFFICES ASSUME TypeOK, TypeOK', [Next]_vars,
                      NEW n \in Nodes, restarts'[n] = restarts[n],
                      NEW j \in Keys
               PROVE  \/ store'[n][j] = store[n][j]
                      \/ store'[n][j].version > store[n][j].version
    OBVIOUS
  <2>1. /\ \A m \in Nodes : store[m] \in [Keys -> Entry]
        /\ \A m \in Nodes, i \in Keys : store[m][i].version \in Nat
        /\ restarts[n] \in Nat
    BY FaultAssumption DEF TypeOK, Entry
  <2>2. CASE store' = store
    BY <2>2
  <2>3. ASSUME NEW w \in Writes, NEW k \in Keys, NEW v \in Values,
               SetAtLeader(w, k, v)
        PROVE  \/ store'[n][j] = store[n][j]
               \/ store'[n][j].version > store[n][j].version
    <3>1. \/ store'[n] = store[n]
          \/ store'[n] = SetLocal(store[n], k, v)
      BY <2>3 DEF SetAtLeader, TypeOK
    <3>2. store[n] \in [Keys -> Entry] /\ store[n][j].version \in Nat
      BY <2>1
    <3>3. CASE j = k
      <4>1. SetLocal(store[n], k, v)[j]
              = [value |-> v, version |-> store[n][j].version + 1]
        BY <3>2, <3>3, SetLocalEntry
      <4> QED
        BY <3>1, <3>2, <4>1
    <3>4. CASE j # k
      <4>1. j \in Keys \ {k}
        BY <3>4
      <4>2. SetLocal(store[n], k, v)[j] = store[n][j]
        BY <3>2, <4>1, SetLocalEntry
      <4> QED
        BY <3>1, <4>2
    <3> QED
      BY <3>3, <3>4
  <2>4. ASSUME NEW w \in Writes, NEW f \in Followers, Replicate(w, f)
        PROVE  \/ store'[n][j] = store[n][j]
               \/ store'[n][j].version > store[n][j].version
    <3>1. \/ store'[n] = store[n]
          \/ store'[n] = Set(store[n], writes[w].key, WriteEntry(w))
      BY <2>4 DEF Replicate, TypeOK
    <3>2. writes[w].key \in Keys /\ WriteEntry(w) \in Entry
      BY DEF TypeOK, Write, WriteEntry, Entry
    <3> QED
      BY <2>1, <3>1, <3>2, SetChoice
  <2>5. ASSUME RestartLeader \/ \E f \in Followers : RestartFollower(f)
        PROVE  store'[n] = store[n]
    <3>1. /\ n = Leader => ~RestartLeader
          /\ n \in Followers => ~RestartFollower(n)
      BY <2>1, RestartCases
    <3> QED
      BY <2>5, <3>1, FollowersAssumption
         DEF RestartLeader, RestartFollower, TypeOK
  <2> QED
    BY <2>2, <2>3, <2>4, <2>5, StepCases DEF Step
<1>2. TypeOK /\ TypeOK' /\ [Next]_vars => [A]_vars
  BY <1>1
<1> QED
  BY <1>2, TypeCorrect, PTL DEF Spec, CopiesOnlyAdvance

(* Unless the leader restarts, the cluster is a set of copies of one       *)
(* sequence of versions: an accepted write is an Assign, an applied update *)
(* a CatchUp, a follower's restart a Forget, and nothing else shows.       *)
THEOREM ImplementsRegister ==
    ASSUME Leader \notin Restartable
    PROVE  Spec => Implements
<1> USE DEF Nodes
<1>1. Init => Register!Init
  BY DEF Init, Register!Init, AssignedEntries, Register!EmptyStore, EmptyStore,
         Register!NoEntry, NoEntry
<1>2. TypeOK /\ TypeOK' /\ Kept /\ [Next]_vars /\ restarts[Leader] = 0
        => [Register!Next]_(Register!vars)
  <2> SUFFICES ASSUME TypeOK, TypeOK', VersionInv, [Next]_vars
               PROVE  \/ Register!Next
                      \/ AssignedEntries' = AssignedEntries /\ store' = store
    BY DEF Register!vars, Kept
  <2>1. ASSUME PhasesOnly PROVE AssignedEntries' = AssignedEntries
    BY <2>1 DEF PhasesOnly, AssignedEntries
  <2>2. ASSUME NEW w \in Writes, NEW k \in Keys, NEW v \in Values,
               SetAtLeader(w, k, v)
        PROVE  Register!Next
    <3> DEFINE a == [key |-> k, value |-> v,
                     version |-> NextVersion(store[Leader], k)]
    <3>1. writes[w].version = 0
      BY <2>2 DEF SetAtLeader, VersionInv
    <3>2. /\ writes'[w].key = k
          /\ writes'[w].value = v
          /\ writes'[w].version = NextVersion(store[Leader], k)
          /\ \A x \in Writes \ {w} : writes'[x] = writes[x]
      BY <2>2 DEF SetAtLeader, TypeOK
    <3>3. store[Leader][k].version \in Nat
      BY DEF TypeOK, Entry
    <3>4. NextVersion(store[Leader], k) > 0
      BY <3>3 DEF NextVersion
    <3>5. AssignedEntries' = AssignedEntries \cup {a}
      <4>1. ASSUME NEW b \in AssignedEntries' PROVE b \in AssignedEntries \cup {a}
        BY <3>2, <4>1 DEF AssignedEntries
      <4>2. ASSUME NEW b \in AssignedEntries PROVE b \in AssignedEntries'
        BY <3>1, <3>2, <4>2 DEF AssignedEntries
      <4>3. a \in AssignedEntries'
        BY <3>2, <3>4 DEF AssignedEntries
      <4> QED
        BY <4>1, <4>2, <4>3
    <3>6. \A b \in AssignedEntries : b.key = k => b.version < a.version
      <4> SUFFICES ASSUME NEW x \in Writes, writes[x].key = k
                   PROVE  writes[x].version < a.version
        BY DEF AssignedEntries
      <4>1. /\ writes[x].version \in Nat
            /\ writes[x].version <= store[Leader][k].version
        BY DEF TypeOK, Write, VersionInv
      <4> QED
        BY <3>3, <4>1 DEF NextVersion
    <3>7. store' = [store EXCEPT ![Leader] = SetLocal(@, k, v)]
      BY <2>2 DEF SetAtLeader
    <3>8. Register!Assign(Leader, k, v)
      BY <3>5, <3>6, <3>7
         DEF Register!Assign, Register!NextVersion, NextVersion,
             Register!SetLocal, SetLocal
    <3> QED
      BY <3>8 DEF Register!Next
  <2>3. ASSUME PhasesOnly, NEW w \in Writes, NEW f \in Followers, Replicate(w, f)
        PROVE  Register!Next \/ store' = store
    <3> DEFINE a == [key |-> writes[w].key, value |-> writes[w].value,
                     version |-> writes[w].version]
    <3>1. /\ writes[w].key \in Keys
          /\ writes[w].version \in Nat
          /\ WriteEntry(w) \in Entry
          /\ store[f] \in [Keys -> Entry]
          /\ store[f][writes[w].key].version \in Nat
      BY DEF TypeOK, Write, WriteEntry, Entry
    <3>2. store' = [store EXCEPT
                      ![f] = Set(store[f], writes[w].key, WriteEntry(w))]
      BY <2>3 DEF Replicate
    <3>3. CASE Set(store[f], writes[w].key, WriteEntry(w)) = store[f]
      BY <3>2, <3>3 DEF TypeOK
    <3>4. CASE /\ WriteEntry(w).version > store[f][writes[w].key].version
               /\ Set(store[f], writes[w].key, WriteEntry(w))
                     = [store[f] EXCEPT ![writes[w].key] = WriteEntry(w)]
      <4>1. a \in AssignedEntries
        BY <3>1, <3>4 DEF AssignedEntries, WriteEntry
      <4>2. store' = [store EXCEPT ![f][a.key] = Register!EntryOf(a)]
        BY <3>2, <3>4 DEF Register!EntryOf, WriteEntry, TypeOK
      <4>3. Register!CatchUp(f, a)
        BY <2>1, <2>3, <3>4, <4>1, <4>2 DEF Register!CatchUp, WriteEntry
      <4> QED
        BY <4>1, <4>3 DEF Register!Next
    <3> QED
      BY <3>1, <3>3, <3>4, SetChoice
  <2>4. ASSUME PhasesOnly, NEW f \in Followers, RestartFollower(f)
        PROVE  Register!Next
    <3>1. store' = [store EXCEPT ![f] = Register!EmptyStore]
      BY <2>4 DEF RestartFollower, Register!EmptyStore, EmptyStore,
                  Register!NoEntry, NoEntry
    <3> QED
      BY <2>1, <2>4, <3>1 DEF Register!Forget, Register!Next
  <2>5. ~RestartLeader
    BY DEF RestartLeader
  <2> QED
    BY <2>1, <2>2, <2>3, <2>4, <2>5, StepCases DEF Step
<1>3. Init => restarts[Leader] = 0
  BY DEF Init
<1>4. TypeOK /\ [Next]_vars /\ restarts[Leader] = 0 => (restarts[Leader] = 0)'
  <2> SUFFICES ASSUME TypeOK, [Next]_vars, restarts[Leader] = 0
               PROVE  restarts'[Leader] = 0
    OBVIOUS
  <2>1. ~RestartLeader
    BY DEF RestartLeader
  <2> QED
    BY <2>1, RestartCases, FollowersAssumption
<1> QED
  BY <1>1, <1>2, <1>3, <1>4, TypeCorrect, VersionInvariant, PTL
     DEF Spec, Implements, Register!Spec

-----------------------------------------------------------------------------
(* What a step does to one read: it begins, takes the result of one        *)
(* follower, or is lost in a restart, and only the last of these changes   *)
(* anything else.                                                          *)
LEMMA ReadCases ==
    ASSUME TypeOK, [Next]_vars, NEW r \in Reads
    PROVE  \/ reads'[r] = reads[r]
           \/ /\ UNCHANGED <<store, writes, calls, restarts>>
              /\ \/ \E k \in Keys : ReadAtLeader(r, k)
                 \/ \E n \in Nodes, k \in Keys : ReadCopy(r, n, k)
                 \/ \E f \in Followers :
                       \E e \in {NoEntry, store[f][reads[r].key]} :
                       TakeResult(r, f, e)
           \/ RestartLeader
<1>1. ASSUME NEW w \in Writes,
             \/ SetAtFollower(w)
             \/ \E k \in Keys, v \in Values : SetAtLeader(w, k, v)
             \/ \E f \in Followers : \/ Replicate(w, f)
                                     \/ CallSucceeds(w, f)
                                     \/ CallFails(w, f)
      PROVE  reads'[r] = reads[r]
  BY <1>1 DEF SetAtFollower, SetAtLeader, Replicate, CallSucceeds,
              CallFails, CallReturns
<1>2. ASSUME NEW q \in Reads, NEW k \in Keys, ReadAtLeader(q, k), q # r
      PROVE  reads'[r] = reads[r]
  BY <1>2 DEF ReadAtLeader, TypeOK
<1>3. ASSUME NEW q \in Reads, NEW n \in Nodes, NEW k \in Keys,
             ReadCopy(q, n, k), q # r
      PROVE  reads'[r] = reads[r]
  BY <1>3 DEF ReadCopy, TypeOK
<1>4. ASSUME NEW q \in Reads, NEW f \in Followers,
             FollowerAnswers(q, f) \/ FollowerUnreachable(q, f)
      PROVE  \E e \in {NoEntry, store[f][reads[q].key]} : TakeResult(q, f, e)
  BY <1>4 DEF FollowerAnswers, FollowerUnreachable
<1>5. ASSUME NEW q \in Reads, NEW f \in Followers, NEW e,
             TakeResult(q, f, e), q # r
      PROVE  reads'[r] = reads[r]
  BY <1>5 DEF TakeResult, TypeOK
<1>6. ASSUME NEW q \in Reads, NEW f \in Followers, NEW e,
             TakeResult(q, f, e)
      PROVE  UNCHANGED <<store, writes, calls, restarts>>
  BY <1>6 DEF TakeResult
<1>7. ASSUME NEW q \in Reads,
             \/ \E k \in Keys : ReadAtLeader(q, k)
             \/ \E n \in Nodes, k \in Keys : ReadCopy(q, n, k)
      PROVE  UNCHANGED <<store, writes, calls, restarts>>
  BY <1>7 DEF ReadAtLeader, ReadCopy
<1>8. ASSUME NEW f \in Followers, RestartFollower(f) PROVE reads'[r] = reads[r]
  BY <1>8 DEF RestartFollower
<1>9. CASE UNCHANGED vars
  BY <1>9 DEF vars
<1>10. ASSUME NEW q \in Reads,
             \/ \E k \in Keys : ReadAtLeader(q, k)
             \/ \E n \in Nodes, k \in Keys : ReadCopy(q, n, k)
             \/ \E f \in Followers : \/ FollowerAnswers(q, f)
                                     \/ FollowerUnreachable(q, f)
       PROVE \/ reads'[r] = reads[r]
             \/ /\ UNCHANGED <<store, writes, calls, restarts>>
                /\ \/ \E k \in Keys : ReadAtLeader(r, k)
                   \/ \E n \in Nodes, k \in Keys : ReadCopy(r, n, k)
                   \/ \E f \in Followers :
                       \E e \in {NoEntry, store[f][reads[r].key]} :
                         TakeResult(r, f, e)
  <2>1. CASE q # r
    BY <1>2, <1>3, <1>4, <1>5, <1>10, <2>1
  <2>2. CASE q = r
    BY <1>4, <1>6, <1>7, <1>10, <2>2
  <2> QED
    BY <2>1, <2>2
<1> QED
  BY <1>1, <1>8, <1>9, <1>10 DEF Next, Restart, Nodes

(* What a result does to the read that takes it: a newer entry replaces    *)
(* the best one, and what was known when the read began stays.             *)
LEMMA ResultTaken ==
    ASSUME TypeOK, NEW r \in Reads, NEW f \in Followers, NEW e \in Entry,
           TakeResult(r, f, e)
    PROVE  /\ reads[r].phase = "collecting"
           /\ reads'[r].phase \in {"collecting", "answered"}
           /\ reads'[r].node = reads[r].node
           /\ reads'[r].key = reads[r].key
           /\ reads'[r].acked = reads[r].acked
           /\ reads'[r].seen = reads[r].seen
           /\ reads'[r].best = IF e.version > reads[r].best.version
                               THEN e ELSE reads[r].best
BY DEF TakeResult, TypeOK, Read, ReadPhase

(* The leader's own copy of a key gets newer until the leader restarts. *)
LEMMA LeaderAdvances ==
    ASSUME TypeOK, TypeOK', [Next]_vars, ~RestartLeader, NEW k \in Keys
    PROVE  store[Leader][k].version <= store'[Leader][k].version
<1> USE FollowersAssumption DEF Nodes
<1>1. /\ store[Leader] \in [Keys -> Entry]
      /\ store[Leader][k].version \in Nat
  BY DEF TypeOK, Entry
<1>2. CASE store'[Leader] = store[Leader]
  BY <1>1, <1>2
<1>3. ASSUME NEW w \in Writes, NEW j \in Keys, NEW v \in Values,
             SetAtLeader(w, j, v)
      PROVE  store[Leader][k].version <= store'[Leader][k].version
  <2>1. store'[Leader] = SetLocal(store[Leader], j, v)
    BY <1>3 DEF SetAtLeader, TypeOK
  <2>2. CASE k = j
    <3>1. SetLocal(store[Leader], j, v)[j]
            = [value |-> v, version |-> store[Leader][j].version + 1]
      BY <1>1, SetLocalEntry
    <3>2. store'[Leader][k].version = store[Leader][k].version + 1
      BY <2>1, <2>2, <3>1
    <3> QED
      BY <1>1, <3>2
  <2>3. CASE k # j
    <3>1. k \in Keys \ {j}
      BY <2>3
    <3>2. SetLocal(store[Leader], j, v)[k] = store[Leader][k]
      BY <1>1, <3>1 DEF SetLocal
    <3> QED
      BY <1>1, <2>1, <3>2
  <2> QED
    BY <2>2, <2>3
<1>4. ASSUME \/ store' = store
             \/ \E w \in Writes, f \in Followers : Replicate(w, f)
             \/ \E f \in Followers : RestartFollower(f)
      PROVE  store'[Leader] = store[Leader]
  BY <1>4 DEF Replicate, RestartFollower, TypeOK
<1> QED
  BY <1>2, <1>3, <1>4, StepCases DEF Step

(* The inductive invariant of the reads, until the leader restarts: no     *)
(* read has an entry newer than the leader's, and one that begins with the *)
(* leader's copy has from its start an entry as new as every write         *)
(* acknowledged and every version read from the leader before.             *)
ReadInv ==
    \A r \in Reads :
        /\ reads[r].best.version <= store[Leader][reads[r].key].version
        /\ reads[r].node = Leader =>
              \A i \in reads[r].acked \cup reads[r].seen :
                  i <= reads[r].best.version

(* It holds as long as the versions are in order. *)
ReadsKept == restarts[Leader] = 0 => ReadInv

(* In a state with the version invariant no copy of a key anywhere is      *)
(* newer than the leader's.                                                *)
LEMMA NoCopyNewer ==
    ASSUME TypeOK, VersionInv, NEW n \in Nodes, NEW k \in Keys
    PROVE  store[n][k].version <= store[Leader][k].version
<1>1. store[Leader][k].version \in Nat
  BY DEF TypeOK, Entry, Nodes
<1>2. CASE store[n][k] = NoEntry
  BY <1>1, <1>2 DEF NoEntry
<1>3. CASE store[n][k] # NoEntry
  <2>1. PICK w \in Writes : writes[w].key = k /\ store[n][k] = WriteEntry(w)
    BY <1>3 DEF VersionInv
  <2> QED
    BY <2>1 DEF VersionInv, WriteEntry
<1> QED
  BY <1>2, <1>3

(* In every reachable state, until the leader restarts. *)
LEMMA ReadInvariant == Spec => []ReadsKept
<1> USE FollowersAssumption DEF Nodes
<1>1. Init => ReadsKept
  BY KeyExists DEF Init, ReadsKept, ReadInv, EmptyStore, NoEntry
<1>2. TypeOK /\ TypeOK' /\ Kept /\ ReadsKept /\ [Next]_vars => ReadsKept'
  <2> SUFFICES ASSUME TypeOK, TypeOK', Kept, ReadsKept, [Next]_vars,
                      restarts'[Leader] = 0, NEW r \in Reads
               PROVE  /\ reads'[r].best.version
                            <= store'[Leader][reads'[r].key].version
                      /\ reads'[r].node = Leader =>
                            \A i \in reads'[r].acked \cup reads'[r].seen :
                                i <= reads'[r].best.version
    BY DEF ReadsKept, ReadInv
  <2>1. /\ ~RestartLeader
        /\ VersionInv
        /\ ReadInv
    BY LeaderUp DEF Kept, ReadsKept
  <2>2. \A k \in Keys : store[Leader][k].version <= store'[Leader][k].version
    BY <2>1, LeaderAdvances
  <2>3. /\ reads[r].key \in Keys
        /\ reads[r].best.version \in Nat
        /\ reads[r].acked \cup reads[r].seen \subseteq Nat
    BY DEF TypeOK, Read, Entry
  <2>4. \A n \in Nodes, k \in Keys :
            /\ store[n][k] \in Entry
            /\ store[n][k].version \in Nat
            /\ store'[n][k].version \in Nat
    BY DEF TypeOK, Entry
  <2>5. \A k \in Keys : \A i \in Acked(k) \cup ReadFromLeader(k) :
            i <= store[Leader][k].version
    BY <2>1 DEF Acked, ReadFromLeader, VersionInv, ReadInv
  <2>6. CASE reads'[r] = reads[r]
    <3>1. reads[r].best.version <= store[Leader][reads[r].key].version
      BY <2>1 DEF ReadInv
    <3>2. reads[r].best.version <= store'[Leader][reads[r].key].version
      BY <2>2, <2>3, <2>4, <3>1
    <3> QED
      BY <2>1, <2>6, <3>2 DEF ReadInv
  <2>7. ASSUME NEW k \in Keys, ReadAtLeader(r, k), store' = store
        PROVE  /\ reads'[r].best.version
                     <= store'[Leader][reads'[r].key].version
               /\ reads'[r].node = Leader =>
                     \A i \in reads'[r].acked \cup reads'[r].seen :
                         i <= reads'[r].best.version
    <3>1. /\ reads'[r].key = k
          /\ reads'[r].best = store[Leader][k]
          /\ reads'[r].acked = Acked(k)
          /\ reads'[r].seen = ReadFromLeader(k)
      BY <2>7 DEF ReadAtLeader, TypeOK
    <3> QED
      BY <2>4, <2>5, <2>7, <3>1
  <2>8. ASSUME NEW n \in Nodes, NEW k \in Keys, ReadCopy(r, n, k), store' = store
        PROVE  /\ reads'[r].best.version
                     <= store'[Leader][reads'[r].key].version
               /\ reads'[r].node = Leader =>
                     \A i \in reads'[r].acked \cup reads'[r].seen :
                         i <= reads'[r].best.version
    <3>1. /\ reads'[r].key = k
          /\ reads'[r].node = n
          /\ reads'[r].best = store[n][k]
          /\ reads'[r].acked = Acked(k)
          /\ reads'[r].seen = ReadFromLeader(k)
      BY <2>8 DEF ReadCopy, TypeOK
    <3>2. store[n][k].version <= store[Leader][k].version
      BY <2>1, NoCopyNewer
    <3> QED
      BY <2>5, <2>8, <3>1, <3>2
  <2>9. ASSUME NEW f \in Followers, NEW e \in {NoEntry, store[f][reads[r].key]},
               TakeResult(r, f, e), store' = store
        PROVE  /\ reads'[r].best.version
                     <= store'[Leader][reads'[r].key].version
               /\ reads'[r].node = Leader =>
                     \A i \in reads'[r].acked \cup reads'[r].seen :
                         i <= reads'[r].best.version
    <3>1. e \in Entry /\ e.version \in Nat
      BY <2>3, <2>4, EmptyStoreType DEF NoEntry
    <3>2. /\ reads'[r].node = reads[r].node
          /\ reads'[r].key = reads[r].key
          /\ reads'[r].acked = reads[r].acked
          /\ reads'[r].seen = reads[r].seen
          /\ reads'[r].best = IF e.version > reads[r].best.version
                              THEN e ELSE reads[r].best
      BY <2>9, <3>1, ResultTaken
    <3>3. e.version <= store[Leader][reads[r].key].version
      <4>1. store[f][reads[r].key].version
              <= store[Leader][reads[r].key].version
        BY <2>1, <2>3, NoCopyNewer
      <4>2. NoEntry.version <= store[Leader][reads[r].key].version
        BY <2>3, <2>4 DEF NoEntry
      <4> QED
        BY <4>1, <4>2
    <3>4. /\ reads[r].best.version <= store[Leader][reads[r].key].version
          /\ reads[r].node = Leader =>
                \A i \in reads[r].acked \cup reads[r].seen :
                    i <= reads[r].best.version
      BY <2>1 DEF ReadInv
    <3>5. /\ reads'[r].best.version \in Nat
          /\ reads[r].best.version <= reads'[r].best.version
          /\ reads'[r].best.version <= store[Leader][reads[r].key].version
      BY <2>3, <3>1, <3>2, <3>3, <3>4
    <3>6. ASSUME NEW i \in reads[r].acked \cup reads[r].seen,
                 reads[r].node = Leader
          PROVE  i <= reads'[r].best.version
      BY <2>3, <3>4, <3>5, <3>6
    <3> QED
      BY <2>9, <3>2, <3>5, <3>6
  <2> QED
    BY <2>1, <2>6, <2>7, <2>8, <2>9, ReadCases
<1> QED
  BY <1>1, <1>2, TypeCorrect, VersionInvariant, PTL DEF Spec

(* Until the leader restarts, its reads never go back: none returns less   *)
(* than was acknowledged, or read from the leader, before it began,        *)
(* whatever R is and whichever followers answer.                           *)
THEOREM LeaderReadsInOrder == Spec => []LeaderReadsMonotone
<1>1. ReadsKept => LeaderReadsMonotone
  BY DEF ReadsKept, ReadInv, LeaderReadsMonotone
<1> QED
  BY <1>1, ReadInvariant, PTL

-----------------------------------------------------------------------------
(* Until the leader restarts, once every request of every write has been   *)
(* applied, in whatever order, and no follower lost it in a restart, all   *)
(* copies are equal.                                                       *)
THEOREM DeliveredConverges == Spec => []DeliveredMeansConverged
<1> USE DEF Nodes
<1>1. TypeOK /\ Kept /\ AckInv /\ OneValuePerVersion => DeliveredMeansConverged
  <2> SUFFICES ASSUME TypeOK, VersionInv, AckInv, OneValuePerVersion,
                      restarts[Leader] = 0,
                      \A w \in Writes, f \in Followers :
                         writes[w].version > 0 =>
                             calls[w][f].request = "applied",
                      NEW f \in Followers
               PROVE  store[f] = store[Leader]
    BY DEF DeliveredMeansConverged, Kept
  <2>1. store[f] \in [Keys -> Entry] /\ store[Leader] \in [Keys -> Entry]
    BY DEF TypeOK
  <2> SUFFICES ASSUME NEW k \in Keys PROVE store[f][k] = store[Leader][k]
    BY <2>1
  <2>2. /\ store[f][k] \in Entry /\ store[Leader][k] \in Entry
        /\ store[f][k].version \in Nat /\ store[Leader][k].version \in Nat
    BY <2>1 DEF Entry
  <2>3. store[Leader][k].version <= store[f][k].version
    <3>1. CASE store[Leader][k] = NoEntry
      BY <2>2, <3>1 DEF NoEntry
    <3>2. CASE store[Leader][k] # NoEntry
      <4>1. PICK w \in Writes : /\ writes[w].key = k
                                /\ writes[w].version > 0
                                /\ store[Leader][k] = WriteEntry(w)
        BY <3>2 DEF VersionInv
      <4>2. calls[w][f].request = "applied"
        BY <4>1
      <4>3. store[f][k].version >= writes[w].version
        BY <4>1, <4>2 DEF AckInv
      <4> QED
        BY <2>2, <4>1, <4>3 DEF WriteEntry
    <3> QED
      BY <3>1, <3>2
  <2>4. store[f][k].version <= store[Leader][k].version
    BY NoCopyNewer
  <2>5. store[f][k].version = store[Leader][k].version
    BY <2>2, <2>3, <2>4
  <2>6. store[f][k].value = store[Leader][k].value
    BY <2>5 DEF OneValuePerVersion
  <2> QED
    BY <2>2, <2>5, <2>6 DEF Entry
<1> QED
  BY <1>1, TypeCorrect, VersionInvariant, AckInvariant, VersionsAgree, PTL

-----------------------------------------------------------------------------
(* A follower forgets an update only by restarting. *)
ForgetInv ==
    \A w \in Writes, f \in Followers :
        calls[w][f].request = "forgotten" => restarts[f] > 0

(* It does so in every reachable state. *)
LEMMA ForgetInvariant == Spec => []ForgetInv
<1> USE FollowersAssumption DEF Nodes
<1>1. Init => ForgetInv
  BY DEF Init, ForgetInv, NoCall
<1>2. TypeOK /\ TypeOK' /\ ForgetInv /\ [Next]_vars => ForgetInv'
  <2> SUFFICES ASSUME TypeOK, TypeOK', ForgetInv, [Next]_vars,
                      NEW x \in Writes, NEW g \in Followers,
                      calls'[x][g].request = "forgotten"
               PROVE  restarts'[g] > 0
    BY DEF ForgetInv
  <2>1. restarts[g] \in Nat /\ restarts'[g] \in Nat
    BY FaultAssumption DEF TypeOK
  <2>2. restarts'[g] >= restarts[g]
    BY <2>1, RestartCases
  <2>3. CASE calls[x][g].request = "forgotten"
    BY <2>1, <2>2, <2>3 DEF ForgetInv
  <2>4. CASE calls[x][g].request # "forgotten"
    <3> SUFFICES restarts'[g] = restarts[g] => FALSE
      BY <2>1, RestartCases
    <3>1. CASE calls' = calls
      BY <2>4, <3>1
    <3>2. ASSUME NEW w \in Writes, NEW k \in Keys, NEW v \in Values,
                 SetAtLeader(w, k, v)
          PROVE  FALSE
      BY <2>4, <3>2 DEF SetAtLeader, TypeOK
    <3>3. ASSUME NEW w \in Writes, NEW f \in Followers, Replicate(w, f)
          PROVE  FALSE
      BY <2>4, <3>3 DEF Replicate, TypeOK, Call
    <3>4. ASSUME NEW w \in Writes, NEW f \in Followers,
                 CallSucceeds(w, f) \/ CallFails(w, f)
          PROVE  FALSE
      <4>1. PICK o : CallReturns(w, f, o)
        BY <3>4 DEF CallSucceeds, CallFails
      <4>2. calls'[x][g].request = calls[x][g].request
        BY <4>1 DEF CallReturns, TypeOK, Call
      <4> QED
        BY <2>4, <4>2
    <3>5. ASSUME NEW f \in Followers, RestartFollower(f)
          PROVE  restarts'[g] # restarts[g]
      <4>1. f = g
        <5>1. f # g => calls'[x][g] = calls[x][g]
          BY <3>5 DEF RestartFollower, TypeOK
        <5> QED
          BY <2>4, <5>1
      <4> QED
        BY <2>1, <3>5, <4>1, RestartCases
    <3>6. CASE RestartLeader
      <4>1. calls'[x][g] = [calls[x][g] EXCEPT !.outcome =
                              IF @ = "waiting" THEN "failed" ELSE @]
        BY <3>6 DEF RestartLeader
      <4>2. calls[x][g] \in Call
        BY DEF TypeOK
      <4> QED
        BY <2>4, <4>1, <4>2 DEF Call
    <3>7. ASSUME NEW r \in Reads,
                 \/ \E k \in Keys : ReadAtLeader(r, k)
                 \/ \E n \in Nodes, k \in Keys : ReadCopy(r, n, k)
                 \/ \E f \in Followers : \/ FollowerAnswers(r, f)
                                         \/ FollowerUnreachable(r, f)
          PROVE  calls' = calls
      BY <3>7 DEF ReadAtLeader, ReadCopy, FollowerAnswers,
                  FollowerUnreachable, TakeResult
    <3>8. ASSUME NEW w \in Writes, SetAtFollower(w) PROVE calls' = calls
      BY <3>8 DEF SetAtFollower
    <3>9. CASE UNCHANGED vars
      BY <3>1, <3>9 DEF vars
    <3> QED
      BY <3>1, <3>2, <3>3, <3>4, <3>5, <3>6, <3>7, <3>8, <3>9
         DEF Next, Restart, Nodes
  <2> QED
    BY <2>3, <2>4
<1> QED
  BY <1>1, <1>2, TypeCorrect, PTL DEF Spec

(* With W = N, a write answered 201 is on every follower that has not      *)
(* restarted, even after a restart of the leader.                          *)
LEMMA AckedOnEachFollower ==
    ASSUME W > Cardinality(Followers), TypeOK, AckInv, ForgetInv,
           NEW f \in Followers, restarts[f] = 0,
           NEW k \in Keys, NEW i \in Acked(k)
    PROVE  i <= store[f][k].version
<1> USE FollowersAssumption, QuorumAssumption
<1>1. PICK w \in Writes : /\ writes[w].phase = "created"
                          /\ writes[w].key = k
                          /\ i = writes[w].version
  BY DEF Acked
<1>2. Returned(calls[w], "ok") = Followers
  <2>1. Returned(calls[w], "ok") \subseteq Followers
    BY DEF Returned
  <2>2. Cardinality(Returned(calls[w], "ok")) >= AcksNeeded
    BY <1>1 DEF AckInv
  <2>3. /\ Cardinality(Followers) \in Nat
        /\ Cardinality(Returned(calls[w], "ok")) \in Nat
        /\ Cardinality(Returned(calls[w], "ok")) <= Cardinality(Followers)
    BY <2>1, SmallerSubset, FS_CardinalityType
  <2>4. Cardinality(Returned(calls[w], "ok")) = Cardinality(Followers)
    BY <2>2, <2>3 DEF AcksNeeded
  <2> QED
    BY <2>1, <2>4, FS_Subset
<1>3. calls[w][f].request \in {"applied", "forgotten"}
  BY <1>2 DEF AckInv, Returned
<1>4. calls[w][f].request # "forgotten"
  BY DEF ForgetInv
<1>5. store[f][k].version >= writes[w].version
  BY <1>1, <1>3, <1>4 DEF AckInv
<1>6. store[f][k].version \in Nat /\ writes[w].version \in Nat
  BY DEF TypeOK, Entry, Write, Nodes
<1> QED
  BY <1>1, <1>5, <1>6

(* What a read of a node that has not restarted since knows: it began when *)
(* the node's copy was as new as every acknowledged write of its key.      *)
FollowerReadInv ==
    \A r \in Reads :
        reads[r].node \in Followers /\ restarts[reads[r].node] = 0 =>
            \A i \in reads[r].acked : i <= reads[r].best.version

(* With W = N, in every reachable state. *)
LEMMA FollowerReads ==
    ASSUME W > Cardinality(Followers)
    PROVE  Spec => []FollowerReadInv
<1> USE FollowersAssumption DEF Nodes
<1>1. Init => FollowerReadInv
  BY DEF Init, FollowerReadInv
<1>2. TypeOK /\ AckInv /\ ForgetInv /\ FollowerReadInv /\ [Next]_vars
        => FollowerReadInv'
  <2> SUFFICES ASSUME TypeOK, AckInv, ForgetInv, FollowerReadInv, [Next]_vars,
                      NEW r \in Reads, reads'[r].node \in Followers,
                      restarts'[reads'[r].node] = 0
               PROVE  \A i \in reads'[r].acked : i <= reads'[r].best.version
    BY DEF FollowerReadInv
  <2> DEFINE n == reads'[r].node
  <2>1. restarts[n] = 0
    <3>1. restarts[n] \in Nat
      BY FaultAssumption DEF TypeOK
    <3> QED
      BY <3>1, RestartCases
  <2>2. CASE reads'[r] = reads[r]
    BY <2>1, <2>2 DEF FollowerReadInv
  <2>3. ~\E k \in Keys : ReadAtLeader(r, k)
    BY DEF ReadAtLeader, TypeOK
  <2>4. ASSUME NEW m \in Nodes, NEW k \in Keys, ReadCopy(r, m, k)
        PROVE  \A i \in reads'[r].acked : i <= reads'[r].best.version
    <3>1. /\ m = n
          /\ reads'[r].best = store[m][k]
          /\ reads'[r].acked = Acked(k)
      BY <2>4 DEF ReadCopy, TypeOK
    <3> QED
      BY <2>1, <3>1, AckedOnEachFollower
  <2>5. ASSUME NEW f \in Followers, NEW e \in {NoEntry, store[f][reads[r].key]},
               TakeResult(r, f, e)
        PROVE  \A i \in reads'[r].acked : i <= reads'[r].best.version
    <3>1. /\ e \in Entry /\ e.version \in Nat
          /\ reads[r].best.version \in Nat
          /\ reads[r].acked \subseteq Nat
      BY EmptyStoreType DEF TypeOK, Read, Entry, NoEntry
    <3>2. /\ reads'[r].node = reads[r].node
          /\ reads'[r].acked = reads[r].acked
          /\ reads'[r].best = IF e.version > reads[r].best.version
                              THEN e ELSE reads[r].best
      BY <2>5, <3>1, ResultTaken
    <3>3. \A i \in reads[r].acked : i <= reads[r].best.version
      BY <2>1, <3>2 DEF FollowerReadInv
    <3>4. /\ reads'[r].best.version \in Nat
          /\ reads[r].best.version <= reads'[r].best.version
      BY <3>1, <3>2
    <3> QED
      BY <3>1, <3>2, <3>3, <3>4
  <2>6. CASE RestartLeader
    <3>1. reads'[r] = [reads[r] EXCEPT !.phase =
                         IF @ = "collecting" THEN "lost" ELSE @]
      BY <2>6 DEF RestartLeader
    <3>2. reads[r] \in Read
      BY DEF TypeOK
    <3>3. /\ reads'[r].node = reads[r].node
          /\ reads'[r].acked = reads[r].acked
          /\ reads'[r].best = reads[r].best
      BY <3>1, <3>2 DEF Read
    <3> QED
      BY <2>1, <3>3 DEF FollowerReadInv
  <2> QED
    BY <2>2, <2>3, <2>4, <2>5, <2>6, ReadCases
<1> QED
  BY <1>1, <1>2, TypeCorrect, AckInvariant, ForgetInvariant, PTL DEF Spec

(* With W = N, whatever R is: a read of any node that has not restarted    *)
(* returns nothing older than what was acknowledged before it began.       *)
THEOREM AckedSeenEverywhere ==
    ASSUME W > Cardinality(Followers)
    PROVE  Spec => []EveryReadSeesAcked
<1>1. TypeOK /\ ReadsKept /\ FollowerReadInv => EveryReadSeesAcked
  <2> SUFFICES ASSUME TypeOK, ReadsKept, FollowerReadInv, NEW r \in Reads,
                      restarts[reads[r].node] = 0
               PROVE  \A i \in reads[r].acked : i <= reads[r].best.version
    BY DEF EveryReadSeesAcked
  <2>1. CASE reads[r].node = Leader
    BY <2>1 DEF ReadsKept, ReadInv
  <2>2. CASE reads[r].node \in Followers
    BY <2>2 DEF FollowerReadInv
  <2> QED
    BY <2>1, <2>2 DEF TypeOK, Read, Nodes
<1> QED
  BY <1>1, TypeCorrect, ReadInvariant, FollowerReads, PTL

-----------------------------------------------------------------------------
(* The load generator changes nothing of the store, so a behaviour of both *)
(* is one of the store and the theorems above hold of it.                  *)
LEMMA LoadIsSpec == LoadSpec => Spec
<1>1. [LoadNext]_loadVars => [Next]_vars
  BY DEF LoadNext, loadVars, vars, client, ServerStep, WriteReturns, ReadReturns
<1> QED
  BY <1>1, PTL DEF LoadSpec, LoadInit, Spec

(* The load generator's variables keep their types. *)
THEOREM LoadTypeCorrect == LoadSpec => []LoadTypeOK
<1> DEFINE ClientTypeOK ==
              /\ versions \in [Keys -> Nat]
              /\ recorded \subseteq Writes
              /\ checked \in [Reads -> {"no", "fresh", "stale", "error"}]
              /\ known \in [Reads -> Nat]
<1>1. LoadInit => ClientTypeOK
  BY DEF LoadInit
<1>2. TypeOK /\ TypeOK' /\ ClientTypeOK /\ [LoadNext]_loadVars => ClientTypeOK'
  <2> SUFFICES ASSUME TypeOK, TypeOK', ClientTypeOK, [LoadNext]_loadVars
               PROVE  ClientTypeOK'
    OBVIOUS
  <2>1. CASE ServerStep
    <3>1. \A r \in Reads : reads'[r].key \in Keys
      BY DEF TypeOK, Read
    <3>2. known' \in [Reads -> Nat]
      BY <2>1, <3>1 DEF ServerStep
    <3> QED
      BY <2>1, <3>2 DEF ServerStep
  <2>2. ASSUME NEW w \in Writes, WriteReturns(w) PROVE ClientTypeOK'
    <3>1. writes[w].key \in Keys /\ writes[w].version \in Nat
      BY DEF TypeOK, Write
    <3>2. versions' \in [Keys -> Nat]
      BY <2>2, <3>1 DEF WriteReturns, RecordWrite
    <3> QED
      BY <2>2, <3>2 DEF WriteReturns
  <2>3. ASSUME NEW r \in Reads, ReadReturns(r) PROVE ClientTypeOK'
    BY <2>3 DEF ReadReturns, Counted
  <2>4. CASE UNCHANGED loadVars
    BY <2>4 DEF loadVars, client
  <2> QED
    BY <2>1, <2>2, <2>3, <2>4 DEF LoadNext
<1>3. TypeOK /\ ClientTypeOK => LoadTypeOK
  BY DEF LoadTypeOK
<1> QED
  BY <1>1, <1>2, <1>3, LoadIsSpec, TypeCorrect, PTL DEF LoadSpec

(* The inductive invariant of the counting: the tracker never forgets what *)
(* it knew when a read was sent and, until the leader restarts, knows of   *)
(* no version that the leader has not given; a read is counted after it is *)
(* answered, as its entry and the tracker stood then.                      *)
CountInv ==
    /\ \A r \in Reads :
          /\ reads[r].phase = "idle" => known[r] = 0
          /\ known[r] <= versions[reads[r].key]
          /\ checked[r] # "no" => reads[r].phase = "answered"
          /\ Stored(reads[r].best) /\ reads[r].best.version < known[r] =>
                checked[r] \in {"no", "stale"}
    /\ restarts[Leader] = 0 =>
          /\ \A k \in Keys : versions[k] <= store[Leader][k].version
          /\ \A r \in Reads :
                checked[r] = "stale" =>
                    reads[r].best.version
                        < store[Leader][reads[r].key].version

(* An answered read never changes again, and one that has begun keeps its  *)
(* key.                                                                    *)
LEMMA AnsweredStays ==
    ASSUME TypeOK, [Next]_vars, NEW r \in Reads, reads[r].phase # "idle"
    PROVE  /\ reads'[r].phase # "idle"
           /\ reads'[r].key = reads[r].key
           /\ reads[r].phase = "answered" => reads'[r] = reads[r]
<1>1. ~\E k \in Keys : ReadAtLeader(r, k)
  BY DEF ReadAtLeader
<1>2. ~\E n \in Nodes, k \in Keys : ReadCopy(r, n, k)
  BY DEF ReadCopy
<1>3. ASSUME NEW f \in Followers, NEW e \in {NoEntry, store[f][reads[r].key]},
             TakeResult(r, f, e)
      PROVE  /\ reads'[r].phase # "idle"
             /\ reads'[r].key = reads[r].key
             /\ reads[r].phase # "answered"
  <2>1. e \in Entry
    BY EmptyStoreType DEF TypeOK, Read, Nodes
  <2> QED
    BY <1>3, <2>1, ResultTaken
<1>4. CASE RestartLeader
  <2>1. reads'[r] = [reads[r] EXCEPT !.phase =
                       IF @ = "collecting" THEN "lost" ELSE @]
    BY <1>4 DEF RestartLeader
  <2>2. reads[r] \in Read
    BY DEF TypeOK
  <2> QED
    BY <2>1, <2>2 DEF Read
<1> QED
  BY <1>1, <1>2, <1>3, <1>4, ReadCases

(* In every reachable state of the load test. *)
LEMMA CountInvariant == LoadSpec => []CountInv
<1> DEFINE Each(r) ==
              /\ reads[r].phase = "idle" => known[r] = 0
              /\ known[r] <= versions[reads[r].key]
              /\ checked[r] # "no" => reads[r].phase = "answered"
              /\ Stored(reads[r].best) /\ reads[r].best.version < known[r] =>
                    checked[r] \in {"no", "stale"}
           LeaderPart ==
              /\ \A k \in Keys : versions[k] <= store[Leader][k].version
              /\ \A r \in Reads :
                    checked[r] = "stale" =>
                        reads[r].best.version
                            < store[Leader][reads[r].key].version
<1>1. LoadInit => CountInv
  BY KeyExists DEF LoadInit, Init, CountInv, EmptyStore, NoEntry, Nodes
<1>2. LoadTypeOK /\ LoadTypeOK' /\ Kept /\ CountInv /\ [LoadNext]_loadVars
        => CountInv'
  <2> SUFFICES ASSUME LoadTypeOK, LoadTypeOK', Kept, CountInv,
                      [LoadNext]_loadVars
               PROVE  CountInv'
    OBVIOUS
  <2> USE DEF LoadTypeOK
  <2>0. /\ \A r \in Reads : Each(r)
        /\ restarts[Leader] = 0 => LeaderPart
    BY DEF CountInv
  <2>1. SUFFICES /\ \A r \in Reads : Each(r)'
                 /\ restarts'[Leader] = 0 => LeaderPart'
    BY DEF CountInv
  <2>2. /\ \A r \in Reads : /\ reads[r].key \in Keys
                            /\ reads[r].best.version \in Nat
                            /\ known[r] \in Nat
        /\ \A k \in Keys : /\ store[Leader][k].version \in Nat
                           /\ store'[Leader][k].version \in Nat
                           /\ versions[k] \in Nat
                           /\ versions'[k] \in Nat
    BY DEF TypeOK, Read, Entry, Nodes
  <2>3. CASE ServerStep
    <3>1. [Next]_vars /\ versions' = versions /\ checked' = checked
      BY <2>3 DEF ServerStep
    <3>2. ASSUME NEW r \in Reads PROVE Each(r)'
      <4>1. known'[r] = IF reads[r].phase = "idle" /\ reads'[r].phase # "idle"
                        THEN versions[reads'[r].key] ELSE known[r]
        BY <2>3 DEF ServerStep
      <4>2. CASE reads[r].phase = "idle" /\ reads'[r].phase # "idle"
        <5>1. checked'[r] = "no"
          BY <2>0, <3>1, <4>2
        <5>2. reads'[r].key \in Keys
          BY DEF TypeOK, Read
        <5> QED
          BY <2>2, <3>1, <4>1, <4>2, <5>1, <5>2
      <4>3. CASE reads[r].phase = "idle" /\ reads'[r].phase = "idle"
        <5>1. checked'[r] = "no"
          BY <2>0, <3>1, <4>3
        <5>2. known'[r] = 0
          BY <2>0, <4>1, <4>3
        <5>3. versions'[reads'[r].key] \in Nat
          BY <2>2 DEF TypeOK, Read
        <5> QED
          BY <5>1, <5>2, <5>3
      <4>4. CASE reads[r].phase # "idle"
        <5>1. /\ reads'[r].phase # "idle"
              /\ reads'[r].key = reads[r].key
              /\ reads[r].phase = "answered" => reads'[r] = reads[r]
          BY <3>1, <4>4, AnsweredStays
        <5>2. known'[r] = known[r]
          BY <4>1, <4>4
        <5>3. checked[r] # "no" => reads'[r] = reads[r]
          BY <2>0, <5>1
        <5> QED
          BY <2>0, <3>1, <5>1, <5>2, <5>3
      <4> QED
        BY <4>2, <4>3, <4>4
    <3>3. ASSUME restarts'[Leader] = 0 PROVE LeaderPart'
      <4>1. restarts[Leader] = 0 /\ ~RestartLeader
        BY <3>1, <3>3, LeaderUp
      <4>2. \A k \in Keys : store[Leader][k].version <= store'[Leader][k].version
        BY <3>1, <4>1, LeaderAdvances
      <4>3. \A k \in Keys : versions'[k] <= store'[Leader][k].version
        BY <2>0, <2>2, <3>1, <4>1, <4>2
      <4>4. ASSUME NEW r \in Reads, checked'[r] = "stale"
            PROVE  reads'[r].best.version
                      < store'[Leader][reads'[r].key].version
        <5>1. reads[r].phase = "answered" /\ checked[r] = "stale"
          BY <2>0, <3>1, <4>4
        <5>2. reads'[r] = reads[r]
          BY <3>1, <5>1, AnsweredStays
        <5>3. reads[r].best.version < store[Leader][reads[r].key].version
          BY <2>0, <4>1, <5>1
        <5> QED
          BY <2>2, <4>2, <5>2, <5>3
      <4> QED
        BY <4>3, <4>4
    <3> QED
      BY <3>2, <3>3
  <2>4. ASSUME NEW w \in Writes, WriteReturns(w)
        PROVE  /\ \A r \in Reads : Each(r)'
               /\ restarts'[Leader] = 0 => LeaderPart'
    <3>1. /\ UNCHANGED <<store, reads, restarts, checked, known>>
          /\ versions' = RecordWrite(versions, writes[w].key, writes[w].version)
      BY <2>4 DEF WriteReturns, vars
    <3>2. writes[w].key \in Keys /\ writes[w].version \in Nat
      BY DEF TypeOK, Write
    <3>3. \A k \in Keys : versions[k] <= versions'[k]
      BY <2>2, <3>1, <3>2 DEF RecordWrite
    <3>4. \A r \in Reads : Each(r)'
      BY <2>0, <2>2, <3>1, <3>3
    <3>5. ASSUME restarts[Leader] = 0, NEW k \in Keys
          PROVE  versions'[k] <= store[Leader][k].version
      <4>1. writes[w].version <= store[Leader][writes[w].key].version
        BY <3>5 DEF Kept, VersionInv
      <4>2. versions[k] <= store[Leader][k].version
        BY <2>0, <3>5
      <4>3. \/ versions'[k] = versions[k]
            \/ k = writes[w].key /\ versions'[k] = writes[w].version
        BY <3>1, <3>2 DEF RecordWrite
      <4> QED
        BY <4>1, <4>2, <4>3
    <3> QED
      BY <2>0, <3>1, <3>4, <3>5
  <2>5. ASSUME NEW q \in Reads, ReadReturns(q)
        PROVE  /\ \A r \in Reads : Each(r)'
               /\ restarts'[Leader] = 0 => LeaderPart'
    <3> DEFINE n == reads[q].best.version
    <3>1. /\ UNCHANGED <<store, reads, restarts, versions, known>>
          /\ reads[q].phase = "answered"
          /\ checked'[q] = Counted(versions, reads[q].key, n)
          /\ \A r \in Reads \ {q} : checked'[r] = checked[r]
      BY <2>5 DEF ReadReturns, vars
    <3>2. Stored(reads[q].best) /\ n < known[q] => checked'[q] = "stale"
      <4> SUFFICES ASSUME n > 0, n < known[q] PROVE checked'[q] = "stale"
        BY DEF Stored
      <4>1. known[q] <= versions[reads[q].key]
        BY <2>0
      <4>2. n < versions[reads[q].key] /\ versions[reads[q].key] > 0 /\ n # 0
        BY <2>2, <4>1
      <4> QED
        BY <3>1, <4>2 DEF Counted, CheckRead
    <3>3. checked'[q] = "stale" => n < versions[reads[q].key]
      BY <3>1 DEF Counted, CheckRead
    <3> HIDE DEF n
    <3>4. \A r \in Reads : Each(r)'
      <4> SUFFICES ASSUME NEW r \in Reads PROVE Each(r)'
        OBVIOUS
      <4>1. CASE r = q
        BY <2>0, <3>1, <3>2, <4>1 DEF n
      <4>2. CASE r # q
        BY <2>0, <3>1, <4>2
      <4> QED
        BY <4>1, <4>2
    <3>5. restarts'[Leader] = 0 => LeaderPart'
      <4> SUFFICES ASSUME restarts[Leader] = 0 PROVE LeaderPart'
        BY <3>1
      <4>1. \A k \in Keys : versions'[k] <= store'[Leader][k].version
        BY <2>0, <3>1
      <4>2. ASSUME NEW r \in Reads, checked'[r] = "stale"
            PROVE  reads'[r].best.version < store'[Leader][reads'[r].key].version
        <5>1. CASE r = q
          <6>1. n < versions[reads[q].key]
            BY <3>3, <4>2, <5>1
          <6>2. versions[reads[q].key] <= store[Leader][reads[q].key].version
            BY <2>0, <2>2
          <6>3. n < store[Leader][reads[q].key].version
            BY <2>2, <6>1, <6>2 DEF n
          <6> QED
            BY <3>1, <5>1, <6>3 DEF n
        <5>2. CASE r # q
          BY <2>0, <3>1, <4>2, <5>2
        <5> QED
          BY <5>1, <5>2
      <4> QED
        BY <4>1, <4>2
    <3> QED
      BY <3>4, <3>5
  <2>6. CASE UNCHANGED loadVars
    BY <2>0, <2>6 DEF loadVars, vars, client
  <2> QED
    BY <2>3, <2>4, <2>5, <2>6 DEF LoadNext
<1> QED
  BY <1>1, <1>2, LoadTypeCorrect, LoadIsSpec, VersionInvariant, PTL DEF LoadSpec

(* In whatever order the workers enter the answers, a stale read is counted *)
(* as stale, and one with the newest version there is never is, unless the *)
(* leader restarts.                                                        *)
THEOREM CountsRight == LoadSpec => []CountedRightly
<1>1. LoadTypeOK /\ CountInv => CountedRightly
  <2> SUFFICES ASSUME LoadTypeOK, CountInv, NEW r \in Reads
               PROVE  /\ Stored(reads[r].best)
                         /\ reads[r].best.version < known[r] =>
                            checked[r] \in {"no", "stale"}
                      /\ restarts[Leader] = 0
                         /\ reads[r].best.version
                               = store[Leader][reads[r].key].version =>
                            checked[r] # "stale"
    BY DEF CountedRightly
  <2>1. reads[r].best.version \in Nat
    BY DEF LoadTypeOK, TypeOK, Read, Entry
  <2>2. ASSUME restarts[Leader] = 0, checked[r] = "stale"
        PROVE  reads[r].best.version < store[Leader][reads[r].key].version
    BY <2>2 DEF CountInv
  <2>3. Stored(reads[r].best) /\ reads[r].best.version < known[r] =>
            checked[r] \in {"no", "stale"}
    BY DEF CountInv
  <2> QED
    BY <2>1, <2>2, <2>3
<1> QED
  BY <1>1, LoadTypeCorrect, CountInvariant, PTL
=============================================================================

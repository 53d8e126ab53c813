-------------------------- MODULE Programs_proofs ---------------------------
(***************************************************************************)
(* Theorems about the smaller programs: the shared counters and the shared *)
(* map of Assignment 3, the product API of Assignment 5, the MapReduce     *)
(* pipeline of Assignment 4 and the album list of the Gin services, for    *)
(* every number of goroutines, additions, entries, requests, driver runs   *)
(* and albums, and any texts.                                              *)
(***************************************************************************)
EXTENDS Counters, SharedMap, ProductAPI, MapReduce, AlbumSlice,
        FiniteSetTheorems, SequenceTheorems, TLAPS

(* What goroutines have done, each so many of N: the pairs of a goroutine  *)
(* and a number up to its count.                                           *)
Steps(S, N, count) == {x \in S \X (1..N) : x[2] <= count[x[1]]}

(* One more of one goroutine. *)
LEMMA OneMore ==
    ASSUME NEW S, NEW N \in Nat, NEW w \in [S -> 0..N], NEW g \in S, w[g] < N,
           NEW v, v = [w EXCEPT ![g] = @ + 1]
    PROVE  /\ v \in [S -> 0..N]
           /\ w[g] + 1 \in 1..N
           /\ \A h \in S : w[h] \in 0..N
           /\ \A h \in S : v[h] = IF h = g THEN w[g] + 1 ELSE w[h]
<1>1. w[g] \in Nat /\ w[g] + 1 \in 1..N /\ w[g] + 1 \in 0..N
  OBVIOUS
<1>2. \A h \in S : v[h] = IF h = g THEN w[g] + 1 ELSE w[h]
  OBVIOUS
<1> QED
  BY <1>1, <1>2

(* All of them, and none. *)
LEMMA AllSteps ==
    ASSUME NEW S, NEW N \in Nat, NEW w
    PROVE  /\ (\A g \in S : w[g] = N) => Steps(S, N, w) = S \X (1..N)
           /\ (\A g \in S : w[g] = 0) => Steps(S, N, w) = {}
BY DEF Steps

-----------------------------------------------------------------------------
(* The shared map *)

(* The lock excludes: whoever is inside an assignment holds it, so no two  *)
(* are, and sync.Map's Store is never one.                                 *)
LockExcludes ==
    /\ writing \subseteq Writers
    /\ holder \in Writers \cup {"nobody"}
    /\ kind # "plain" => ~raced /\ writing \subseteq {holder}
    /\ kind = "sync.Map" => holder = "nobody"
    /\ kind # "plain" => ended # "thrown"

(* The map holds what its writers have written, no more and no less. *)
StoredIsWritten ==
    /\ written \in [Writers -> 0..Entries]
    /\ \A g \in writing : written[g] < Entries
    /\ kind # "plain" =>
          stored = Steps(Writers, Entries, written)
    /\ ended = "printed" => \A g \in Writers : written[g] = Entries

MapInv == LockExcludes /\ StoredIsWritten

(* With either lock or a sync.Map every entry is in the map whose length   *)
(* main prints, and the runtime finds no concurrent writes.                *)
THEOREM LockedMapComplete == MapSpec => []LockedMapKeepsAll
<1> USE MapAssumption
<1>1. MapInit => MapInv
  BY AllSteps DEF MapInit, MapInv, LockExcludes, StoredIsWritten
<1>2. MapInv /\ [MapNext]_sharedMap => MapInv'
  <2> SUFFICES ASSUME MapInv, [MapNext]_sharedMap PROVE MapInv'
    OBVIOUS
  <2> USE DEF MapInv
  <2>1. ASSUME NEW g \in Writers, Lock(g) PROVE MapInv'
    <3>1. kind = "locked" /\ holder = "nobody" /\ holder' = g
          /\ UNCHANGED <<kind, stored, written, writing, raced, ended>>
      BY <2>1 DEF Lock
    <3>2. writing = {}
      BY <3>1 DEF LockExcludes
    <3>3. LockExcludes'
      BY <3>1, <3>2 DEF LockExcludes
    <3>4. StoredIsWritten'
      BY <3>1 DEF StoredIsWritten
    <3> QED
      BY <3>3, <3>4
  <2>2. ASSUME NEW g \in Writers, AssignBegin(g) PROVE MapInv'
    <3>1. /\ g \notin writing /\ written[g] < Entries
          /\ kind = "plain" \/ holder = g
          /\ writing' = writing \cup {g}
          /\ raced' = (raced \/ writing # {})
          /\ UNCHANGED <<kind, stored, written, holder, ended>>
      BY <2>2 DEF AssignBegin, Idle
    <3>2. kind # "plain" => writing = {}
      BY <3>1 DEF LockExcludes
    <3>3. LockExcludes'
      BY <3>1, <3>2 DEF LockExcludes
    <3>4. StoredIsWritten'
      BY <3>1 DEF StoredIsWritten
    <3> QED
      BY <3>3, <3>4
  <2>3. ASSUME NEW g \in Writers, AssignEnd(g) PROVE MapInv'
    <3>1. /\ g \in writing /\ ended = "no"
          /\ writing' = writing \ {g}
          /\ written' = [written EXCEPT ![g] = @ + 1]
          /\ ~raced => /\ stored' = stored \cup {<<g, written[g] + 1>>}
                       /\ ended' = ended
          /\ ended' \in {"no", "thrown"}
          /\ holder' = IF kind = "locked" THEN "nobody" ELSE holder
          /\ UNCHANGED <<kind, raced>>
      BY <2>3 DEF AssignEnd
    <3>2. written[g] < Entries
      BY <3>1 DEF StoredIsWritten
    <3>3. kind # "plain" => ~raced /\ writing' = {}
      BY <3>1 DEF LockExcludes
    <3>4. LockExcludes'
      BY <3>1, <3>3 DEF LockExcludes
    <3>5. written' \in [Writers -> 0..Entries]
      BY <3>1, <3>2, OneMore DEF StoredIsWritten
    <3>6. kind # "plain" => stored' = Steps(Writers, Entries, written')
      <4>1. Steps(Writers, Entries, written')
              = Steps(Writers, Entries, written) \cup {<<g, written[g] + 1>>}
        <5>1. written \in [Writers -> 0..Entries] /\ Entries \in Nat
          BY DEF StoredIsWritten
        <5>2. /\ written[g] + 1 \in 1..Entries
              /\ \A h \in Writers : written[h] \in 0..Entries
              /\ \A h \in Writers :
                    written'[h] = IF h = g THEN written[g] + 1 ELSE written[h]
          BY <3>1, <3>2, <5>1, OneMore
        <5> QED
          BY <5>2 DEF Steps
      <4> QED
        BY <3>1, <3>3, <4>1 DEF StoredIsWritten
    <3>7. \A h \in writing' : written'[h] < Entries
      BY <3>1 DEF StoredIsWritten, LockExcludes
    <3>8. StoredIsWritten'
      BY <3>1, <3>5, <3>6, <3>7 DEF StoredIsWritten
    <3> QED
      BY <3>4, <3>8
  <2>4. ASSUME NEW g \in Writers, AtomicStore(g) PROVE MapInv'
    <3>1. /\ kind = "sync.Map" /\ g \notin writing /\ written[g] < Entries
          /\ ended = "no"
          /\ stored' = stored \cup {<<g, written[g] + 1>>}
          /\ written' = [written EXCEPT ![g] = @ + 1]
          /\ UNCHANGED <<kind, writing, raced, holder, ended>>
      BY <2>4 DEF AtomicStore, Idle
    <3>2. LockExcludes'
      BY <3>1 DEF LockExcludes
    <3>3. writing = {}
      BY <3>1 DEF LockExcludes
    <3>4. StoredIsWritten'
      <4>1. /\ written' \in [Writers -> 0..Entries]
            /\ Steps(Writers, Entries, written')
                 = Steps(Writers, Entries, written) \cup {<<g, written[g] + 1>>}
        <5>1. written \in [Writers -> 0..Entries] /\ Entries \in Nat
          BY DEF StoredIsWritten
        <5>2. /\ written' \in [Writers -> 0..Entries]
              /\ written[g] + 1 \in 1..Entries
              /\ \A h \in Writers : written[h] \in 0..Entries
              /\ \A h \in Writers :
                    written'[h] = IF h = g THEN written[g] + 1 ELSE written[h]
          BY <3>1, <5>1, OneMore
        <5> QED
          BY <5>2 DEF Steps
      <4> QED
        BY <3>1, <3>3, <4>1 DEF StoredIsWritten
    <3> QED
      BY <3>2, <3>4
  <2>5. CASE PrintLength
    BY <2>5 DEF PrintLength, LockExcludes, StoredIsWritten
  <2>6. CASE UNCHANGED sharedMap
    BY <2>6 DEF sharedMap, LockExcludes, StoredIsWritten
  <2> QED
    BY <2>1, <2>2, <2>3, <2>4, <2>5, <2>6 DEF MapNext
<1>3. MapInv => LockedMapKeepsAll
  <2> SUFFICES ASSUME MapInv, kind # "plain"
               PROVE  /\ ended # "thrown"
                      /\ ended = "printed" => stored = Writers \X (1..Entries)
    BY DEF LockedMapKeepsAll
  <2>1. ASSUME ended = "printed"
        PROVE  Steps(Writers, Entries, written) = Writers \X (1..Entries)
    BY <2>1, AllSteps DEF MapInv, StoredIsWritten
  <2> QED
    BY <2>1 DEF MapInv, LockExcludes, StoredIsWritten
<1> QED
  BY <1>1, <1>2, <1>3, PTL DEF MapSpec

-----------------------------------------------------------------------------
(* The counters *)

(* Additions of the current test that are over. *)
Additions == Cardinality(Steps(Goroutines, Adds, done))

(* They are finitely many, and there are Adds for each goroutine. *)
LEMMA FiniteAdditions ==
    ASSUME NEW w \in [Goroutines -> 0..Adds]
    PROVE  /\ IsFiniteSet(Steps(Goroutines, Adds, w))
           /\ Cardinality(Steps(Goroutines, Adds, w)) \in Nat
           /\ Cardinality(Goroutines) \in Nat \ {0}
           /\ Cardinality(Goroutines \X (1..Adds)) = Cardinality(Goroutines) * Adds
<1> USE CountersAssumption
<1>1. IsFiniteSet(1..Adds) /\ Cardinality(1..Adds) = Adds
  BY FS_Interval
<1>2. /\ IsFiniteSet(Goroutines \X (1..Adds))
      /\ Cardinality(Goroutines \X (1..Adds)) = Cardinality(Goroutines) * Adds
  BY <1>1, FS_Product
<1>3. Steps(Goroutines, Adds, w) \subseteq Goroutines \X (1..Adds)
  BY DEF Steps
<1>4. IsFiniteSet(Steps(Goroutines, Adds, w))
  BY <1>2, <1>3, FS_Subset
<1>5. Cardinality(Goroutines) # 0 /\ Cardinality(Goroutines) \in Nat
  BY FS_EmptySet, FS_CardinalityType
<1> QED
  BY <1>2, <1>4, <1>5, FS_CardinalityType

CountersTyped ==
    /\ atomicOps \in Nat /\ regularOps \in Nat
    /\ test \in 1..3
    /\ done \in [Goroutines -> 0..Adds]
    /\ register \in [Goroutines -> Nat \cup {-1}]
    /\ \A g \in Goroutines : register[g] # -1 => test = 2 /\ done[g] < Adds

(* Nothing is lost of the atomic counter. *)
AtomicExact ==
    /\ test = 1 => atomicOps = Additions /\ regularOps = 0
    /\ test # 1 => atomicOps = Cardinality(Goroutines) * Adds

(* The plain counter, and every value of it that is in a register, is at   *)
(* most the number of additions over.                                      *)
PlainBelow ==
    test = 2 => /\ regularOps <= Additions
                /\ \A g \in Goroutines : register[g] <= Additions

(* A store leaves at least 1, and so does every load after one; whoever    *)
(* stores a second time therefore leaves at least 2.                       *)
PlainAbove ==
    test = 2 =>
        /\ \A g \in Goroutines : done[g] >= 1 => /\ regularOps >= 1
                                                 /\ register[g] # -1 => register[g] >= 1
        /\ (\A g \in Goroutines : done[g] >= 2) => regularOps >= 2

(* A goroutine alone loses nothing. *)
AloneExact ==
    test = 2 /\ Cardinality(Goroutines) = 1 =>
        \A g \in Goroutines : regularOps = done[g] /\ register[g] \in {-1, done[g]}

CountersInv == /\ CountersTyped /\ AtomicExact /\ PlainBelow
               /\ PlainAbove /\ AloneExact /\ PrintedCounts

(* The additions of a test after one more, and when they are all over. *)
LEMMA OneMoreAddition ==
    ASSUME CountersTyped, NEW g \in Goroutines, done[g] < Adds, Added(g)
    PROVE  /\ done' \in [Goroutines -> 0..Adds]
           /\ Additions \in Nat /\ Additions' = Additions + 1
           /\ done'[g] = done[g] + 1
           /\ \A h \in Goroutines \ {g} : done'[h] = done[h]
<1> USE CountersAssumption
<1>1. /\ done \in [Goroutines -> 0..Adds] /\ done' = [done EXCEPT ![g] = @ + 1]
      /\ Adds \in Nat /\ done[g] < Adds
  BY DEF CountersTyped, Added
<1>2. /\ done' \in [Goroutines -> 0..Adds]
      /\ done[g] + 1 \in 1..Adds
      /\ \A h \in Goroutines : done[h] \in 0..Adds
      /\ \A h \in Goroutines :
            done'[h] = IF h = g THEN done[g] + 1 ELSE done[h]
  BY <1>1, OneMore
<1>3. IsFiniteSet(Steps(Goroutines, Adds, done)) /\ Additions \in Nat
  BY <1>1, FiniteAdditions DEF Additions
<1> DEFINE over == Steps(Goroutines, Adds, done)
           next == <<g, done[g] + 1>>
<1>4. Steps(Goroutines, Adds, done') = over \cup {next} /\ next \notin over
  BY <1>2 DEF Steps
<1>5. Additions' = Additions + 1
  <2> HIDE DEF over, next
  <2>1. IsFiniteSet(over)
    BY <1>3 DEF over
  <2>2. Cardinality(over \cup {next}) = Cardinality(over) + 1
    BY <1>4, <2>1, FS_AddElement
  <2> QED
    BY <1>4, <2>2 DEF Additions, over
<1> QED
  BY <1>1, <1>2, <1>3, <1>5

(* At the end of a test all additions are over, at its start none. *)
LEMMA AllAdded ==
    ASSUME CountersTyped
    PROVE  /\ (\A g \in Goroutines : done[g] = Adds) =>
                  Additions = Cardinality(Goroutines) * Adds
           /\ (\A g \in Goroutines : done[g] = 0) => Additions = 0
           /\ Additions \in Nat
BY CountersAssumption, AllSteps, FiniteAdditions, FS_EmptySet DEF CountersTyped, Additions

(* What the program prints: the atomic counter exactly, the plain one      *)
(* between the fewest additions that can survive and all of them.          *)
THEOREM CountersPrinted == CountersSpec => []PrintedCounts
<1> USE CountersAssumption
<1>1. CountersInit => CountersInv
  <2> SUFFICES ASSUME CountersInit PROVE CountersInv
    OBVIOUS
  <2>1. CountersTyped /\ test = 1 /\ \A g \in Goroutines : done[g] = 0
    BY DEF CountersInit, CountersTyped
  <2>2. Additions = 0
    BY <2>1, AllAdded
  <2>3. AtomicExact
    BY <2>1, <2>2 DEF CountersInit, AtomicExact
  <2> QED
    BY <2>1, <2>3 DEF CountersInv, PlainBelow, PlainAbove, AloneExact, PrintedCounts
<1>2. CountersInv /\ [CountersNext]_counters => CountersInv'
  <2> SUFFICES ASSUME CountersInv, [CountersNext]_counters PROVE CountersInv'
    OBVIOUS
  <2>0. CountersTyped /\ Additions \in Nat
    BY AllAdded DEF CountersInv
  <2>1. ASSUME NEW g \in Goroutines, AtomicAdd(g) PROVE CountersInv'
    <3>1. /\ test = 1 /\ done[g] < Adds /\ atomicOps' = atomicOps + 1
          /\ UNCHANGED <<regularOps, test, register>> /\ Added(g)
      BY <2>1 DEF AtomicAdd
    <3>2. done' \in [Goroutines -> 0..Adds] /\ Additions' = Additions + 1
      BY <2>0, <3>1, OneMoreAddition
    <3>3. CountersTyped'
      BY <2>0, <3>1, <3>2 DEF CountersTyped
    <3>4. AtomicExact'
      BY <3>1, <3>2 DEF CountersInv, AtomicExact
    <3> QED
      BY <3>1, <3>3, <3>4 DEF CountersInv, PlainBelow, PlainAbove, AloneExact,
                              PrintedCounts
  <2>2. ASSUME NEW g \in Goroutines, Load(g) PROVE CountersInv'
    <3>1. /\ test = 2 /\ done[g] < Adds
          /\ register' = [register EXCEPT ![g] = regularOps]
          /\ UNCHANGED <<atomicOps, regularOps, test, done>>
      BY <2>2 DEF Load
    <3>2. /\ register'[g] = regularOps /\ regularOps \in Nat
          /\ \A h \in Goroutines \ {g} : register'[h] = register[h]
      BY <2>0, <3>1 DEF CountersTyped
    <3>3. CountersTyped'
      BY <2>0, <3>1, <3>2 DEF CountersTyped
    <3>4. Additions' = Additions
      BY <3>1 DEF Additions
    <3>5. AtomicExact' /\ PrintedCounts'
      BY <3>1, <3>4 DEF CountersInv, AtomicExact, PrintedCounts
    <3>6. PlainBelow'
      BY <3>1, <3>2, <3>4 DEF CountersInv, PlainBelow
    <3>7. PlainAbove'
      BY <3>1, <3>2 DEF CountersInv, PlainAbove
    <3>8. AloneExact'
      BY <3>1, <3>2 DEF CountersInv, AloneExact
    <3> QED
      BY <3>3, <3>5, <3>6, <3>7, <3>8 DEF CountersInv
  <2>3. ASSUME NEW g \in Goroutines, Store(g) PROVE CountersInv'
    <3>1. /\ register[g] # -1 /\ regularOps' = register[g] + 1
          /\ register' = [register EXCEPT ![g] = -1]
          /\ UNCHANGED <<atomicOps, test>> /\ Added(g)
      BY <2>3 DEF Store
    <3>2. test = 2 /\ done[g] < Adds /\ register[g] \in Nat /\ done[g] \in Nat
      BY <2>0, <3>1 DEF CountersTyped
    <3>3. /\ done' \in [Goroutines -> 0..Adds] /\ Additions' = Additions + 1
          /\ done'[g] = done[g] + 1
          /\ \A h \in Goroutines \ {g} : done'[h] = done[h]
      BY <2>0, <3>2, <3>1, OneMoreAddition
    <3>4. /\ register'[g] = -1
          /\ \A h \in Goroutines \ {g} : register'[h] = register[h]
          /\ register' \in [Goroutines -> Nat \cup {-1}]
      BY <2>0, <3>1 DEF CountersTyped
    <3>5. CountersTyped'
      BY <2>0, <3>1, <3>2, <3>3, <3>4 DEF CountersTyped
    <3>6. AtomicExact' /\ PrintedCounts'
      BY <3>1, <3>2 DEF CountersInv, AtomicExact, PrintedCounts
    <3>7. PlainBelow'
      <4>1. register[g] <= Additions
        BY <3>2 DEF CountersInv, PlainBelow
      <4>2. ASSUME NEW h \in Goroutines PROVE register'[h] <= Additions'
        <5>1. register[h] <= Additions /\ register[h] \in Int
          BY <2>0, <3>2 DEF CountersInv, PlainBelow, CountersTyped
        <5> QED
          BY <2>0, <3>3, <3>4, <5>1
      <4> QED
        BY <2>0, <3>1, <3>2, <3>3, <4>1, <4>2 DEF PlainBelow
    <3>8. PlainAbove'
      <4>1. regularOps' >= 1
        BY <3>1, <3>2
      <4>2. ASSUME NEW h \in Goroutines, done'[h] >= 1, register'[h] # -1
            PROVE  register'[h] >= 1
        BY <3>2, <3>3, <3>4, <4>2 DEF CountersInv, PlainAbove
      <4>3. ASSUME \A h \in Goroutines : done'[h] >= 2 PROVE regularOps' >= 2
        <5>1. done[g] >= 1
          BY <3>2, <3>3, <4>3
        <5>2. register[g] >= 1
          BY <3>1, <3>2, <5>1 DEF CountersInv, PlainAbove
        <5> QED
          BY <3>1, <3>2, <5>2
      <4> QED
        BY <4>1, <4>2, <4>3 DEF PlainAbove
    <3>9. AloneExact'
      <4> SUFFICES ASSUME Cardinality(Goroutines) = 1, NEW h \in Goroutines
                   PROVE  regularOps' = done'[h] /\ register'[h] \in {-1, done'[h]}
        BY DEF AloneExact
      <4>1. h = g
        BY FS_Singleton
      <4>2. register[g] = done[g]
        BY <3>1, <3>2 DEF CountersInv, AloneExact
      <4> QED
        BY <3>1, <3>3, <3>4, <4>1, <4>2
    <3> QED
      BY <3>5, <3>6, <3>7, <3>8, <3>9 DEF CountersInv
  <2>4. CASE Wait
    <3>1. /\ test < 3 /\ \A g \in Goroutines : done[g] = Adds
          /\ test' = test + 1
          /\ done' = [g \in Goroutines |-> 0]
          /\ UNCHANGED <<atomicOps, regularOps, register>>
      BY <2>4 DEF Wait
    <3>2. \A g \in Goroutines : register[g] = -1
      BY <2>0, <3>1 DEF CountersTyped
    <3>3. CountersTyped'
      BY <2>0, <3>1, <3>2 DEF CountersTyped
    <3>4. Additions = Cardinality(Goroutines) * Adds
      BY <2>0, <3>1, AllAdded
    <3>5. Additions' = 0
      BY <3>1, AllSteps, FS_EmptySet DEF Additions
    <3>6. test \in {1, 2}
      BY <2>0, <3>1 DEF CountersTyped
    <3>7. AtomicExact'
      BY <3>1, <3>4, <3>6 DEF CountersInv, AtomicExact
    <3>8. CASE test = 1
      <4>1. regularOps = 0
        BY <3>8 DEF CountersInv, AtomicExact
      <4> QED
        BY <3>1, <3>2, <3>3, <3>5, <3>7, <3>8, <4>1
           DEF CountersInv, PlainBelow, PlainAbove, AloneExact, PrintedCounts
    <3>9. CASE test = 2
      <4>1. PICK g \in Goroutines : TRUE
        OBVIOUS
      <4>2. regularOps <= Cardinality(Goroutines) * Adds
        BY <3>4, <3>9 DEF CountersInv, PlainBelow
      <4>3. regularOps >= 1
        BY <3>1, <3>9, <4>1 DEF CountersInv, PlainAbove
      <4>4. Adds # 1 => regularOps >= 2
        BY <3>1, <3>9 DEF CountersInv, PlainAbove
      <4>5. Cardinality(Goroutines) = 1 => regularOps = Adds
        BY <3>1, <3>9, <4>1 DEF CountersInv, AloneExact
      <4>6. atomicOps = Cardinality(Goroutines) * Adds
        BY <3>9 DEF CountersInv, AtomicExact
      <4>7. Cardinality(Goroutines) * Adds \in Nat /\ regularOps \in Nat
        BY <2>0, <3>4 DEF CountersTyped
      <4>8. PrintedCounts'
        BY <3>1, <4>2, <4>3, <4>4, <4>5, <4>6, <4>7 DEF PrintedCounts
      <4> QED
        BY <3>1, <3>3, <3>7, <3>9, <4>8
           DEF CountersInv, PlainBelow, PlainAbove, AloneExact
    <3> QED
      BY <3>6, <3>8, <3>9
  <2>5. CASE UNCHANGED counters
    BY <2>5 DEF counters, CountersInv, CountersTyped, AtomicExact, PlainBelow,
                PlainAbove, AloneExact, PrintedCounts, Additions
  <2> QED
    BY <2>1, <2>2, <2>3, <2>4, <2>5 DEF CountersNext
<1>3. CountersInv => PrintedCounts
  BY DEF CountersInv
<1> QED
  BY <1>1, <1>2, <1>3, PTL DEF CountersSpec

-----------------------------------------------------------------------------
(* The product API *)

Accepted == {"valid", "locked", "stored", "204"}

PostState == [phase : {"new", "400"}]
               \cup [phase : Accepted, id : ProductIds, product : Body]

GetState == [phase : {"new"}]
              \cup [phase : {"arrived", "locked"}, id : ProductIds,
                    after : SUBSET DetailPosts]
              \cup [phase : {"answered"}, id : ProductIds,
                    after : SUBSET DetailPosts, product : Body \cup {NoProduct}]

APITyped ==
    /\ products \in [ProductIds -> Body \cup {NoProduct}]
    /\ detailPosts \in [DetailPosts -> PostState]
    /\ productGets \in [ProductGets -> GetState]
    /\ stores \in Seq(DetailPosts)

(* A product within the limits of the schema, under the id of its path. *)
WithinLimits(q, d) ==
    /\ q \in Body
    /\ q.product_id = d
    /\ q.sku \in 1..100
    /\ q.manufacturer \in 1..200
    /\ q.category_id > 0
    /\ q.weight >= 0
    /\ q.some_other_id > 0

(* Only valid products pass, and only posts that hold the lock, or did,    *)
(* have stored theirs.                                                     *)
PostsValid ==
    /\ \A p \in DetailPosts :
          detailPosts[p].phase \in Accepted =>
              WithinLimits(detailPosts[p].product, detailPosts[p].id)
    /\ \A i \in DOMAIN stores : detailPosts[stores[i]].phase \in {"stored", "204"}

StoredUnder(i, d) == detailPosts[stores[i]].id = d

(* Under an id is the product of the last post that stored there. *)
LastUnder(d, i) == /\ i \in DOMAIN stores /\ StoredUnder(i, d)
                   /\ \A j \in DOMAIN stores : StoredUnder(j, d) => j <= i

MapIsLast ==
    \A d \in ProductIds :
        \/ /\ products[d] = NoProduct
           /\ \A i \in DOMAIN stores : ~StoredUnder(i, d)
        \/ \E i \in DOMAIN stores : /\ LastUnder(d, i)
                                    /\ products[d] = detailPosts[stores[i]].product

(* The posts that a GET comes after had all been answered. *)
AfterAnswered ==
    \A g \in ProductGets :
        productGets[g].phase # "new" =>
            \A p \in productGets[g].after : detailPosts[p].phase = "204"

(* The answer of one GET, in the terms above. *)
Current(g) ==
    LET get == productGets[g]
    IN  IF get.product = NoProduct
        THEN \A i \in DOMAIN stores : ~(StoredUnder(i, get.id) /\ stores[i] \in get.after)
        ELSE /\ WithinLimits(get.product, get.id)
             /\ \E i \in DOMAIN stores :
                   /\ StoredUnder(i, get.id)
                   /\ detailPosts[stores[i]].product = get.product
                   /\ \A j \in DOMAIN stores :
                         StoredUnder(j, get.id) /\ stores[j] \in get.after => j <= i

AnswersCurrent ==
    \A g \in ProductGets : productGets[g].phase = "answered" => Current(g)

APIInv == APITyped /\ PostsValid /\ MapIsLast /\ AfterAnswered /\ AnswersCurrent

(* The placeholder for a missing entry is no product. *)
LEMMA NoProductIsNone == NoProduct \notin Body
<1>1. SUFFICES ASSUME NEW b \in Body PROVE NoProduct # b
  OBVIOUS
<1>2. "sku" \in DOMAIN b
  BY DEF Body
<1>3. "sku" \notin DOMAIN NoProduct
  BY DEF NoProduct
<1> QED
  BY <1>2, <1>3

(* A post that has been decoded keeps its id and product. *)
LEMMA PostFields ==
    ASSUME APITyped, NEW p \in DetailPosts, NEW from \in Accepted, NEW to \in Accepted,
           Post(p, from, to)
    PROVE  /\ detailPosts' \in [DetailPosts -> PostState]
           /\ detailPosts[p].phase = from /\ detailPosts'[p].phase = to
           /\ detailPosts[p].id \in ProductIds /\ detailPosts[p].product \in Body
           /\ \A q \in DetailPosts : /\ detailPosts'[q].id = detailPosts[q].id
                                     /\ detailPosts'[q].product = detailPosts[q].product
           /\ \A q \in DetailPosts \ {p} : detailPosts'[q] = detailPosts[q]
<1>1. detailPosts[p].phase = from
  BY DEF Post
<1>2. detailPosts[p] \in [phase : Accepted, id : ProductIds, product : Body]
  <2>1. detailPosts[p] \in PostState
    BY DEF APITyped
  <2>2. detailPosts[p] \notin [phase : {"new", "400"}]
    BY <1>1 DEF Accepted
  <2> QED
    BY <2>1, <2>2 DEF PostState
<1> DEFINE x == [detailPosts[p] EXCEPT !.phase = to]
<1>3. /\ x \in [phase : Accepted, id : ProductIds, product : Body]
      /\ x.phase = to /\ x.id = detailPosts[p].id /\ x.product = detailPosts[p].product
  BY <1>2
<1>4. detailPosts' = [detailPosts EXCEPT ![p] = x]
  BY DEF Post
<1> HIDE DEF x
<1>5. x \in PostState
  BY <1>3 DEF PostState
<1> QED
  BY <1>1, <1>2, <1>3, <1>4, <1>5 DEF APITyped

(* What a step that stores nothing keeps. *)
LEMMA StoresKept ==
    ASSUME APIInv, UNCHANGED <<products, stores>>,
           detailPosts' \in [DetailPosts -> PostState],
           productGets' \in [ProductGets -> GetState],
           \A p \in DetailPosts :
              detailPosts[p].phase \in {"stored", "204"} =>
                 /\ detailPosts'[p].phase \in {"stored", "204"}
                 /\ detailPosts[p].phase = "204" => detailPosts'[p].phase = "204"
                 /\ detailPosts'[p].id = detailPosts[p].id
                 /\ detailPosts'[p].product = detailPosts[p].product,
           \A p \in DetailPosts :
              detailPosts'[p].phase \in Accepted =>
                 WithinLimits(detailPosts'[p].product, detailPosts'[p].id)
    PROVE  /\ APITyped' /\ PostsValid' /\ MapIsLast'
           /\ \A g \in ProductGets :
                 productGets'[g] = productGets[g] =>
                    /\ productGets'[g].phase # "new" =>
                          \A p \in productGets'[g].after : detailPosts'[p].phase = "204"
                    /\ productGets'[g].phase = "answered" => Current(g)'
<1>1. APITyped'
  BY DEF APIInv, APITyped
<1>2. \A i \in DOMAIN stores : /\ stores[i] \in DetailPosts
                               /\ detailPosts[stores[i]].phase \in {"stored", "204"}
  BY DEF APIInv, APITyped, PostsValid
<1>3. PostsValid'
  BY <1>2 DEF PostsValid
<1>4. \A i \in DOMAIN stores :
         /\ detailPosts'[stores[i]].id = detailPosts[stores[i]].id
         /\ detailPosts'[stores[i]].product = detailPosts[stores[i]].product
  BY <1>2
<1>5. MapIsLast'
  BY <1>4 DEF APIInv, MapIsLast, LastUnder, StoredUnder
<1>6. ASSUME NEW g \in ProductGets, productGets'[g] = productGets[g],
             productGets'[g].phase # "new", NEW p \in productGets'[g].after
      PROVE  detailPosts'[p].phase = "204"
  <2>1. p \in DetailPosts
    BY <1>6 DEF APIInv, APITyped, GetState
  <2>2. detailPosts[p].phase = "204"
    BY <1>6 DEF APIInv, AfterAnswered
  <2> QED
    BY <2>1, <2>2
<1>7. ASSUME NEW g \in ProductGets, productGets'[g] = productGets[g],
             productGets'[g].phase = "answered"
      PROVE  Current(g)'
  <2>1. Current(g)
    BY <1>7 DEF APIInv, AnswersCurrent
  <2>2. WithinLimits(productGets'[g].product, productGets'[g].id) =
            WithinLimits(productGets[g].product, productGets[g].id)
    BY <1>7
  <2>3. \A i \in DOMAIN stores : (StoredUnder(i, productGets[g].id))' =
                                   StoredUnder(i, productGets[g].id)
    BY <1>4, <1>7 DEF StoredUnder
  <2> QED
    BY <1>4, <1>7, <2>1, <2>2, <2>3 DEF Current
<1> QED
  BY <1>1, <1>3, <1>5, <1>6, <1>7

(* Only bodies within the limits of the schema pass the validation. *)
LEMMA ValidWithinLimits ==
    ASSUME NEW d \in ProductIds, NEW body \in Body, Valid(body, d)
    PROVE  WithinLimits(WithPathId(body, d), d)
<1>1. WithPathId(body, d) \in Body
  BY DEF WithPathId, Body
<1>2. /\ WithPathId(body, d).product_id = d
      /\ WithPathId(body, d).sku = body.sku
      /\ WithPathId(body, d).manufacturer = body.manufacturer
      /\ WithPathId(body, d).category_id = body.category_id
      /\ WithPathId(body, d).weight = body.weight
      /\ WithPathId(body, d).some_other_id = body.some_other_id
  BY DEF WithPathId, Body
<1>3. /\ body.sku \in {0, 1, 100, 101} /\ body.manufacturer \in {0, 1, 200, 201}
      /\ body.category_id \in {-1, 0, 1} /\ body.weight \in {-1, 0}
      /\ body.some_other_id \in {0, 1}
  BY DEF Body
<1>4. body.sku \in 1..100
  BY <1>3 DEF Valid
<1>5. body.manufacturer \in 1..200
  BY <1>3 DEF Valid
<1>6. body.category_id > 0 /\ body.weight >= 0 /\ body.some_other_id > 0
  BY <1>3 DEF Valid
<1> QED
  BY <1>1, <1>2, <1>4, <1>5, <1>6 DEF WithinLimits

(* A GET answers with the product of one POST to its id, valid, and no     *)
(* older than any POST that was answered before the GET arrived.           *)
THEOREM AnswersAreCurrent == APISpec => []AnswersCurrentProduct
<1>1. APIInit => APIInv
  <2> SUFFICES ASSUME APIInit PROVE APIInv
    OBVIOUS
  <2>1. /\ \A p \in DetailPosts : detailPosts[p].phase = "new"
        /\ \A g \in ProductGets : productGets[g].phase = "new"
    BY DEF APIInit
  <2>2. stores = <<>> /\ \A d \in ProductIds : products[d] = NoProduct
    BY DEF APIInit
  <2>3. APITyped
    BY DEF APIInit, APITyped, PostState, GetState
  <2> QED
    BY <2>1, <2>2, <2>3
       DEF APIInv, PostsValid, Accepted, MapIsLast, AfterAnswered, AnswersCurrent
<1>2. APIInv /\ [APINext]_productAPI => APIInv'
  <2> SUFFICES ASSUME APIInv, [APINext]_productAPI PROVE APIInv'
    OBVIOUS
  <2>0. APITyped /\ PostsValid /\ MapIsLast /\ AfterAnswered /\ AnswersCurrent
    BY DEF APIInv
  <2>1. ASSUME NEW p \in DetailPosts, NEW id \in ProductIds, NEW body \in Body,
               PostDecoded(p, id, body)
        PROVE  APIInv'
    <3> DEFINE x == IF Valid(body, id)
                    THEN [phase |-> "valid", id |-> id, product |-> WithPathId(body, id)]
                    ELSE [phase |-> "400"]
    <3>1. /\ detailPosts[p].phase = "new"
          /\ detailPosts' = [detailPosts EXCEPT ![p] = x]
          /\ UNCHANGED <<products, productGets, stores>>
      BY <2>1 DEF PostDecoded
    <3>2. /\ x \in PostState
          /\ x.phase \in Accepted => WithinLimits(x.product, x.id)
      <4>1. CASE Valid(body, id)
        BY <4>1, ValidWithinLimits DEF PostState, Accepted, WithinLimits
      <4>2. CASE ~Valid(body, id)
        BY <4>2 DEF PostState, Accepted
      <4> QED
        BY <4>1, <4>2
    <3> HIDE DEF x
    <3>3. /\ detailPosts' \in [DetailPosts -> PostState] /\ detailPosts'[p] = x
          /\ \A q \in DetailPosts \ {p} : detailPosts'[q] = detailPosts[q]
      BY <2>0, <3>1, <3>2 DEF APITyped
    <3>4. productGets' \in [ProductGets -> GetState]
      BY <2>0, <3>1 DEF APITyped
    <3>5. \A q \in DetailPosts :
             detailPosts'[q].phase \in Accepted =>
                WithinLimits(detailPosts'[q].product, detailPosts'[q].id)
      BY <2>0, <3>2, <3>3 DEF PostsValid
    <3>6. \A q \in DetailPosts :
             detailPosts[q].phase \in {"stored", "204"} => detailPosts'[q] = detailPosts[q]
      BY <3>1, <3>3
    <3>7. /\ APITyped' /\ PostsValid' /\ MapIsLast'
          /\ \A g \in ProductGets :
                /\ productGets'[g].phase # "new" =>
                      \A q \in productGets'[g].after : detailPosts'[q].phase = "204"
                /\ productGets'[g].phase = "answered" => Current(g)'
      BY <3>1, <3>3, <3>4, <3>5, <3>6, StoresKept
    <3> QED
      BY <3>7 DEF APIInv, AfterAnswered, AnswersCurrent
  <2>2. ASSUME NEW p \in DetailPosts, PostLock(p) \/ PostUnlock(p) PROVE APIInv'
    <3>1. /\ UNCHANGED <<products, productGets, stores>>
          /\ Post(p, "valid", "locked") \/ Post(p, "stored", "204")
      BY <2>2 DEF PostLock, PostUnlock
    <3>2. /\ detailPosts' \in [DetailPosts -> PostState]
          /\ \A q \in DetailPosts : /\ detailPosts'[q].id = detailPosts[q].id
                                    /\ detailPosts'[q].product = detailPosts[q].product
          /\ \A q \in DetailPosts \ {p} : detailPosts'[q] = detailPosts[q]
          /\ \/ detailPosts[p].phase = "valid" /\ detailPosts'[p].phase = "locked"
             \/ detailPosts[p].phase = "stored" /\ detailPosts'[p].phase = "204"
      BY <2>0, <3>1, PostFields DEF Accepted
    <3>3. productGets' \in [ProductGets -> GetState]
      BY <2>0, <3>1 DEF APITyped
    <3>4. \A q \in DetailPosts :
             detailPosts'[q].phase \in Accepted =>
                WithinLimits(detailPosts'[q].product, detailPosts'[q].id)
      BY <2>0, <3>2 DEF PostsValid, Accepted
    <3>5. \A q \in DetailPosts :
             detailPosts[q].phase \in {"stored", "204"} =>
                /\ detailPosts'[q].phase \in {"stored", "204"}
                /\ detailPosts[q].phase = "204" => detailPosts'[q].phase = "204"
      BY <3>2
    <3>6. /\ APITyped' /\ PostsValid' /\ MapIsLast'
          /\ \A g \in ProductGets :
                /\ productGets'[g].phase # "new" =>
                      \A q \in productGets'[g].after : detailPosts'[q].phase = "204"
                /\ productGets'[g].phase = "answered" => Current(g)'
      BY <3>1, <3>2, <3>3, <3>4, <3>5, StoresKept
    <3> QED
      BY <3>6 DEF APIInv, AfterAnswered, AnswersCurrent
  <2>3. ASSUME NEW p \in DetailPosts, PostStores(p) PROVE APIInv'
    <3> DEFINE d == detailPosts[p].id
               n == Len(stores) + 1
    <3>1. /\ Post(p, "locked", "stored")
          /\ products' = [products EXCEPT ![d] = detailPosts[p].product]
          /\ stores' = Append(stores, p)
          /\ UNCHANGED productGets
      BY <2>3 DEF PostStores
    <3>2. /\ detailPosts' \in [DetailPosts -> PostState]
          /\ detailPosts[p].phase = "locked" /\ detailPosts'[p].phase = "stored"
          /\ d \in ProductIds /\ detailPosts[p].product \in Body
          /\ \A q \in DetailPosts : /\ detailPosts'[q].id = detailPosts[q].id
                                    /\ detailPosts'[q].product = detailPosts[q].product
          /\ \A q \in DetailPosts \ {p} : detailPosts'[q] = detailPosts[q]
      BY <2>0, <3>1, PostFields DEF Accepted
    <3>3. /\ stores' \in Seq(DetailPosts) /\ DOMAIN stores' = DOMAIN stores \cup {n}
          /\ n \in Nat /\ n \notin DOMAIN stores /\ stores'[n] = p
          /\ \A i \in DOMAIN stores : /\ stores'[i] = stores[i] /\ i < n
                                      /\ stores[i] \in DetailPosts
      BY <2>0, <3>1 DEF APITyped
    <3> HIDE DEF n
    <3>4. /\ products'[d] = detailPosts[p].product
          /\ \A e \in ProductIds \ {d} : products'[e] = products[e]
          /\ products' \in [ProductIds -> Body \cup {NoProduct}]
      BY <2>0, <3>1, <3>2 DEF APITyped
    <3>5. APITyped'
      BY <2>0, <3>1, <3>2, <3>3, <3>4 DEF APITyped
    <3>6. PostsValid'
      <4>1. \A q \in DetailPosts :
               detailPosts'[q].phase \in Accepted =>
                  WithinLimits(detailPosts'[q].product, detailPosts'[q].id)
        BY <2>0, <3>2 DEF PostsValid, Accepted
      <4>2. \A i \in DOMAIN stores' : detailPosts'[stores'[i]].phase \in {"stored", "204"}
        BY <2>0, <3>2, <3>3 DEF PostsValid
      <4> QED
        BY <4>1, <4>2 DEF PostsValid
    <3>7. /\ \A i \in DOMAIN stores, e \in ProductIds :
                (detailPosts'[stores'[i]].id = e) = StoredUnder(i, e)
          /\ \A i \in DOMAIN stores :
                detailPosts'[stores'[i]].product = detailPosts[stores[i]].product
          /\ detailPosts'[stores'[n]].id = d
          /\ detailPosts'[stores'[n]].product = detailPosts[p].product
      BY <3>2, <3>3 DEF StoredUnder
    <3>8. MapIsLast'
      <4> SUFFICES ASSUME NEW e \in ProductIds
                   PROVE  \/ /\ products'[e] = NoProduct
                             /\ \A i \in DOMAIN stores' : detailPosts'[stores'[i]].id # e
                          \/ \E i \in DOMAIN stores' :
                                /\ detailPosts'[stores'[i]].id = e
                                /\ \A j \in DOMAIN stores' :
                                      detailPosts'[stores'[j]].id = e => j <= i
                                /\ products'[e] = detailPosts'[stores'[i]].product
        BY DEF MapIsLast, LastUnder, StoredUnder
      <4>1. CASE e = d
        <5>1. n \in DOMAIN stores' /\ \A j \in DOMAIN stores' : j <= n
          BY <3>3
        <5> QED
          BY <3>4, <3>7, <4>1, <5>1
      <4>2. CASE e # d /\ products[e] = NoProduct
                 /\ \A i \in DOMAIN stores : ~StoredUnder(i, e)
        BY <3>3, <3>4, <3>7, <4>2
      <4>3. ASSUME e # d, NEW i \in DOMAIN stores, LastUnder(e, i),
                   products[e] = detailPosts[stores[i]].product
            PROVE  /\ i \in DOMAIN stores'
                   /\ detailPosts'[stores'[i]].id = e
                   /\ \A j \in DOMAIN stores' :
                         detailPosts'[stores'[j]].id = e => j <= i
                   /\ products'[e] = detailPosts'[stores'[i]].product
        BY <3>3, <3>4, <3>7, <4>3 DEF LastUnder
      <4> QED
        BY <2>0, <4>1, <4>2, <4>3 DEF MapIsLast
    <3>9. AfterAnswered'
      <4> SUFFICES ASSUME NEW g \in ProductGets, productGets[g].phase # "new",
                          NEW q \in productGets[g].after
                   PROVE  detailPosts'[q].phase = "204"
        BY <3>1 DEF AfterAnswered
      <4>1. q \in DetailPosts
        BY <2>0 DEF APITyped, GetState
      <4>2. detailPosts[q].phase = "204"
        BY <2>0 DEF AfterAnswered
      <4> QED
        BY <3>2, <4>1, <4>2
    <3>10. ASSUME NEW g \in ProductGets, productGets[g].phase = "answered"
           PROVE  Current(g)'
      <4> DEFINE get == productGets[g]
      <4>1. get.id \in ProductIds /\ Current(g)
        BY <2>0, <3>10 DEF APITyped, GetState, AnswersCurrent
      <4>2. p \notin get.after
        BY <2>0, <3>2, <3>10 DEF AfterAnswered
      <4>3. CASE get.product = NoProduct
        <5>1. \A i \in DOMAIN stores : ~(StoredUnder(i, get.id) /\ stores[i] \in get.after)
          BY <4>1, <4>3 DEF Current
        <5>2. \A i \in DOMAIN stores' : ~(/\ detailPosts'[stores'[i]].id = get.id
                                          /\ stores'[i] \in get.after)
          BY <3>3, <3>7, <4>1, <4>2, <5>1
        <5> QED
          BY <3>1, <4>3, <5>2 DEF Current, StoredUnder
      <4>4. CASE get.product # NoProduct
        <5>1. PICK i \in DOMAIN stores :
                 /\ StoredUnder(i, get.id)
                 /\ detailPosts[stores[i]].product = get.product
                 /\ \A j \in DOMAIN stores :
                       StoredUnder(j, get.id) /\ stores[j] \in get.after => j <= i
          BY <4>1, <4>4 DEF Current
        <5>2. WithinLimits(get.product, get.id)
          BY <4>1, <4>4 DEF Current
        <5>3. /\ i \in DOMAIN stores'
              /\ detailPosts'[stores'[i]].id = get.id
              /\ detailPosts'[stores'[i]].product = get.product
              /\ \A j \in DOMAIN stores' :
                    /\ detailPosts'[stores'[j]].id = get.id
                    /\ stores'[j] \in get.after
                    => j <= i
          BY <3>3, <3>7, <4>1, <4>2, <5>1
        <5> QED
          BY <3>1, <4>4, <5>2, <5>3 DEF Current, StoredUnder, WithinLimits
      <4> QED
        BY <4>3, <4>4
    <3> QED
      BY <3>1, <3>5, <3>6, <3>8, <3>9, <3>10 DEF APIInv, AnswersCurrent
  <2>4. ASSUME NEW g \in ProductGets, NEW x \in GetState,
               productGets' = [productGets EXCEPT ![g] = x],
               UNCHANGED <<products, detailPosts, stores>>,
               x.phase # "new" => \A q \in x.after : detailPosts[q].phase = "204",
               x.phase = "answered" =>
                  IF x.product = NoProduct
                  THEN \A i \in DOMAIN stores :
                          ~(StoredUnder(i, x.id) /\ stores[i] \in x.after)
                  ELSE /\ WithinLimits(x.product, x.id)
                       /\ \E i \in DOMAIN stores :
                             /\ StoredUnder(i, x.id)
                             /\ detailPosts[stores[i]].product = x.product
                             /\ \A j \in DOMAIN stores :
                                   StoredUnder(j, x.id) /\ stores[j] \in x.after
                                   => j <= i
        PROVE  APIInv'
    <3>1. /\ productGets' \in [ProductGets -> GetState] /\ productGets'[g] = x
          /\ \A h \in ProductGets \ {g} : productGets'[h] = productGets[h]
      BY <2>0, <2>4 DEF APITyped
    <3>2. detailPosts' \in [DetailPosts -> PostState]
      BY <2>0, <2>4 DEF APITyped
    <3>3. /\ APITyped' /\ PostsValid' /\ MapIsLast'
          /\ \A h \in ProductGets \ {g} :
                /\ productGets'[h].phase # "new" =>
                      \A q \in productGets'[h].after : detailPosts'[q].phase = "204"
                /\ productGets'[h].phase = "answered" => Current(h)'
      BY <2>0, <2>4, <3>1, <3>2, StoresKept DEF PostsValid
    <3>4. x.phase = "answered" => Current(g)'
      BY <2>4, <3>1 DEF Current, StoredUnder, WithinLimits
    <3>5. AfterAnswered' /\ AnswersCurrent'
      BY <2>4, <3>1, <3>3, <3>4 DEF AfterAnswered, AnswersCurrent
    <3> QED
      BY <3>3, <3>5 DEF APIInv
  <2>5. ASSUME NEW g \in ProductGets, NEW id \in ProductIds, GetArrives(g, id)
        PROVE  APIInv'
    <3> DEFINE x == [phase |-> "arrived", id |-> id,
                     after |-> {p \in DetailPosts : detailPosts[p].phase = "204"}]
    <3>1. x \in GetState
      BY DEF GetState
    <3>2. x.phase = "arrived" /\ \A q \in x.after : detailPosts[q].phase = "204"
      OBVIOUS
    <3>3. /\ productGets' = [productGets EXCEPT ![g] = x]
          /\ UNCHANGED <<products, detailPosts, stores>>
      BY <2>5 DEF GetArrives
    <3> HIDE DEF x
    <3> QED
      BY <2>4, <3>1, <3>2, <3>3
  <2>6. ASSUME NEW g \in ProductGets, GetLock(g) PROVE APIInv'
    <3> DEFINE x == [productGets[g] EXCEPT !.phase = "locked"]
    <3>1. productGets[g].phase = "arrived"
          /\ productGets' = [productGets EXCEPT ![g] = x]
          /\ UNCHANGED <<products, detailPosts, stores>>
      BY <2>6 DEF GetLock
    <3>2. productGets[g] \in [phase : {"arrived", "locked"}, id : ProductIds,
                              after : SUBSET DetailPosts]
      BY <2>0, <3>1 DEF APITyped, GetState
    <3>3. /\ x \in [phase : {"arrived", "locked"}, id : ProductIds,
                    after : SUBSET DetailPosts]
          /\ x.phase = "locked" /\ x.after = productGets[g].after
      BY <3>2
    <3> HIDE DEF x
    <3>4. x \in GetState
      BY <3>3 DEF GetState
    <3>5. \A q \in x.after : detailPosts[q].phase = "204"
      BY <2>0, <3>1, <3>3 DEF AfterAnswered
    <3> QED
      BY <2>4, <3>1, <3>3, <3>4, <3>5
  <2>7. ASSUME NEW g \in ProductGets, GetAnswers(g) PROVE APIInv'
    <3> DEFINE get == productGets[g]
               x == [phase |-> "answered", id |-> get.id, after |-> get.after,
                     product |-> products[get.id]]
    <3>1. get.phase = "locked"
          /\ productGets' = [productGets EXCEPT ![g] = x]
          /\ UNCHANGED <<products, detailPosts, stores>>
      BY <2>7 DEF GetAnswers
    <3>2. get.id \in ProductIds /\ get.after \in SUBSET DetailPosts
      BY <2>0, <3>1 DEF APITyped, GetState
    <3>3. x \in GetState
      BY <2>0, <3>2 DEF APITyped, GetState
    <3>4. x.phase = "answered" /\ x.id = get.id /\ x.after = get.after
          /\ x.product = products[get.id]
      OBVIOUS
    <3> HIDE DEF x
    <3>5. \A q \in x.after : detailPosts[q].phase = "204"
      BY <2>0, <3>1, <3>4 DEF AfterAnswered
    <3>6. CASE products[get.id] = NoProduct
               /\ \A i \in DOMAIN stores : ~StoredUnder(i, get.id)
      BY <2>4, <3>1, <3>3, <3>4, <3>5, <3>6
    <3>7. ASSUME NEW i \in DOMAIN stores, LastUnder(get.id, i),
                 products[get.id] = detailPosts[stores[i]].product
          PROVE  APIInv'
      <4>1. /\ stores[i] \in DetailPosts /\ detailPosts[stores[i]].phase \in Accepted
            /\ detailPosts[stores[i]].id = get.id
        BY <2>0, <3>7 DEF APITyped, PostsValid, Accepted, LastUnder, StoredUnder
      <4>2. WithinLimits(x.product, x.id)
        BY <2>0, <3>4, <3>7, <4>1 DEF PostsValid
      <4>3. x.product # NoProduct
        BY <4>2, NoProductIsNone DEF WithinLimits
      <4>4. /\ StoredUnder(i, x.id) /\ detailPosts[stores[i]].product = x.product
            /\ \A j \in DOMAIN stores :
                  StoredUnder(j, x.id) /\ stores[j] \in x.after => j <= i
        BY <3>4, <3>7 DEF LastUnder
      <4> QED
        BY <2>4, <3>1, <3>3, <3>4, <3>5, <4>2, <4>3, <4>4
    <3> QED
      BY <2>0, <3>2, <3>6, <3>7 DEF MapIsLast
  <2>8. CASE UNCHANGED productAPI
    <3>1. UNCHANGED <<products, detailPosts, productGets, stores>>
      BY <2>8 DEF productAPI
    <3>2. /\ APITyped' /\ PostsValid' /\ MapIsLast'
          /\ \A g \in ProductGets :
                /\ productGets'[g].phase # "new" =>
                      \A q \in productGets'[g].after : detailPosts'[q].phase = "204"
                /\ productGets'[g].phase = "answered" => Current(g)'
      BY <2>0, <3>1, StoresKept DEF APITyped, PostsValid
    <3> QED
      BY <3>2 DEF APIInv, AfterAnswered, AnswersCurrent
  <2> QED
    BY <2>1, <2>2, <2>3, <2>5, <2>6, <2>7, <2>8 DEF APINext
<1>3. APIInv => AnswersCurrentProduct
  <2> SUFFICES ASSUME APIInv, NEW g \in ProductGets, productGets[g].phase = "answered"
               PROVE  LET get == productGets[g]
                          before == {i \in DOMAIN stores :
                                       /\ detailPosts[stores[i]].id = get.id
                                       /\ stores[i] \in get.after}
                          source == {i \in DOMAIN stores :
                                       /\ detailPosts[stores[i]].id = get.id
                                       /\ detailPosts[stores[i]].product = get.product}
                      IN  IF get.product = NoProduct
                          THEN before = {}
                          ELSE /\ get.product.product_id = get.id
                               /\ get.product.sku \in 1..100
                               /\ get.product.manufacturer \in 1..200
                               /\ get.product.category_id > 0
                               /\ get.product.weight >= 0
                               /\ get.product.some_other_id > 0
                               /\ \E i \in source : \A j \in before : j <= i
    BY DEF AnswersCurrentProduct
  <2>1. Current(g)
    BY DEF APIInv, AnswersCurrent
  <2> QED
    BY <2>1 DEF Current, StoredUnder, WithinLimits
<1> QED
  BY <1>1, <1>2, <1>3, PTL DEF APISpec

-----------------------------------------------------------------------------
(* The MapReduce pipeline *)

(* Counts over the words of any text. *)
Tallies == UNION {[S -> Nat] : S \in SUBSET UNION {DOMAIN Counts(t) : t \in Seq(Bytes)}}

RunState ==
    [phase : {"new", "split", "map", "reduce", "done", "aborted"},
     step : 0..2, text : Seq(Bytes), content : Seq(Bytes), sum : Tallies,
     failed : BOOLEAN, short : BOOLEAN]

MRTyped ==
    /\ DOMAIN chunk \subseteq Parts
    /\ \A i \in DOMAIN chunk : chunk[i] \in Seq(Bytes)
    /\ DOMAIN mapped \subseteq Parts
    /\ \A i \in DOMAIN mapped : mapped[i] \in Tallies
    /\ runs \in [Runs -> RunState]

(* The driver is started again only when its last run has ended: nobody    *)
(* else writes to the bucket meanwhile.                                    *)
OneActive == \A r, q \in Runs : Active(r) /\ Active(q) => r = q

(* The first n chunks in the bucket are of the text, and the first n       *)
(* results are the counts of its chunks.                                   *)
Uploaded(t, n) ==
    \A i \in Parts : i < n => i \in DOMAIN chunk /\ chunk[i] = Chunk(t, i)

Counted(t, n) ==
    \A i \in Parts : i < n => i \in DOMAIN mapped /\ mapped[i] = Counts(Chunk(t, i))

(* What the reducer has added up after n results. *)
SumOf(t, n) ==
    IF n = 0 THEN NoCounts
    ELSE IF n = 1 THEN Counts(Chunk(t, 0))
    ELSE IF n = 2 THEN Merge(Counts(Chunk(t, 0)), Counts(Chunk(t, 1)))
    ELSE Merge(Merge(Counts(Chunk(t, 0)), Counts(Chunk(t, 1))), Counts(Chunk(t, 2)))

(* What a run whose mappers succeeded on whole bodies has done so far. *)
OnItsWay(r) ==
    /\ runs[r].phase = "new" => runs[r].step = 0
    /\ runs[r].phase \in {"new", "split", "map"} => runs[r].sum = NoCounts
    /\ ~runs[r].short =>
          /\ runs[r].phase # "new" => runs[r].content = runs[r].text
          /\ runs[r].phase = "split" => Uploaded(runs[r].text, runs[r].step)
          /\ runs[r].phase = "map" => Uploaded(runs[r].text, 3)
    /\ ~runs[r].short /\ ~runs[r].failed =>
          /\ runs[r].phase = "map" => Counted(runs[r].text, runs[r].step)
          /\ runs[r].phase = "reduce" =>
                /\ Counted(runs[r].text, 3)
                /\ runs[r].sum = SumOf(runs[r].text, runs[r].step)
          /\ runs[r].phase = "done" => runs[r].sum = SumOf(runs[r].text, 3)

MRInv == MRTyped /\ OneActive /\ \A r \in Runs : OnItsWay(r)

(* A chunk of a text is a text. *)
LEMMA ChunkText ==
    ASSUME NEW t \in Seq(Bytes), NEW i \in Parts
    PROVE  Chunk(t, i) \in Seq(Bytes)
BY DEF Chunk, Parts

(* So is what arrives of an object's body. *)
LEMMA ArrivingText ==
    ASSUME NEW r, NEW body \in Seq(Bytes), NEW content \in Arrives(r, body)
    PROVE  content \in Seq(Bytes)
BY DEF Arrives

(* A text's counts are one number for each of its words. *)
LEMMA CountsTally ==
    ASSUME NEW t \in Seq(Bytes)
    PROVE  Counts(t) \in Tallies
<1> DEFINE words == {WordAt(t, f) : f \in Fields(t)} \ {<<>>}
           Of(w) == {f \in Fields(t) : WordAt(t, f) = w}
<1>1. IsFiniteSet(Fields(t))
  <2>1. IsFiniteSet(1..Len(t))
    BY FS_Interval
  <2>2. IsFiniteSet((1..Len(t)) \X (1..Len(t)))
    BY <2>1, FS_Product
  <2>3. Fields(t) \subseteq (1..Len(t)) \X (1..Len(t))
    BY DEF Fields
  <2> QED
    BY <2>2, <2>3, FS_Subset
<1>2. ASSUME NEW w PROVE Cardinality(Of(w)) \in Nat
  <2>1. IsFiniteSet(Of(w))
    BY <1>1, FS_Subset
  <2> QED
    BY <2>1, FS_CardinalityType
<1>3. Counts(t) = [w \in words |-> Cardinality(Of(w))]
  BY DEF Counts
<1> HIDE DEF words, Of
<1>4. DOMAIN Counts(t) = words /\ Counts(t) \in [words -> Nat]
  BY <1>2, <1>3
<1> QED
  BY <1>4 DEF Tallies

(* The reducer's sum of two tallies is one. *)
LEMMA MergeTally ==
    ASSUME NEW c \in Tallies, NEW d \in Tallies
    PROVE  Merge(c, d) \in Tallies
<1> DEFINE all == UNION {DOMAIN Counts(t) : t \in Seq(Bytes)}
<1> HIDE DEF all
<1>1. /\ DOMAIN c \subseteq all /\ DOMAIN d \subseteq all
      /\ c \in [DOMAIN c -> Nat] /\ d \in [DOMAIN d -> Nat]
  <2>1. Tallies = UNION {[S -> Nat] : S \in SUBSET all}
    BY DEF Tallies, all
  <2> QED
    BY <2>1
<1> DEFINE S == DOMAIN c \cup DOMAIN d
<1>2. S \in SUBSET all
  BY <1>1
<1>3. Merge(c, d) \in [S -> Nat]
  BY <1>1 DEF Merge, Count
<1> HIDE DEF S
<1> QED
  BY <1>2, <1>3 DEF Tallies, all

(* Adding to the empty map the reducer starts with changes nothing. *)
LEMMA MergeFirst ==
    ASSUME NEW c \in Tallies
    PROVE  Merge(NoCounts, c) = c /\ NoCounts \in Tallies
<1> DEFINE all == UNION {DOMAIN Counts(t) : t \in Seq(Bytes)}
<1> HIDE DEF all
<1>1. Tallies = UNION {[S -> Nat] : S \in SUBSET all}
  BY DEF Tallies, all
<1>2. c \in [DOMAIN c -> Nat]
  BY <1>1
<1>3. DOMAIN NoCounts = {} /\ NoCounts \in [{} -> Nat]
  BY DEF NoCounts
<1>4. Merge(NoCounts, c) = [w \in DOMAIN c |-> c[w]]
  BY <1>2, <1>3 DEF Merge, Count
<1> QED
  BY <1>1, <1>2, <1>3, <1>4

(* What is left to show of a step of run r once its new state is known.    *)
LEMMA RunStep ==
    ASSUME MRInv, NEW r \in Runs, NEW x \in RunState,
           runs' = [runs EXCEPT ![r] = x],
           x.phase # "new",
           Active(r) \/ \A q \in Runs : ~Active(q),
           DOMAIN chunk' \subseteq Parts,
           \A i \in DOMAIN chunk' : chunk'[i] \in Seq(Bytes),
           DOMAIN mapped' \subseteq Parts,
           \A i \in DOMAIN mapped' : mapped'[i] \in Tallies,
           OnItsWay(r)'
    PROVE  MRInv'
<1>1. /\ runs' \in [Runs -> RunState] /\ runs'[r] = x
      /\ \A q \in Runs \ {r} : runs'[q] = runs[q]
  BY DEF MRInv, MRTyped
<1>2. MRTyped'
  BY <1>1 DEF MRTyped
<1>3. \A q \in Runs \ {r} : ~Active(q) /\ ~Active(q)'
  BY <1>1 DEF MRInv, OneActive, Active
<1>4. OneActive'
  BY <1>3 DEF OneActive
<1>5. ASSUME NEW q \in Runs \ {r} PROVE OnItsWay(q)'
  <2>1. OnItsWay(q) /\ runs'[q] = runs[q] /\ runs[q].phase \notin {"split", "map", "reduce"}
    <3>1. OnItsWay(q)
      BY DEF MRInv
    <3>2. runs[q].phase \notin {"split", "map", "reduce"}
      BY <1>3 DEF Active
    <3> QED
      BY <1>1, <3>1, <3>2
  <2> QED
    BY <2>1 DEF OnItsWay
<1> QED
  BY <1>2, <1>4, <1>5 DEF MRInv

(* The invariant holds in every reachable state. *)
LEMMA MRInvariant == Spec => []MRInv
<1> USE DEF Parts
<1>1. Init => MRInv
  <2> SUFFICES ASSUME Init PROVE MRInv
    OBVIOUS
  <2>1. NoCounts \in Tallies
    BY DEF Tallies, NoCounts
  <2>2. <<>> \in Seq(Bytes)
    OBVIOUS
  <2>3. MRTyped
    BY <2>1, <2>2 DEF Init, MRTyped, RunState
  <2>4. \A r \in Runs : /\ runs[r].phase = "new" /\ runs[r].step = 0
                        /\ runs[r].sum = NoCounts
    BY DEF Init
  <2> QED
    BY <2>3, <2>4 DEF MRInv, OneActive, Active, OnItsWay
<1>2. MRInv /\ [Next]_vars => MRInv'
  <2> SUFFICES ASSUME MRInv, [Next]_vars PROVE MRInv'
    OBVIOUS
  <2>0. /\ MRTyped /\ OneActive /\ \A q \in Runs : runs[q] \in RunState /\ OnItsWay(q)
    BY DEF MRInv, MRTyped
  <2>1. ASSUME NEW r \in Runs, NEW t \in Texts[r], Begin(r, t) PROVE MRInv'
    <3>1. t \in Seq(Bytes)
      BY RunAssumption
    <3>2. PICK content \in Arrives(r, t) :
             runs' = [runs EXCEPT ![r].phase = "split", ![r].text = t,
                                  ![r].content = content,
                                  ![r].short = content # t]
      BY <2>1 DEF Begin
    <3>3. content \in Seq(Bytes)
      BY <3>1, ArrivingText
    <3> DEFINE x == [runs[r] EXCEPT !.phase = "split", !.text = t,
                                    !.content = content, !.short = content # t]
    <3>4. /\ x \in RunState /\ x.phase = "split" /\ x.text = t /\ x.content = content
          /\ x.short = (content # t) /\ x.step = runs[r].step /\ x.sum = runs[r].sum
      BY <2>0, <3>1, <3>3 DEF RunState
    <3>5. runs' = [runs EXCEPT ![r] = x]
      BY <3>2
    <3> HIDE DEF x
    <3>6. runs'[r] = x
      BY <2>0, <3>5 DEF MRTyped
    <3>7. /\ runs[r].phase = "new" /\ \A q \in Runs : ~Active(q)
          /\ UNCHANGED <<chunk, mapped>>
      BY <2>1 DEF Begin
    <3>8. x.step = 0 /\ x.sum = NoCounts
      BY <2>0, <3>4, <3>7 DEF OnItsWay
    <3>9. OnItsWay(r)'
      <4>1. \A j \in Parts : ~(j < x.step)
        BY <3>8
      <4>2. ~x.short => x.content = x.text
        BY <3>4
      <4> QED
        BY <3>4, <3>6, <3>8, <4>1, <4>2 DEF OnItsWay, Uploaded
    <3> QED
      BY <2>0, <3>4, <3>5, <3>7, <3>9, RunStep DEF MRTyped
  <2>2. ASSUME NEW r \in Runs, Split(r) PROVE MRInv'
    <3> DEFINE i == runs[r].step
               n == IF i = 2 THEN 0 ELSE i + 1
               p == IF i = 2 THEN "map" ELSE "split"
               x == [runs[r] EXCEPT !.step = n, !.phase = p]
    <3>1. /\ runs[r].phase = "split" /\ i \in 0..2 /\ Active(r)
          /\ runs[r].content \in Seq(Bytes) /\ runs[r] \in RunState
      BY <2>0, <2>2 DEF Split, Active, RunState
    <3>2. n \in 0..2 /\ p \in {"split", "map"}
      BY <3>1
    <3>3. runs' = [runs EXCEPT ![r] = x]
      <4>1. [runs[r] EXCEPT !.short = runs[r].short] = runs[r]
        BY <3>1 DEF RunState
      <4> QED
        BY <2>2, <3>1, <4>1 DEF Split, Advance
    <3>4. /\ chunk' = PutObject(chunk, i, Chunk(runs[r].content, i))
          /\ mapped' = mapped
      BY <2>2 DEF Split
    <3> HIDE DEF n, p
    <3>5. /\ x \in RunState /\ x.text = runs[r].text /\ x.content = runs[r].content
          /\ x.short = runs[r].short /\ x.failed = runs[r].failed
          /\ x.sum = runs[r].sum /\ x.step = n /\ x.phase = p
      BY <3>1, <3>2 DEF RunState
    <3> HIDE DEF x, i
    <3>6. /\ DOMAIN chunk' = DOMAIN chunk \cup {i}
          /\ chunk'[i] = Chunk(runs[r].content, i)
          /\ \A j \in DOMAIN chunk \ {i} : chunk'[j] = chunk[j]
      BY <3>4 DEF PutObject
    <3>7. Chunk(runs[r].content, i) \in Seq(Bytes)
      BY <3>1, ChunkText
    <3>8. /\ DOMAIN chunk' \subseteq Parts /\ DOMAIN mapped' \subseteq Parts
          /\ \A j \in DOMAIN chunk' : chunk'[j] \in Seq(Bytes)
          /\ \A j \in DOMAIN mapped' : mapped'[j] \in Tallies
      BY <2>0, <3>1, <3>4, <3>6, <3>7 DEF MRTyped
    <3>9. ASSUME ~runs[r].short
          PROVE  \A j \in Parts : j <= i =>
                    j \in DOMAIN chunk' /\ chunk'[j] = Chunk(runs[r].text, j)
      <4>1. runs[r].content = runs[r].text /\ Uploaded(runs[r].text, i)
        BY <2>0, <3>1, <3>9 DEF OnItsWay, i
      <4> QED
        BY <3>1, <3>6, <4>1 DEF Uploaded
    <3>10. OnItsWay(r)'
      <4>1. /\ runs'[r] = x /\ x.sum = NoCounts
            /\ ~x.short => x.content = x.text
        BY <2>0, <3>1, <3>3, <3>5 DEF MRTyped, OnItsWay
      <4>2. CASE i = 2
        BY <3>2, <3>5, <3>9, <4>1, <4>2 DEF OnItsWay, Uploaded, Counted, n, p
      <4>3. CASE i # 2
        BY <3>1, <3>2, <3>5, <3>9, <4>1, <4>3 DEF OnItsWay, Uploaded, Counted, n, p
      <4> QED
        BY <4>2, <4>3
    <3>11. x.phase # "new"
      BY <3>2, <3>5
    <3> QED
      BY <3>1, <3>3, <3>5, <3>8, <3>10, <3>11, RunStep
  <2>3. ASSUME NEW r \in Runs, Map(r) PROVE MRInv'
    <3> DEFINE i == runs[r].step
               n == IF i = 2 THEN 0 ELSE i + 1
               p == IF i = 2 THEN "reduce" ELSE "map"
    <3>1. /\ runs[r].phase = "map" /\ i \in 0..2 /\ Active(r)
          /\ runs[r] \in RunState
          /\ i \in DOMAIN chunk /\ chunk[i] \in Seq(Bytes)
      BY <2>0, <2>3 DEF Map, Active, RunState, MRTyped
    <3>2. n \in 0..2 /\ p \in {"map", "reduce"}
      BY <3>1
    <3>3. PICK content \in Arrives(r, chunk[i]) :
             /\ mapped' = PutObject(mapped, i, Counts(content))
             /\ Advance(r, "reduce", runs[r].short \/ content # chunk[i])
      BY <2>3 DEF Map
    <3> DEFINE b == runs[r].short \/ content # chunk[i]
               x == [runs[r] EXCEPT !.step = n, !.phase = p, !.short = b]
    <3>4. runs' = [runs EXCEPT ![r] = x]
      BY <3>1, <3>3 DEF Advance
    <3> HIDE DEF n, p
    <3>5. /\ x \in RunState /\ x.text = runs[r].text /\ x.content = runs[r].content
          /\ x.short = b /\ x.failed = runs[r].failed
          /\ x.sum = runs[r].sum /\ x.step = n /\ x.phase = p
      <4>1. b \in BOOLEAN
        BY <3>1 DEF RunState
      <4> HIDE DEF b
      <4> QED
        BY <3>1, <3>2, <4>1 DEF RunState
    <3>6. ~x.short => ~runs[r].short /\ content = chunk[i]
      BY <3>5
    <3> HIDE DEF x, i
    <3>7. /\ DOMAIN mapped' = DOMAIN mapped \cup {i}
          /\ mapped'[i] = Counts(content)
          /\ \A j \in DOMAIN mapped \ {i} : mapped'[j] = mapped[j]
          /\ chunk' = chunk
      BY <2>3, <3>3 DEF PutObject, Map
    <3>8. Counts(content) \in Tallies
      BY <3>1, ArrivingText, CountsTally
    <3>9. /\ DOMAIN chunk' \subseteq Parts /\ DOMAIN mapped' \subseteq Parts
          /\ \A j \in DOMAIN chunk' : chunk'[j] \in Seq(Bytes)
          /\ \A j \in DOMAIN mapped' : mapped'[j] \in Tallies
      BY <2>0, <3>1, <3>7, <3>8 DEF MRTyped
    <3>10. ASSUME ~x.short
           PROVE  /\ x.content = x.text /\ Uploaded(x.text, 3)
                  /\ ~x.failed =>
                        \A j \in Parts : j <= i =>
                           j \in DOMAIN mapped' /\ mapped'[j] = Counts(Chunk(x.text, j))
      <4>1. /\ runs[r].content = runs[r].text /\ Uploaded(runs[r].text, 3)
            /\ ~runs[r].failed => Counted(runs[r].text, i)
        BY <2>0, <3>1, <3>6, <3>10 DEF OnItsWay, i
      <4>2. content = Chunk(runs[r].text, i)
        BY <3>1, <3>6, <3>10, <4>1 DEF Uploaded
      <4> QED
        BY <3>1, <3>5, <3>7, <4>1, <4>2 DEF Counted
    <3>11. OnItsWay(r)'
      <4>1. /\ runs'[r] = x /\ x.sum = NoCounts
        BY <2>0, <3>1, <3>4, <3>5 DEF MRTyped, OnItsWay
      <4>2. CASE i = 2
        BY <3>2, <3>5, <3>7, <3>10, <4>1, <4>2 DEF OnItsWay, Uploaded, Counted, SumOf, n, p
      <4>3. CASE i # 2
        BY <3>1, <3>2, <3>5, <3>7, <3>10, <4>1, <4>3 DEF OnItsWay, Uploaded, Counted, n, p
      <4> QED
        BY <4>2, <4>3
    <3>12. x.phase # "new"
      BY <3>2, <3>5
    <3> QED
      BY <3>1, <3>4, <3>5, <3>9, <3>11, <3>12, RunStep
  <2>4. ASSUME NEW r \in Runs, MapFails(r) PROVE MRInv'
    <3> DEFINE i == runs[r].step
               n == IF i = 2 THEN 0 ELSE i + 1
               p == IF i = 2 THEN "reduce" ELSE "map"
               x == [runs[r] EXCEPT !.step = n, !.phase = p, !.failed = TRUE]
    <3>1. /\ runs[r].phase = "map" /\ i \in 0..2 /\ Active(r)
          /\ runs[r] \in RunState /\ chunk' = chunk
      BY <2>0, <2>4 DEF MapFails, Active, RunState
    <3>2. n \in 0..2 /\ p \in {"map", "reduce"}
      BY <3>1
    <3>3. runs' = [runs EXCEPT ![r] = x]
      BY <2>4, <3>1 DEF MapFails
    <3> HIDE DEF n, p
    <3>4. /\ x \in RunState /\ x.text = runs[r].text /\ x.content = runs[r].content
          /\ x.short = runs[r].short /\ x.failed
          /\ x.sum = runs[r].sum /\ x.step = n /\ x.phase = p
      BY <3>1, <3>2 DEF RunState
    <3>5. DOMAIN mapped' \subseteq Parts /\ \A j \in DOMAIN mapped' : mapped'[j] \in Tallies
      <4>1. mapped' \in {mapped} \cup
               {PutObject(mapped, j, Counts(chunk[j])) : j \in {i} \cap DOMAIN chunk}
        BY <2>4 DEF MapFails
      <4>2. CASE mapped' = mapped
        BY <2>0, <4>2 DEF MRTyped
      <4>3. ASSUME i \in DOMAIN chunk, mapped' = PutObject(mapped, i, Counts(chunk[i]))
            PROVE  /\ DOMAIN mapped' \subseteq Parts
                   /\ \A j \in DOMAIN mapped' : mapped'[j] \in Tallies
        <5>1. Counts(chunk[i]) \in Tallies
          BY <2>0, <4>3, CountsTally DEF MRTyped
        <5> QED
          BY <2>0, <3>1, <4>3, <5>1 DEF MRTyped, PutObject
      <4> QED
        BY <4>1, <4>2, <4>3
    <3>6. OnItsWay(r)'
      <4>1. /\ runs'[r] = x /\ x.sum = NoCounts
            /\ ~x.short => x.content = x.text /\ Uploaded(x.text, 3)
        BY <2>0, <3>1, <3>3, <3>4 DEF MRTyped, OnItsWay
      <4> HIDE DEF x
      <4>2. Uploaded(x.text, 3) => \A j \in Parts : j \in DOMAIN chunk' /\ chunk'[j] = Chunk(x.text, j)
        BY <3>1 DEF Uploaded
      <4> QED
        BY <3>1, <3>2, <3>4, <4>1, <4>2 DEF OnItsWay, Uploaded
    <3>7. x.phase # "new"
      BY <3>2, <3>4
    <3> HIDE DEF x
    <3> QED
      BY <2>0, <3>1, <3>3, <3>4, <3>5, <3>6, <3>7, RunStep DEF MRTyped
  <2>5. ASSUME NEW r \in Runs, SplitFails(r) PROVE MRInv'
    <3> DEFINE i == runs[r].step
               x == [runs[r] EXCEPT !.phase = "aborted"]
    <3>1. /\ runs[r].phase = "split" /\ i \in 0..2 /\ Active(r)
          /\ runs[r] \in RunState /\ runs[r].content \in Seq(Bytes)
          /\ mapped' = mapped /\ runs' = [runs EXCEPT ![r] = x]
      BY <2>0, <2>5 DEF SplitFails, Active, RunState
    <3>2. /\ x \in RunState /\ x.phase = "aborted" /\ x.text = runs[r].text
          /\ x.content = runs[r].content /\ x.short = runs[r].short
      BY <3>1 DEF RunState
    <3>3. DOMAIN chunk' \subseteq Parts /\ \A j \in DOMAIN chunk' : chunk'[j] \in Seq(Bytes)
      <4>1. chunk' \in {chunk, PutObject(chunk, i, Chunk(runs[r].content, i))}
        BY <2>5 DEF SplitFails
      <4>2. Chunk(runs[r].content, i) \in Seq(Bytes)
        BY <3>1, ChunkText
      <4> QED
        BY <2>0, <3>1, <4>1, <4>2 DEF MRTyped, PutObject
    <3>4. OnItsWay(r)'
      <4>1. /\ runs'[r] = x
            /\ ~x.short => x.content = x.text
        BY <2>0, <3>1, <3>2 DEF MRTyped, OnItsWay
      <4> QED
        BY <3>2, <4>1 DEF OnItsWay
    <3> HIDE DEF x
    <3> QED
      BY <2>0, <3>1, <3>2, <3>3, <3>4, RunStep DEF MRTyped
  <2>6. ASSUME NEW r \in Runs, Reduce(r) PROVE MRInv'
    <3> DEFINE i == runs[r].step
               n == IF i = 2 THEN 0 ELSE i + 1
               p == IF i = 2 THEN "done" ELSE "reduce"
               sum == Merge(runs[r].sum, mapped[i])
               x == [runs[r] EXCEPT !.sum = sum, !.step = n, !.phase = p]
    <3>1. /\ runs[r].phase = "reduce" /\ i \in 0..2 /\ Active(r)
          /\ runs[r] \in RunState /\ runs[r].sum \in Tallies
          /\ i \in DOMAIN mapped /\ mapped[i] \in Tallies
          /\ UNCHANGED <<chunk, mapped>>
      BY <2>0, <2>6 DEF Reduce, Active, RunState, MRTyped
    <3>2. n \in 0..2 /\ p \in {"reduce", "done"} /\ sum \in Tallies
      BY <3>1, MergeTally
    <3>3. runs' = [runs EXCEPT ![r] = x]
      BY <2>6, <3>1 DEF Reduce
    <3> HIDE DEF n, p, sum
    <3>4. /\ x \in RunState /\ x.text = runs[r].text /\ x.content = runs[r].content
          /\ x.short = runs[r].short /\ x.failed = runs[r].failed
          /\ x.sum = sum /\ x.step = n /\ x.phase = p
      BY <3>1, <3>2 DEF RunState
    <3> HIDE DEF x, i
    <3>5. ASSUME ~x.short, ~x.failed
          PROVE  Counted(x.text, 3) /\ sum = SumOf(x.text, i + 1)
      <4>1. Counted(x.text, 3) /\ runs[r].sum = SumOf(x.text, i)
        BY <2>0, <3>1, <3>4, <3>5 DEF OnItsWay, i
      <4>2. mapped[i] = Counts(Chunk(x.text, i))
        BY <3>1, <4>1 DEF Counted
      <4>3. CASE i = 0
        BY <3>1, <4>1, <4>2, <4>3, MergeFirst DEF SumOf, sum
      <4>4. CASE i = 1
        BY <4>1, <4>2, <4>4 DEF SumOf, sum
      <4>5. CASE i = 2
        BY <4>1, <4>2, <4>5 DEF SumOf, sum
      <4> QED
        BY <3>1, <4>1, <4>3, <4>4, <4>5
    <3>6. OnItsWay(r)'
      <4>1. /\ runs'[r] = x
            /\ ~x.short => x.content = x.text
        BY <2>0, <3>1, <3>3, <3>4 DEF MRTyped, OnItsWay
      <4>2. Counted(x.text, 3) => \A j \in Parts :
               j \in DOMAIN mapped' /\ mapped'[j] = Counts(Chunk(x.text, j))
        BY <3>1 DEF Counted
      <4>3. CASE i = 2
        BY <3>2, <3>4, <3>5, <4>1, <4>3 DEF OnItsWay, n, p
      <4>4. CASE i # 2
        BY <3>1, <3>2, <3>4, <3>5, <4>1, <4>2, <4>4 DEF OnItsWay, Counted, n, p
      <4> QED
        BY <4>3, <4>4
    <3>7. x.phase # "new"
      BY <3>2, <3>4
    <3> QED
      BY <2>0, <3>1, <3>3, <3>4, <3>6, <3>7, RunStep DEF MRTyped
  <2>7. ASSUME NEW r \in Runs, ReduceFails(r) PROVE MRInv'
    <3> DEFINE x == [runs[r] EXCEPT !.phase = "aborted"]
    <3>1. /\ runs[r].phase = "reduce" /\ Active(r) /\ runs[r] \in RunState
          /\ UNCHANGED <<chunk, mapped>> /\ runs' = [runs EXCEPT ![r] = x]
      BY <2>0, <2>7 DEF ReduceFails, Active
    <3>2. /\ x \in RunState /\ x.phase = "aborted" /\ x.text = runs[r].text
          /\ x.content = runs[r].content /\ x.short = runs[r].short
      BY <3>1 DEF RunState
    <3>3. OnItsWay(r)'
      <4>1. /\ runs'[r] = x
            /\ ~x.short => x.content = x.text
        BY <2>0, <3>1, <3>2 DEF MRTyped, OnItsWay
      <4> QED
        BY <3>2, <4>1 DEF OnItsWay
    <3> HIDE DEF x
    <3> QED
      BY <2>0, <3>1, <3>2, <3>3, RunStep DEF MRTyped
  <2>8. CASE UNCHANGED vars
    BY <2>0, <2>8 DEF vars, MRInv, MRTyped, OneActive, Active, OnItsWay, Uploaded, Counted
  <2> QED
    BY <2>1, <2>2, <2>3, <2>4, <2>5, <2>6, <2>7, <2>8 DEF Next
<1> QED
  BY <1>1, <1>2, PTL DEF Spec

(* A run whose mappers all succeeded on whole bodies returns the counts of *)
(* its own three chunks (splitHandler, mapHandler, reduceHandler), for any *)
(* texts and any number of earlier runs of the driver, whatever those left *)
(* in the bucket and wherever they failed.                                 *)
THEOREM ReturnsOwnCounts == Spec => []ReducedOwnChunks
<1>1. MRInv => ReducedOwnChunks
  BY DEF MRInv, OnItsWay, SumOf, ReducedOwnChunks
<1> QED
  BY <1>1, MRInvariant, PTL

-----------------------------------------------------------------------------
(* Texts cut in three: their fields, words and counts *)

(* A nonempty set of numbers has a least one. *)
LEMMA LeastNumber ==
    ASSUME NEW S \in SUBSET Nat, S # {}
    PROVE  \E n \in S : \A m \in S : n <= m
<1> DEFINE R == OpToRel(<, Nat)
<1>1. IsWellFoundedOn(R, Nat)
  BY NatLessThanWellFounded, Zenon
<1>2. \A m, n \in Nat : m < n => <<m, n>> \in R
  BY DEF OpToRel
<1> HIDE DEF R
<1>3. PICK n \in S : \A m \in S : ~(<<m, n>> \in R)
  BY <1>1, WFMin
<1>4. \A m \in S : ~(m < n) /\ m \in Nat /\ n \in Nat
  BY <1>2, <1>3
<1> QED
  BY <1>3, <1>4

(* One within bounds has a greatest one. *)
LEMMA GreatestNumber ==
    ASSUME NEW b \in Nat, NEW S \in SUBSET (0..b), S # {}
    PROVE  \E n \in S : \A m \in S : m <= n
<1> DEFINE T == {b - n : n \in S}
<1>1. T \in SUBSET Nat /\ T # {}
  <2>1. \A n \in S : b - n \in Nat
    OBVIOUS
  <2> QED
    BY <2>1
<1> HIDE DEF T
<1>2. PICK k \in T : \A j \in T : k <= j
  BY <1>1, LeastNumber
<1>3. PICK n \in S : k = b - n
  BY DEF T
<1>4. ASSUME NEW m \in S PROVE m <= n
  <2>1. k <= b - m
    BY <1>2 DEF T
  <2> QED
    BY <1>3, <2>1
<1> QED
  BY <1>4

(* The bytes of a field that Trim keeps. *)
Kept(t, i, j) == {n \in i..j : t[n] \notin Punctuation}

(* A trimmed word reaches from the first byte kept to the last. *)
LEMMA TrimAt ==
    ASSUME NEW t \in Seq(Bytes), NEW i \in 1..Len(t), NEW j \in 1..Len(t)
    PROVE  /\ Kept(t, i, j) = {} => Trim(t, i, j) = <<>>
           /\ Kept(t, i, j) # {} =>
                 \E a, b \in Kept(t, i, j) :
                    /\ \A n \in Kept(t, i, j) : a <= n /\ n <= b
                    /\ Trim(t, i, j) = SubSeq(t, a, b)
<1> DEFINE K == Kept(t, i, j)
           a == CHOOSE n \in K : \A m \in K : n <= m
           b == CHOOSE n \in K : \A m \in K : m <= n
<1>1. Trim(t, i, j) = IF K = {} THEN <<>> ELSE SubSeq(t, a, b)
  BY DEF Trim, Kept
<1>2. ASSUME K # {}
      PROVE  /\ a \in K /\ \A m \in K : a <= m
             /\ b \in K /\ \A m \in K : m <= b
  <2>1. K \in SUBSET Nat /\ K \in SUBSET (0..Len(t)) /\ Len(t) \in Nat
    BY DEF Kept
  <2> HIDE DEF K
  <2>2. \E n \in K : \A m \in K : n <= m
    BY <1>2, <2>1, LeastNumber
  <2>3. \E n \in K : \A m \in K : m <= n
    BY <1>2, <2>1, GreatestNumber
  <2> QED
    BY <2>2, <2>3
<1> HIDE DEF K, a, b
<1> QED
  BY <1>1, <1>2 DEF K

(* Only a field of nothing but punctuation has no word. *)
LEMMA NoWord ==
    ASSUME NEW t \in Seq(Bytes), NEW i \in 1..Len(t), NEW j \in 1..Len(t)
    PROVE  Trim(t, i, j) = <<>> <=> Kept(t, i, j) = {}
<1>1. ASSUME NEW a \in Kept(t, i, j), NEW b \in Kept(t, i, j), a <= b
      PROVE  SubSeq(t, a, b) # <<>>
  <2>1. a \in 1..Len(t) /\ b \in 1..Len(t)
    BY DEF Kept
  <2>2. Len(SubSeq(t, a, b)) = b - a + 1
    BY <1>1, <2>1
  <2> QED
    BY <1>1, <2>1, <2>2
<1>2. CASE Kept(t, i, j) = {}
  BY <1>2, TrimAt
<1>3. CASE Kept(t, i, j) # {}
  <2>1. PICK a \in Kept(t, i, j), b \in Kept(t, i, j) :
           /\ \A n \in Kept(t, i, j) : a <= n /\ n <= b
           /\ Trim(t, i, j) = SubSeq(t, a, b)
    BY <1>3, TrimAt
  <2> QED
    BY <1>1, <1>3, <2>1
<1> QED
  BY <1>2, <1>3

(* The bytes i..j of s are u..v of t, n further on. *)
Moved(s, i, j, n, t, u, v) ==
    /\ s \in Seq(Bytes) /\ t \in Seq(Bytes) /\ n \in Nat
    /\ i \in 1..Len(s) /\ j \in 1..Len(s)
    /\ u \in 1..Len(t) /\ v \in 1..Len(t) /\ u = i + n /\ v = j + n
    /\ \A m \in i..j : s[m] = t[m + n]

(* The same bytes elsewhere make the same word. *)
LEMMA TrimShift ==
    ASSUME NEW s, NEW t, NEW n, NEW i, NEW j, NEW u, NEW v,
           Moved(s, i, j, n, t, u, v)
    PROVE  Trim(t, u, v) = Trim(s, i, j)
<1> USE DEF Moved
<1> DEFINE K == Kept(s, i, j)
           L == Kept(t, u, v)
<1>1. /\ \A m \in K : m \in i..j /\ m + n \in L
      /\ \A m \in L : m \in Int /\ m - n \in K
  BY DEF Kept
<1>2. K = {} <=> L = {}
  BY <1>1
<1>3. CASE K = {}
  BY <1>2, <1>3, TrimAt
<1>4. CASE K # {}
  <2>1. PICK a \in K, b \in K : /\ \A m \in K : a <= m /\ m <= b
                                /\ Trim(s, i, j) = SubSeq(s, a, b)
    BY <1>4, TrimAt
  <2>2. PICK c \in L, d \in L : /\ \A m \in L : c <= m /\ m <= d
                                /\ Trim(t, u, v) = SubSeq(t, c, d)
    BY <1>2, <1>4, TrimAt
  <2>3. c = a + n /\ d = b + n
    <3>1. a + n \in L /\ b + n \in L /\ c - n \in K /\ d - n \in K
      BY <1>1, <2>1, <2>2
    <3>2. a \in Int /\ b \in Int /\ c \in Int /\ d \in Int
      BY <1>1, <2>1, <2>2
    <3>3. c <= a + n /\ b + n <= d /\ a <= c - n /\ d - n <= b
      BY <2>1, <2>2, <3>1
    <3> QED
      BY <3>2, <3>3
  <2>4. a \in i..j /\ b \in i..j /\ a <= b
    BY <1>1, <2>1
  <2>5. SubSeq(t, a + n, b + n) = SubSeq(s, a, b)
    <3>1. \A k \in 1..(b - a + 1) : s[a + k - 1] = t[a + n + k - 1]
      BY <2>4
    <3>2. a \in 1..Len(s) /\ b \in 1..Len(s) /\ a + n \in 1..Len(t) /\ b + n \in 1..Len(t)
      BY <2>4
    <3>3. /\ SubSeq(s, a, b) \in Seq(Bytes) /\ Len(SubSeq(s, a, b)) = b - a + 1
          /\ \A k \in 1..(b - a + 1) : SubSeq(s, a, b)[k] = s[a + k - 1]
      BY <2>4, <3>2
    <3>4. /\ SubSeq(t, a + n, b + n) \in Seq(Bytes) /\ Len(SubSeq(t, a + n, b + n)) = b - a + 1
          /\ \A k \in 1..(b - a + 1) : SubSeq(t, a + n, b + n)[k] = t[a + n + k - 1]
      BY <2>4, <3>2
    <3> DEFINE x == SubSeq(s, a, b)
               y == SubSeq(t, a + n, b + n)
    <3>5. /\ x \in Seq(Bytes) /\ y \in Seq(Bytes) /\ Len(x) = Len(y)
          /\ \A k \in 1..Len(x) : x[k] = y[k]
      BY <3>1, <3>3, <3>4
    <3> HIDE DEF x, y
    <3> x = y
      BY <3>5, SeqEqual
    <3> QED
      BY DEF x, y
  <2> QED
    BY <2>1, <2>2, <2>3, <2>5
<1> QED
  BY <1>3, <1>4

-----------------------------------------------------------------------------
(* A cut of t after its n-th byte that lies inside no field. *)
Clean(t, n) == n = 0 \/ n = Len(t) \/ t[n] = Blank \/ t[n + 1] = Blank

CutInto(t, n, p, s) ==
    /\ t \in Seq(Bytes) /\ n \in 0..Len(t) /\ Clean(t, n)
    /\ p = SubSeq(t, 1, n) /\ s = SubSeq(t, n + 1, Len(t))

Shifted(F, n) == {<<f[1] + n, f[2] + n>> : f \in F}

(* Cut cleanly, a text has the fields of its two parts. *)
LEMMA FieldsCut ==
    ASSUME NEW t, NEW n, NEW p, NEW s, CutInto(t, n, p, s)
    PROVE  /\ \A f : f \in Fields(t) <=> f \in Fields(p) \/ f \in Shifted(Fields(s), n)
           /\ \A f \in Fields(p) : f \notin Shifted(Fields(s), n)
<1>0. t \in Seq(Bytes) /\ n \in 0..Len(t) /\ Clean(t, n)
  BY DEF CutInto
<1>1. /\ n \in Nat /\ Len(t) \in Nat /\ n <= Len(t)
      /\ Len(p) = n /\ Len(s) = Len(t) - n
  BY <1>0 DEF CutInto
<1>2. \A m \in 1..n : p[m] = t[m]
  BY <1>0 DEF CutInto
<1>3. \A m \in 1..(Len(t) - n) : s[m] = t[m + n]
  BY <1>0 DEF CutInto
<1>4. ASSUME NEW f \in Fields(t)
      PROVE  f \in Fields(p) \/ f \in Shifted(Fields(s), n)
  <2>1. /\ f \in (1..Len(t)) \X (1..Len(t)) /\ f[1] <= f[2]
        /\ \A m \in f[1]..f[2] : t[m] # Blank
        /\ f[1] = 1 \/ t[f[1] - 1] = Blank
        /\ f[2] = Len(t) \/ t[f[2] + 1] = Blank
    BY DEF Fields
  <2> DEFINE i == f[1]
             j == f[2]
  <2>2. i \in 1..Len(t) /\ j \in 1..Len(t) /\ f = <<i, j>> /\ i <= j
    BY <2>1
  <2>3. /\ \A m \in i..j : t[m] # Blank
        /\ i = 1 \/ t[i - 1] = Blank
        /\ j = Len(t) \/ t[j + 1] = Blank
    BY <2>1
  <2> HIDE DEF i, j
  <2>4. CASE j <= n
    <3>1. \A m \in i..j : p[m] # Blank
      <4>1. \A m \in i..j : m \in 1..n
        BY <1>1, <2>2, <2>4
      <4> QED
        BY <1>2, <2>3, <4>1
    <3>3. i = 1 \/ p[i - 1] = Blank
      <4>1. i # 1 => i - 1 \in 1..n
        BY <1>1, <2>2, <2>4
      <4> QED
        BY <1>2, <2>3, <4>1
    <3>4. j = n \/ p[j + 1] = Blank
      <4>1. j # n => j + 1 \in 1..n /\ j # Len(t)
        BY <1>1, <2>2, <2>4
      <4> QED
        BY <1>2, <2>3, <4>1
    <3>2. f \in (1..Len(p)) \X (1..Len(p))
      BY <1>1, <2>2, <2>4
    <3> QED
      BY <1>1, <2>2, <3>1, <3>2, <3>3, <3>4 DEF Fields
  <2>5. CASE i > n
    <3> DEFINE g == <<i - n, j - n>>
    <3>1. /\ i - n \in 1..Len(s) /\ j - n \in 1..Len(s) /\ i - n <= j - n
      BY <1>1, <2>2, <2>5
    <3>2. \A m \in (i - n)..(j - n) : s[m] # Blank
      <4>1. \A m \in (i - n)..(j - n) : m \in 1..(Len(t) - n) /\ m + n \in i..j
        BY <1>1, <2>2, <2>5
      <4> QED
        BY <1>3, <2>3, <4>1
    <3>5. i - n = 1 \/ s[(i - n) - 1] = Blank
      <4>1. i - n # 1 => /\ (i - n) - 1 \in 1..(Len(t) - n)
                         /\ ((i - n) - 1) + n = i - 1 /\ i # 1
        BY <1>1, <2>2, <2>5
      <4> QED
        BY <1>3, <2>3, <4>1
    <3>6. j - n = Len(s) \/ s[(j - n) + 1] = Blank
      <4>1. j - n # Len(s) => /\ (j - n) + 1 \in 1..(Len(t) - n)
                              /\ ((j - n) + 1) + n = j + 1 /\ j # Len(t)
        BY <1>1, <2>2, <2>5
      <4> QED
        BY <1>3, <2>3, <4>1
    <3>3. g \in Fields(s)
      BY <3>1, <3>2, <3>5, <3>6 DEF Fields
    <3>4. f = <<g[1] + n, g[2] + n>>
      BY <1>1, <2>2
    <3> HIDE DEF g
    <3> QED
      BY <3>3, <3>4 DEF Shifted
  <2>6. CASE i <= n /\ n < j
    <3>1. n \in i..j /\ n + 1 \in i..j /\ n # 0 /\ n # Len(t)
      BY <1>1, <2>2, <2>6
    <3> QED
      BY <1>0, <2>3, <3>1 DEF Clean
  <2> QED
    BY <1>1, <2>2, <2>4, <2>5, <2>6
<1>5. ASSUME NEW f \in Fields(p) PROVE f \in Fields(t) /\ f[2] <= n
  <2>1. /\ f \in (1..Len(p)) \X (1..Len(p)) /\ f[1] <= f[2]
        /\ \A m \in f[1]..f[2] : p[m] # Blank
        /\ f[1] = 1 \/ p[f[1] - 1] = Blank
        /\ f[2] = Len(p) \/ p[f[2] + 1] = Blank
    BY DEF Fields
  <2> DEFINE i == f[1]
             j == f[2]
  <2>2. i \in 1..n /\ j \in 1..n /\ f = <<i, j>> /\ i <= j
    BY <1>1, <2>1
  <2>3. /\ \A m \in i..j : p[m] # Blank
        /\ i = 1 \/ p[i - 1] = Blank
        /\ j = n \/ p[j + 1] = Blank
    BY <1>1, <2>1
  <2> HIDE DEF i, j
  <2>4. /\ \A m \in i..j : t[m] # Blank
        /\ i = 1 \/ t[i - 1] = Blank
        /\ j = n \/ t[j + 1] = Blank
    <3>1. /\ \A m \in i..j : m \in 1..n
          /\ i # 1 => i - 1 \in 1..n
          /\ j # n => j + 1 \in 1..n
      BY <1>1, <2>2
    <3> QED
      BY <1>2, <2>3, <3>1
  <2>5. j = n => j = Len(t) \/ t[j + 1] = Blank
    <3>1. j = n => n # 0 /\ t[n] # Blank
      BY <1>1, <2>2, <2>4
    <3> QED
      BY <1>0, <3>1 DEF Clean
  <2>6. f \in (1..Len(t)) \X (1..Len(t)) /\ f[1] = i /\ f[2] = j
    BY <1>1, <2>2
  <2> QED
    BY <2>2, <2>4, <2>5, <2>6 DEF Fields
<1>6. ASSUME NEW g \in Fields(s)
      PROVE  <<g[1] + n, g[2] + n>> \in Fields(t) /\ g[2] + n > n
  <2>1. /\ g \in (1..Len(s)) \X (1..Len(s)) /\ g[1] <= g[2]
        /\ \A m \in g[1]..g[2] : s[m] # Blank
        /\ g[1] = 1 \/ s[g[1] - 1] = Blank
        /\ g[2] = Len(s) \/ s[g[2] + 1] = Blank
    BY DEF Fields
  <2> DEFINE i == g[1]
             j == g[2]
  <2>2. i \in 1..(Len(t) - n) /\ j \in 1..(Len(t) - n) /\ i <= j
    BY <1>1, <2>1
  <2>3. /\ \A m \in i..j : s[m] # Blank
        /\ i = 1 \/ s[i - 1] = Blank
        /\ j = Len(t) - n \/ s[j + 1] = Blank
    BY <1>1, <2>1
  <2> HIDE DEF i, j
  <2>4. i + n \in 1..Len(t) /\ j + n \in 1..Len(t) /\ i + n <= j + n /\ j + n > n
    BY <1>1, <2>2
  <2>5. \A k \in i..j : t[k + n] # Blank
    <3>1. \A k \in i..j : k \in 1..(Len(t) - n) /\ s[k] # Blank
      BY <1>1, <2>2, <2>3
    <3> QED
      BY <1>3, <3>1
  <2> DEFINE u == i + n
             v == j + n
  <2>6. \A m \in u..v : t[m] # Blank
    <3>1. ASSUME NEW m \in u..v PROVE t[m] # Blank
      <4>1. m - n \in i..j /\ (m - n) + n = m
        BY <1>1, <2>2
      <4> QED
        BY <2>5, <4>1
    <3> QED
      BY <3>1
  <2>7. u = 1 \/ t[u - 1] = Blank
    <3>1. CASE i = 1
      <4>1. n \in 0..Len(t) /\ n # Len(t) /\ u = n + 1 /\ u - 1 = n
        BY <1>1, <2>2, <2>4, <3>1
      <4>2. t[n + 1] # Blank
        BY <1>1, <2>2, <2>5, <3>1
      <4> QED
        BY <1>0, <4>1, <4>2 DEF Clean
    <3>2. CASE i # 1
      <4>1. s[i - 1] = Blank /\ i - 1 \in 1..(Len(t) - n) /\ (i - 1) + n = u - 1
        BY <1>1, <2>2, <2>3, <3>2
      <4> QED
        BY <1>3, <4>1
    <3> QED
      BY <3>1, <3>2
  <2>8. v = Len(t) \/ t[v + 1] = Blank
    <3>1. CASE j = Len(t) - n
      BY <1>1, <2>2, <3>1
    <3>2. CASE j # Len(t) - n
      <4>1. s[j + 1] = Blank /\ j + 1 \in 1..(Len(t) - n) /\ (j + 1) + n = v + 1
        BY <1>1, <2>2, <2>3, <3>2
      <4> QED
        BY <1>3, <4>1
    <3> QED
      BY <3>1, <3>2
  <2>9. u \in 1..Len(t) /\ v \in 1..Len(t) /\ u <= v /\ v > n
    BY <2>4
  <2> HIDE DEF u, v
  <2>10. <<u, v>> \in Fields(t)
    BY <2>6, <2>7, <2>8, <2>9 DEF Fields
  <2> QED
    BY <2>9, <2>10 DEF i, j, u, v
<1>7. ASSUME NEW f \in Fields(p), f \in Shifted(Fields(s), n) PROVE FALSE
  <2>1. PICK g \in Fields(s) : f = <<g[1] + n, g[2] + n>>
    BY <1>7 DEF Shifted
  <2>2. f[2] <= n /\ f[2] = g[2] + n
    BY <1>5, <2>1
  <2> QED
    BY <1>6, <2>1, <2>2, <1>1 DEF Fields
<1> QED
  BY <1>4, <1>5, <1>6, <1>7 DEF Shifted

(* The fields of a text are finitely many. *)
LEMMA FieldsFinite ==
    ASSUME NEW t \in Seq(Bytes)
    PROVE  IsFiniteSet(Fields(t))
<1>1. IsFiniteSet(1..Len(t))
  BY FS_Interval
<1>2. IsFiniteSet((1..Len(t)) \X (1..Len(t)))
  BY <1>1, FS_Product
<1>3. Fields(t) \subseteq (1..Len(t)) \X (1..Len(t))
  BY DEF Fields
<1> QED
  BY <1>2, <1>3, FS_Subset

(* One-to-one images have the same number of elements. *)
LEMMA SameSize ==
    ASSUME NEW S, NEW T, IsFiniteSet(S), NEW g \in [S -> T],
           \A x, y \in S : g[x] = g[y] => x = y,
           \A y \in T : \E x \in S : g[x] = y
    PROVE  IsFiniteSet(T) /\ Cardinality(T) = Cardinality(S)
<1>1. g \in Bijection(S, T)
  BY DEF Bijection, Injection, Surjection, IsInjective
<1>2. ExistsBijection(S, T)
  BY <1>1 DEF ExistsBijection
<1> QED
  BY <1>2, FS_Bijection

(* Two sets that share nothing. *)
LEMMA ApartSize ==
    ASSUME NEW S, NEW T, IsFiniteSet(S), IsFiniteSet(T), S \cap T = {}
    PROVE  /\ IsFiniteSet(S \cup T)
           /\ Cardinality(S \cup T) = Cardinality(S) + Cardinality(T)
           /\ Cardinality(S) \in Nat /\ Cardinality(T) \in Nat
<1>1. Cardinality(S) \in Nat /\ Cardinality(T) \in Nat
  BY FS_CardinalityType
<1>2. Cardinality(S \cap T) = 0
  BY FS_EmptySet
<1>3. /\ IsFiniteSet(S \cup T)
      /\ Cardinality(S \cup T) = Cardinality(S) + Cardinality(T) - Cardinality(S \cap T)
  BY FS_Union
<1> QED
  BY <1>1, <1>2, <1>3

(* Moved fields are as many. *)
LEMMA ShiftedSize ==
    ASSUME NEW F, NEW n \in Nat, IsFiniteSet(F), NEW m \in Nat,
           F \subseteq (1..m) \X (1..m)
    PROVE  IsFiniteSet(Shifted(F, n)) /\ Cardinality(Shifted(F, n)) = Cardinality(F)
<1> DEFINE T == Shifted(F, n)
           g == [f \in F |-> <<f[1] + n, f[2] + n>>]
<1>1. g \in [F -> T] /\ \A y \in T : \E x \in F : g[x] = y
  BY DEF Shifted
<1>2. ASSUME NEW x \in F, NEW y \in F, g[x] = g[y] PROVE x = y
  <2>1. /\ x = <<x[1], x[2]>> /\ y = <<y[1], y[2]>>
        /\ x[1] \in 1..m /\ x[2] \in 1..m /\ y[1] \in 1..m /\ y[2] \in 1..m
    OBVIOUS
  <2>2. x[1] + n = y[1] + n /\ x[2] + n = y[2] + n
    BY <1>2
  <2> QED
    BY <2>1, <2>2
<1> HIDE DEF T, g
<1>3. IsFiniteSet(T) /\ Cardinality(T) = Cardinality(F)
  BY <1>1, <1>2, SameSize
<1> QED
  BY <1>3 DEF T

(* The fields of t whose word is w, and the words of t. *)
Where(t, w) == {f \in Fields(t) : WordAt(t, f) = w}
WordsOf(t) == {WordAt(t, f) : f \in Fields(t)} \ {<<>>}

(* How often a word is counted. *)
LEMMA CountOf ==
    ASSUME NEW t \in Seq(Bytes)
    PROVE  /\ Counts(t) = [w \in WordsOf(t) |-> Cardinality(Where(t, w))]
           /\ DOMAIN Counts(t) = WordsOf(t)
           /\ \A w : /\ IsFiniteSet(Where(t, w)) /\ Cardinality(Where(t, w)) \in Nat
                     /\ w # <<>> => Count(Counts(t), w) = Cardinality(Where(t, w))
<1>1. Counts(t) = [w \in WordsOf(t) |-> Cardinality(Where(t, w))]
  BY DEF Counts, WordsOf, Where
<1>2. ASSUME NEW w PROVE IsFiniteSet(Where(t, w)) /\ Cardinality(Where(t, w)) \in Nat
  <2>1. Where(t, w) \in SUBSET Fields(t) /\ IsFiniteSet(Fields(t))
    BY FieldsFinite DEF Where
  <2>2. IsFiniteSet(Where(t, w))
    BY <2>1, FS_Subset
  <2> QED
    BY <2>2, FS_CardinalityType
<1>3. ASSUME NEW w, w # <<>> PROVE Count(Counts(t), w) = Cardinality(Where(t, w))
  <2>1. CASE w \in WordsOf(t)
    BY <1>1, <2>1 DEF Count
  <2>2. CASE w \notin WordsOf(t)
    <3>1. Where(t, w) = {}
      BY <1>3, <2>2 DEF WordsOf, Where
    <3> QED
      BY <1>1, <2>2, <3>1, FS_EmptySet DEF Count
  <2> QED
    BY <2>1, <2>2
<1> QED
  BY <1>1, <1>2, <1>3

(* Cut cleanly, a text has the counts of its two parts added up. *)
LEMMA CountsCut ==
    ASSUME NEW t, NEW n, NEW p, NEW s, CutInto(t, n, p, s)
    PROVE  Counts(t) = Merge(Counts(p), Counts(s))
<1>0. t \in Seq(Bytes) /\ n \in 0..Len(t) /\ Clean(t, n)
  BY DEF CutInto
<1>1. /\ p \in Seq(Bytes) /\ Len(p) = n /\ n \in Nat /\ Len(t) \in Nat
      /\ s \in Seq(Bytes) /\ Len(s) = Len(t) - n
      /\ \A m \in 1..n : p[m] = t[m]
      /\ \A m \in 1..(Len(t) - n) : s[m] = t[m + n]
  BY <1>0 DEF CutInto
<1>2. /\ \A f : f \in Fields(t) <=> f \in Fields(p) \/ f \in Shifted(Fields(s), n)
      /\ \A f \in Fields(p) : f \notin Shifted(Fields(s), n)
  BY FieldsCut
<1> USE <1>0
<1>3. ASSUME NEW f \in Fields(p) PROVE WordAt(t, f) = WordAt(p, f)
  <2> DEFINE i == f[1]
             j == f[2]
  <2>1. i \in 1..Len(p) /\ j \in 1..Len(p)
    BY DEF Fields
  <2> HIDE DEF i, j
  <2>2. /\ i + 0 = i /\ j + 0 = j /\ 0 \in Nat
        /\ i \in 1..Len(t) /\ j \in 1..Len(t)
        /\ \A m \in i..j : p[m] = t[m + 0]
    BY <1>1, <2>1
  <2>3. Trim(t, i, j) = Trim(p, i, j)
    <3>1. Moved(p, i, j, 0, t, i, j)
      BY <1>1, <2>1, <2>2 DEF Moved
    <3> QED
      BY <3>1, TrimShift
  <2> QED
    BY <2>3 DEF WordAt, i, j
<1>4. ASSUME NEW f \in Fields(s)
      PROVE  WordAt(t, <<f[1] + n, f[2] + n>>) = WordAt(s, f)
  <2> DEFINE i == f[1]
             j == f[2]
  <2>1. i \in 1..Len(s) /\ j \in 1..Len(s)
    BY DEF Fields
  <2> HIDE DEF i, j
  <2> DEFINE u == i + n
             v == j + n
  <2>2. /\ u \in 1..Len(t) /\ v \in 1..Len(t) /\ u = i + n /\ v = j + n
        /\ \A m \in i..j : s[m] = t[m + n]
    BY <1>1, <2>1
  <2> HIDE DEF u, v
  <2>3. Trim(t, u, v) = Trim(s, i, j)
    <3>1. Moved(s, i, j, n, t, u, v)
      BY <1>1, <2>1, <2>2 DEF Moved
    <3> QED
      BY <3>1, TrimShift
  <2> QED
    BY <2>3 DEF WordAt, i, j, u, v
<1>5. ASSUME NEW w
      PROVE  Cardinality(Where(t, w)) = Cardinality(Where(p, w)) + Cardinality(Where(s, w))
  <2>1. Where(t, w) = Where(p, w) \cup Shifted(Where(s, w), n)
    <3>1. ASSUME NEW f \in Where(t, w) PROVE f \in Where(p, w) \cup Shifted(Where(s, w), n)
      BY <1>2, <1>3, <1>4 DEF Where, Shifted
    <3>2. ASSUME NEW f \in Where(p, w) PROVE f \in Where(t, w)
      BY <1>2, <1>3 DEF Where
    <3>3. ASSUME NEW f \in Shifted(Where(s, w), n) PROVE f \in Where(t, w)
      BY <1>2, <1>4 DEF Where, Shifted
    <3> QED
      BY <3>1, <3>2, <3>3
  <2>2. Where(p, w) \cap Shifted(Where(s, w), n) = {}
    BY <1>2 DEF Where, Shifted
  <2>3. IsFiniteSet(Where(p, w)) /\ IsFiniteSet(Where(s, w))
    BY <1>1, CountOf
  <2>4. Where(s, w) \subseteq (1..Len(s)) \X (1..Len(s)) /\ Len(s) \in Nat
    BY <1>1 DEF Where, Fields
  <2>5. /\ IsFiniteSet(Shifted(Where(s, w), n))
        /\ Cardinality(Shifted(Where(s, w), n)) = Cardinality(Where(s, w))
    BY <1>1, <2>3, <2>4, ShiftedSize
  <2> QED
    BY <2>1, <2>2, <2>3, <2>5, ApartSize
<1>6. WordsOf(t) = WordsOf(p) \cup WordsOf(s)
  <2>1. ASSUME NEW w \in WordsOf(t) PROVE w \in WordsOf(p) \cup WordsOf(s)
    BY <1>2, <1>3, <1>4 DEF WordsOf, Shifted
  <2>2. ASSUME NEW w \in WordsOf(p) PROVE w \in WordsOf(t)
    BY <1>2, <1>3 DEF WordsOf
  <2>3. ASSUME NEW w \in WordsOf(s) PROVE w \in WordsOf(t)
    BY <1>2, <1>4 DEF WordsOf, Shifted
  <2> QED
    BY <2>1, <2>2, <2>3
<1>7. ASSUME NEW w \in WordsOf(t)
      PROVE  Count(Counts(p), w) + Count(Counts(s), w) = Cardinality(Where(t, w))
  BY <1>1, <1>5, CountOf DEF WordsOf
<1>8. /\ Counts(t) = [w \in WordsOf(t) |-> Cardinality(Where(t, w))]
      /\ DOMAIN Counts(p) = WordsOf(p) /\ DOMAIN Counts(s) = WordsOf(s)
  BY <1>1, CountOf
<1> QED
  BY <1>6, <1>7, <1>8 DEF Merge

(* The chunks of a text lie side by side in it. *)
LEMMA ChunkParts ==
    ASSUME NEW t \in Seq(Bytes), NEW size, size = Len(t) \div 3
    PROVE  /\ size \in Nat /\ Len(t) \in Nat /\ 2 * size <= Len(t)
           /\ size > 0 => 2 * size < Len(t)
           /\ Chunk(t, 0) = SubSeq(t, 1, size)
           /\ Chunk(t, 1) = SubSeq(t, size + 1, 2 * size)
           /\ Chunk(t, 2) = SubSeq(t, 2 * size + 1, Len(t))
<1>1. size \in Nat /\ Len(t) \in Nat /\ 2 * size <= Len(t)
  OBVIOUS
<1>2. size > 0 => 2 * size < Len(t)
  OBVIOUS
<1>3. /\ 0 * size + 1 = 1 /\ (0 + 1) * size = size /\ 1 * size + 1 = size + 1
      /\ (1 + 1) * size = 2 * size
  BY <1>1
<1> QED
  BY <1>1, <1>2, <1>3 DEF Chunk

(* A text whose cuts lie in no word has the counts of its chunks added up. *)
LEMMA WholeCounts ==
    ASSUME NEW t \in Seq(Bytes), ~CutsWord(t)
    PROVE  Counts(t) = Merge(Merge(Counts(Chunk(t, 0)), Counts(Chunk(t, 1))),
                             Counts(Chunk(t, 2)))
<1> DEFINE size == Len(t) \div 3
           two == 2 * size
           q == SubSeq(t, 1, two)
<1>0. size = Len(t) \div 3 /\ two = 2 * size
  OBVIOUS
<1> HIDE DEF size, two
<1>1. /\ size \in Nat /\ Len(t) \in Nat /\ two <= Len(t) /\ two \in Nat
      /\ size > 0 => two < Len(t)
      /\ Chunk(t, 0) = SubSeq(t, 1, size)
      /\ Chunk(t, 1) = SubSeq(t, size + 1, two)
      /\ Chunk(t, 2) = SubSeq(t, two + 1, Len(t))
  <2>1. /\ size \in Nat /\ Len(t) \in Nat /\ 2 * size <= Len(t)
        /\ size > 0 => 2 * size < Len(t)
        /\ Chunk(t, 0) = SubSeq(t, 1, size)
        /\ Chunk(t, 1) = SubSeq(t, size + 1, 2 * size)
        /\ Chunk(t, 2) = SubSeq(t, 2 * size + 1, Len(t))
    BY <1>0, ChunkParts
  <2> QED
    BY <1>0, <2>1
<1>2. \A n \in {size, two} : n > 0 => t[n] = Blank \/ t[n + 1] = Blank
  BY <1>0 DEF CutsWord
<1>3. two = size + size
  BY <1>0, <1>1
<1>4. /\ q \in Seq(Bytes) /\ Len(q) = two
      /\ \A m \in 1..two : q[m] = t[m]
  BY <1>1
<1> HIDE DEF q
<1>5. CutInto(t, two, q, Chunk(t, 2))
  <2>1. Clean(t, two)
    BY <1>1, <1>2 DEF Clean
  <2> QED
    BY <1>1, <2>1 DEF CutInto, q
<1>6. CutInto(q, size, Chunk(t, 0), Chunk(t, 1))
  <2>0. size \in Nat /\ two = size + size /\ q \in Seq(Bytes) /\ Len(q) = two
    BY <1>1, <1>3, <1>4
  <2>1. Clean(q, size)
    <3>1. size > 0 => size \in 1..two /\ size + 1 \in 1..two
      BY <1>1, <1>3
    <3> QED
      BY <1>1, <1>2, <1>4, <3>1 DEF Clean
  <2>2. Chunk(t, 0) = SubSeq(q, 1, size)
    <3> DEFINE x == SubSeq(t, 1, size)
               y == SubSeq(q, 1, size)
    <3>1. x \in Seq(Bytes) /\ Len(x) = size /\ \A m \in 1..size : x[m] = t[m]
      BY <1>1, <1>3
    <3>2. y \in Seq(Bytes) /\ Len(y) = size /\ \A m \in 1..size : y[m] = q[m]
      BY <2>0
    <3> HIDE DEF x, y
    <3>3. \A m \in 1..size : x[m] = y[m]
      <4>1. \A m \in 1..size : m \in 1..two
        BY <1>1, <1>3
      <4> QED
        BY <1>4, <3>1, <3>2, <4>1
    <3>4. x = y
      BY <3>1, <3>2, <3>3, SeqEqual
    <3> QED
      BY <1>1, <3>4 DEF x, y
  <2>3. Chunk(t, 1) = SubSeq(q, size + 1, Len(q))
    <3> DEFINE x == SubSeq(t, size + 1, two)
               y == SubSeq(q, size + 1, two)
    <3>0. Chunk(t, 1) = x /\ SubSeq(q, size + 1, Len(q)) = y
      <4>1. Chunk(t, 1) = x
        BY <1>1
      <4>2. Len(q) = two
        BY <2>0
      <4> QED
        BY <4>1, <4>2
    <3>1. x \in Seq(Bytes) /\ Len(x) = size /\ \A m \in 1..size : x[m] = t[size + m]
      BY <1>1, <1>3
    <3>2. y \in Seq(Bytes) /\ Len(y) = size /\ \A m \in 1..size : y[m] = q[size + m]
      <4>1. /\ q \in Seq(Bytes) /\ Len(q) = two /\ size \in Nat /\ two = size + size
            /\ size + 1 \in Nat /\ two \in Nat
        BY <2>0
      <4>2. y \in Seq(Bytes) /\ Len(y) = size
        BY <4>1
      <4>3. \A m \in 1..size : y[m] = q[size + m]
        BY <4>1
      <4> QED
        BY <4>2, <4>3
    <3> HIDE DEF x, y
    <3>3. ASSUME NEW m \in 1..size PROVE x[m] = y[m]
      <4> DEFINE k == size + m
      <4>1. k \in 1..two
        BY <2>0
      <4>2. x[m] = t[k] /\ y[m] = q[k]
        BY <3>1, <3>2
      <4> HIDE DEF k
      <4> QED
        BY <1>4, <4>1, <4>2
    <3>4. \A m \in 1..size : x[m] = y[m]
      BY <3>3
    <3>5. x = y
      BY <3>1, <3>2, <3>4, SeqEqual
    <3> QED
      BY <3>0, <3>5
  <2>4. size \in 0..Len(q)
    BY <1>1, <1>3, <1>4
  <2> QED
    BY <1>4, <2>1, <2>2, <2>3, <2>4 DEF CutInto
<1> QED
  BY <1>5, <1>6, CountsCut

-----------------------------------------------------------------------------
(* Where words begin: after a blank, or at the start of the text, and there *)
(* is a byte that is no punctuation before the next blank.                  *)
Starts(t) ==
    {i \in 1..Len(t) :
        /\ i = 1 \/ t[i - 1] = Blank
        /\ \E k \in i..Len(t) : /\ \A m \in i..k : t[m] # Blank
                                /\ t[k] \notin Punctuation}

Proper(t) == {f \in Fields(t) : WordAt(t, f) # <<>>}

(* A text has as many words as places where one begins. *)
LEMMA StartsSize ==
    ASSUME NEW t \in Seq(Bytes)
    PROVE  /\ IsFiniteSet(Proper(t)) /\ IsFiniteSet(Starts(t))
           /\ Cardinality(Starts(t)) = Cardinality(Proper(t))
<1> DEFINE g == [f \in Proper(t) |-> f[1]]
<1>0. \A f \in Fields(t) : /\ f[1] \in 1..Len(t) /\ f[2] \in 1..Len(t)
                           /\ f = <<f[1], f[2]>> /\ Len(t) \in Nat
  BY DEF Fields
<1>1. IsFiniteSet(Proper(t))
  <2>1. Proper(t) \in SUBSET Fields(t)
    BY DEF Proper
  <2> QED
    BY <2>1, FieldsFinite, FS_Subset
<1>2. ASSUME NEW f \in Fields(t)
      PROVE  f \in Proper(t) <=> \E k \in f[1]..f[2] : t[k] \notin Punctuation
  <2>1. WordAt(t, f) # <<>> <=> Kept(t, f[1], f[2]) # {}
    BY <1>0, NoWord DEF WordAt
  <2> QED
    BY <2>1 DEF Proper, Kept
<1>3. ASSUME NEW f \in Proper(t) PROVE f[1] \in Starts(t)
  <2>1. f \in Fields(t)
    BY DEF Proper
  <2>2. PICK k \in f[1]..f[2] : t[k] \notin Punctuation
    BY <1>2, <2>1
  <2>3. /\ f[1] \in 1..Len(t) /\ k \in f[1]..Len(t)
        /\ \A m \in f[1]..k : m \in f[1]..f[2]
    BY <1>0, <2>1, <2>2
  <2>4. /\ f[1] = 1 \/ t[f[1] - 1] = Blank
        /\ \A m \in f[1]..f[2] : t[m] # Blank
    BY <2>1 DEF Fields
  <2> QED
    BY <2>2, <2>3, <2>4 DEF Starts
<1>4. ASSUME NEW f \in Fields(t), NEW h \in Fields(t), f[1] = h[1]
      PROVE  ~(f[2] < h[2])
  <2> SUFFICES ASSUME f[2] < h[2] PROVE FALSE
    OBVIOUS
  <2>1. f[2] # Len(t) /\ f[2] + 1 \in h[1]..h[2]
    <3>1. f[1] <= f[2]
      BY DEF Fields
    <3> QED
      BY <1>0, <1>4, <3>1
  <2> QED
    BY <2>1 DEF Fields
<1>5. ASSUME NEW f \in Proper(t), NEW h \in Proper(t), g[f] = g[h] PROVE f = h
  <2>1. f \in Fields(t) /\ h \in Fields(t) /\ f[1] = h[1]
    BY <1>5 DEF Proper
  <2>2. ~(f[2] < h[2]) /\ ~(h[2] < f[2])
    BY <1>4, <2>1
  <2>3. f[2] = h[2]
    BY <1>0, <2>1, <2>2
  <2> QED
    BY <1>0, <2>1, <2>3
<1>6. ASSUME NEW i \in Starts(t) PROVE \E f \in Proper(t) : g[f] = i
  <2> DEFINE J == {j \in i..Len(t) : \A m \in i..j : t[m] # Blank}
  <2>1. /\ i \in 1..Len(t) /\ Len(t) \in Nat
        /\ i = 1 \/ t[i - 1] = Blank
    BY DEF Starts
  <2>2. PICK k \in i..Len(t) : /\ \A m \in i..k : t[m] # Blank
                               /\ t[k] \notin Punctuation
    BY DEF Starts
  <2>3. J \in SUBSET (0..Len(t)) /\ k \in J
    BY <2>1, <2>2
  <2> HIDE DEF J
  <2>4. PICK j \in J : \A m \in J : m <= j
    BY <2>1, <2>3, GreatestNumber
  <2>5. j \in i..Len(t) /\ (\A m \in i..j : t[m] # Blank) /\ k \in i..j
    BY <2>2, <2>3, <2>4 DEF J
  <2>6. j = Len(t) \/ t[j + 1] = Blank
    <3> SUFFICES ASSUME j # Len(t), t[j + 1] # Blank PROVE FALSE
      OBVIOUS
    <3>1. j + 1 \in i..Len(t) /\ \A m \in i..(j + 1) : m = j + 1 \/ m \in i..j
      BY <2>1, <2>5
    <3>2. j + 1 \in J
      BY <2>5, <3>1 DEF J
    <3> QED
      BY <2>1, <2>4, <2>5, <3>2
  <2> DEFINE f == <<i, j>>
  <2>7. f \in (1..Len(t)) \X (1..Len(t)) /\ f[1] = i /\ f[2] = j /\ i <= j
    BY <2>1, <2>5
  <2> HIDE DEF f
  <2>8. f \in Fields(t)
    BY <2>1, <2>5, <2>6, <2>7 DEF Fields
  <2>9. f \in Proper(t)
    BY <1>2, <2>2, <2>5, <2>7, <2>8
  <2> QED
    BY <2>7, <2>9
<1>7. g \in [Proper(t) -> Starts(t)]
  BY <1>3
<1> HIDE DEF g
<1> QED
  BY <1>1, <1>5, <1>6, <1>7, SameSize

(* Counts whose occurrences are finitely many. *)
Tallied(c) == c \in [DOMAIN c -> Nat] /\ IsFiniteSet(Occurrences(c))

(* What an occurrence is. *)
LEMMA Occurs ==
    ASSUME NEW c
    PROVE  \A x : x \in Occurrences(c)
                    <=> /\ x = <<x[1], x[2]>> /\ x[1] \in DOMAIN c
                        /\ x[2] \in 1..c[x[1]]
BY DEF Occurrences

(* A text's counts add up to its words. *)
LEMMA TotalCounts ==
    ASSUME NEW t \in Seq(Bytes)
    PROVE  /\ Tallied(Counts(t))
           /\ Total(Counts(t)) = Cardinality(Starts(t))
<1> DEFINE c == Counts(t)
           O == Occurrences(c)
           n(w) == Cardinality(Where(t, w))
           B == [w \in WordsOf(t) |-> CHOOSE b : b \in Bijection(Where(t, w), 1..n(w))]
           g == [f \in Proper(t) |-> <<WordAt(t, f), B[WordAt(t, f)][f]>>]
<1>1. /\ c = [w \in WordsOf(t) |-> n(w)] /\ DOMAIN c = WordsOf(t)
      /\ \A w : IsFiniteSet(Where(t, w)) /\ n(w) \in Nat
  BY CountOf
<1>2. ASSUME NEW w \in WordsOf(t)
      PROVE  /\ B[w] \in [Where(t, w) -> 1..n(w)]
             /\ \A x, y \in Where(t, w) : B[w][x] = B[w][y] => x = y
             /\ \A k \in 1..n(w) : \E x \in Where(t, w) : B[w][x] = k
  <2> DEFINE S == Where(t, w)
             T == 1..n(w)
  <2>1. IsFiniteSet(S) /\ n(w) \in Nat
    BY <1>1
  <2>2. IsFiniteSet(T) /\ Cardinality(T) = Cardinality(S)
    BY <2>1, FS_Interval
  <2>3. ExistsBijection(S, T)
    BY <2>1, <2>2, FS_SameCardinalityBij
  <2>4. B[w] \in Bijection(S, T)
    BY <2>3 DEF ExistsBijection
  <2> HIDE DEF B
  <2> QED
    BY <2>4 DEF Bijection, Injection, Surjection, IsInjective
<1> HIDE DEF B, c, n
<1>3. \A f \in Proper(t) : WordAt(t, f) \in WordsOf(t) /\ f \in Where(t, WordAt(t, f))
  BY DEF Proper, WordsOf, Where
<1>4. \A x : x \in O <=> /\ x = <<x[1], x[2]>> /\ x[1] \in WordsOf(t)
                         /\ x[2] \in 1..n(x[1])
  BY <1>1, Occurs
<1> HIDE DEF O
<1>5. g \in [Proper(t) -> O]
  BY <1>2, <1>3, <1>4
<1>6. ASSUME NEW f \in Proper(t), NEW h \in Proper(t), g[f] = g[h] PROVE f = h
  <2>1. WordAt(t, f) = WordAt(t, h) /\ B[WordAt(t, f)][f] = B[WordAt(t, h)][h]
    BY <1>6
  <2> QED
    BY <1>2, <1>3, <2>1
<1>7. ASSUME NEW x \in O PROVE \E f \in Proper(t) : g[f] = x
  <2>1. x = <<x[1], x[2]>> /\ x[1] \in WordsOf(t) /\ x[2] \in 1..n(x[1])
    BY <1>4
  <2>2. PICK f \in Where(t, x[1]) : B[x[1]][f] = x[2]
    BY <1>2, <2>1
  <2>3. f \in Proper(t) /\ WordAt(t, f) = x[1]
    BY <2>1 DEF Where, WordsOf, Proper
  <2> QED
    BY <2>1, <2>2, <2>3
<1> HIDE DEF g
<1>8. IsFiniteSet(O) /\ Cardinality(O) = Cardinality(Proper(t))
  BY <1>5, <1>6, <1>7, StartsSize, SameSize
<1>9. c \in [DOMAIN c -> Nat]
  BY <1>1
<1> QED
  BY <1>8, <1>9, StartsSize DEF Tallied, Total, O, c

(* The reducer's sum of two counts has all their words. *)
LEMMA TotalMerge ==
    ASSUME NEW c, NEW d, Tallied(c), Tallied(d)
    PROVE  /\ Tallied(Merge(c, d))
           /\ Total(Merge(c, d)) = Total(c) + Total(d)
<1> DEFINE e == Merge(c, d)
           C == Occurrences(c)
           D == Occurrences(d)
           g == [x \in D |-> <<x[1], Count(c, x[1]) + x[2]>>]
           L == {g[x] : x \in D}
<1>1. /\ IsFiniteSet(C) /\ IsFiniteSet(D)
      /\ \A w : Count(c, w) \in Nat /\ Count(d, w) \in Nat
  BY DEF Tallied, Count
<1>2. /\ DOMAIN e = DOMAIN c \cup DOMAIN d
      /\ \A w \in DOMAIN e : e[w] = Count(c, w) + Count(d, w)
      /\ e \in [DOMAIN e -> Nat]
  BY <1>1 DEF Merge
<1>3. /\ \A x : x \in C <=> x = <<x[1], x[2]>> /\ x[1] \in DOMAIN e /\ x[2] \in 1..Count(c, x[1])
      /\ \A x : x \in D <=> x = <<x[1], x[2]>> /\ x[1] \in DOMAIN e /\ x[2] \in 1..Count(d, x[1])
  <2>1. /\ \A w \in DOMAIN c : Count(c, w) = c[w]
        /\ \A w : w \notin DOMAIN c => Count(c, w) = 0
        /\ \A w \in DOMAIN d : Count(d, w) = d[w]
        /\ \A w : w \notin DOMAIN d => Count(d, w) = 0
    BY DEF Count
  <2>2. \A k : k \notin 1..0
    OBVIOUS
  <2>3. ASSUME NEW x
        PROVE  x \in C <=> x = <<x[1], x[2]>> /\ x[1] \in DOMAIN e /\ x[2] \in 1..Count(c, x[1])
    BY <1>2, <2>1, <2>2, Occurs
  <2>4. ASSUME NEW x
        PROVE  x \in D <=> x = <<x[1], x[2]>> /\ x[1] \in DOMAIN e /\ x[2] \in 1..Count(d, x[1])
    BY <1>2, <2>1, <2>2, Occurs
  <2> QED
    BY <2>3, <2>4
<1>4. \A x : x \in Occurrences(e)
               <=> x = <<x[1], x[2]>> /\ x[1] \in DOMAIN e /\ x[2] \in 1..e[x[1]]
  BY Occurs
<1> HIDE DEF e, C, D
<1>5. \A x \in D : /\ g[x] = <<x[1], Count(c, x[1]) + x[2]>>
                   /\ x = <<x[1], x[2]>> /\ x[1] \in DOMAIN e
                   /\ x[2] \in 1..Count(d, x[1])
  BY <1>3
<1>6. ASSUME NEW x \in D, NEW y \in D, g[x] = g[y] PROVE x = y
  <2>1. x[1] = y[1] /\ Count(c, x[1]) + x[2] = Count(c, x[1]) + y[2]
    BY <1>5, <1>6
  <2>2. x[2] = y[2]
    <3>1. /\ Count(c, x[1]) \in Nat
          /\ x[2] \in 1..Count(d, x[1]) /\ y[2] \in 1..Count(d, y[1])
      <4> HIDE DEF g
      <4>1. Count(c, x[1]) \in Nat
        BY <1>1
      <4>2. x[2] \in 1..Count(d, x[1]) /\ y[2] \in 1..Count(d, y[1])
        BY <1>5
      <4> QED
        BY <4>1, <4>2
    <3> QED
      BY <2>1, <3>1
  <2> QED
    BY <1>5, <2>1, <2>2
<1>7. g \in [D -> L] /\ \A y \in L : \E x \in D : g[x] = y
  OBVIOUS
<1>8. ASSUME NEW y
      PROVE  y \in L <=> /\ y = <<y[1], y[2]>> /\ y[1] \in DOMAIN e
                         /\ y[2] \in (Count(c, y[1]) + 1)..(Count(c, y[1]) + Count(d, y[1]))
  <2>1. ASSUME y \in L
        PROVE  /\ y = <<y[1], y[2]>> /\ y[1] \in DOMAIN e
               /\ y[2] \in (Count(c, y[1]) + 1)..(Count(c, y[1]) + Count(d, y[1]))
    <3>1. PICK x \in D : y = <<x[1], Count(c, x[1]) + x[2]>>
      BY <1>5, <1>7, <2>1
    <3> QED
      BY <1>1, <1>5, <3>1
  <2>2. ASSUME y = <<y[1], y[2]>>, y[1] \in DOMAIN e,
               y[2] \in (Count(c, y[1]) + 1)..(Count(c, y[1]) + Count(d, y[1]))
        PROVE  y \in L
    <3> DEFINE w == y[1]
               k == y[2] - Count(c, w)
               x == <<w, k>>
    <3>1. x[1] = w /\ x[2] = k /\ k \in 1..Count(d, w) /\ Count(c, w) + k = y[2]
      BY <1>1, <2>2
    <3>2. x \in D
      BY <1>3, <2>2, <3>1
    <3>3. g[x] = y
      BY <1>5, <2>2, <3>1, <3>2
    <3> QED
      BY <3>2, <3>3
  <2> QED
    BY <2>1, <2>2
<1> HIDE DEF g, L
<1>9. IsFiniteSet(L) /\ Cardinality(L) = Cardinality(D)
  BY <1>1, <1>6, <1>7, SameSize
<1>10. C \cap L = {}
  <2> SUFFICES ASSUME NEW x, x \in C, x \in L PROVE FALSE
    OBVIOUS
  <2> QED
    BY <1>1, <1>3, <1>8
<1>11. Occurrences(e) = C \cup L
  <2>1. ASSUME NEW x PROVE x \in Occurrences(e) <=> x \in C \/ x \in L
    <3>1. ASSUME x[1] \in DOMAIN e
          PROVE  x[2] \in 1..e[x[1]]
                   <=> \/ x[2] \in 1..Count(c, x[1])
                       \/ x[2] \in (Count(c, x[1]) + 1)..(Count(c, x[1]) + Count(d, x[1]))
      BY <1>1, <1>2, <3>1
    <3> QED
      BY <1>3, <1>4, <1>8, <3>1
  <2> QED
    BY <2>1
<1>12. /\ IsFiniteSet(C \cup L)
       /\ Cardinality(C \cup L) = Cardinality(C) + Cardinality(L)
  BY <1>1, <1>9, <1>10, ApartSize
<1> QED
  BY <1>2, <1>9, <1>11, <1>12 DEF Tallied, Total, e, C, D

-----------------------------------------------------------------------------
(* p lies in t, n bytes from its start. *)
Lies(p, n, t) ==
    /\ p \in Seq(Bytes) /\ t \in Seq(Bytes) /\ n \in Nat
    /\ n + Len(p) <= Len(t)
    /\ \A m \in 1..Len(p) : p[m] = t[m + n]

(* A word that begins in a part begins in the text, but for the one the    *)
(* cut makes.                                                              *)
LEMMA StartsWithin ==
    ASSUME NEW p, NEW n, NEW t, Lies(p, n, t), NEW i \in Starts(p)
    PROVE  /\ i + n \in Starts(t) \/ (n # 0 /\ i + n = n + 1)
           /\ i \in 1..Len(p) /\ i + n > n /\ i + n <= n + Len(p)
<1>1. /\ Len(p) \in Nat /\ Len(t) \in Nat /\ n \in Nat /\ n + Len(p) <= Len(t)
      /\ p \in Seq(Bytes)
  BY DEF Lies
<1>2. \A m \in 1..Len(p) : p[m] = t[m + n]
  BY DEF Lies
<1>3. i \in 1..Len(p) /\ (i = 1 \/ p[i - 1] = Blank)
  BY DEF Starts
<1>4. PICK k \in i..Len(p) : (\A m \in i..k : p[m] # Blank) /\ p[k] \notin Punctuation
  BY DEF Starts
<1> DEFINE u == i + n
           v == k + n
<1>5. u \in 1..Len(t) /\ v \in u..Len(t) /\ u > n /\ u <= n + Len(p)
  BY <1>1, <1>3, <1>4
<1>6. t[v] \notin Punctuation
  <2>1. k \in 1..Len(p)
    BY <1>1, <1>3, <1>4
  <2> QED
    BY <1>2, <1>4, <2>1
<1>7. \A m \in u..v : t[m] # Blank
  <2> SUFFICES ASSUME NEW m \in u..v PROVE t[m] # Blank
    OBVIOUS
  <2>1. m - n \in i..k /\ m - n \in 1..Len(p) /\ (m - n) + n = m
    BY <1>1, <1>3, <1>4
  <2> QED
    BY <1>2, <1>4, <2>1
<1>8. CASE i = 1 /\ n # 0
  BY <1>1, <1>3, <1>5, <1>8
<1>9. CASE i = 1 /\ n = 0
  <2>1. u = 1
    BY <1>9
  <2> HIDE DEF u, v
  <2>2. u \in Starts(t)
    BY <1>5, <1>6, <1>7, <2>1 DEF Starts
  <2> QED
    BY <1>3, <1>5, <2>2 DEF u
<1>10. CASE i # 1
  <2>1. i - 1 \in 1..Len(p) /\ (i - 1) + n = u - 1
    BY <1>1, <1>3, <1>10
  <2>2. t[u - 1] = Blank
    BY <1>2, <1>3, <1>10, <2>1
  <2> HIDE DEF u, v
  <2>3. u \in Starts(t)
    BY <1>5, <1>6, <1>7, <2>2 DEF Starts
  <2> QED
    BY <1>3, <1>5, <2>3 DEF u
<1> QED
  BY <1>8, <1>9, <1>10

Later(S, n) == {i + n : i \in S}

(* As many, further on. *)
LEMMA LaterSize ==
    ASSUME NEW S \in SUBSET Nat, NEW n \in Nat, IsFiniteSet(S)
    PROVE  IsFiniteSet(Later(S, n)) /\ Cardinality(Later(S, n)) = Cardinality(S)
<1> DEFINE g == [i \in S |-> i + n]
           T == Later(S, n)
<1>1. g \in [S -> T] /\ \A y \in T : \E x \in S : g[x] = y
  BY DEF Later
<1>2. \A x, y \in S : g[x] = g[y] => x = y
  OBVIOUS
<1> HIDE DEF g, T
<1>3. IsFiniteSet(T) /\ Cardinality(T) = Cardinality(S)
  BY <1>1, <1>2, SameSize
<1> QED
  BY <1>3 DEF T

(* One element more. *)
LEMMA OneAdded ==
    ASSUME NEW S, NEW x, IsFiniteSet(S)
    PROVE  /\ IsFiniteSet(S \cup {x}) /\ Cardinality(S \cup {x}) \in Nat
           /\ Cardinality(S \cup {x}) <= Cardinality(S) + 1
<1>1. /\ IsFiniteSet(S \cup {x})
      /\ Cardinality(S \cup {x}) = IF x \in S THEN Cardinality(S) ELSE Cardinality(S) + 1
  BY FS_AddElement
<1>2. Cardinality(S) \in Nat
  BY FS_CardinalityType
<1> QED
  BY <1>1, <1>2

(* Two cuts make at most two words more. *)
LEMMA TwoCuts ==
    ASSUME NEW t, NEW p, NEW q, NEW r, NEW m, NEW n,
           Lies(p, 0, t), Lies(q, m, t), Lies(r, n, t),
           Len(p) <= m, m + Len(q) <= n
    PROVE  Cardinality(Starts(p)) + Cardinality(Starts(q)) + Cardinality(Starts(r))
             <= Cardinality(Starts(t)) + 2
<1>1. /\ m \in Nat /\ n \in Nat /\ t \in Seq(Bytes)
      /\ p \in Seq(Bytes) /\ q \in Seq(Bytes) /\ r \in Seq(Bytes)
      /\ Len(p) \in Nat /\ Len(q) \in Nat
  BY DEF Lies
<1>2. /\ IsFiniteSet(Starts(p)) /\ IsFiniteSet(Starts(q))
      /\ IsFiniteSet(Starts(r)) /\ IsFiniteSet(Starts(t))
      /\ Starts(p) \in SUBSET Nat /\ Starts(q) \in SUBSET Nat /\ Starts(r) \in SUBSET Nat
  <2>1. \A x \in Seq(Bytes) : IsFiniteSet(Starts(x))
    BY StartsSize
  <2>2. \A x \in Seq(Bytes) : Starts(x) \in SUBSET Nat
    BY DEF Starts
  <2> QED
    BY <1>1, <2>1, <2>2
<1> DEFINE A == Starts(p)
           B == Later(Starts(q), m)
           C == Later(Starts(r), n)
           T == Starts(t)
<1>3. /\ \A i \in A : i \in Nat /\ i <= Len(p) /\ i \in T
      /\ \A i \in B : i \in Nat /\ i > m /\ i <= m + Len(q) /\ (i \in T \/ i = m + 1)
      /\ \A i \in C : i \in Nat /\ i > n /\ (i \in T \/ i = n + 1)
  <2>1. ASSUME NEW i \in A PROVE i \in Nat /\ i <= Len(p) /\ i \in T
    <3>1. i + 0 = i /\ 0 + Len(p) = Len(p) /\ i \in Nat
      BY <1>1, <1>2
    <3> QED
      BY <3>1, StartsWithin
  <2>2. ASSUME NEW i \in B
        PROVE  i \in Nat /\ i > m /\ i <= m + Len(q) /\ (i \in T \/ i = m + 1)
    <3>1. PICK j \in Starts(q) : i = j + m
      BY DEF Later
    <3> QED
      BY <1>1, <1>2, <3>1, StartsWithin
  <2>3. ASSUME NEW i \in C PROVE i \in Nat /\ i > n /\ (i \in T \/ i = n + 1)
    <3>1. PICK j \in Starts(r) : i = j + n
      BY DEF Later
    <3> QED
      BY <1>1, <1>2, <3>1, StartsWithin
  <2> QED
    BY <2>1, <2>2, <2>3
<1>4. /\ IsFiniteSet(A) /\ IsFiniteSet(B) /\ IsFiniteSet(C) /\ IsFiniteSet(T)
      /\ Cardinality(B) = Cardinality(Starts(q))
      /\ Cardinality(C) = Cardinality(Starts(r))
  BY <1>1, <1>2, LaterSize
<1>5. A \cap B = {} /\ (A \cup B) \cap C = {}
  BY <1>1, <1>3
<1>6. (A \cup B) \cup C \subseteq (T \cup {m + 1}) \cup {n + 1}
  BY <1>3
<1> HIDE DEF A, B, C, T
<1>7. /\ IsFiniteSet(A \cup B) /\ Cardinality(A \cup B) = Cardinality(A) + Cardinality(B)
      /\ Cardinality(A) \in Nat /\ Cardinality(B) \in Nat
  BY <1>4, <1>5, ApartSize
<1>8. /\ IsFiniteSet((A \cup B) \cup C)
      /\ Cardinality((A \cup B) \cup C) = Cardinality(A \cup B) + Cardinality(C)
      /\ Cardinality(C) \in Nat
  BY <1>4, <1>5, <1>7, ApartSize
<1>9. /\ IsFiniteSet(T \cup {m + 1}) /\ Cardinality(T) \in Nat
      /\ Cardinality(T \cup {m + 1}) <= Cardinality(T) + 1
      /\ Cardinality(T \cup {m + 1}) \in Nat
  <2>1. Cardinality(T) \in Nat
    BY <1>4, FS_CardinalityType
  <2> QED
    BY <1>4, <2>1, OneAdded
<1>10. /\ IsFiniteSet((T \cup {m + 1}) \cup {n + 1})
       /\ Cardinality((T \cup {m + 1}) \cup {n + 1}) <= Cardinality(T) + 2
       /\ Cardinality((T \cup {m + 1}) \cup {n + 1}) \in Nat
  <2> DEFINE U == T \cup {m + 1}
  <2>1. IsFiniteSet(U) /\ Cardinality(U) \in Nat
    BY <1>9
  <2> HIDE DEF U
  <2>2. /\ IsFiniteSet(U \cup {n + 1}) /\ Cardinality(U \cup {n + 1}) \in Nat
        /\ Cardinality(U \cup {n + 1}) <= Cardinality(U) + 1
    BY <2>1, OneAdded
  <2> QED
    BY <1>9, <2>2 DEF U
<1>11. Cardinality((A \cup B) \cup C) <= Cardinality((T \cup {m + 1}) \cup {n + 1})
  BY <1>6, <1>10, FS_Subset
<1>12. Cardinality(A) + Cardinality(B) + Cardinality(C) <= Cardinality(T) + 2
  BY <1>7, <1>8, <1>9, <1>10, <1>11
<1> QED
  BY <1>4, <1>12 DEF A, T

(* What ReadFrom may leave of a text, and what a mapper makes of what it   *)
(* leaves of a chunk.                                                      *)
Prefixes(t) == {SubSeq(t, 1, n) : n \in 0..Len(t)}

Pieces(t, i) == {Counts(q) : q \in Prefixes(Chunk(t, i))}

(* A prefix of a part of a prefix lies in the text where the part does. *)
LEMMA PrefixLies ==
    ASSUME NEW t \in Seq(Bytes), NEW content \in Prefixes(t),
           NEW a \in Nat, NEW u, u = a + 1,
           NEW b \in Nat, a <= b, b <= Len(content),
           NEW q \in Prefixes(SubSeq(content, u, b))
    PROVE  Lies(q, a, t) /\ Len(q) <= b - a
<1>1. PICK n \in 0..Len(t) : content = SubSeq(t, 1, n)
  BY DEF Prefixes
<1>2. /\ content \in Seq(Bytes) /\ Len(content) = n /\ n <= Len(t)
      /\ Len(t) \in Nat /\ \A m \in 1..n : content[m] = t[m]
  BY <1>1
<1> DEFINE s == SubSeq(content, u, b)
<1>3. /\ s \in Seq(Bytes) /\ Len(s) = b - a
      /\ \A m \in 1..(b - a) : s[m] = content[m + a]
  BY <1>2
<1> HIDE DEF s
<1>4. PICK k \in 0..Len(s) : q = SubSeq(s, 1, k)
  BY DEF Prefixes, s
<1>5. /\ q \in Seq(Bytes) /\ Len(q) = k /\ k \in 0..(b - a)
      /\ \A m \in 1..k : q[m] = s[m]
  BY <1>3, <1>4
<1>6. ASSUME NEW m \in 1..Len(q) PROVE q[m] = t[m + a]
  <2>1. m \in 1..k /\ m \in 1..(b - a) /\ m + a \in 1..n
    BY <1>2, <1>5
  <2> QED
    BY <1>2, <1>3, <1>5, <2>1
<1>7. a + Len(q) <= Len(t) /\ Len(q) <= b - a
  BY <1>2, <1>5
<1> QED
  BY <1>5, <1>6, <1>7 DEF Lies

(* What the mappers count of a text cut short anywhere has at most two     *)
(* words more than the text.                                               *)
LEMMA PiecesTotal ==
    ASSUME NEW t \in Seq(Bytes), NEW content \in Prefixes(t),
           NEW c \in Pieces(content, 0), NEW d \in Pieces(content, 1),
           NEW e \in Pieces(content, 2)
    PROVE  Total(Merge(Merge(c, d), e)) <= Total(Counts(t)) + 2
<1> DEFINE size == Len(content) \div 3
           two == 2 * size
<1>1. content \in Seq(Bytes)
  BY DEF Prefixes
<1>0. size = Len(content) \div 3 /\ two = 2 * size
  OBVIOUS
<1> HIDE DEF size, two
<1>2. /\ size \in Nat /\ Len(content) \in Nat /\ 2 * size <= Len(content)
      /\ Chunk(content, 0) = SubSeq(content, 1, size)
      /\ Chunk(content, 1) = SubSeq(content, size + 1, 2 * size)
      /\ Chunk(content, 2) = SubSeq(content, 2 * size + 1, Len(content))
  BY <1>0, <1>1, ChunkParts
<1>3. PICK p \in Prefixes(Chunk(content, 0)) : c = Counts(p)
  BY DEF Pieces
<1>4. PICK q \in Prefixes(Chunk(content, 1)) : d = Counts(q)
  BY DEF Pieces
<1>5. PICK r \in Prefixes(Chunk(content, 2)) : e = Counts(r)
  BY DEF Pieces
<1>6. Lies(p, 0, t) /\ Len(p) <= size
  <2>1. 0 \in Nat /\ 1 = 0 + 1 /\ size - 0 = size /\ 0 <= size /\ size <= Len(content)
    BY <1>2
  <2>2. p \in Prefixes(SubSeq(content, 1, size))
    BY <1>2, <1>3
  <2>3. Lies(p, 0, t) /\ Len(p) <= size - 0
    BY <1>2, <2>1, <2>2, PrefixLies
  <2> QED
    BY <2>1, <2>3
<1>7. Lies(q, size, t) /\ Len(q) <= two - size
  <2>1. two \in Nat /\ size <= two /\ two <= Len(content)
    BY <1>0, <1>2
  <2> DEFINE u == size + 1
  <2>2. q \in Prefixes(SubSeq(content, u, two)) /\ u = size + 1
    BY <1>0, <1>2, <1>4
  <2> HIDE DEF u
  <2> QED
    BY <1>2, <2>1, <2>2, PrefixLies
<1>8. Lies(r, two, t)
  <2>1. two \in Nat /\ two <= Len(content)
    BY <1>0, <1>2
  <2> DEFINE u == two + 1
  <2>2. r \in Prefixes(SubSeq(content, u, Len(content))) /\ u = two + 1
    BY <1>0, <1>2, <1>5
  <2> HIDE DEF u
  <2> QED
    BY <1>2, <2>1, <2>2, PrefixLies
<1>9. /\ p \in Seq(Bytes) /\ q \in Seq(Bytes) /\ r \in Seq(Bytes)
      /\ Len(q) \in Nat /\ size + Len(q) <= two
  <2>1. p \in Seq(Bytes) /\ q \in Seq(Bytes) /\ r \in Seq(Bytes)
    BY <1>6, <1>7, <1>8 DEF Lies
  <2> QED
    BY <1>0, <1>2, <1>7, <2>1
<1>10. Cardinality(Starts(p)) + Cardinality(Starts(q)) + Cardinality(Starts(r))
         <= Cardinality(Starts(t)) + 2
  BY <1>6, <1>7, <1>8, <1>9, TwoCuts
<1>11. /\ Tallied(c) /\ Total(c) = Cardinality(Starts(p))
       /\ Tallied(d) /\ Total(d) = Cardinality(Starts(q))
       /\ Tallied(e) /\ Total(e) = Cardinality(Starts(r))
       /\ Total(Counts(t)) = Cardinality(Starts(t))
  BY <1>3, <1>4, <1>5, <1>9, TotalCounts
<1>12. Tallied(Merge(c, d)) /\ Total(Merge(c, d)) = Total(c) + Total(d)
  BY <1>11, TotalMerge
<1>13. Total(Merge(Merge(c, d), e)) = Total(Merge(c, d)) + Total(e)
  BY <1>11, <1>12, TotalMerge
<1> QED
  BY <1>10, <1>11, <1>12, <1>13

-----------------------------------------------------------------------------
(* The first n results are counts of what arrived of the text's chunks.    *)
Pieced(t, n) ==
    \A i \in Parts : i < n => i \in DOMAIN mapped /\ mapped[i] \in Pieces(t, i)

(* What the reducer may have added up after n results. *)
Sums(t, n) ==
    IF n = 0 THEN {NoCounts}
    ELSE IF n = 1 THEN Pieces(t, 0)
    ELSE IF n = 2 THEN {Merge(c, d) : c \in Pieces(t, 0), d \in Pieces(t, 1)}
    ELSE {Merge(Merge(c, d), e) :
             c \in Pieces(t, 0), d \in Pieces(t, 1), e \in Pieces(t, 2)}

(* What a run whose mappers succeeded has done so far, whatever arrived of *)
(* its text and of its chunks.                                             *)
PiecesOnTheWay(r) ==
    /\ runs[r].phase # "new" => runs[r].content \in Prefixes(runs[r].text)
    /\ runs[r].phase = "split" => Uploaded(runs[r].content, runs[r].step)
    /\ runs[r].phase = "map" => Uploaded(runs[r].content, 3)
    /\ ~runs[r].failed =>
          /\ runs[r].phase = "map" => Pieced(runs[r].content, runs[r].step)
          /\ runs[r].phase = "reduce" =>
                /\ Pieced(runs[r].content, 3)
                /\ runs[r].sum \in Sums(runs[r].content, runs[r].step)
          /\ runs[r].phase = "done" => runs[r].sum \in Sums(runs[r].content, 3)

PiecesInv == \A r \in Runs : PiecesOnTheWay(r)

(* What arrives of a body is a prefix of it. *)
LEMMA ArrivingPrefix ==
    ASSUME NEW r, NEW body \in Seq(Bytes), NEW content \in Arrives(r, body)
    PROVE  content \in Prefixes(body)
<1>1. body = SubSeq(body, 1, Len(body))
  <2> DEFINE x == SubSeq(body, 1, Len(body))
  <2>1. x \in Seq(Bytes) /\ Len(x) = Len(body) /\ \A m \in 1..Len(x) : x[m] = body[m]
    OBVIOUS
  <2> HIDE DEF x
  <2>2. x = body
    BY <2>1, SeqEqual
  <2> QED
    BY <2>2 DEF x
<1>2. /\ Len(body) \in 0..Len(body)
      /\ \A n \in 0..(Len(body) - 1) : n \in 0..Len(body)
  OBVIOUS
<1>3. content = body \/ \E n \in 0..(Len(body) - 1) : content = SubSeq(body, 1, n)
  BY DEF Arrives
<1>4. CASE content = body
  BY <1>1, <1>2, <1>4 DEF Prefixes
<1>5. ASSUME NEW n \in 0..(Len(body) - 1), content = SubSeq(body, 1, n)
      PROVE  content \in Prefixes(body)
  BY <1>2, <1>5 DEF Prefixes
<1> QED
  BY <1>3, <1>4, <1>5

(* The sums after each result. *)
LEMMA SumsAre ==
    ASSUME NEW t, NEW s
    PROVE  /\ s \in Sums(t, 0) <=> s = NoCounts
           /\ s \in Sums(t, 1) <=> s \in Pieces(t, 0)
           /\ s \in Sums(t, 2) <=> \E c \in Pieces(t, 0), d \in Pieces(t, 1) : s = Merge(c, d)
           /\ s \in Sums(t, 3) <=> \E c \in Pieces(t, 0), d \in Pieces(t, 1), e \in Pieces(t, 2) :
                                      s = Merge(Merge(c, d), e)
BY DEF Sums

(* What is left to show of a step of run r. *)
LEMMA PieceStep ==
    ASSUME MRInv, PiecesInv, NEW r \in Runs, NEW x \in RunState,
           runs' = [runs EXCEPT ![r] = x],
           Active(r) \/ \A q \in Runs : ~Active(q),
           PiecesOnTheWay(r)'
    PROVE  PiecesInv'
<1>1. \A q \in Runs \ {r} : runs'[q] = runs[q]
  BY DEF MRInv, MRTyped
<1>2. ASSUME NEW q \in Runs \ {r} PROVE PiecesOnTheWay(q)'
  <2>1. runs[q].phase \notin {"split", "map", "reduce"}
    BY DEF MRInv, OneActive, Active
  <2>2. PiecesOnTheWay(q)
    BY DEF PiecesInv
  <2>3. runs'[q] = runs[q]
    BY <1>1
  <2> QED
    BY <2>1, <2>2, <2>3 DEF PiecesOnTheWay
<1> QED
  BY <1>2 DEF PiecesInv

(* It holds in every reachable state. *)
LEMMA PiecesInvariant == Spec => []PiecesInv
<1> USE DEF Parts
<1>1. Init => PiecesInv
  BY DEF Init, PiecesInv, PiecesOnTheWay
<1>2. MRInv /\ PiecesInv /\ [Next]_vars => PiecesInv'
  <2> SUFFICES ASSUME MRInv, PiecesInv, [Next]_vars PROVE PiecesInv'
    OBVIOUS
  <2>0. /\ MRTyped /\ runs \in [Runs -> RunState]
        /\ \A q \in Runs : runs[q] \in RunState /\ OnItsWay(q) /\ PiecesOnTheWay(q)
    BY DEF MRInv, MRTyped, PiecesInv
  <2>1. ASSUME NEW r \in Runs, NEW t \in Texts[r], Begin(r, t) PROVE PiecesInv'
    <3>1. t \in Seq(Bytes)
      BY RunAssumption
    <3>2. PICK content \in Arrives(r, t) :
             runs' = [runs EXCEPT ![r].phase = "split", ![r].text = t,
                                  ![r].content = content,
                                  ![r].short = content # t]
      BY <2>1 DEF Begin
    <3>3. content \in Prefixes(t) /\ content \in Seq(Bytes)
      BY <3>1, ArrivingPrefix, ArrivingText
    <3> DEFINE x == [runs[r] EXCEPT !.phase = "split", !.text = t,
                                    !.content = content, !.short = content # t]
    <3>4. /\ x \in RunState /\ x.phase = "split" /\ x.text = t /\ x.content = content
          /\ x.step = runs[r].step
      BY <2>0, <3>1, <3>3 DEF RunState
    <3>5. runs' = [runs EXCEPT ![r] = x]
      BY <3>2
    <3> HIDE DEF x
    <3>6. runs'[r] = x
      BY <2>0, <3>5
    <3>7. runs[r].phase = "new" /\ \A q \in Runs : ~Active(q)
      BY <2>1 DEF Begin
    <3>8. x.step = 0
      BY <2>0, <3>4, <3>7 DEF OnItsWay
    <3>9. PiecesOnTheWay(r)'
      <4>1. \A j \in Parts : ~(j < x.step)
        BY <3>8
      <4> QED
        BY <3>3, <3>4, <3>6, <4>1 DEF PiecesOnTheWay, Uploaded
    <3> QED
      BY <3>4, <3>5, <3>7, <3>9, PieceStep
  <2>2. ASSUME NEW r \in Runs, Split(r) PROVE PiecesInv'
    <3> DEFINE i == runs[r].step
               n == IF i = 2 THEN 0 ELSE i + 1
               p == IF i = 2 THEN "map" ELSE "split"
               x == [runs[r] EXCEPT !.step = n, !.phase = p]
    <3>1. /\ runs[r].phase = "split" /\ i \in 0..2 /\ Active(r)
          /\ runs[r] \in RunState
      BY <2>0, <2>2 DEF Split, Active, RunState
    <3>2. n \in 0..2 /\ p \in {"split", "map"}
      BY <3>1
    <3>3. runs' = [runs EXCEPT ![r] = x]
      <4>1. [runs[r] EXCEPT !.short = runs[r].short] = runs[r]
        BY <3>1 DEF RunState
      <4> QED
        BY <2>2, <3>1, <4>1 DEF Split, Advance
    <3>4. chunk' = PutObject(chunk, i, Chunk(runs[r].content, i))
      BY <2>2 DEF Split
    <3> HIDE DEF n, p
    <3>5. /\ x \in RunState /\ x.text = runs[r].text /\ x.content = runs[r].content
          /\ x.step = n /\ x.phase = p
      BY <3>1, <3>2 DEF RunState
    <3> HIDE DEF x, i
    <3>6. /\ DOMAIN chunk' = DOMAIN chunk \cup {i}
          /\ chunk'[i] = Chunk(runs[r].content, i)
          /\ \A j \in DOMAIN chunk \ {i} : chunk'[j] = chunk[j]
      BY <3>4 DEF PutObject
    <3>7. x.content \in Prefixes(x.text) /\ Uploaded(x.content, i)
      BY <2>0, <3>1, <3>5 DEF PiecesOnTheWay, i
    <3>8. \A j \in Parts : j <= i =>
             j \in DOMAIN chunk' /\ chunk'[j] = Chunk(x.content, j)
      BY <3>1, <3>5, <3>6, <3>7 DEF Uploaded
    <3>9. runs'[r] = x
      BY <2>0, <3>3
    <3>10. PiecesOnTheWay(r)'
      <4>1. CASE i = 2
        BY <3>2, <3>5, <3>7, <3>8, <3>9, <4>1 DEF PiecesOnTheWay, Uploaded, Pieced, n, p
      <4>2. CASE i # 2
        BY <3>1, <3>2, <3>5, <3>7, <3>8, <3>9, <4>2 DEF PiecesOnTheWay, Uploaded, n, p
      <4> QED
        BY <4>1, <4>2
    <3> QED
      BY <3>1, <3>3, <3>5, <3>10, PieceStep
  <2>3. ASSUME NEW r \in Runs, Map(r) PROVE PiecesInv'
    <3> DEFINE i == runs[r].step
               n == IF i = 2 THEN 0 ELSE i + 1
               p == IF i = 2 THEN "reduce" ELSE "map"
    <3>1. /\ runs[r].phase = "map" /\ i \in 0..2 /\ Active(r)
          /\ runs[r] \in RunState /\ runs[r].content \in Seq(Bytes)
          /\ i \in DOMAIN chunk /\ chunk[i] \in Seq(Bytes) /\ chunk' = chunk
      BY <2>0, <2>3 DEF Map, Active, RunState, MRTyped
    <3>2. n \in 0..2 /\ p \in {"map", "reduce"}
      BY <3>1
    <3>3. PICK content \in Arrives(r, chunk[i]) :
             /\ mapped' = PutObject(mapped, i, Counts(content))
             /\ Advance(r, "reduce", runs[r].short \/ content # chunk[i])
      BY <2>3 DEF Map
    <3> DEFINE b == runs[r].short \/ content # chunk[i]
               x == [runs[r] EXCEPT !.step = n, !.phase = p, !.short = b]
    <3>4. runs' = [runs EXCEPT ![r] = x]
      BY <3>1, <3>3 DEF Advance
    <3> HIDE DEF n, p
    <3>5. /\ x \in RunState /\ x.text = runs[r].text /\ x.content = runs[r].content
          /\ x.failed = runs[r].failed
          /\ x.sum = runs[r].sum /\ x.step = n /\ x.phase = p
      <4>1. b \in BOOLEAN
        BY <3>1 DEF RunState
      <4> HIDE DEF b
      <4> QED
        BY <3>1, <3>2, <4>1 DEF RunState
    <3> HIDE DEF x, i
    <3>6. /\ DOMAIN mapped' = DOMAIN mapped \cup {i}
          /\ mapped'[i] = Counts(content)
          /\ \A j \in DOMAIN mapped \ {i} : mapped'[j] = mapped[j]
      BY <3>3 DEF PutObject
    <3>7. /\ x.content \in Prefixes(x.text) /\ Uploaded(x.content, 3)
          /\ ~x.failed => Pieced(x.content, i)
          /\ x.sum = NoCounts
      BY <2>0, <3>1, <3>5 DEF PiecesOnTheWay, OnItsWay, i
    <3>8. mapped'[i] \in Pieces(x.content, i)
      <4>1. chunk[i] = Chunk(x.content, i)
        BY <3>1, <3>7 DEF Uploaded
      <4>2. content \in Prefixes(Chunk(x.content, i))
        BY <3>1, <3>3, <4>1, ArrivingPrefix
      <4> QED
        BY <3>6, <4>2 DEF Pieces
    <3>9. ~x.failed => \A j \in Parts : j <= i =>
             j \in DOMAIN mapped' /\ mapped'[j] \in Pieces(x.content, j)
      BY <3>1, <3>6, <3>7, <3>8 DEF Pieced
    <3>10. runs'[r] = x
      BY <2>0, <3>4
    <3>11. PiecesOnTheWay(r)'
      <4>1. CASE i = 2
        BY <3>2, <3>5, <3>7, <3>9, <3>10, <4>1 DEF PiecesOnTheWay, Pieced, Sums, n, p
      <4>2. CASE i # 2
        BY <3>1, <3>2, <3>5, <3>7, <3>9, <3>10, <4>2
           DEF PiecesOnTheWay, Pieced, Uploaded, n, p
      <4> QED
        BY <4>1, <4>2
    <3> QED
      BY <3>1, <3>4, <3>5, <3>11, PieceStep
  <2>4. ASSUME NEW r \in Runs, MapFails(r) PROVE PiecesInv'
    <3> DEFINE i == runs[r].step
               n == IF i = 2 THEN 0 ELSE i + 1
               p == IF i = 2 THEN "reduce" ELSE "map"
               x == [runs[r] EXCEPT !.step = n, !.phase = p, !.failed = TRUE]
    <3>1. /\ runs[r].phase = "map" /\ i \in 0..2 /\ Active(r)
          /\ runs[r] \in RunState /\ chunk' = chunk
      BY <2>0, <2>4 DEF MapFails, Active, RunState
    <3>2. n \in 0..2 /\ p \in {"map", "reduce"}
      BY <3>1
    <3>3. runs' = [runs EXCEPT ![r] = x]
      BY <2>4, <3>1 DEF MapFails
    <3> HIDE DEF n, p
    <3>4. /\ x \in RunState /\ x.text = runs[r].text /\ x.content = runs[r].content
          /\ x.failed /\ x.step = n /\ x.phase = p
      BY <3>1, <3>2 DEF RunState
    <3> HIDE DEF x
    <3>5. runs'[r] = x /\ x.content \in Prefixes(x.text) /\ Uploaded(x.content, 3)
      BY <2>0, <3>1, <3>3, <3>4 DEF PiecesOnTheWay
    <3>6. PiecesOnTheWay(r)'
      BY <3>1, <3>2, <3>4, <3>5 DEF PiecesOnTheWay, Uploaded
    <3> QED
      BY <3>1, <3>3, <3>4, <3>6, PieceStep
  <2>5. ASSUME NEW r \in Runs, SplitFails(r) \/ ReduceFails(r) PROVE PiecesInv'
    <3> DEFINE x == [runs[r] EXCEPT !.phase = "aborted"]
    <3>1. /\ runs[r].phase \in {"split", "reduce"} /\ Active(r)
          /\ runs[r] \in RunState /\ runs' = [runs EXCEPT ![r] = x]
      BY <2>0, <2>5 DEF SplitFails, ReduceFails, Active
    <3>2. /\ x \in RunState /\ x.phase = "aborted" /\ x.text = runs[r].text
          /\ x.content = runs[r].content
      BY <3>1 DEF RunState
    <3> HIDE DEF x
    <3>3. runs'[r] = x /\ x.content \in Prefixes(x.text)
      BY <2>0, <3>1, <3>2 DEF PiecesOnTheWay
    <3>4. PiecesOnTheWay(r)'
      BY <3>2, <3>3 DEF PiecesOnTheWay
    <3> QED
      BY <3>1, <3>2, <3>4, PieceStep
  <2>6. ASSUME NEW r \in Runs, Reduce(r) PROVE PiecesInv'
    <3> DEFINE i == runs[r].step
               n == IF i = 2 THEN 0 ELSE i + 1
               p == IF i = 2 THEN "done" ELSE "reduce"
               sum == Merge(runs[r].sum, mapped[i])
               x == [runs[r] EXCEPT !.sum = sum, !.step = n, !.phase = p]
    <3>1. /\ runs[r].phase = "reduce" /\ i \in 0..2 /\ Active(r)
          /\ runs[r] \in RunState /\ runs[r].sum \in Tallies
          /\ runs[r].content \in Seq(Bytes)
          /\ i \in DOMAIN mapped /\ mapped[i] \in Tallies
          /\ mapped' = mapped
      BY <2>0, <2>6 DEF Reduce, Active, RunState, MRTyped
    <3>2. n \in 0..2 /\ p \in {"reduce", "done"} /\ sum \in Tallies
      BY <3>1, MergeTally
    <3>3. runs' = [runs EXCEPT ![r] = x]
      BY <2>6, <3>1 DEF Reduce
    <3> HIDE DEF n, p, sum
    <3>4. /\ x \in RunState /\ x.text = runs[r].text /\ x.content = runs[r].content
          /\ x.failed = runs[r].failed
          /\ x.sum = sum /\ x.step = n /\ x.phase = p
      BY <3>1, <3>2 DEF RunState
    <3> HIDE DEF x, i
    <3>5. runs'[r] = x /\ x.content \in Prefixes(x.text)
      BY <2>0, <3>1, <3>3, <3>4 DEF PiecesOnTheWay
    <3>6. ASSUME ~x.failed
          PROVE  Pieced(x.content, 3) /\ sum \in Sums(x.content, i + 1)
      <4>1. Pieced(x.content, 3) /\ runs[r].sum \in Sums(x.content, i)
        BY <2>0, <3>1, <3>4, <3>6 DEF PiecesOnTheWay, i
      <4>2. mapped[i] \in Pieces(x.content, i)
        BY <3>1, <4>1 DEF Pieced
      <4>3. CASE i = 0
        <5>1. runs[r].sum = NoCounts
          BY <4>1, <4>3, SumsAre
        <5>2. sum = mapped[i]
          BY <3>1, <5>1, MergeFirst DEF sum
        <5>3. sum \in Pieces(x.content, 0)
          BY <4>2, <4>3, <5>2
        <5>4. sum \in Sums(x.content, 1) /\ i + 1 = 1
          BY <4>3, <5>3, SumsAre
        <5> QED
          BY <4>1, <5>4
      <4>4. CASE i = 1
        <5>1. runs[r].sum \in Pieces(x.content, 0) /\ mapped[i] \in Pieces(x.content, 1)
          BY <4>1, <4>2, <4>4, SumsAre
        <5>2. sum \in Sums(x.content, 2) /\ i + 1 = 2
          BY <4>4, <5>1, SumsAre DEF sum
        <5> QED
          BY <4>1, <5>2
      <4>5. CASE i = 2
        <5>1. \E c \in Pieces(x.content, 0), d \in Pieces(x.content, 1) :
                 runs[r].sum = Merge(c, d)
          BY <4>1, <4>5, SumsAre
        <5>2. mapped[i] \in Pieces(x.content, 2)
          BY <4>2, <4>5
        <5>3. sum \in Sums(x.content, 3) /\ i + 1 = 3
          BY <4>5, <5>1, <5>2, SumsAre DEF sum
        <5> QED
          BY <4>1, <5>3
      <4> QED
        BY <3>1, <4>1, <4>3, <4>4, <4>5
    <3>7. PiecesOnTheWay(r)'
      <4>1. CASE i = 2
        BY <3>2, <3>4, <3>5, <3>6, <4>1 DEF PiecesOnTheWay, n, p
      <4>2. CASE i # 2
        BY <3>1, <3>2, <3>4, <3>5, <3>6, <4>2 DEF PiecesOnTheWay, Pieced, n, p
      <4> QED
        BY <4>1, <4>2
    <3> QED
      BY <3>1, <3>3, <3>4, <3>7, PieceStep
  <2>7. CASE UNCHANGED vars
    BY <2>0, <2>7 DEF vars, PiecesInv, PiecesOnTheWay, Uploaded, Pieced
  <2> QED
    BY <2>1, <2>2, <2>3, <2>4, <2>5, <2>6, <2>7 DEF Next
<1> QED
  BY <1>1, <1>2, MRInvariant, PTL DEF Spec

(* A run whose mappers all succeeded returns what sequential_wordcount.py  *)
(* counts when no chunk boundary falls inside a word and every body is     *)
(* whole, and at most two words more in all otherwise, for any texts,      *)
(* wherever bodies are cut short and whatever earlier runs left behind.    *)
THEOREM AgreesWithSequential == Spec => []AgreesUnlessCut
<1>1. MRInv /\ PiecesInv => AgreesUnlessCut
  <2> SUFFICES ASSUME MRInv, PiecesInv, NEW r \in Runs,
                      runs[r].phase = "done", ~runs[r].failed
               PROVE  /\ ~CutsWord(runs[r].text) /\ ~runs[r].short =>
                            runs[r].sum = Counts(runs[r].text)
                      /\ Total(runs[r].sum) <= Total(Counts(runs[r].text)) + 2
    BY DEF AgreesUnlessCut
  <2> DEFINE t == runs[r].text
             content == runs[r].content
             sum == runs[r].sum
  <2>1. /\ t \in Seq(Bytes) /\ content \in Prefixes(t) /\ sum \in Sums(content, 3)
        /\ ~runs[r].short => sum = SumOf(t, 3)
    BY DEF MRInv, MRTyped, RunState, OnItsWay, PiecesInv, PiecesOnTheWay
  <2> HIDE DEF t, content, sum
  <2>2. ASSUME ~CutsWord(t), ~runs[r].short PROVE sum = Counts(t)
    BY <2>1, <2>2, WholeCounts DEF SumOf
  <2>3. PICK c \in Pieces(content, 0), d \in Pieces(content, 1), e \in Pieces(content, 2) :
           sum = Merge(Merge(c, d), e)
    BY <2>1, SumsAre
  <2>4. Total(sum) <= Total(Counts(t)) + 2
    BY <2>1, <2>3, PiecesTotal
  <2> QED
    BY <2>2, <2>4 DEF t, sum
<1> QED
  BY <1>1, MRInvariant, PiecesInvariant, PTL

-----------------------------------------------------------------------------
(* The album list *)

(* What a word of a slice may be, and the words a handler has loaded. *)
WordValue == Posts \cup {"first"} \cup Nat

Words == UNION {[D -> WordValue] : D \in SUBSET Word}

PostProgress ==
    [phase : {"new", "loading", "cap", "ptr", "len", "element", "done"},
     words : Words]

GetProgress ==
    [phase : {"new", "loading", "done"}, words : Words,
     before : SUBSET Posts, seen : SUBSET (Posts \cup {"seed", "blank"})]

(* Words of a slice name an array there is, and numbers. *)
Sound(words) ==
    /\ "ptr" \in DOMAIN words => words["ptr"] \in DOMAIN arrays
    /\ "len" \in DOMAIN words => words["len"] \in Nat
    /\ "cap" \in DOMAIN words => words["cap"] \in Nat

SliceTyped ==
    /\ header \in Words /\ DOMAIN header = Word /\ Sound(header)
    /\ DOMAIN arrays \subseteq Posts \cup {"first"}
    /\ \A a \in DOMAIN arrays, i \in Nat :
          i \in Cells(a) => arrays[a][i] \in Posts \cup {"seed", "blank"}
    /\ posts \in [Posts -> PostProgress]
    /\ gets \in [Gets -> GetProgress]
    /\ corrupted \in BOOLEAN
    /\ overlapped \subseteq Posts

(* How far a handler is says which words it has; a post's array appears    *)
(* when it has found no room.                                              *)
WordsLoaded ==
    /\ \A p \in Posts :
          /\ Sound(posts[p].words)
          /\ posts[p].phase = "new" => DOMAIN posts[p].words = {}
          /\ posts[p].phase \in {"cap", "ptr", "len", "element"} =>
                DOMAIN posts[p].words = Word /\ posts[p].words["len"] > 0
          /\ p \in DOMAIN arrays => posts[p].phase \notin {"new", "loading"}
    /\ \A g \in Gets :
          /\ Sound(gets[g].words)
          /\ gets[g].phase = "new" => DOMAIN gets[g].words = {}
          /\ gets[g].phase # "new" =>
                \A p \in gets[g].before : posts[p].phase = "done"

(* Whoever runs beside another post is noted, and the words of one that    *)
(* runs alone are those of the list.                                       *)
AloneAgrees ==
    \A p \in Running \ overlapped :
        /\ \A q \in Running : q = p
        /\ posts[p].phase = "loading" =>
              \A w \in DOMAIN posts[p].words : posts[p].words[w] = header[w]
        /\ posts[p].phase \in {"len", "element"} =>
              posts[p].words["ptr"] = header["ptr"]
        /\ posts[p].phase = "element" => posts[p].words["len"] = header["len"]

(* Album p is the k-th cell of an array. *)
Holds(a, p, k) == a \in DOMAIN arrays /\ k \in Cells(a) /\ arrays[a][k] = p

Reaches(words, p, k) ==
    /\ "ptr" \in DOMAIN words => Holds(words["ptr"], p, k)
    /\ "len" \in DOMAIN words => words["len"] >= k

(* It is there in every array that a word of the list or of a request may  *)
(* name, within every length, and before the place any post will write to. *)
KeptAt(p, k) ==
    /\ Reaches(header, p, k)
    /\ \A q \in Running :
          /\ Reaches(posts[q].words, p, k)
          /\ posts[q].phase # "loading" => posts[q].words["len"] > k
    /\ \A g \in Gets :
          gets[g].phase = "loading" /\ p \in gets[g].before =>
              Reaches(gets[g].words, p, k)

LoneKept ==
    ~corrupted => \A p \in Posts \ overlapped :
        posts[p].phase = "done" => \E k \in Nat \ {0} : KeptAt(p, k)

SliceInv == /\ SliceTyped /\ WordsLoaded /\ AloneAgrees
            /\ LoneKept /\ LoneAlbumStays

(* A handler loads one word more. *)
LEMMA LoadWord ==
    ASSUME NEW words \in Words, NEW w \in Word, NEW v \in WordValue
    PROVE  /\ With(words, w, v) \in Words
           /\ DOMAIN With(words, w, v) = DOMAIN words \cup {w}
           /\ With(words, w, v)[w] = v
           /\ \A u \in DOMAIN words \ {w} : With(words, w, v)[u] = words[u]
<1>1. DOMAIN words \subseteq Word /\ words \in [DOMAIN words -> WordValue]
  BY DEF Words
<1> DEFINE D == DOMAIN words \cup {w}
<1>2. D \in SUBSET Word
  BY <1>1
<1>3. With(words, w, v) \in [D -> WordValue]
  BY <1>1 DEF With
<1>4. With(words, w, v) \in Words
  BY <1>2, <1>3 DEF Words
<1> QED
  BY <1>4 DEF With

(* What a word of the list is. *)
LEMMA HeaderWord ==
    ASSUME SliceTyped, NEW w \in Word
    PROVE  header[w] \in WordValue
BY DEF SliceTyped, Words, WordValue

(* The post that takes a step is the only one whose progress changes. *)
LEMMA PostMoves ==
    ASSUME SliceTyped, NEW p \in Posts, NEW x \in PostProgress,
           posts' = [posts EXCEPT ![p] = x]
    PROVE  /\ posts' \in [Posts -> PostProgress] /\ posts'[p] = x
           /\ \A q \in Posts \ {p} : posts'[q] = posts[q]
BY DEF SliceTyped

(* A post begins: it has no words yet, and one running besides is noted. *)
LEMMA BeginKeeps ==
    ASSUME SliceInv, NEW p \in Posts, PostBegin(p)
    PROVE  SliceInv'
<1>0. SliceTyped /\ WordsLoaded /\ AloneAgrees /\ LoneKept /\ LoneAlbumStays
  BY DEF SliceInv
<1> DEFINE x == [posts[p] EXCEPT !.phase = "loading"]
<1>1. /\ posts[p].phase = "new" /\ posts[p] \in PostProgress
      /\ posts' = [posts EXCEPT ![p] = x]
      /\ UNCHANGED <<header, arrays, gets, corrupted>>
  BY <1>0 DEF PostBegin, SliceTyped
<1>2. x \in PostProgress /\ x.phase = "loading" /\ x.words = posts[p].words
  BY <1>1 DEF PostProgress
<1> HIDE DEF x
<1>3. /\ posts' \in [Posts -> PostProgress] /\ posts'[p] = x
      /\ \A q \in Posts \ {p} : posts'[q] = posts[q]
  BY <1>0, <1>1, <1>2, PostMoves
<1>4. /\ Running' = Running \cup {p} /\ p \notin Running
      /\ overlapped \subseteq overlapped' /\ overlapped' \subseteq Posts
      /\ Running # {} => Running \cup {p} \subseteq overlapped'
  <2>1. Running' = Running \cup {p} /\ p \notin Running
    BY <1>1, <1>2, <1>3 DEF Running
  <2>2. overlapped' = IF Running = {} THEN overlapped ELSE overlapped \cup Running \cup {p}
    BY DEF PostBegin
  <2>3. overlapped \subseteq Posts /\ Running \subseteq Posts
    BY <1>0 DEF SliceTyped, Running
  <2> QED
    BY <2>1, <2>2, <2>3
<1>5. DOMAIN x.words = {}
  BY <1>0, <1>1, <1>2 DEF WordsLoaded
<1>6. SliceTyped'
  BY <1>0, <1>1, <1>3, <1>4 DEF SliceTyped, Sound, Cells
<1>7. WordsLoaded'
  BY <1>0, <1>1, <1>2, <1>3, <1>5 DEF WordsLoaded, Sound
<1>8. AloneAgrees'
  <2> SUFFICES ASSUME NEW r \in Running', r \notin overlapped'
               PROVE  r = p /\ Running = {}
    BY <1>2, <1>3, <1>4, <1>5 DEF AloneAgrees
  <2> QED
    BY <1>4
<1>9. LoneKept'
  <2> SUFFICES ASSUME ~corrupted, NEW r \in Posts, r \notin overlapped',
                      posts'[r].phase = "done"
               PROVE  \E k \in Nat \ {0} : KeptAt(r, k)'
    BY <1>1 DEF LoneKept
  <2>1. PICK k \in Nat \ {0} : KeptAt(r, k)
    BY <1>0, <1>2, <1>3, <1>4 DEF LoneKept
  <2>2. Reaches(header, r, k)' /\ \A g \in Gets :
          gets'[g].phase = "loading" /\ r \in gets'[g].before =>
              Reaches(gets[g].words, r, k)'
    BY <1>1, <2>1 DEF KeptAt, Reaches, Holds, Cells
  <2>3. ASSUME NEW q \in Running'
        PROVE  /\ Reaches(posts[q].words, r, k)'
               /\ posts'[q].phase # "loading" => posts'[q].words["len"] > k
    <3>1. CASE q = p
      BY <1>2, <1>3, <1>5, <3>1 DEF Reaches
    <3>2. CASE q # p
      <4>1. q \in Running /\ posts'[q] = posts[q]
        BY <1>3, <1>4, <3>2 DEF Running
      <4> QED
        BY <1>1, <2>1, <4>1 DEF KeptAt, Reaches, Holds, Cells
    <3> QED
      BY <3>1, <3>2
  <2> QED
    BY <2>2, <2>3 DEF KeptAt
<1>10. LoneAlbumStays'
  BY <1>0, <1>1, <1>4 DEF LoneAlbumStays
<1> QED
  BY <1>6, <1>7, <1>8, <1>9, <1>10 DEF SliceInv

(* A post loads a word. *)
LEMMA LoadKeeps ==
    ASSUME SliceInv, NEW p \in Posts, NEW w \in Word, PostLoad(p, w)
    PROVE  SliceInv'
<1>0. SliceTyped /\ WordsLoaded /\ AloneAgrees /\ LoneKept /\ LoneAlbumStays
  BY DEF SliceInv
<1> DEFINE old == posts[p].words
           v == header[w]
           ws == With(old, w, v)
           x == [posts[p] EXCEPT !.words = ws]
<1>1. /\ posts[p].phase = "loading" /\ posts[p] \in PostProgress
      /\ old \in Words /\ w \notin DOMAIN old
      /\ posts' = [posts EXCEPT ![p] = x]
      /\ UNCHANGED <<header, arrays, gets, corrupted, overlapped>>
  BY <1>0 DEF PostLoad, SliceTyped, PostProgress
<1> HIDE DEF old, v
<1>2. /\ ws \in Words /\ DOMAIN ws = DOMAIN old \cup {w} /\ ws[w] = v
      /\ \A u \in DOMAIN old : ws[u] = old[u]
  <2>1. \A u \in DOMAIN old : u # w
    BY <1>1
  <2>2. /\ ws \in Words /\ DOMAIN ws = DOMAIN old \cup {w} /\ ws[w] = v
        /\ \A u \in DOMAIN old \ {w} : ws[u] = old[u]
    <3>1. old \in Words
      BY <1>1
    <3>2. v \in WordValue
      BY <1>0, HeaderWord DEF v
    <3> HIDE DEF ws
    <3>3. With(old, w, v) \in Words
      BY <3>1, <3>2, LoadWord
    <3>4. /\ DOMAIN With(old, w, v) = DOMAIN old \cup {w}
          /\ With(old, w, v)[w] = v
      BY <3>1, <3>2, LoadWord
    <3>5. \A u \in DOMAIN old \ {w} : With(old, w, v)[u] = old[u]
      BY DEF With
    <3>6. ws = With(old, w, v)
      BY DEF ws
    <3> QED
      BY <3>3, <3>4, <3>5, <3>6
  <2> QED
    BY <2>1, <2>2
<1> HIDE DEF ws
<1>3. x \in PostProgress /\ x.phase = "loading" /\ x.words = ws
  BY <1>1, <1>2 DEF PostProgress
<1> HIDE DEF x
<1>4. /\ posts' \in [Posts -> PostProgress] /\ posts'[p] = x
      /\ \A q \in Posts \ {p} : posts'[q] = posts[q]
  BY <1>0, <1>1, <1>3, PostMoves
<1>5. Running' = Running /\ p \in Running
  BY <1>1, <1>3, <1>4 DEF Running
<1>6. SliceTyped'
  BY <1>0, <1>1, <1>4 DEF SliceTyped, Sound, Cells
<1>7. WordsLoaded'
  <2>1. Sound(ws)
    BY <1>0, <1>2 DEF SliceTyped, WordsLoaded, Sound, Word, old, v
  <2> QED
    BY <1>0, <1>1, <1>3, <1>4, <2>1 DEF WordsLoaded, Sound
<1>8. AloneAgrees'
  BY <1>0, <1>1, <1>2, <1>3, <1>4, <1>5 DEF AloneAgrees, Running, old, v
<1>9. LoneKept'
  <2> SUFFICES ASSUME ~corrupted, NEW r \in Posts, r \notin overlapped,
                      posts'[r].phase = "done"
               PROVE  \E k \in Nat \ {0} : KeptAt(r, k)'
    BY <1>1 DEF LoneKept
  <2>1. PICK k \in Nat \ {0} : KeptAt(r, k)
    BY <1>0, <1>3, <1>4 DEF LoneKept
  <2>2. Reaches(header, r, k)' /\ \A g \in Gets :
          gets'[g].phase = "loading" /\ r \in gets'[g].before =>
              Reaches(gets[g].words, r, k)'
    BY <1>1, <2>1 DEF KeptAt, Reaches, Holds, Cells
  <2>3. ASSUME NEW q \in Running'
        PROVE  /\ Reaches(posts[q].words, r, k)'
               /\ posts'[q].phase # "loading" => posts'[q].words["len"] > k
    <3>1. CASE q = p
      <4>1. Reaches(header, r, k) /\ Reaches(old, r, k)
        BY <1>5, <2>1 DEF KeptAt, old
      <4>2. Reaches(ws, r, k)
        BY <1>0, <1>2, <4>1 DEF Reaches, SliceTyped, v
      <4> QED
        BY <1>1, <1>3, <1>4, <3>1, <4>2 DEF Reaches, Holds, Cells
    <3>2. CASE q # p
      <4>1. q \in Running /\ posts'[q] = posts[q]
        BY <1>4, <1>5, <3>2 DEF Running
      <4> QED
        BY <1>1, <2>1, <4>1 DEF KeptAt, Reaches, Holds, Cells
    <3> QED
      BY <3>1, <3>2
  <2> QED
    BY <2>2, <2>3 DEF KeptAt
<1>10. LoneAlbumStays'
  BY <1>0, <1>1 DEF LoneAlbumStays
<1> QED
  BY <1>6, <1>7, <1>8, <1>9, <1>10 DEF SliceInv

(* A post that has room for its album takes the next place. *)
LEMMA RoomKeeps ==
    ASSUME SliceInv, NEW p \in Posts, PostAppend(p),
           posts[p].words["len"] + 1 <= posts[p].words["cap"]
    PROVE  SliceInv'
<1>0. SliceTyped /\ WordsLoaded /\ AloneAgrees /\ LoneKept /\ LoneAlbumStays
  BY DEF SliceInv
<1> DEFINE n == posts[p].words["len"]
           ws == [posts[p].words EXCEPT !["len"] = n + 1]
           x == [phase |-> "len", words |-> ws]
<1>1. /\ posts[p].phase = "loading" /\ posts[p].words \in Words
      /\ DOMAIN posts[p].words = Word /\ n \in Nat
      /\ posts' = [posts EXCEPT ![p] = x]
      /\ UNCHANGED <<header, arrays, gets, corrupted, overlapped>>
  <2>1. posts[p].phase = "loading" /\ DOMAIN posts[p].words = Word
    BY DEF PostAppend
  <2>2. posts[p].words \in Words /\ n \in Nat
    BY <1>0, <2>1 DEF SliceTyped, PostProgress, WordsLoaded, Sound, Word
  <2> QED
    BY <2>1, <2>2 DEF PostAppend
<1>2. /\ ws \in Words /\ DOMAIN ws = Word /\ ws["len"] = n + 1
      /\ ws["ptr"] = posts[p].words["ptr"] /\ ws["cap"] = posts[p].words["cap"]
  <2>1. posts[p].words \in [Word -> WordValue]
    BY <1>1 DEF Words
  <2>2. ws \in [Word -> WordValue]
    BY <1>1, <2>1 DEF Word, WordValue
  <2> QED
    BY <1>1, <2>1, <2>2 DEF Words, Word
<1> HIDE DEF ws
<1>3. x \in PostProgress /\ x.phase = "len" /\ x.words = ws
  BY <1>2 DEF PostProgress
<1> HIDE DEF x
<1>4. /\ posts' \in [Posts -> PostProgress] /\ posts'[p] = x
      /\ \A q \in Posts \ {p} : posts'[q] = posts[q]
  BY <1>0, <1>1, <1>3, PostMoves
<1>5. Running' = Running /\ p \in Running
  BY <1>1, <1>3, <1>4 DEF Running
<1>6. SliceTyped'
  BY <1>0, <1>1, <1>4 DEF SliceTyped, Sound, Cells
<1>7. WordsLoaded'
  <2>1. Sound(ws) /\ ws["len"] > 0
    BY <1>0, <1>1, <1>2 DEF WordsLoaded, Sound, Word
  <2> QED
    BY <1>0, <1>1, <1>2, <1>3, <1>4, <2>1 DEF WordsLoaded, Sound
<1>8. AloneAgrees'
  BY <1>0, <1>1, <1>2, <1>3, <1>4, <1>5 DEF AloneAgrees, Running, Word
<1>9. LoneKept'
  <2> SUFFICES ASSUME ~corrupted, NEW r \in Posts, r \notin overlapped,
                      posts'[r].phase = "done"
               PROVE  \E k \in Nat \ {0} : KeptAt(r, k)'
    BY <1>1 DEF LoneKept
  <2>1. PICK k \in Nat \ {0} : KeptAt(r, k)
    BY <1>0, <1>3, <1>4 DEF LoneKept
  <2>2. Reaches(header, r, k)' /\ \A g \in Gets :
          gets'[g].phase = "loading" /\ r \in gets'[g].before =>
              Reaches(gets[g].words, r, k)'
    BY <1>1, <2>1 DEF KeptAt, Reaches, Holds, Cells
  <2>3. ASSUME NEW q \in Running'
        PROVE  /\ Reaches(posts[q].words, r, k)'
               /\ posts'[q].phase # "loading" => posts'[q].words["len"] > k
    <3>1. CASE q = p
      <4>1. Reaches(posts[p].words, r, k)
        BY <1>5, <2>1 DEF KeptAt
      <4>2. Reaches(ws, r, k) /\ ws["len"] > k
        BY <1>1, <1>2, <4>1 DEF Reaches, Word
      <4> QED
        BY <1>1, <1>3, <1>4, <3>1, <4>2 DEF Reaches, Holds, Cells
    <3>2. CASE q # p
      <4>1. q \in Running /\ posts'[q] = posts[q]
        BY <1>4, <1>5, <3>2 DEF Running
      <4> QED
        BY <1>1, <2>1, <4>1 DEF KeptAt, Reaches, Holds, Cells
    <3> QED
      BY <3>1, <3>2
  <2> QED
    BY <2>2, <2>3 DEF KeptAt
<1>10. LoneAlbumStays'
  BY <1>0, <1>1 DEF LoneAlbumStays
<1> QED
  BY <1>6, <1>7, <1>8, <1>9, <1>10 DEF SliceInv

(* A post that has none copies what it knows into an array of its own. *)
LEMMA GrowKeeps ==
    ASSUME SliceInv, NEW p \in Posts, PostAppend(p),
           ~(posts[p].words["len"] + 1 <= posts[p].words["cap"])
    PROVE  SliceInv'
<1>0. SliceTyped /\ WordsLoaded /\ AloneAgrees /\ LoneKept /\ LoneAlbumStays
  BY DEF SliceInv
<1> DEFINE old == posts[p].words
           n == old["len"]
           cap == IF n + 1 > 2 * old["cap"] THEN n + 1 ELSE 2 * old["cap"]
           ws == [ptr |-> p, len |-> n + 1, cap |-> cap]
           x == [phase |-> "cap", words |-> ws]
<1>1. /\ posts[p].phase = "loading" /\ DOMAIN old = Word /\ n \in Nat
      /\ old["cap"] \in Nat /\ old["ptr"] \in DOMAIN arrays
      /\ posts' = [posts EXCEPT ![p] = x]
      /\ arrays' = With(arrays, p, Grown(old, cap))
      /\ corrupted' \in BOOLEAN
      /\ ~corrupted' => ~corrupted
      /\ UNCHANGED <<header, gets, overlapped>>
  <2>1. posts[p].phase = "loading" /\ DOMAIN old = Word
    BY DEF PostAppend
  <2>2. n \in Nat /\ old["cap"] \in Nat /\ old["ptr"] \in DOMAIN arrays
    BY <1>0, <2>1 DEF WordsLoaded, Sound, Word
  <2>3. corrupted' \in BOOLEAN /\ (~corrupted' => ~corrupted)
    BY <1>0 DEF PostAppend, SliceTyped
  <2> QED
    BY <2>1, <2>2, <2>3 DEF PostAppend
<1>2. cap \in Nat /\ cap >= n + 1 /\ p \notin DOMAIN arrays
  BY <1>0, <1>1 DEF WordsLoaded
<1> HIDE DEF cap
<1>3. /\ ws \in Words /\ DOMAIN ws = Word /\ ws["len"] = n + 1
      /\ ws["ptr"] = p /\ ws["cap"] = cap
  <2>1. ws \in [Word -> WordValue]
    BY <1>1, <1>2 DEF Word, WordValue
  <2> QED
    BY <2>1 DEF Words, Word
<1> HIDE DEF ws
<1>4. x \in PostProgress /\ x.phase = "cap" /\ x.words = ws
  BY <1>3 DEF PostProgress
<1> HIDE DEF x
<1>5. /\ posts' \in [Posts -> PostProgress] /\ posts'[p] = x
      /\ \A q \in Posts \ {p} : posts'[q] = posts[q]
  BY <1>0, <1>1, <1>4, PostMoves
<1>6. Running' = Running /\ p \in Running
  BY <1>1, <1>4, <1>5 DEF Running
<1>7. /\ DOMAIN arrays' = DOMAIN arrays \cup {p}
      /\ \A a \in DOMAIN arrays : arrays'[a] = arrays[a]
      /\ arrays'[p] = Grown(old, cap)
  BY <1>1, <1>2 DEF With
<1>8. /\ DOMAIN Grown(old, cap) = 1..cap
      /\ \A i \in 1..cap :
            Grown(old, cap)[i] = IF i <= n /\ i \in Cells(old["ptr"])
                                 THEN arrays[old["ptr"]][i] ELSE "blank"
  BY DEF Grown
<1> HIDE DEF n, old
<1>9. SliceTyped'
  <2>1. DOMAIN arrays' \subseteq Posts \cup {"first"}
    BY <1>0, <1>7 DEF SliceTyped
  <2>2. ASSUME NEW a \in DOMAIN arrays', NEW i \in Nat, i \in DOMAIN arrays'[a]
        PROVE  arrays'[a][i] \in Posts \cup {"seed", "blank"}
    <3>1. CASE a = p
      BY <1>0, <1>1, <1>7, <1>8, <2>2, <3>1 DEF SliceTyped
    <3>2. CASE a # p
      BY <1>0, <1>7, <2>2, <3>2 DEF SliceTyped, Cells
    <3> QED
      BY <3>1, <3>2
  <2> QED
    BY <1>0, <1>1, <1>5, <1>7, <2>1, <2>2 DEF SliceTyped, Sound, Cells
<1>10. WordsLoaded'
  BY <1>0, <1>1, <1>2, <1>3, <1>4, <1>5, <1>7 DEF WordsLoaded, Sound, n
<1>11. AloneAgrees'
  BY <1>0, <1>1, <1>4, <1>5, <1>6 DEF AloneAgrees, Running
<1>12. LoneKept'
  <2> SUFFICES ASSUME ~corrupted', NEW r \in Posts, r \notin overlapped,
                      posts'[r].phase = "done"
               PROVE  \E k \in Nat \ {0} : KeptAt(r, k)'
    BY <1>1 DEF LoneKept
  <2>1. PICK k \in Nat \ {0} : KeptAt(r, k)
    BY <1>0, <1>1, <1>4, <1>5 DEF LoneKept
  <2>2. \A a \in DOMAIN arrays : Holds(a, r, k) => Holds(a, r, k)'
    BY <1>7 DEF Holds, Cells
  <2>3. Reaches(header, r, k)' /\ \A g \in Gets :
          gets'[g].phase = "loading" /\ r \in gets'[g].before =>
              Reaches(gets[g].words, r, k)'
    BY <1>1, <1>7, <2>1 DEF KeptAt, Reaches, Holds, Cells
  <2>4. ASSUME NEW q \in Running'
        PROVE  /\ Reaches(posts[q].words, r, k)'
               /\ posts'[q].phase # "loading" => posts'[q].words["len"] > k
    <3>1. CASE q = p
      <4>1. Holds(old["ptr"], r, k) /\ n >= k
        BY <1>1, <1>6, <2>1 DEF KeptAt, Reaches, Word, old, n
      <4>2. k \in DOMAIN Grown(old, cap) /\ Grown(old, cap)[k] = r
        BY <1>1, <1>2, <1>8, <4>1 DEF Holds
      <4>3. Holds(p, r, k)'
        BY <1>7, <4>2 DEF Holds, Cells
      <4> QED
        BY <1>1, <1>3, <1>4, <1>5, <3>1, <4>1, <4>3 DEF Reaches
    <3>2. CASE q # p
      <4>1. q \in Running /\ posts'[q] = posts[q]
        BY <1>5, <1>6, <3>2 DEF Running
      <4> QED
        BY <1>7, <2>1, <4>1 DEF KeptAt, Reaches, Holds, Cells
    <3> QED
      BY <3>1, <3>2
  <2> QED
    BY <2>3, <2>4 DEF KeptAt
<1>13. LoneAlbumStays'
  BY <1>0, <1>1 DEF LoneAlbumStays
<1> QED
  BY <1>9, <1>10, <1>11, <1>12, <1>13 DEF SliceInv

(* A post stores one of its words. *)
LEMMA StoreKeeps ==
    ASSUME SliceInv, NEW p \in Posts, NEW w \in Word,
           NEW next \in {"ptr", "len", "element"}, PostStore(p, w, next),
           next = "ptr" <=> w = "cap", next = "len" <=> w = "ptr"
    PROVE  SliceInv'
<1>0. SliceTyped /\ WordsLoaded /\ AloneAgrees /\ LoneKept /\ LoneAlbumStays
  BY DEF SliceInv
<1> DEFINE x == [posts[p] EXCEPT !.phase = next]
           ws == posts[p].words
<1>1. /\ posts[p].phase = w /\ posts[p] \in PostProgress
      /\ ws \in Words /\ DOMAIN ws = Word /\ ws["len"] > 0 /\ Sound(ws)
      /\ posts' = [posts EXCEPT ![p] = x]
      /\ header' = [header EXCEPT ![w] = ws[w]]
      /\ UNCHANGED <<arrays, gets, corrupted, overlapped>>
  BY <1>0 DEF PostStore, SliceTyped, PostProgress, WordsLoaded, Word
<1>2. x \in PostProgress /\ x.phase = next /\ x.words = ws
  BY <1>1 DEF PostProgress
<1> HIDE DEF x, ws
<1>3. /\ posts' \in [Posts -> PostProgress] /\ posts'[p] = x
      /\ \A q \in Posts \ {p} : posts'[q] = posts[q]
  BY <1>0, <1>1, <1>2, PostMoves
<1>4. Running' = Running /\ p \in Running
  BY <1>1, <1>2, <1>3 DEF Running, Word
<1>5. /\ header' \in Words /\ DOMAIN header' = Word /\ header'[w] = ws[w]
      /\ \A u \in Word \ {w} : header'[u] = header[u]
  <2>1. /\ ws \in [Word -> WordValue]
        /\ header \in [Word -> WordValue]
    BY <1>0, <1>1 DEF Words, SliceTyped
  <2>2. header' \in [Word -> WordValue]
    BY <1>1, <2>1
  <2> QED
    BY <1>1, <2>1, <2>2 DEF Words
<1>6. SliceTyped'
  <2>1. Sound(header)'
    BY <1>0, <1>1, <1>5 DEF SliceTyped, Sound, Word
  <2> QED
    BY <1>0, <1>1, <1>3, <1>5, <2>1 DEF SliceTyped, Cells
<1>7. WordsLoaded'
  BY <1>0, <1>1, <1>2, <1>3 DEF WordsLoaded, Sound, Word
<1>8. AloneAgrees'
  <2> SUFFICES ASSUME NEW r \in Running, r \notin overlapped
               PROVE  /\ \A q \in Running : q = r
                      /\ r = p
                      /\ next \in {"len", "element"} => ws["ptr"] = header'["ptr"]
                      /\ next = "element" => ws["len"] = header'["len"]
    BY <1>1, <1>2, <1>3, <1>4 DEF AloneAgrees
  <2>1. (\A q \in Running : q = r) /\ r = p
    BY <1>0, <1>4 DEF AloneAgrees
  <2>2. w = "len" => ws["ptr"] = header["ptr"]
    BY <1>0, <1>1, <1>4, <2>1 DEF AloneAgrees, ws
  <2> QED
    BY <1>5, <2>1, <2>2 DEF Word
<1>9. LoneKept'
  <2> SUFFICES ASSUME ~corrupted, NEW r \in Posts, r \notin overlapped,
                      posts'[r].phase = "done"
               PROVE  \E k \in Nat \ {0} : KeptAt(r, k)'
    BY <1>1 DEF LoneKept
  <2>1. PICK k \in Nat \ {0} : KeptAt(r, k)
    BY <1>0, <1>2, <1>3 DEF LoneKept
  <2>2. \A g \in Gets :
          gets'[g].phase = "loading" /\ r \in gets'[g].before =>
              Reaches(gets[g].words, r, k)'
    BY <1>1, <2>1 DEF KeptAt, Reaches, Holds, Cells
  <2>3. Reaches(ws, r, k) /\ ws["len"] > k
    BY <1>1, <1>4, <2>1 DEF KeptAt, ws, Word
  <2>4. Reaches(header, r, k)'
    <3>1. Reaches(header, r, k) /\ DOMAIN header = Word
      BY <1>0, <2>1 DEF KeptAt, SliceTyped
    <3> QED
      BY <1>1, <1>5, <2>3, <3>1 DEF Reaches, Holds, Cells, Word
  <2>5. ASSUME NEW q \in Running'
        PROVE  /\ Reaches(posts[q].words, r, k)'
               /\ posts'[q].phase # "loading" => posts'[q].words["len"] > k
    <3>1. CASE q = p
      BY <1>1, <1>2, <1>3, <2>3, <3>1 DEF Reaches, Holds, Cells
    <3>2. CASE q # p
      <4>1. q \in Running /\ posts'[q] = posts[q]
        BY <1>3, <1>4, <3>2 DEF Running
      <4> QED
        BY <1>1, <2>1, <4>1 DEF KeptAt, Reaches, Holds, Cells
    <3> QED
      BY <3>1, <3>2
  <2> QED
    BY <2>2, <2>4, <2>5 DEF KeptAt
<1>10. LoneAlbumStays'
  BY <1>0, <1>1 DEF LoneAlbumStays
<1> QED
  BY <1>6, <1>7, <1>8, <1>9, <1>10 DEF SliceInv

(* A post writes its album behind every album that is kept, and is done.   *)
LEMMA ElementKeeps ==
    ASSUME SliceInv, NEW p \in Posts, PostElement(p)
    PROVE  SliceInv'
<1>0. SliceTyped /\ WordsLoaded /\ AloneAgrees /\ LoneKept /\ LoneAlbumStays
  BY DEF SliceInv
<1> DEFINE x == [posts[p] EXCEPT !.phase = "done"]
           array == posts[p].words["ptr"]
           n == posts[p].words["len"]
<1>1. /\ posts[p].phase = "element" /\ posts[p] \in PostProgress
      /\ DOMAIN posts[p].words = Word /\ n \in Nat \ {0} /\ array \in DOMAIN arrays
      /\ posts' = [posts EXCEPT ![p] = x]
      /\ UNCHANGED <<header, gets, overlapped>>
  BY <1>0 DEF PostElement, SliceTyped, WordsLoaded, Sound, Word
<1>2. x \in PostProgress /\ x.phase = "done" /\ x.words = posts[p].words
  BY <1>1 DEF PostProgress
<1>3. \/ /\ n \in Cells(array) /\ arrays' = [arrays EXCEPT ![array][n] = p]
         /\ corrupted' = corrupted
      \/ corrupted' = TRUE /\ arrays' = arrays
  BY DEF PostElement
<1> HIDE DEF x, array, n
<1>4. /\ posts' \in [Posts -> PostProgress] /\ posts'[p] = x
      /\ \A q \in Posts \ {p} : posts'[q] = posts[q]
  BY <1>0, <1>1, <1>2, PostMoves
<1>5. Running' = Running \ {p} /\ p \in Running
  BY <1>1, <1>2, <1>4 DEF Running
<1>6. /\ DOMAIN arrays' = DOMAIN arrays
      /\ \A a \in DOMAIN arrays :
            /\ DOMAIN arrays'[a] = DOMAIN arrays[a]
            /\ \A i \in DOMAIN arrays[a] :
                  \/ arrays'[a][i] = arrays[a][i]
                  \/ a = array /\ i = n /\ arrays'[a][i] = p
  BY <1>1, <1>3
<1>7. SliceTyped'
  <2>1. corrupted' \in BOOLEAN
    BY <1>0, <1>3 DEF SliceTyped
  <2>2. \A a \in DOMAIN arrays', i \in Nat :
           i \in DOMAIN arrays'[a] => arrays'[a][i] \in Posts \cup {"seed", "blank"}
    BY <1>0, <1>6 DEF SliceTyped, Cells
  <2> QED
    BY <1>0, <1>1, <1>4, <1>6, <2>1, <2>2 DEF SliceTyped, Sound, Cells
<1>8. WordsLoaded'
  BY <1>0, <1>1, <1>2, <1>4, <1>6 DEF WordsLoaded, Sound
<1>9. AloneAgrees'
  BY <1>0, <1>1, <1>4, <1>5 DEF AloneAgrees
<1>10. LoneKept'
  <2> SUFFICES ASSUME ~corrupted', NEW r \in Posts, r \notin overlapped,
                      posts'[r].phase = "done"
               PROVE  \E k \in Nat \ {0} : KeptAt(r, k)'
    BY <1>1 DEF LoneKept
  <2>0. ~corrupted /\ n \in Cells(array) /\ arrays' = [arrays EXCEPT ![array][n] = p]
    BY <1>3
  <2>1. CASE r = p
    <3>1. /\ Running' = {} /\ array = header["ptr"] /\ n = header["len"]
      BY <1>0, <1>1, <1>5, <2>1 DEF AloneAgrees, array, n
    <3>0. PICK k \in Nat \ {0} : k = n
      BY <1>1
    <3>2. Reaches(header, r, k)'
      BY <1>1, <1>6, <2>0, <2>1, <3>0, <3>1 DEF Reaches, Holds, Cells
    <3>3. \A g \in Gets : gets[g].phase = "loading" => r \notin gets[g].before
      BY <1>0, <1>1, <2>1 DEF WordsLoaded
    <3>4. KeptAt(r, k)'
      BY <1>1, <3>1, <3>2, <3>3 DEF KeptAt
    <3> QED
      BY <1>1, <3>4
  <2>2. CASE r # p
    <3>1. PICK k \in Nat \ {0} : KeptAt(r, k)
      BY <1>0, <1>4, <2>0, <2>2 DEF LoneKept
    <3>2. n > k
      BY <1>1, <1>5, <3>1 DEF KeptAt, n
    <3>3. \A a \in DOMAIN arrays : Holds(a, r, k) => Holds(a, r, k)'
      BY <1>6, <3>2 DEF Holds, Cells
    <3>4. Reaches(header, r, k)' /\ \A g \in Gets :
            gets'[g].phase = "loading" /\ r \in gets'[g].before =>
              Reaches(gets[g].words, r, k)'
      <4>1. Reaches(header, r, k)'
        BY <1>1, <3>1, <3>3 DEF KeptAt, Reaches, Holds
      <4>2. ASSUME NEW g \in Gets, gets[g].phase = "loading", r \in gets[g].before
            PROVE  Reaches(gets[g].words, r, k)'
        BY <1>1, <3>1, <3>3, <4>2 DEF KeptAt, Reaches, Holds
      <4> QED
        BY <1>1, <4>1, <4>2
    <3>5. ASSUME NEW q \in Running'
          PROVE  /\ Reaches(posts[q].words, r, k)'
                 /\ posts'[q].phase # "loading" => posts'[q].words["len"] > k
      <4>1. q \in Running /\ posts'[q] = posts[q]
        BY <1>4, <1>5, <3>5 DEF Running
      <4> QED
        BY <3>1, <3>3, <4>1 DEF KeptAt, Reaches, Holds
    <3> QED
      BY <3>1, <3>4, <3>5 DEF KeptAt
  <2> QED
    BY <2>1, <2>2
<1>11. LoneAlbumStays'
  BY <1>0, <1>1, <1>3 DEF LoneAlbumStays
<1> QED
  BY <1>7, <1>8, <1>9, <1>10, <1>11 DEF SliceInv

(* A GET begins: it has no words yet. *)
LEMMA GetBeginKeeps ==
    ASSUME SliceInv, NEW g \in Gets, GetBegin(g)
    PROVE  SliceInv'
<1>0. SliceTyped /\ WordsLoaded /\ AloneAgrees /\ LoneKept /\ LoneAlbumStays
  BY DEF SliceInv
<1> DEFINE over == {p \in Posts : posts[p].phase = "done"}
           x == [gets[g] EXCEPT !.phase = "loading", !.before = over]
<1>1. /\ gets[g].phase = "new" /\ gets[g] \in GetProgress
      /\ gets' = [gets EXCEPT ![g] = x]
      /\ UNCHANGED <<header, arrays, posts, corrupted, overlapped>>
  BY <1>0 DEF GetBegin, SliceTyped
<1>2. x \in GetProgress /\ x.phase = "loading" /\ x.words = gets[g].words /\ x.before = over
  BY <1>1 DEF GetProgress
<1> HIDE DEF x
<1>3. /\ gets' \in [Gets -> GetProgress] /\ gets'[g] = x
      /\ \A h \in Gets \ {g} : gets'[h] = gets[h]
  BY <1>0, <1>1, <1>2 DEF SliceTyped
<1>4. DOMAIN x.words = {} /\ Sound(x.words)
  BY <1>0, <1>1, <1>2 DEF WordsLoaded
<1>5. SliceTyped'
  BY <1>0, <1>1, <1>3 DEF SliceTyped, Sound, Cells
<1>6. WordsLoaded'
  BY <1>0, <1>1, <1>2, <1>3, <1>4 DEF WordsLoaded, Sound
<1>7. AloneAgrees'
  BY <1>0, <1>1 DEF AloneAgrees, Running
<1>8. ASSUME NEW r \in Posts, NEW k \in Nat \ {0}, KeptAt(r, k) PROVE KeptAt(r, k)'
  <2>1. /\ Running' = Running
        /\ Reaches(header, r, k)'
        /\ \A q \in Running : /\ Reaches(posts[q].words, r, k)'
                              /\ posts'[q].phase # "loading" => posts'[q].words["len"] > k
    BY <1>1, <1>8 DEF KeptAt, Reaches, Holds, Cells, Running
  <2>2. ASSUME NEW h \in Gets, gets'[h].phase = "loading", r \in gets'[h].before
        PROVE  Reaches(gets[h].words, r, k)'
    <3>1. CASE h = g
      BY <1>2, <1>3, <1>4, <3>1 DEF Reaches
    <3>2. CASE h # g
      <4>1. gets'[h] = gets[h] /\ Reaches(gets[h].words, r, k)
        BY <1>3, <1>8, <2>2, <3>2 DEF KeptAt
      <4> QED
        BY <1>1, <4>1 DEF Reaches, Holds, Cells
    <3> QED
      BY <3>1, <3>2
  <2> QED
    BY <2>1, <2>2 DEF KeptAt
<1>9. LoneKept'
  BY <1>0, <1>1, <1>8 DEF LoneKept
<1>10. LoneAlbumStays'
  BY <1>0, <1>1, <1>2, <1>3 DEF LoneAlbumStays
<1> QED
  BY <1>5, <1>6, <1>7, <1>9, <1>10 DEF SliceInv

(* A GET loads a word. *)
LEMMA GetLoadKeeps ==
    ASSUME SliceInv, NEW g \in Gets, NEW w \in Word, GetLoad(g, w)
    PROVE  SliceInv'
<1>0. SliceTyped /\ WordsLoaded /\ AloneAgrees /\ LoneKept /\ LoneAlbumStays
  BY DEF SliceInv
<1> DEFINE old == gets[g].words
           v == header[w]
           ws == With(old, w, v)
           x == [gets[g] EXCEPT !.words = ws]
<1>1. /\ gets[g].phase = "loading" /\ gets[g] \in GetProgress
      /\ old \in Words /\ w \notin DOMAIN old
      /\ gets' = [gets EXCEPT ![g] = x]
      /\ UNCHANGED <<header, arrays, posts, corrupted, overlapped>>
  BY <1>0 DEF GetLoad, SliceTyped, GetProgress
<1>2. v \in WordValue
  BY <1>0, HeaderWord
<1> HIDE DEF old, v
<1>3. /\ ws \in Words /\ DOMAIN ws = DOMAIN old \cup {w} /\ ws[w] = v
      /\ \A u \in DOMAIN old : ws[u] = old[u]
  <2>1. \A u \in DOMAIN old : u # w
    BY <1>1
  <2>2. /\ ws \in Words /\ DOMAIN ws = DOMAIN old \cup {w} /\ ws[w] = v
        /\ \A u \in DOMAIN old \ {w} : ws[u] = old[u]
    <3>1. old \in Words
      BY <1>1
    <3> QED
      BY <1>2, <3>1, LoadWord
  <2> QED
    BY <2>1, <2>2
<1> HIDE DEF ws
<1>4. /\ x \in GetProgress /\ x.phase = "loading" /\ x.words = ws
      /\ x.before = gets[g].before
  BY <1>1, <1>3 DEF GetProgress
<1> HIDE DEF x
<1>5. /\ gets' \in [Gets -> GetProgress] /\ gets'[g] = x
      /\ \A h \in Gets \ {g} : gets'[h] = gets[h]
  BY <1>0, <1>1, <1>4 DEF SliceTyped
<1>6. SliceTyped'
  BY <1>0, <1>1, <1>5 DEF SliceTyped, Sound, Cells
<1>7. WordsLoaded'
  <2>1. Sound(ws)
    BY <1>0, <1>3 DEF SliceTyped, WordsLoaded, Sound, Word, old, v
  <2> QED
    BY <1>0, <1>1, <1>4, <1>5, <2>1 DEF WordsLoaded, Sound
<1>8. AloneAgrees'
  BY <1>0, <1>1 DEF AloneAgrees, Running
<1>9. ASSUME NEW r \in Posts, NEW k \in Nat \ {0}, KeptAt(r, k) PROVE KeptAt(r, k)'
  <2>1. /\ Running' = Running
        /\ Reaches(header, r, k)'
        /\ \A q \in Running : /\ Reaches(posts[q].words, r, k)'
                              /\ posts'[q].phase # "loading" => posts'[q].words["len"] > k
    BY <1>1, <1>9 DEF KeptAt, Reaches, Holds, Cells, Running
  <2>2. ASSUME NEW h \in Gets, gets'[h].phase = "loading", r \in gets'[h].before
        PROVE  Reaches(gets[h].words, r, k)'
    <3>1. CASE h = g
      <4>1. Reaches(header, r, k) /\ Reaches(old, r, k) /\ DOMAIN header = Word
        BY <1>0, <1>1, <1>4, <1>5, <1>9, <2>2, <3>1 DEF KeptAt, SliceTyped, old
      <4>2. Reaches(ws, r, k)
        BY <1>3, <4>1 DEF Reaches, v
      <4> QED
        BY <1>1, <1>4, <1>5, <3>1, <4>2 DEF Reaches, Holds, Cells
    <3>2. CASE h # g
      <4>1. gets'[h] = gets[h] /\ Reaches(gets[h].words, r, k)
        BY <1>5, <1>9, <2>2, <3>2 DEF KeptAt
      <4> QED
        BY <1>1, <4>1 DEF Reaches, Holds, Cells
    <3> QED
      BY <3>1, <3>2
  <2> QED
    BY <2>1, <2>2 DEF KeptAt
<1>10. LoneKept'
  BY <1>0, <1>1, <1>9 DEF LoneKept
<1>11. LoneAlbumStays'
  BY <1>0, <1>1, <1>4, <1>5 DEF LoneAlbumStays
<1> QED
  BY <1>6, <1>7, <1>8, <1>10, <1>11 DEF SliceInv

(* A GET goes through the elements: every album kept is among them. *)
LEMMA GetElementsKeeps ==
    ASSUME SliceInv, NEW g \in Gets, GetElements(g)
    PROVE  SliceInv'
<1>0. SliceTyped /\ WordsLoaded /\ AloneAgrees /\ LoneKept /\ LoneAlbumStays
  BY DEF SliceInv
<1> DEFINE array == gets[g].words["ptr"]
           n == gets[g].words["len"]
           seen == {arrays[array][i] : i \in (1..n) \cap Cells(array)}
           x == [gets[g] EXCEPT !.phase = "done", !.seen = seen]
<1>1. /\ gets[g].phase = "loading" /\ gets[g] \in GetProgress
      /\ DOMAIN gets[g].words = {"ptr", "len"}
      /\ n \in Nat /\ array \in DOMAIN arrays
      /\ gets' = [gets EXCEPT ![g] = x]
      /\ UNCHANGED <<header, arrays, posts, overlapped>>
  BY <1>0 DEF GetElements, SliceTyped, WordsLoaded, Sound
<1>2. corrupted' \in BOOLEAN /\ (~corrupted' => ~corrupted)
  BY <1>0 DEF GetElements, SliceTyped
<1>3. seen \subseteq Posts \cup {"seed", "blank"}
  BY <1>0, <1>1 DEF SliceTyped
<1> HIDE DEF seen
<1>4. /\ x \in GetProgress /\ x.phase = "done" /\ x.words = gets[g].words
      /\ x.before = gets[g].before /\ x.seen = seen
  BY <1>1, <1>3 DEF GetProgress
<1> HIDE DEF x, array, n
<1>5. /\ gets' \in [Gets -> GetProgress] /\ gets'[g] = x
      /\ \A h \in Gets \ {g} : gets'[h] = gets[h]
  BY <1>0, <1>1, <1>4 DEF SliceTyped
<1>6. SliceTyped'
  BY <1>0, <1>1, <1>2, <1>5 DEF SliceTyped, Sound, Cells
<1>7. WordsLoaded'
  BY <1>0, <1>1, <1>4, <1>5 DEF WordsLoaded, Sound
<1>8. AloneAgrees'
  BY <1>0, <1>1 DEF AloneAgrees, Running
<1>9. ASSUME NEW r \in Posts, NEW k \in Nat \ {0}, KeptAt(r, k) PROVE KeptAt(r, k)'
  <2>1. /\ Running' = Running
        /\ Reaches(header, r, k)'
        /\ \A q \in Running : /\ Reaches(posts[q].words, r, k)'
                              /\ posts'[q].phase # "loading" => posts'[q].words["len"] > k
    BY <1>1, <1>9 DEF KeptAt, Reaches, Holds, Cells, Running
  <2>2. ASSUME NEW h \in Gets, gets'[h].phase = "loading", r \in gets'[h].before
        PROVE  Reaches(gets[h].words, r, k)'
    BY <1>1, <1>4, <1>5, <1>9, <2>2 DEF KeptAt, Reaches, Holds, Cells
  <2> QED
    BY <2>1, <2>2 DEF KeptAt
<1>10. LoneKept'
  BY <1>0, <1>1, <1>2, <1>9 DEF LoneKept
<1>11. LoneAlbumStays'
  <2> SUFFICES ASSUME ~corrupted, NEW h \in Gets, gets'[h].phase = "done",
                      NEW r \in gets'[h].before, r \notin overlapped
               PROVE  r \in gets'[h].seen
    BY <1>1, <1>2 DEF LoneAlbumStays
  <2>1. CASE h = g
    <3>1. r \in gets[g].before /\ r \in Posts /\ posts[r].phase = "done"
      BY <1>0, <1>1, <1>4, <1>5, <2>1 DEF WordsLoaded, GetProgress
    <3>2. PICK k \in Nat \ {0} : KeptAt(r, k)
      BY <1>0, <3>1 DEF LoneKept
    <3>3. Reaches(gets[g].words, r, k)
      BY <1>1, <3>1, <3>2 DEF KeptAt
    <3>4. k \in Cells(array) /\ arrays[array][k] = r /\ n >= k
      BY <1>1, <3>3 DEF Reaches, Holds, array, n
    <3> QED
      BY <1>1, <1>4, <1>5, <2>1, <3>4 DEF seen
  <2>2. CASE h # g
    BY <1>0, <1>5, <2>2 DEF LoneAlbumStays
  <2> QED
    BY <2>1, <2>2
<1> QED
  BY <1>6, <1>7, <1>8, <1>10, <1>11 DEF SliceInv

(* The invariant holds in every reachable state. *)
LEMMA SliceInvariant == SliceSpec => []SliceInv
<1>1. SliceInit => SliceInv
  <2> SUFFICES ASSUME SliceInit PROVE SliceInv
    OBVIOUS
  <2>1. PICK n \in {Seeds + e : e \in Earlier} :
           /\ header = [ptr |-> "first", len |-> n, cap |-> CapacityFor(n)]
           /\ arrays = [a \in {"first"} |->
                          [i \in 1..CapacityFor(n) |->
                             IF i <= n THEN "seed" ELSE "blank"]]
    BY DEF SliceInit
  <2>2. n \in Nat /\ CapacityFor(n) \in Nat
    BY <2>1, SliceAssumption DEF CapacityFor
  <2>3. header \in [Word -> WordValue]
    BY <2>1, <2>2 DEF Word, WordValue
  <2>4. header \in Words /\ DOMAIN header = Word /\ Sound(header)
    BY <2>1, <2>2, <2>3 DEF Words, Sound
  <2>5. <<>> \in Words /\ DOMAIN <<>> = {}
    BY DEF Words
  <2>6. /\ \A p \in Posts : posts[p].phase = "new" /\ posts[p].words = <<>>
        /\ \A g \in Gets : gets[g].phase = "new" /\ gets[g].words = <<>>
        /\ posts \in [Posts -> PostProgress] /\ gets \in [Gets -> GetProgress]
        /\ corrupted = FALSE /\ overlapped = {}
    BY <2>5 DEF SliceInit, PostProgress, GetProgress
  <2>7. SliceTyped
    BY <2>1, <2>2, <2>4, <2>6 DEF SliceTyped, Cells
  <2>8. WordsLoaded
    BY <2>1, <2>5, <2>6, SliceAssumption DEF WordsLoaded, Sound
  <2> QED
    BY <2>6, <2>7, <2>8 DEF SliceInv, AloneAgrees, Running, LoneKept, LoneAlbumStays
<1>2. SliceInv /\ [SliceNext]_slice => SliceInv'
  <2> SUFFICES ASSUME SliceInv, [SliceNext]_slice PROVE SliceInv'
    OBVIOUS
  <2>1. ASSUME NEW p \in Posts, PostAppend(p) PROVE SliceInv'
    BY <2>1, RoomKeeps, GrowKeeps
  <2>2. ASSUME NEW p \in Posts, \/ PostStore(p, "cap", "ptr")
                                \/ PostStore(p, "ptr", "len")
                                \/ PostStore(p, "len", "element")
        PROVE  SliceInv'
    BY <2>2, StoreKeeps DEF Word
  <2>3. CASE UNCHANGED slice
    <3>0. SliceTyped /\ WordsLoaded /\ AloneAgrees /\ LoneKept /\ LoneAlbumStays
      BY DEF SliceInv
    <3>1. SliceTyped' /\ WordsLoaded'
      BY <2>3, <3>0 DEF slice, SliceTyped, WordsLoaded, Sound, Cells
    <3>2. AloneAgrees'
      BY <2>3, <3>0 DEF slice, AloneAgrees, Running
    <3>3. LoneKept'
      BY <2>3, <3>0 DEF slice, LoneKept, KeptAt, Reaches, Holds, Cells, Running
    <3> QED
      BY <2>3, <3>0, <3>1, <3>2, <3>3 DEF slice, SliceInv, LoneAlbumStays
  <2> QED
    BY <2>1, <2>2, <2>3, BeginKeeps, LoadKeeps, ElementKeeps,
       GetBeginKeeps, GetLoadKeeps, GetElementsKeeps DEF SliceNext
<1> QED
  BY <1>1, <1>2, PTL DEF SliceSpec

(* An album whose POST overlapped no other POST is in every list read      *)
(* after it (postAlbums and getAlbums on the unsynchronised slice), for    *)
(* any number of POSTs and GETs later, whatever words they mix, as long as *)
(* no access was out of bounds.                                            *)
THEOREM LoneStays == SliceSpec => []LoneAlbumStays
<1>1. SliceInv => LoneAlbumStays
  BY DEF SliceInv
<1> QED
  BY <1>1, SliceInvariant, PTL
=============================================================================

------------------------------ MODULE Counters ------------------------------
(***************************************************************************)
(* Assignment 3, atomicity.go: goroutines add to an atomic counter; when   *)
(* all are done, as many others add to a plain one.  regularOps++ is a     *)
(* load and a store.                                                       *)
(***************************************************************************)
EXTENDS Integers, FiniteSets

CONSTANTS Goroutines,   \* of each test: 50 of them
          Adds          \* 1000 each

ASSUME CountersAssumption == /\ IsFiniteSet(Goroutines) /\ Goroutines # {}
                             /\ Adds \in Nat \ {0}

VARIABLES atomicOps, regularOps,
          test,      \* 1, 2, or 3 when main has printed both counters
          done,      \* goroutine -> its additions in the current test
          register   \* goroutine -> the value it has loaded, -1 for none

counters == <<atomicOps, regularOps, test, done, register>>

CountersInit ==
    /\ atomicOps = 0
    /\ regularOps = 0
    /\ test = 1
    /\ done = [g \in Goroutines |-> 0]
    /\ register = [g \in Goroutines |-> -1]

Added(g) == done' = [done EXCEPT ![g] = @ + 1]

AtomicAdd(g) ==
    /\ test = 1
    /\ done[g] < Adds
    /\ atomicOps' = atomicOps + 1
    /\ Added(g)
    /\ UNCHANGED <<regularOps, test, register>>

Load(g) ==
    /\ test = 2
    /\ done[g] < Adds
    /\ register[g] = -1
    /\ register' = [register EXCEPT ![g] = regularOps]
    /\ UNCHANGED <<atomicOps, regularOps, test, done>>

Store(g) ==
    /\ register[g] # -1
    /\ regularOps' = register[g] + 1
    /\ register' = [register EXCEPT ![g] = -1]
    /\ Added(g)
    /\ UNCHANGED <<atomicOps, test>>

(* Mutant: main does not wait for the last addition. *)
WaitEarly ==
    /\ test < 3
    /\ \A g \in Goroutines : done[g] >= Adds - 1
    /\ test' = test + 1
    /\ done' = [g \in Goroutines |-> 0]
    /\ UNCHANGED <<atomicOps, regularOps, register>>

(* wg1.Wait, and the second test starts; wg2.Wait, and main prints. *)
Wait ==
    /\ test < 3
    /\ \A g \in Goroutines : done[g] = Adds
    /\ test' = test + 1
    /\ done' = [g \in Goroutines |-> 0]
    /\ UNCHANGED <<atomicOps, regularOps, register>>

CountersNext == \/ Wait
                \/ \E g \in Goroutines : AtomicAdd(g) \/ Load(g) \/ Store(g)

CountersSpec == CountersInit /\ [][CountersNext]_counters

-----------------------------------------------------------------------------
(* Properties *)

(* What the program may print: the atomic counter exactly, the plain one   *)
(* anything from the fewest additions that can survive (one's last on top  *)
(* of another's first, or a single goroutine's all) up to all of them.     *)
PrintedCounts ==
    LET all == Cardinality(Goroutines) * Adds
        least == IF Cardinality(Goroutines) = 1 THEN Adds
                 ELSE IF Adds = 1 THEN 1 ELSE 2
    IN  test = 3 => atomicOps = all /\ regularOps \in least..all
=============================================================================

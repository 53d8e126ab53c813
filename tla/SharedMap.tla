----------------------------- MODULE SharedMap ------------------------------
(***************************************************************************)
(* Assignment 3, collections.go, mutex.go, rwmutex.go and syncmap.go:      *)
(* goroutines store entries under keys of their own into one map, plainly  *)
(* or with a lock or a sync.Map, and main prints how many there are.       *)
(* The runtime throws "concurrent map writes" when it notices that two     *)
(* goroutines write a map at once; it need not notice, and then entries    *)
(* may be lost.                                                            *)
(***************************************************************************)
EXTENDS Integers, FiniteSets

CONSTANTS Writers,   \* goroutines: 50 of them
          Entries    \* entries of each: 1000

ASSUME MapAssumption == Entries \in Nat \ {0} /\ "nobody" \notin Writers

VARIABLES kind,      \* "plain", "locked" (Mutex, and RWMutex, of which only
                     \* Lock is used) or "sync.Map"
          stored,    \* entries in the map: <<writer, i>>
          written,   \* writer -> entries it has written
          writing,   \* writers inside an assignment to the map
          raced,     \* assignments have overlapped
          holder,    \* who holds the lock, or "nobody"
          ended      \* "no", "printed" or "thrown"

sharedMap == <<kind, stored, written, writing, raced, holder, ended>>

MapInit ==
    /\ kind \in {"plain", "locked", "sync.Map"}
    /\ stored = {}
    /\ written = [g \in Writers |-> 0]
    /\ writing = {}
    /\ raced = FALSE
    /\ holder = "nobody"
    /\ ended = "no"

Idle(g) == ended = "no" /\ written[g] < Entries /\ g \notin writing

(* Mutant: a reader's lock, which any number may hold. *)
LockShared(g) ==
    /\ kind = "locked"
    /\ Idle(g)
    /\ holder # g
    /\ holder' = g
    /\ UNCHANGED <<kind, stored, written, writing, raced, ended>>

Lock(g) ==
    /\ kind = "locked"
    /\ Idle(g)
    /\ holder = "nobody"
    /\ holder' = g
    /\ UNCHANGED <<kind, stored, written, writing, raced, ended>>

AssignBegin(g) ==
    /\ Idle(g)
    /\ kind = "plain" \/ holder = g
    /\ writing' = writing \cup {g}
    /\ raced' = (raced \/ writing # {})
    /\ UNCHANGED <<kind, stored, written, holder, ended>>

(* The assignment is over.  Once assignments have overlapped the map may   *)
(* hold anything of what was stored, and the runtime may throw.            *)
AssignEnd(g) ==
    /\ ended = "no"
    /\ g \in writing
    /\ writing' = writing \ {g}
    /\ written' = [written EXCEPT ![g] = @ + 1]
    /\ LET all == stored \cup {<<g, written[g] + 1>>}
       IN  IF raced
           THEN stored' \in SUBSET all /\ ended' \in {"no", "thrown"}
           ELSE stored' = all /\ UNCHANGED ended
    /\ holder' = IF kind = "locked" THEN "nobody" ELSE holder
    /\ UNCHANGED <<kind, raced>>

(* sync.Map's Store is atomic. *)
AtomicStore(g) ==
    /\ kind = "sync.Map"
    /\ Idle(g)
    /\ stored' = stored \cup {<<g, written[g] + 1>>}
    /\ written' = [written EXCEPT ![g] = @ + 1]
    /\ UNCHANGED <<kind, writing, raced, holder, ended>>

(* wg.Wait, and main prints the length. *)
PrintLength ==
    /\ ended = "no"
    /\ \A g \in Writers : written[g] = Entries
    /\ ended' = "printed"
    /\ UNCHANGED <<kind, stored, written, writing, raced, holder>>

MapNext == \/ PrintLength
           \/ \E g \in Writers : \/ Lock(g)
                                 \/ AssignBegin(g) \/ AssignEnd(g)
                                 \/ AtomicStore(g)

MapSpec == MapInit /\ [][MapNext]_sharedMap

-----------------------------------------------------------------------------
(* Properties *)

(* With either lock or a sync.Map no entry is missing from the map whose   *)
(* length is printed, and the runtime has nothing to throw about.          *)
LockedMapKeepsAll ==
    kind # "plain" =>
        /\ ended # "thrown"
        /\ ended = "printed" => stored = Writers \X (1..Entries)
=============================================================================

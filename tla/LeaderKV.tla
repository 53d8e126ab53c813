------------------------------ MODULE LeaderKV ------------------------------
(***************************************************************************)
(* The leader-follower key-value store (Assignment 10/main.go).            *)
(*                                                                         *)
(* The leader gives a write its version under the store's lock, starts one *)
(* goroutine per follower and waits on ackCh.  A goroutine outlives the    *)
(* wait: after the handler has answered, its request still travels and is  *)
(* applied.  calls[w][f] is the goroutine of write w for follower f:       *)
(* "request" is where its POST /replicate is, "outcome" what               *)
(* replicateToFollower returned.  The results in ackCh are the outcomes,   *)
(* so the handler's counters are cardinalities.                            *)
(***************************************************************************)
EXTENDS VersionedStore, FiniteSets

CONSTANTS Leader,        \* the node with ROLE=leader
          Followers,     \* its FOLLOWERS
          W, R,          \* the quorums, the leader included
          Writes,        \* identities of POST /set requests
          Reads,         \* identities of read requests
          Unreliable,    \* followers whose calls may return an error
          Restartable,   \* nodes whose process may restart, losing its map
          MaxRestarts    \* bound on the restarts of one node

Nodes == {Leader} \cup Followers

ASSUME KeysAssumption == Keys # {}
ASSUME QuorumAssumption == W \in Nat /\ R \in Nat
ASSUME FollowersAssumption == IsFiniteSet(Followers) /\ Leader \notin Followers
ASSUME FaultAssumption == /\ Unreliable \subseteq Followers
                          /\ Restartable \subseteq Nodes
                          /\ MaxRestarts \in Nat

VARIABLES store,     \* node -> its KVStore
          writes,    \* write -> handleSet's local state and its answer
          calls,     \* write -> follower -> replication goroutine
          reads,     \* read -> handleLeaderRead's local state and its answer
          restarts   \* node -> its restarts so far

vars == <<store, writes, calls, reads, restarts>>

WritePhase == {"idle", "forbidden", "waiting", "created", "failed", "lost"}

(* term is history and not code: which of the leader's processes, counted  *)
(* from 0, took the write.                                                 *)
Write == [phase : WritePhase, key : Keys, value : Values \cup {NoValue},
          version : Nat, term : Nat]

(* request: where the POST is.  A "pending" request of a call that failed  *)
(* may still be applied: the follower's handler runs to its end whatever   *)
(* became of the connection.  An "applied" one is "forgotten" when the     *)
(* follower restarts, which is history and not code.                       *)
Call == [request : {"none", "pending", "applied", "dropped", "forgotten"},
         outcome : {"none", "waiting", "ok", "failed"}]

ReadPhase == {"idle", "collecting", "answered", "lost"}

Read == [phase : ReadPhase, node : Nodes, key : Keys, best : Entry,
         waiting : SUBSET Followers, oks : Nat, acked : SUBSET Nat,
         seen : SUBSET Nat]

TypeOK ==
    /\ store \in [Nodes -> [Keys -> Entry]]
    /\ writes \in [Writes -> Write]
    /\ calls \in [Writes -> [Followers -> Call]]
    /\ reads \in [Reads -> Read]
    /\ restarts \in [Nodes -> 0..MaxRestarts]

NoCall == [request |-> "none", outcome |-> "none"]

AKey == CHOOSE k \in Keys : TRUE

Init ==
    /\ store = [n \in Nodes |-> EmptyStore]
    /\ writes = [w \in Writes |-> [phase |-> "idle", key |-> AKey,
                                   value |-> NoValue, version |-> 0,
                                   term |-> 0]]
    /\ calls = [w \in Writes |-> [f \in Followers |-> NoCall]]
    /\ reads = [r \in Reads |-> [phase |-> "idle", node |-> Leader,
                                 key |-> AKey, best |-> NoEntry,
                                 waiting |-> {}, oks |-> 0, acked |-> {},
                                 seen |-> {}]]
    /\ restarts = [n \in Nodes |-> 0]

-----------------------------------------------------------------------------
(* Writes *)

WriteEntry(w) == [value |-> writes[w].value, version |-> writes[w].version]

AcksNeeded == W - 1

Returned(c, o) == {f \in Followers : c[f].outcome = o}

(* Mutants of the loop's conditions. *)
VerdictOneAckShort(c) ==
    LET acks == Cardinality(Returned(c, "ok"))
        failures == Cardinality(Returned(c, "failed"))
        total == Cardinality(Followers)
    IN  CASE acks >= AcksNeeded - 1 -> "created"
          [] acks + failures = total -> "failed"
          [] OTHER -> "waiting"

VerdictGivesUpEarly(c) ==
    LET acks == Cardinality(Returned(c, "ok"))
        failures == Cardinality(Returned(c, "failed"))
        total == Cardinality(Followers)
    IN  CASE acks >= AcksNeeded -> "created"
          [] acks < AcksNeeded /\ failures >= total - AcksNeeded -> "failed"
          [] OTHER -> "waiting"

VerdictCountsAcksOnly(c) ==
    IF Cardinality(Returned(c, "ok")) >= AcksNeeded THEN "created"
                                                    ELSE "waiting"

(* The loop over ackCh in handleSet and the status it ends in, for the     *)
(* outcomes c of the calls of one write.                                   *)
Verdict(c) ==
    LET acks == Cardinality(Returned(c, "ok"))
        failures == Cardinality(Returned(c, "failed"))
        total == Cardinality(Followers)
    IN  CASE acks >= AcksNeeded -> "created"
          [] acks < AcksNeeded /\ (\/ failures > total - AcksNeeded
                                   \/ acks + failures = total) -> "failed"
          [] OTHER -> "waiting"

(* handleSet on a follower: 403. *)
SetAtFollower(w) ==
    /\ writes[w].phase = "idle"
    /\ Followers # {}
    /\ writes' = [writes EXCEPT ![w].phase = "forbidden"]
    /\ UNCHANGED <<store, calls, reads, restarts>>

(* handleSet on the leader up to the wait.  With W <= 1 it answers at once *)
(* and starts no goroutine.                                                *)
SetAtLeader(w, k, v) ==
    /\ writes[w].phase = "idle"
    /\ store' = [store EXCEPT ![Leader] = SetLocal(@, k, v)]
    /\ calls' = IF AcksNeeded > 0
                THEN [calls EXCEPT ![w] = [f \in Followers |->
                         [request |-> "pending", outcome |-> "waiting"]]]
                ELSE calls
    /\ writes' = [writes EXCEPT ![w] =
                    [phase |-> Verdict(calls'[w]), key |-> k, value |-> v,
                     version |-> NextVersion(store[Leader], k),
                     term |-> restarts[Leader]]]
    /\ UNCHANGED <<reads, restarts>>

(* handleReplicate on follower f, from the POST to the reply. *)
Replicate(w, f) ==
    /\ calls[w][f].request = "pending"
    /\ calls' = [calls EXCEPT ![w][f].request = "applied"]
    /\ store' = [store EXCEPT ![f] = Set(@, writes[w].key, WriteEntry(w))]
    /\ UNCHANGED <<writes, reads, restarts>>

(* replicateToFollower returns o and the handler, if it still waits,       *)
(* receives it from ackCh.                                                 *)
CallReturns(w, f, o) ==
    /\ calls[w][f].outcome = "waiting"
    /\ calls' = [calls EXCEPT ![w][f].outcome = o]
    /\ writes' = IF writes[w].phase = "waiting"
                 THEN [writes EXCEPT ![w].phase = Verdict(calls'[w])]
                 ELSE writes
    /\ UNCHANGED <<store, reads, restarts>>

(* Mutant: the follower acknowledges before it applies the update. *)
AckBeforeApply(w, f) == CallReturns(w, f, "ok")

(* The follower's reply, which may outlive the follower. *)
CallSucceeds(w, f) ==
    /\ calls[w][f].request \in {"applied", "forgotten"}
    /\ CallReturns(w, f, "ok")

(* An error before, while or after the follower handles the request. *)
CallFails(w, f) ==
    /\ f \in Unreliable \cup Restartable
    /\ CallReturns(w, f, "failed")

-----------------------------------------------------------------------------
(* Reads *)

(* History, not code: the versions of k whose write was acknowledged, and  *)
(* the versions that reads of the leader returned, write in flight or not. *)
Acked(k) ==
    {writes[w].version : w \in {x \in Writes : /\ writes[x].phase = "created"
                                               /\ writes[x].key = k}}

ReadFromLeader(k) ==
    {reads[r].best.version : r \in {x \in Reads : /\ reads[x].phase = "answered"
                                                  /\ reads[x].node = Leader
                                                  /\ reads[x].key = k}}

(* Mutant: the loop has no bound but the quorum. *)
ReadDoneOnQuorumOnly(waiting, oks) == oks >= R - 1

(* Where the loop of handleLeaderRead stops. *)
ReadDone(waiting, oks) == oks >= R - 1 \/ waiting = {}

(* Mutant: the leader asks the followers before it reads its own copy. *)
ReadFollowersOnly(r, k) ==
    /\ reads[r].phase = "idle"
    /\ reads' = [reads EXCEPT ![r] =
                   [phase |-> IF ReadDone(Followers, 0) THEN "answered"
                                                        ELSE "collecting",
                    node |-> Leader, key |-> k, best |-> NoEntry,
                    waiting |-> Followers, oks |-> 0, acked |-> Acked(k),
                    seen |-> ReadFromLeader(k)]]
    /\ UNCHANGED <<store, writes, calls, restarts>>

(* handleLeaderRead up to the wait: the local entry is read before any     *)
(* follower is asked.  The answer is 404 when best is still NoEntry.       *)
ReadAtLeader(r, k) ==
    /\ reads[r].phase = "idle"
    /\ reads' = [reads EXCEPT ![r] =
                   [phase |-> IF ReadDone(Followers, 0) THEN "answered"
                                                        ELSE "collecting",
                    node |-> Leader, key |-> k, best |-> store[Leader][k],
                    waiting |-> Followers, oks |-> 0, acked |-> Acked(k),
                    seen |-> ReadFromLeader(k)]]
    /\ UNCHANGED <<store, writes, calls, restarts>>

(* The read's loop takes the result of follower f: e is the entry an ok    *)
(* result carries, NoEntry a result that does not count.                   *)
TakeResult(r, f, e) ==
    /\ reads[r].phase = "collecting"
    /\ f \in reads[r].waiting
    /\ LET oks == reads[r].oks + IF Stored(e) THEN 1 ELSE 0
           waiting == reads[r].waiting \ {f}
       IN  reads' = [reads EXCEPT
               ![r].best = IF e.version > @.version THEN e ELSE @,
               ![r].oks = oks,
               ![r].waiting = waiting,
               ![r].phase = IF ReadDone(waiting, oks) THEN "answered" ELSE @]
    /\ UNCHANGED <<store, writes, calls, restarts>>

(* handleInternalRead on f answers with its entry, or with 404. *)
FollowerAnswers(r, f) == TakeResult(r, f, store[f][reads[r].key])

(* readFromFollower returns an error. *)
FollowerUnreachable(r, f) ==
    /\ f \in Unreliable \cup Restartable
    /\ TakeResult(r, f, NoEntry)

(* handleFollowerRead, and handleLocalRead on any node: the node's own     *)
(* copy, after the sleep.                                                  *)
ReadCopy(r, n, k) ==
    /\ reads[r].phase = "idle"
    /\ reads' = [reads EXCEPT ![r] =
                   [phase |-> "answered", node |-> n, key |-> k,
                    best |-> store[n][k], waiting |-> {}, oks |-> 0,
                    acked |-> Acked(k),
                    seen |-> ReadFromLeader(k)]]
    /\ UNCHANGED <<store, writes, calls, restarts>>

-----------------------------------------------------------------------------
(* Restarts: main begins with an empty store. *)

AfterRestart(request, drops) ==
    IF drops THEN "dropped"
    ELSE IF request = "applied" THEN "forgotten" ELSE request

(* Requests that had reached the follower and not been applied die with    *)
(* it; one that is sent later finds the new process.                       *)
RestartFollower(f) ==
    /\ f \in Restartable
    /\ restarts[f] < MaxRestarts
    /\ restarts' = [restarts EXCEPT ![f] = @ + 1]
    /\ store' = [store EXCEPT ![f] = EmptyStore]
    /\ \E dropped \in SUBSET {w \in Writes : calls[w][f].request = "pending"} :
          calls' = [w \in Writes |->
                      [calls[w] EXCEPT
                         ![f].request = AfterRestart(@, w \in dropped)]]
    /\ UNCHANGED <<writes, reads>>

(* The handlers and goroutines of the leader die, unanswered; requests     *)
(* already sent are still applied.                                         *)
RestartLeader ==
    /\ Leader \in Restartable
    /\ restarts[Leader] < MaxRestarts
    /\ restarts' = [restarts EXCEPT ![Leader] = @ + 1]
    /\ store' = [store EXCEPT ![Leader] = EmptyStore]
    /\ calls' = [w \in Writes |-> [f \in Followers |->
                   [calls[w][f] EXCEPT !.outcome =
                       IF @ = "waiting" THEN "failed" ELSE @]]]
    /\ writes' = [w \in Writes |->
                    [writes[w] EXCEPT !.phase =
                        IF @ = "waiting" THEN "lost" ELSE @]]
    /\ reads' = [r \in Reads |->
                   [reads[r] EXCEPT !.phase =
                       IF @ = "collecting" THEN "lost" ELSE @]]

Restart(n) == IF n = Leader THEN RestartLeader ELSE RestartFollower(n)

-----------------------------------------------------------------------------
Next ==
    \/ \E w \in Writes :
          \/ SetAtFollower(w)
          \/ \E k \in Keys, v \in Values : SetAtLeader(w, k, v)
          \/ \E f \in Followers : \/ Replicate(w, f)
                                  \/ CallSucceeds(w, f)
                                  \/ CallFails(w, f)
    \/ \E r \in Reads :
          \/ \E k \in Keys : ReadAtLeader(r, k)
          \/ \E n \in Nodes, k \in Keys : ReadCopy(r, n, k)
          \/ \E f \in Followers : \/ FollowerAnswers(r, f)
                                  \/ FollowerUnreachable(r, f)
    \/ \E n \in Nodes : Restart(n)

Spec == Init /\ [][Next]_vars

(* Go runs every started goroutine, and a follower that is neither down    *)
(* nor cut off reads its requests and replies.  The other calls end too,   *)
(* with an error at the latest when TCP gives up: http.Post itself has no  *)
(* timeout.  Clients owe nothing.                                          *)
Fairness ==
    /\ \A w \in Writes, f \in Followers :
          /\ WF_vars(CallSucceeds(w, f) \/ CallFails(w, f))
          /\ f \notin Unreliable \cup Restartable => WF_vars(Replicate(w, f))
    /\ \A r \in Reads, f \in Followers :
          WF_vars(FollowerAnswers(r, f) \/ FollowerUnreachable(r, f))

FairSpec == Spec /\ Fairness

-----------------------------------------------------------------------------
(* Properties *)

(* A version of a key names one value, on whatever node it is stored, as   *)
(* long as the process that assigns versions does not restart.             *)
OneValuePerVersion ==
    restarts[Leader] = 0 =>
        \A m, n \in Nodes, k \in Keys :
            store[m][k].version = store[n][k].version =>
                store[m][k].value = store[n][k].value

(* A follower's copy is never newer than that of a leader that has not     *)
(* restarted: a read that begins with the leader's copy (handleLeaderRead) *)
(* is up to date whatever the followers answer.                            *)
LeaderIsNewest ==
    restarts[Leader] = 0 =>
        \A f \in Followers, k \in Keys :
            store[f][k].version <= store[Leader][k].version

(* Why both hold, as an inductive invariant: every entry anywhere is that  *)
(* of a write, no two writes of a key have the same version, and the       *)
(* leader has got at least as far as each of them.                         *)
VersionInv ==
    /\ \A w \in Writes :
          /\ writes[w].phase \in {"idle", "forbidden"} => writes[w].version = 0
          /\ writes[w].version <= store[Leader][writes[w].key].version
    /\ \A w, x \in Writes :
          /\ w # x
          /\ writes[w].key = writes[x].key
          /\ writes[w].version = writes[x].version
          => writes[w].version = 0
    /\ \A n \in Nodes, k \in Keys :
          \/ store[n][k] = NoEntry
          \/ \E w \in Writes : /\ writes[w].key = k
                               /\ writes[w].version > 0
                               /\ store[n][k] = WriteEntry(w)

(* Follower f holds the write or a newer one. *)
Holds(f, w) ==
    \/ store[f][writes[w].key] = WriteEntry(w)
    \/ store[f][writes[w].key].version > writes[w].version

(* The followers that hold it, or held it and lost it in a restart. *)
Reached(w) ==
    {f \in Followers : Holds(f, w) \/ calls[w][f].request = "forgotten"}

(* A 201 of the leader's first process is given only when W - 1 followers  *)
(* hold the written entry or a newer one, and only their own restarts can  *)
(* take it from them: not a request that is applied late or out of order,  *)
(* nor a leader that restarts and gives the versions again.  The handler   *)
(* counts nothing but results.  (A 201 of a leader that has restarted      *)
(* promises nothing: followers that hold a higher version of the process   *)
(* before discard the write and acknowledge it.)                           *)
AckedOnQuorum ==
    \A w \in Writes :
        writes[w].phase = "created" /\ writes[w].term = 0 =>
            Cardinality(Reached(w)) >= AcksNeeded

(* Why AckedOnQuorum holds, as two inductive invariants.  First: a handler *)
(* knows nothing but results, a result ok comes after its request was      *)
(* applied, and what was applied is there as long as the follower runs.    *)
AckInv ==
    \A w \in Writes :
        /\ writes[w].phase \in {"idle", "forbidden"} =>
              \A f \in Followers : calls[w][f] = NoCall
        /\ \A f \in Followers :
              /\ calls[w][f].outcome = "ok" =>
                    calls[w][f].request \in {"applied", "forgotten"}
              /\ calls[w][f].request = "applied" =>
                    store[f][writes[w].key].version >= writes[w].version
        /\ writes[w].phase = "created" =>
              Cardinality(Returned(calls[w], "ok")) >= AcksNeeded

(* Second: what a follower applied while the first process ran, it holds,  *)
(* and a result taken from it then stays true.  A request applied after    *)
(* the leader's restart may be discarded, but its call has failed.         *)
HeldInv ==
    \A w \in Writes, f \in Followers :
        /\ calls[w][f].request # "none" => writes[w].version > 0
        /\ writes[w].term = 0 =>
              /\ restarts[Leader] > 0 => calls[w][f].outcome # "waiting"
              /\ /\ calls[w][f].request = "applied"
                 /\ calls[w][f].outcome = "ok" \/ restarts[Leader] = 0
                 => Holds(f, w)

(* A 503 is given only when the quorum is out of reach: too few calls have *)
(* returned ok or may still do so.                                         *)
RefusedOnlyWithoutQuorum ==
    \A w \in Writes :
        writes[w].phase = "failed" =>
            Cardinality({f \in Followers : calls[w][f].outcome \in
                                              {"ok", "waiting"}}) < AcksNeeded

(* Reads of the leader are linearizable with respect to versions until it  *)
(* restarts: such a read returns nothing older than a write acknowledged,  *)
(* or a version that another read of the leader returned, before it began. *)
LeaderReadsMonotone ==
    restarts[Leader] = 0 =>
        \A r \in Reads :
            reads[r].phase = "answered" /\ reads[r].node = Leader =>
                \A i \in reads[r].acked \cup reads[r].seen :
                    i <= reads[r].best.version

(* With W = N a read of any node that has not restarted sees every         *)
(* acknowledged write.  (What a read of the leader returned it may miss:   *)
(* that write may be in flight.)                                           *)
EveryReadSeesAcked ==
    \A r \in Reads :
        reads[r].phase = "answered" /\ restarts[reads[r].node] = 0 =>
            \A i \in reads[r].acked : i <= reads[r].best.version

(* Once every request of every write was applied, in any order, and        *)
(* nothing has been lost in a restart, every follower holds what the       *)
(* leader holds.                                                           *)
DeliveredMeansConverged ==
    /\ restarts[Leader] = 0
    /\ \A w \in Writes, f \in Followers :
          writes[w].version > 0 => calls[w][f].request = "applied"
    => \A f \in Followers : store[f] = store[Leader]

(* A node's copy of a key never goes back to an older version, and a       *)
(* version never changes its value there, except when the node restarts.   *)
CopiesOnlyAdvance ==
    [][\A n \in Nodes : restarts'[n] = restarts[n] =>
         \A k \in Keys :
             \/ store'[n][k] = store[n][k]
             \/ store'[n][k].version > store[n][k].version]_vars

(* Every accepted write and every read of the leader is answered: neither  *)
(* loop waits for results that cannot come any more.                       *)
Answered ==
    /\ \A w \in Writes :
          writes[w].phase = "waiting" ~> writes[w].phase # "waiting"
    /\ \A r \in Reads :
          reads[r].phase = "collecting" ~> reads[r].phase # "collecting"

(* A write that waited for a quorum reaches every follower that stays up,  *)
(* also after its handler has answered, 201 or 503: consistency_test.go    *)
(* reads each follower 500 ms after a write and expects the value.         *)
WriteReachesFollowers ==
    \A w \in Writes, f \in Followers \ (Unreliable \cup Restartable) :
        writes[w].phase \in {"waiting", "failed"} \/
        (writes[w].phase = "created" /\ AcksNeeded > 0) ~>
            store[f][writes[w].key].version >= writes[w].version

(* The cluster is a set of copies of one sequence of versions. *)
AssignedEntries ==
    {[key |-> writes[w].key, value |-> writes[w].value,
      version |-> writes[w].version] :
        w \in {x \in Writes : writes[x].version > 0}}

Register == INSTANCE ReplicatedRegister
                WITH assigned <- AssignedEntries, copies <- store

Implements == Register!Spec
=============================================================================

# TLA+ models of the Scalable-Distributed-Systems programs

The repository is a collection of small distributed systems in Go, one per
assignment. They share no code and do not call each other, so each gets a module
of its own, and modules are composed where programs are: a load generator on top
of either store, two stores over the same map of versioned entries, a proxy in
front of the server it protects, a worker beside the API whose tables it shares,
an implementation under its interface. What the modules model is the code at this
commit; `PROJECT.json` names the lines each definition stands for.

## 1. The system: components, state, operations, hard behaviour

| Component (sources) | State | Operations | Hard behaviour |
|---|---|---|---|
| **Leader-follower KV store** `Assignment 10/main.go` | every node a `map[string]Entry` under an RWMutex; no disk | `POST /set` (leader), `GET /get`, `GET /local_read`, `POST /replicate`, `GET /internal_read` | replication goroutines outlive the handler that waits for W of them; updates applied late and in any order; calls that fail after they took effect; nodes that come back empty |
| **Leaderless KV store** `Assignment 10/leaderless/main.go` | the same map, on equal nodes | `set` on any node (coordinator, W = N), `get` (R = 1), `replicate` | two coordinators choose the same version; discarded updates are acknowledged; coordinator restarts |
| **Load generator** `Assignment 10/loadtest/main.go` | `VersionTracker`: key → newest acknowledged version, shared by workers | `doWrite`/`RecordWrite`, `doRead`/`CheckRead`, against either store | answers are entered in another order than they were given; in leaderless mode two values may share a version |
| **Consistency tests** `Assignment 10/tests` | – | – | the expectations some properties are taken from |
| **Circuit-breaker proxy** `Mid Term Mastery/…/proxy/main.go` | state, failureCount, successCount, lastFailureTime under a mutex | `CanRequest`, `RecordSuccess`, `RecordFailure` around a backend call made outside the mutex | results recorded in another state than the request saw |
| **Crash-demonstration server** `Mid Term Mastery/…/server` | request counter, `crashed` flag, albums slice | `crashMiddleware`, `healthCheck`, album handlers | sits behind the proxy: slow answers let through before the crash arrive after it; unsynchronised slice |
| Crash-demonstration clients `Mid Term Mastery/…/client` | – | sequential GETs | – |
| **Order service** `Assignment 7/main.go`, `lambda/main.go` | per process one payment token (`paymentSem`) and `sem` of NUM_WORKERS slots; SNS topic and SQS queue | `/orders/sync`, `/orders/async`, poll loop, `processMessage` | redelivery while a message waits for the token; an order published or delivered twice; crash between payment and delete; a failing delete |
| **Album store** `Final Mastery` | tables Albums and Photos (DynamoDB), bucket (S3); nothing in the process | PUT album, upload, read, delete photo | every handler is a sequence of remote calls; each may fail, be repeated by the SDK after others have come between, or read stale data |
| **Photo worker** `Final Mastery/worker` | SQS, and the album store's tables and bucket | `pollAndProcess`, `processPhoto`, `deleteMessage` | check and update of a row are two calls, between which it may be deleted; messages come back. `main` never starts it |
| **Shopping cart** `Assignment 8/src` | MySQL tables or one DynamoDB item per cart | `CreateCart`, `AddItem`, `GetCart` | read-modify-write in DynamoDB, three statements in MySQL |
| **MapReduce word count** `Assignment 4` | objects under fixed keys of a bucket | splitter, three mappers, reducer, driver script | runs share keys; a 500 of a mapper goes unnoticed, and so does a body cut short; chunk borders inside words |
| **Product API** `Assignment 5` | a map under an RWMutex | `addProductDetails`, `getProduct` | overlapping POSTs of one id; validation |
| Product search `Assignment 6` | a map filled at start | a scan of at most 100 entries | – |
| **Concurrency experiments** `Assignment 3` | counters, maps, channels | – | racy and locked updates side by side |
| **Gin album services** `Assignment 1`, `Assignment 4/main.go` | an unsynchronised slice | list, get, append | data race: words of several appends mix |
| Deployment, plotting, locust files | – | – | – |

What makes each correct:

* *KV stores*: a version of a key names one value; copies only move forward; a
  201 means what the quorum says, a 503 means the quorum was out of reach; a read
  of the leader (R copies) or of any node (W = N) is not older than what was
  acknowledged before it began; replicas converge; nobody waits for ever.
* *Tracker*: a stale entry does not escape and a current one is not flagged,
  whatever order the workers enter answers in.
* *Breaker*: opens after the threshold, not later; closes on consecutive
  successes only; shields the backend for the whole timeout; recovers when the
  backend does and stays off one that does not.
* *Orders*: one payment per process at a time; an accepted order is neither lost
  nor left unpaid; a message is not paid twice without a fault; synchronous
  callers finish.
* *Albums*: sequence numbers are unique while nobody replaces the album; a row
  points to an object; an accepted photo has a row; a deleted one stays deleted;
  every object without a row can be accounted for. The worker, where it runs,
  spoils none of this.
* *Carts*: AddItem is atomic per product; nothing added disappears.
* *Word count*: a run's result is that of its own text.
* *Album lists*: an album posted while nobody else posts is never lost.
* *Product API*: a GET shows a product that passed validation, under its own id,
  and none that had been replaced before the GET came in.
* *Concurrency experiments*: what is locked or atomic loses nothing, and what is
  not loses no more than it must.

## 2. Modules

| Module | Models | Notes |
|---|---|---|
| `VersionedStore` | `KVStore` and its `Get`, `Set`, `SetLocal` | state-free operators on one node's map. Version 0 is "absent": the code gives 1 first, and `Entry{}` has version 0 |
| `ReplicatedRegister` | abstract specification | what both KV stores promise of their copies: each version of a key is assigned once, in ascending order; copies catch up or are forgotten |
| `LeaderKV` | `Assignment 10/main.go` | refines `ReplicatedRegister` |
| `LeaderlessKV` | `leaderless/main.go` | refines `ReplicatedRegister` while every key has a sole coordinator (proved, section 5) |
| `VersionTracker` | the tracker of `loadtest/main.go` | state-free operators, used in both modes |
| `LoadTest` | `loadtest/main.go` in leader mode | EXTENDS `LeaderKV`: its steps are the cluster's, with restarts and failing calls, extended with the workers' |
| `LeaderlessLoad` | the same in leaderless mode | EXTENDS `LeaderlessKV` |
| `CircuitBreaker` | `proxy/main.go` | the backend succeeds or fails at will |
| `ProxiedServer` | the proxy in front of `server/main.go` | EXTENDS `CircuitBreaker`, whose backend it makes concrete, and implements it |
| `OrderProcessing` | `Assignment 7/main.go` | SNS and SQS are external |
| `AlbumStore` | `Final Mastery` handlers and store | one action per remote call |
| `PhotoWorker` | `Final Mastery/worker` beside the handlers | EXTENDS `AlbumStore`; its queue is external |
| `CartSpec`, `CartService` | `CartStore`, and its two implementations | `database` (DB_TYPE) is chosen at start and never changes |
| `WordCount`, `MapReduce` | texts and counts; the pipeline | operators on byte sequences; the processes |
| `AlbumSlice` | the album list of `server/main.go`, `Assignment 1` and `Assignment 4` | word by word, see below |
| `Counters`, `SharedMap` | `Assignment 3` | `atomicity.go`; `collections.go`, `mutex.go`, `rwmutex.go`, `syncmap.go` |
| `ProductAPI` | `Assignment 5/main.go` | |
| `…_proofs` | – | theorems, see section 5: `VersionedStore`, `LeaderKV` (with `LoadTest`), `LeaderlessKV` (with `LeaderlessLoad`), `ProxiedServer` (with `CircuitBreaker`), `OrderProcessing`, `PhotoWorker` (with `AlbumStore`), `CartService`, and `Programs` for `Counters`, `SharedMap`, `ProductAPI`, `MapReduce` and `AlbumSlice` |
| `MC…` | – | constants for TLC; `MCPrograms` puts the four single-process programs in one run, one of them per behaviour |

Operators called "mutant" in a comment are plausible slips of the definition that
follows them. No specification uses them; the project puts each in the place of
its original to make sure that a property notices.

### How state and actions correspond to the code

**LeaderKV.** `writes[w]` is one run of `handleSet` (`phase` says whether it
waits on `ackCh` or how it answered), `calls[w][f]` the goroutine that runs
`replicateToFollower(f)`: `request` follows the POST (pending, applied by
`handleReplicate`, dropped with its server), `outcome` what the goroutine put in
`ackCh`. The handler's counters are the cardinalities of outcomes, and `Verdict`
is its loop with both break conditions and the status it ends in. Request and
outcome are independent once sent: a call may fail after its request was applied
or while it is still under way, and then still be applied. `SetAtLeader` is
`handleSet` to the wait; with `W <= 1` no goroutine starts, as in the code.
`reads[r]` is one read; a leader read takes the local entry first and then one
follower result at a time until R - 1 were good or none is left. The sleeps are
not modelled: any delay is allowed. A restart is `main` with an empty map; the
handlers and goroutines of the process die, and so do the requests that had
reached it. One that is sent later finds the new process, so a restart chooses
which of the pending requests it takes along. `acked` and `seen` in a read,
"forgotten" in a call, `term` in a write (the restarts before it) and `restarts`
are history the properties need and no action of the code reads.

**LeaderlessKV.** The same, with any node as coordinator and `Verdict` waiting
for every peer. The coordinator's own copy is the entry of `calls` for itself.
`SoleCoordinator(k)` says that one node that has not restarted took all writes of
k: it describes what clients did, no action depends on it.

**LoadTest.** `versions` is the tracker's map. `WriteReturns` and `ReadReturns`
are the moments a worker deals with an answer, any time after the server gave it.
Only a 201 and a 200 touch the tracker; a worker whose client gives up after ten
seconds never takes its step. A read is sent to the leader's `/get` or to a
follower's. `known` is history: what the tracker held when a read was sent.
**LeaderlessLoad** does the same on top of `LeaderlessKV`, where a write and a
read go to any node.

**CircuitBreaker.** A client slot is one request inside the proxy. `Forward` and
`Refuse` are the handler with the two results of `CanRequest`, which may move the
breaker to half open; `BackendSucceeds` and `BackendFails` are the return of
`http.Get` with `RecordSuccess` or `RecordFailure`. `expired` abstracts
`time.Since(lastFailureTime) > recoveryTimeout`: set by `Expire`, cleared by a
failure. `failRun` and `okRun` are history.

**ProxiedServer.** A forwarded request is on its way, past `crashMiddleware`, or
answered (`backend[c]`). The middleware counts it and refuses it past
`crashThreshold`; what it let through is answered later, by `healthCheck` with a
503 if the server has crashed since. `Restart` is a new process: the requests
being served fail, those on their way find it or do not. The proxy turns every
method into a GET, so a POST to it adds no album.

**OrderProcessing.** `token[p]` is the buffered channel `paymentSem` of process
p, `jobs[p]` the goroutines behind `sem`, `batch[p]` the messages of one
`ReceiveMessage` that have no goroutine yet; the next poll comes when all are
done (`wg.Wait`). `handle[m]` counts deliveries and stands for the receipt
handle. SQS may show a hidden message again at any time (`VisibilityExpires`);
a `Publish` that returns an error may have published. Messages and orders are two
sets: `MessagesOf(o)` are those that may come to carry order o (`OrderIn`), one of
which a `Publish` puts in the queue and the others `Duplicate`, which stands for
the SDK's repeat of a `Publish` and for the second deliveries of SNS and SQS.
`payments` counts the payments of a message, or of a synchronous order.

**AlbumStore.** `uploads[p]` and `deletes[d]` are the local state of
`UploadPhoto` and `DeletePhoto` between remote calls. Every `…Fails` action is a
call that returned an error and took effect or did not. `PutAlbum(u, a, s)` is
one attempt at the `PutItem` of PUT request u: after it the handler answers, or
the answer of the attempt is lost and the SDK sends the same item again, any
time later and whatever came between. `UploadNumber(p, 2)` is the SDK repeating
an ADD whose answer was lost. `epochs[a]` is history, the number of times the
item of album a was replaced, and `uploads[p].epoch` what it was when p got its
number. Stale reads are `GetItem` without `ConsistentRead`. `kept` is history:
S3 refused to delete the object.

**PhotoWorker.** `started` chooses between the deployment of this commit, in
which nothing calls `worker.Start`, and one that does; `Announce` stands for a
sender of messages the repository does not have. `batch` is what a poll returned,
`work` the message the loop is at. `UpdateItem` on a missing key creates a row
with a status and no album, `GhostRow`. `missed` is history.

**AlbumSlice.** A slice is three words. A handler loads them one by one in any
order, appends, and stores those it changed in the order the compiler gives;
words of different appends may mix. An access past the end of an array is
undefined behaviour: `corrupted` is set, and nothing is claimed after it.

**Counters, SharedMap.** `regularOps++` is a load and a store. Overlapping
assignments to a plain map leave any part of the entries, and the runtime may
throw. **ProductAPI.** The POST handler up to the lock, the store, the unlock;
the GET handler likewise. Of the strings only the lengths count, at both sides of
each limit.

**CartService.** `adds[a]` is one `AddItem`. MySQL: existence check, upsert,
closing read. DynamoDB: read, write back. `NoCart` is the missing row or item.

**MapReduce.** One run of `measure_mapreduce.py` after the other; each handler's
calls to S3 are steps; `PutObject` replaces what is under its key. A mapper's
error does not stop the driver, one of the splitter or the reducer does.
`Arrives` is what `buf.ReadFrom` leaves of a body: its error is ignored in the
splitter and the mapper, while the reducer's decoder refuses a cut document. The
next run begins when the handlers of the one before are done, although a driver
that dies would leave them running (their calls use `context.TODO()`).
`test_sizes.py` is another driver of the same services, with the same chunk
keys, that does not look at the splitter's answer: it is not modelled, and
nothing here is claimed of its runs. `fault` chooses which kind of fault a
behaviour may meet, calls that fail or bodies cut short. `failed` and `short`
are history.

## 3. What the runs check

| Run | Instance | Shows |
|---|---|---|
| `leader_faults` | the load generator on 2 followers, 1 key, 2 writes, 2 reads, 2 values, W = R = 2; both followers' calls may fail, leader and one follower restart once each | versions are unique and the leader newest until it restarts; a 201 of the leader's first process is backed by a follower that holds the write or a newer one, also after the leader restarts and hands out old versions; a 503 is never given while the quorum is still possible; leader reads are monotone, also one after another; copies only advance and converge once everything is delivered; the tracker counts stale and current reads rightly |
| `leader_live` | the store with W = R = 3; one follower's calls may fail and it may restart once; fairness | every write and leader read is answered; a write reaches each reachable follower also after a 503; with W = N every read of a node that stayed up sees what was acknowledged; `LeaderKV` implements `ReplicatedRegister` |
| `leaderless` | the load generator on 3 nodes, 2 writes, 1 read; one node's calls may fail, two restart | an acknowledged version is everywhere; a coordinator reads its own writes; a key with one coordinator behaves as in the leader's store; a read counted as fresh is as new as what was recorded before it was sent |
| `leaderless_claim` (violation) | 3 nodes, 2 writes, no fault | "W=N: coordinator must write to ALL nodes before responding" does not hold: see section 6 |
| `breaker` | the proxy with 3 client slots and thresholds 3 and 2 before a server that crashes after 3 requests and may restart; fairness | late results neither open nor close nor bypass the breaker wrongly; it closes again once the server fails no more; it shields for good a server that nobody restarts |
| `orders` | 2 orders, one of which has two messages, 1 foreign message, 1 processor, 2 slots, batches up to 3, up to 3 deliveries, 1 crash, 1 failed delete; fairness | one payment per process, no more goroutines than slots; no accepted order is lost; no message is paid twice but for the crash and the failed delete; every order is settled |
| `albums` | 2 albums, a PUT that the SDK may send twice, 2 uploads, 2 deletes, failures and stale reads; the worker started or not, one photo announced, delivered at most twice | numbers are unique between two replacements of the album's item; rows and objects match but for what a delete or a stale read explains; a deleted photo does not come back; orphans are accounted for |
| `album_reput` (violation) | 1 album PUT twice, 2 uploads | a second PUT resets the counter |
| `carts` | 2 carts, 2 products, 2 quantities, 2 AddItem, failures, either database | MySQL implements `CartSpec`; the answer holds the product in both |
| `cart_dynamo_claim` (violation) | 1 cart, 2 AddItem, no failure | DynamoDB loses an acknowledged item |
| `wordcount` | 2 runs; calls that fail, or one body of a run cut short; any text of up to 4 bytes of letter, punctuation and blank, or of 5 or 6 of letter and blank, before or after one of three others | a run is not disturbed by what others left; the only difference to the sequential count is a cut word, and a body cut short adds none |
| `programs` | album list: 3 seeds, 3 POSTs and a GET, after 0 or 2 earlier POSTs; counters: 3 goroutines of 3 additions; map: 3 goroutines of 2 entries; products: 2 ids, 2 POSTs, 1 GET | a lone POST's album is in every later list; the atomic counter is exact and the plain one between 2 and all; a locked map keeps everything; a GET shows a valid, current product |

**Bounds and why they are enough.** One key: `Set` and `SetLocal` touch one
key's entry and no property relates two keys. Two writes overlap in every way
that one overtaking the other can; three nodes are the fewest with a quorum that
is neither one nor all. W and R take each relevant place: a proper quorum
(`leader_faults`) and all (`leader_live`); W = 1 starts no replication and is
section 6's. `MaxRestarts` bounds the restarts of each node, so that a leader
and a follower can restart in one behaviour, in either order. `failureCount` may
grow without limit while the breaker is open or half open, where only its
comparison with the threshold counts: it saturates at `MaxFailures`, one above
the threshold. `CrashThreshold` (50 in the code) is as many requests as clients,
so that requests let through and requests refused overlap; the counter stops at
the first request refused. In `leader_faults`, with a read in a behaviour, the
leader restarts or a follower does, not both; and the second read follows the
first, both of the leader, before any restart, any failed call of a write and
any answer the client enters (`ReadsBound`), which is where
`LeaderReadsMonotone` speaks of two reads: it says nothing after a restart of
the leader. In `orders` the other order has no message: it is placed
synchronously or its `Publish` fails. `MaxReceives` is there as many as the
crash and the failed delete can use up and one more for the message that meets
both, and two for the others; in `albums` two: a message comes back once.
`Announced` is one photo, as the worker handles messages one by one. `Earlier`
lets the list's array be full or have one place left when the POSTs begin. Three
goroutines of three additions are the fewest whose plain counter can end at two
with a third party in between. `MaxAttempts` in `albums` is two, one repeat of a
`PutItem` (the SDK makes up to three attempts), and no delete is under way
between the two (`PutsBeforeDeletes`), which a PUT has nothing to do with. Texts
of up to six bytes give chunks of zero, one and two bytes and a longer last one.
Symmetry is used for request identities and values, only in runs without
liveness.

`CHECK_DEADLOCK FALSE` is given where the modelled work is finite and the system
then rests; `breaker`, whose clients never stop, is checked for deadlock.

**Fairness.** Go schedules every runnable goroutine and `http` calls end, if only
with an error: weak fairness on each call's return, on the application of a
request by a node that is neither unreliable nor restarting, on the poll loop, on
a goroutine's next call. The payment token and the slots are channels, which
serve waiters first in, first out: strong fairness on acquiring the token. SQS
shows an undeleted message again: weak fairness on `VisibilityExpires`. Clients
of the KV store owe nothing; those of the breaker keep calling, without which no
breaker can recover, their requests are handled and time passes; nobody has to
restart the server. `http.Post` has no timeout in the code; what is assumed is
that TCP gives up.

## 4. Reading the properties

`AckedOnQuorum` counts a follower that held the write and lost it in its own
restart: the code does not persist, and the property is that nothing else loses
a write. Held is the entry itself or a newer version (`Holds`), and only writes
of the leader's first process are meant: what a restarted leader writes below
the versions of the process before, followers discard and acknowledge, so that
its 201 may be held by nobody but itself. `OneValuePerVersion`,
`LeaderIsNewest`, `LeaderReadsMonotone` and `DeliveredMeansConverged` are stated
until the leader restarts, because a restarted leader gives versions from 1
again; `RefusedOnlyWithoutQuorum` and `CopiesOnlyAdvance` hold without that
condition, and `AckedOnQuorum` keeps holding after it of the writes before.
`EveryReadSeesAcked` is checked only where W = N, for nodes that have not lost
their copy in a restart, and `WriteReachesFollowers` is stated for writes that
waited for a quorum and followers that stay up. In `LeaderlessKV` the same
statements need a key whose writes one node that has not restarted coordinated
(`SoleCoordinator`): nothing in the code sees to that.

`PaidOnce` allows one payment more for each crash and each failed delete, for a
single processor (Terraform sets `desired_count = 1`): SQS delivers at least
once, and the code does not look whether an order was paid. It counts the
payments of each message, and of an order without one (synchronous) at most one:
an order published or delivered twice is paid for each of its messages.
`SeqUnique` lets two photos have one number only if the album's item was
replaced between them; `NoDuplicateSeq`, which has no such condition, is what
the code's comment says and `album_reput` refutes. `CompletedHasObject` and
`AcceptedHasRow` make exceptions only for deletes of the same photo that have
got as far as to explain them; where the worker runs, the first also for a photo
whose row a stale read of the worker missed, as it then removes the object.
`DeletedStaysDeleted` lets the worker leave a row without an album (`GhostRow`),
which no upload made. `OrphansExplained` accounts for every object without a
row: an upload that has not saved its row, or a delete that named another album
or met an error of S3.

`CountedRightly` has both directions of the tracker. A read older than what the
tracker knew when it was sent must not count as fresh; one that returned the
newest version there is must not count as stale, until the leader restarts.
Between the two, a read that overlaps a write may be counted either way.
`FreshSeesRecorded` compares versions only, and values where one node coordinated
the key, because two coordinators may give one version to two values.

`CrashIsShielded` says "from some time on": answers that the server still owes
when it crashes may close the breaker once more. `LoneAlbumStays` claims nothing
of albums whose POSTs overlapped, nor once an array was accessed out of bounds.
`PrintedCounts` gives the exact least value of the plain counter.

## 5. What is proved

All theorems hold for every number of nodes, keys, values, requests, clients,
orders, albums, photos, carts, goroutines, driver runs and restarts, every W and
R and every threshold, from the assumptions named in the modules: finitely many
nodes, processors and goroutines; the leader not among the followers; quorums and
bounds natural numbers; some key, album, photo, cart, product and quantity; texts
that are sequences of bytes; and that markers of the model (`"nobody"` holds the
lock, `"first"` is the first array) are not among the identities. Three theorems
have a hypothesis of their own, named below (`AckedSeenEverywhere`,
`ImplementsRegister`, `SoleCoordinatorsImplement`). Every safety
property of the passing runs is a theorem.

The leader-follower store and its load generator (`LeaderKV_proofs`):

* `TypeCorrect`, `LoadTypeCorrect`: the type invariants.
* `AckedStays`: `AckedOnQuorum`, with any failures and restarts. The handler knows
  nothing but results, so the statement is not inductive. `AckInv` adds what a
  result means: a result ok comes after its request was applied, and a 201 was
  given on W - 1 such results. `HeldInv` says what applied means: while the first
  process runs, the follower's entry is the write's own or a newer one, as no two
  writes have one version (`VersionInv`); after the leader's restart no call of
  that process is open, so that no result can be taken from a request that is
  applied only then and perhaps discarded; and a copy that is held stays held, as
  copies only advance (`HoldsKept`, `AppliedHolds`).
* `RefusedRightly`: `RefusedOnlyWithoutQuorum`. Results never turn from failed to
  ok, so the set of open calls only shrinks, and both of the loop's conditions
  bound it (a difference of finite cardinalities).
* `LeaderNeverBehind`, `VersionsAgree`: `LeaderIsNewest` and `OneValuePerVersion`.
  Both rest on `VersionInv`: every entry anywhere is that of a write, no two
  writes of a key have the same version, and the leader has got as far as each.
  It holds until the leader restarts.
* `LeaderReadsInOrder`: `LeaderReadsMonotone`. `ReadInv` adds that no read has got
  hold of an entry newer than the leader's, and that a leader read has from its
  start the leader's own copy, as new as every version acknowledged or read
  before; what followers add can only be newer.
* `DeliveredConverges`: `DeliveredMeansConverged`, from `AckInv` (what was applied
  is there or surpassed), `VersionInv` (nothing surpasses the newest write) and
  `OneValuePerVersion`.
* `AckedSeenEverywhere`: `EveryReadSeesAcked`, under the hypothesis
  W > |Followers|, which is W = N. `ForgetInv` says that only a restart loses an
  applied update; `FollowerReadInv` is `ReadInv` for reads of a follower.
* `CopiesAdvance`: `CopiesOnlyAdvance` for each node separately.
* `ImplementsRegister`: if the leader is not one of the nodes that restart,
  `LeaderKV` implements `ReplicatedRegister`: an accepted write maps to `Assign`,
  an applied update to `CatchUp` or a stutter, a follower's restart to `Forget`.
* `CountsRight`: `CountedRightly`. Every step of the load generator is one of the
  store or leaves it alone (`LoadIsSpec`), so the store's theorems are at hand.
  `CountInv`: the tracker never knows less than when a read was sent nor, until
  the leader restarts, of a version that the leader has not given; a read was
  counted as its entry and the tracker stood then.

The leaderless store and its load generator (`LeaderlessKV_proofs`):

* `LeaderlessTyped`: `TypeOK`.
* `AckedEverywhere`: `AckedVersionEverywhere`, with any number of coordinators,
  failing calls and restarts. As above, `AckInv` says what a result means, for
  the coordinator's own copy too; a 201 needs a result ok of every peer.
* `CoordinatorSeesOwn`: `CoordinatorReadsOwnWrite`. `OwnInv` adds that a
  coordinator that has not restarted since holds its write itself or a newer
  version: updates of other coordinators replace it only by newer ones, and its
  own later writes count on from it.
* `SoleCoordinatorReads`, `SoleCoordinatorConverges`: `EveryReadSeesAcked` and
  `DeliveredMeansConverged`. `OriginInv` holds for any coordinators: no node gives
  a version of a key twice before it restarts, every entry stored or read is that
  of a write, and a read returns at least the versions acknowledged before it.
  With one coordinator per key a version then names one value.
* `SoleCoordinatorsImplement`: while every key has a sole coordinator
  (`[]SoleCoordinators`), `LeaderlessKV` implements `ReplicatedRegister`. An
  accepted write maps to `Assign`: `OriginInv` says that a coordinator's own copy
  has got as far as every version it gave, so the next is new and above all of the
  key. An applied update maps to `CatchUp`, a discarded one to a stutter, a
  restart to `Forget`. Nothing in the code sees to the hypothesis, and without it
  TLC finds the statement false: two coordinators give one version to two values.
* `FreshMeansSeen`: `FreshSeesRecorded`. `TrackInv`: the tracker is at least as
  new as every write entered, and a read counted fresh as new as those entered
  before it was sent.

Both stores rest on the lemmas of `VersionedStore_proofs` about `Set` and
`SetLocal`: what each does to the entry of its key and to the others.

The breaker and the server behind it (`ProxiedServer_proofs`):

* `ClosedCounts`, `ClosesRightly`, `OpenSpares`. `BreakerInv` adds that successes
  counted while half open are among those recorded in a row since it half-opened,
  and that none is counted outside that state.
* `ResultsMatchRequests`: a client slot waits exactly while its request is in the
  server; each result is recorded for one request, crashes included.
* `CrashedStaysOff`: a server that has crashed and answered what it had let
  through (`Drained`) answers nothing more, and a breaker that is not closed by
  then does not close until a restart. `CrashInv`: a crashed server has counted
  past its threshold, so its middleware refuses every request; together with
  `Matched` no success is left for the proxy to record.

A step of the composition is a step of the breaker by construction
(`ProxiedIsBreaker`, a lemma), so that the first three hold of it as well.

The order service (`OrderProcessing_proofs`):

* `OrdersTyped`: `TypeOK`.
* `LimitsKept`: `LimitsHold`, from `TokenInv` (the order being paid in a process
  holds its token, so a second one cannot acquire it) and `SlotInv` (a goroutine
  starts only below the number of slots; finite cardinalities).
* `AcceptedKept`: `AcceptedNotLost`. `NotLostInv` adds that an accepted order
  has a message in the queue, and that a message that is deleted or about to be
  was paid.
* `PaidOnceEach`: `PaidOnce`. `PayInv`: with one processor a message in its batch
  or in a goroutine is in the queue, in one of the two only, and held with the
  latest handle; a message in the queue that is not about to be deleted was paid
  only on deliveries that ended in a crash or a failed delete.
  `SyncInv`: the receiver has paid an order exactly when it has completed it.

The album store with the worker, started or not (`PhotoWorker_proofs`):

* `WorkerTyped`: `WorkerTypeOK`; the worker's rows belong to no album.
* `AcceptedKeepsRow`: `AcceptedHasRow`. `RowInv` (a row is that of its upload or a
  `GhostRow`, and there is none before the upload is answered) and `KnownInv`
  (deletes and messages are about photos that were answered) keep the worker and
  the deletes off uploads under way.
* `OrphansKnown`: `OrphansExplained`, from `ObjectInv`: an object is that of an
  upload that got so far, and one that a delete removed stays away.
* `RowHasObject`: `CompletedHasObject`, from `ObjectInv` and `AbsentInv`: when the
  worker is about to remove an object, its row is gone for good or was missed.
* `DeletedStays`: `DeletedStaysDeleted`, from `KnownInv`.
* `NumbersUnique`: `SeqUnique`, for any number of PUTs and repeats. `SeqInv`: the
  album of a numbered upload is there, and unless its item was replaced since, its
  counter has got as far as the number.

The shopping cart (`CartService_proofs`):

* `AnswersHaveItem`: `AnswerHasItem`. `CartInv` adds that the cart of a call
  past its check is there, that only a call over MySQL reads it back, and that
  the item of a call that has upserted is then still in it.
* `MySQLImplementsInterface`: `ImplementsInterface`. The upsert maps to `AddItem`
  of `CartSpec`, and so does an upsert whose answer was lost; everything else
  stutters.

The single-process programs and MapReduce (`Programs_proofs`):

* `LockedMapComplete`: `LockedMapKeepsAll`, from `MapInv`: the lock excludes, and
  what is stored is exactly what was written.
* `CountersPrinted`: `PrintedCounts`. `CountersInv` bounds the plain counter from
  both sides: every register is below what was added, the counter is at least 1
  once anybody stored and at least 2 once all have stored twice.
* `AnswersAreCurrent`: `AnswersCurrentProduct`, from `APIInv`: the map holds the
  last product stored under each id, and what was answered before a GET arrived
  was stored before it looks.
* `ReturnsOwnCounts`: `ReducedOwnChunks`. `MRInv`: one run is active at a time,
  and as long as it met no fault the objects up to its step are of its own text.
* `AgreesWithSequential`: `AgreesUnlessCut`. `PiecesInv` follows a run whose
  bodies may be cut short: its content is a prefix of its text, the objects
  uploaded are the chunks of that, each mapper's result is the counts of a
  prefix of its chunk (`Pieces`), and the sum is that of such results. The rest
  is about `WordCount`. A text cut in no field has the fields of its two parts,
  shifted (`FieldsCut`), with the same words, so that its counts are the merged
  counts of the parts. The total of counts is the number of places where a field
  with a word begins, and where one begins in a part one begins in the text,
  except perhaps one right after each of the two cuts: hence two words at most.
* `LoneStays`: `LoneAlbumStays`. `SliceInv`: a handler that runs alone has loaded
  the words as they are; a lone album has a cell number at which every array named
  by the list or by a handler's words holds it, that lies within every length,
  and that no POST under way will write to.

The invariants are proved inductive action by action; the temporal steps are
propositional. `Counts` and `Total` are written with sets and cardinalities, not
by recursion over the text, so that what they compute can be proved by bijections
and by taking least and greatest elements; no induction over data is needed. Only
model-checked: liveness (`Answered`, `WriteReachesFollowers`, `Recovers`,
`CrashIsShielded`, `OrdersSettled`), which needs fairness and ENABLED and is
beyond the prover used.

## 6. Disagreements between code and text

* `leaderless_claim`: a peer acknowledges an update it discards as not newer, so
  two coordinators that gave the same version both answer 201 while each node
  keeps its own value, for good.
* `album_reput`: `PutAlbum` writes the whole item, `photo_seq` included; a PUT of
  an existing album lets later uploads reuse numbers, and so does the SDK's repeat
  of the first PUT with an upload in between, against "no race
  conditions, no duplicate seq numbers".
* `cart_dynamo_claim`: `DynamoStore.AddItem` writes back the cart it read without
  a condition; a concurrent item that was answered 201 is lost.

Known limits the models show without a run of their own: with W = 1 the leader
never replicates, so no follower gets any write, although the compose file
offers that setting; the 201 of a leader that has restarted may be for a write
that its followers discarded, as not newer than what they hold, and
acknowledged; an order with several messages, because a `Publish` was repeated
or a message delivered twice, is paid for each of them; the tracker does not
look at 404s and counts a read that overlapped a write as stale; in leaderless
mode it takes a read of another value with the same version for fresh; the
payment token limits one process, and receiver and processor are two; an object
whose delete failed, or was addressed with the wrong album, stays in the bucket
without a row; a worker that is started can delete the object of a live photo
after a stale read, and leave a row without an album when a delete comes between
its check and its update; the proxy forwards every method as GET, so a POST is
answered and adds nothing; no HTTP client of the KV store and no call of the
proxy's `http.Get` has a timeout.

## 7. What is not modelled, and the plan

Not modelled because they keep no state of their own or only read: health
endpoints of the KV store, `GetAlbum`, `ListAlbums`, `GetPhoto`, `GetCart` apart
from the one inside `AddItem`, statistics and CSV output, deployment files,
plots. The crash-demonstration clients are sequential loops, each one client
slot of the proxy. The product search is a sequential scan of a store that
nothing changes after the start. Of `Assignment 3`, the ping-pong of
`contextswitching.go` is two goroutines in strict alternation, with no schedule
to choose, and `fileaccess.go` measures file writes. `lambda/main.go` is the
order service again, with a mutex for the token. Of `Assignment 4`,
`test_sizes.py` is a second driver that ignores a 500 of the splitter. The
consistency tests are where some properties come from. Left out in modelled
programs: UTF-8, and bodies and paths that do not parse.

Order of work, most important behaviour first:

1. (done) `VersionedStore`, `LeaderKV`, `ReplicatedRegister`, their runs and
   theorems; `LoadTest` and `LeaderlessKV` beside them; `CircuitBreaker` with its
   theorems; `OrderProcessing`, `AlbumStore`, `CartService`, `MapReduce`.
2. (done) Compositions: the load generator with faults and in leaderless mode,
   the proxy with its server, the photo worker beside the album store. The
   single-process programs. Theorems about `LeaderlessKV`, `ProxiedServer` and
   `OrderProcessing`.
3. (done) Theorems about the rest: both load generators, `PhotoWorker` with
   `AlbumStore`, `CartService` with its refinement of `CartSpec`, `MapReduce` and
   the single-process programs.
4. (done) `LeaderlessKV` implements `ReplicatedRegister` where every key has a
   sole coordinator; `MapReduce` agrees with the sequential count. The load
   generators leave their stores' behaviour as it is (`LoadIsSpec`, in both
   modules).
5. Left: the five liveness properties, which stay model-checked.

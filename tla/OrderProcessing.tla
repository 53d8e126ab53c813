--------------------------- MODULE OrderProcessing ---------------------------
(***************************************************************************)
(* The order service (Assignment 7/main.go): a receiver process with a     *)
(* synchronous and an asynchronous endpoint, and processor processes that  *)
(* poll SQS.  A payment takes three seconds and each process makes one at  *)
(* a time (paymentSem).  SNS and SQS are external: a published message     *)
(* becomes visible, possibly more than once, a received one is hidden      *)
(* until its visibility timeout expires, and it is gone only when it is    *)
(* deleted with a good handle.                                             *)
(***************************************************************************)
EXTENDS Integers, FiniteSets

CONSTANTS Orders,       \* orders customers may place
          Messages,     \* messages that may come to be in the queue
          OrderIn,      \* message -> the order it holds, or NoOrder
          NoOrder,
          Processors,   \* processor tasks (desired_count = 1)
          NumWorkers,   \* NUM_WORKERS
          BatchSize,    \* MaxNumberOfMessages
          Receiver, Free,
          MaxReceives,  \* message -> bound on its deliveries
          MaxCrashes,   \* bound on the crashes of processors
          MaxLost       \* bound on the failures of DeleteMessage

(* The topic's messages for order o. *)
MessagesOf(o) == {m \in Messages : OrderIn[m] = o}

Holding == {m \in Messages : OrderIn[m] \in Orders}

Processes == Processors \cup {Receiver}

ASSUME OrderAssumption == /\ OrderIn \in [Messages -> Orders \cup {NoOrder}]
                          /\ NoOrder \notin Orders
                          /\ Orders \cap Messages = {}
                          /\ Receiver \notin Processors
                          /\ Free \notin Orders \cup Messages
ASSUME TaskAssumption == IsFiniteSet(Processors)
ASSUME SizeAssumption == /\ NumWorkers \in Nat \ {0}
                         /\ BatchSize \in Nat \ {0}
                         /\ MaxReceives \in [Messages -> Nat]
                         /\ MaxCrashes \in Nat
                         /\ MaxLost \in Nat

VARIABLES requests,   \* order -> the handler of its request, or its answer
          queue,      \* message -> its state in SQS
          handle,     \* message -> number of its latest receipt handle
          batch,      \* processor -> messages received, not yet in a goroutine
          jobs,       \* processor -> message -> its goroutine
          token,      \* process -> what it pays, holding paymentSem: the
                      \* receiver an order, a processor a message's order
          payments,   \* history: order, paid by the receiver, or message,
                      \* paid by a processor -> payments completed
          crashes,    \* crashes so far
          lost        \* failed deletes so far

vars == <<requests, queue, handle, batch, jobs, token, payments, crashes, lost>>

Job == [phase : {"none", "started", "paying", "deleting"}, handle : Nat]

NoJob == [phase |-> "none", handle |-> 0]

Running(p) == {m \in Messages : jobs[p][m].phase # "none"}

TypeOK ==
    /\ requests \in [Orders -> {"new", "sync", "paying", "completed",
                                "accepted", "refused"}]
    /\ queue \in [Messages -> {"absent", "visible", "hidden", "deleted"}]
    /\ handle \in [Messages -> Nat]
    /\ batch \in [Processors -> SUBSET Messages]
    /\ jobs \in [Processors -> [Messages -> Job]]
    /\ token \in [Processes -> Orders \cup Messages \cup {Free}]
    /\ payments \in [Orders \cup Messages -> Nat]
    /\ crashes \in 0..MaxCrashes
    /\ lost \in 0..MaxLost

Init ==
    /\ requests = [o \in Orders |-> "new"]
    /\ queue = [m \in Messages |-> IF m \in Holding THEN "absent" ELSE "visible"]
    /\ handle = [m \in Messages |-> 0]
    /\ batch = [p \in Processors |-> {}]
    /\ jobs = [p \in Processors |-> [m \in Messages |-> NoJob]]
    /\ token = [p \in Processes |-> Free]
    /\ payments = [x \in Orders \cup Messages |-> 0]
    /\ crashes = 0
    /\ lost = 0

-----------------------------------------------------------------------------
(* verifyPayment of x in process p *)

(* Mutant: the channel's buffer is unlimited. *)
AcquireAlways(p, x) == token' = [token EXCEPT ![p] = x]

Acquire(p, x) ==
    /\ token[p] = Free
    /\ token' = [token EXCEPT ![p] = x]

(* Mutant: the token is not put back. *)
ReleaseKeepsToken(p, x) ==
    /\ payments' = [payments EXCEPT ![x] = @ + 1]
    /\ UNCHANGED token

Release(p, x) ==
    /\ token' = [token EXCEPT ![p] = Free]
    /\ payments' = [payments EXCEPT ![x] = @ + 1]

-----------------------------------------------------------------------------
(* The receiver *)

SyncOrder(o) ==
    /\ requests[o] = "new"
    /\ requests' = [requests EXCEPT ![o] = "sync"]
    /\ UNCHANGED <<queue, handle, batch, jobs, token, payments, crashes, lost>>

SyncPay(o) ==
    /\ requests[o] = "sync"
    /\ Acquire(Receiver, o)
    /\ requests' = [requests EXCEPT ![o] = "paying"]
    /\ UNCHANGED <<queue, handle, batch, jobs, payments, crashes, lost>>

SyncComplete(o) ==
    /\ requests[o] = "paying"
    /\ Release(Receiver, o)
    /\ requests' = [requests EXCEPT ![o] = "completed"]
    /\ UNCHANGED <<queue, handle, batch, jobs, crashes, lost>>

(* /orders/async: 202 when Publish succeeded. *)
AsyncAccept(o) ==
    /\ requests[o] = "new"
    /\ requests' = [requests EXCEPT ![o] = "accepted"]
    /\ \E m \in MessagesOf(o) : queue' = [queue EXCEPT ![m] = "visible"]
    /\ UNCHANGED <<handle, batch, jobs, token, payments, crashes, lost>>

(* /orders/async: 500 when Publish returned an error, after which SNS may  *)
(* have the message or not.                                                *)
AsyncRefuse(o) ==
    /\ requests[o] = "new"
    /\ requests' = [requests EXCEPT ![o] = "refused"]
    /\ \/ UNCHANGED queue
       \/ \E m \in MessagesOf(o) : queue' = [queue EXCEPT ![m] = "visible"]
    /\ UNCHANGED <<handle, batch, jobs, token, payments, crashes, lost>>

(* Another message of an order that SNS has: Publish repeated by the SDK   *)
(* after a lost answer, a message that SNS or SQS delivers twice, or a     *)
(* deleted one that SQS shows again.                                       *)
Duplicate(m) ==
    /\ queue[m] = "absent"
    /\ \E n \in MessagesOf(OrderIn[m]) : queue[n] # "absent"
    /\ queue' = [queue EXCEPT ![m] = "visible"]
    /\ UNCHANGED <<requests, handle, batch, jobs, token, payments, crashes, lost>>

-----------------------------------------------------------------------------
(* The processors *)

(* Mutant: the loop polls again while goroutines run (no wg.Wait). *)
BatchDispatched(p) == batch[p] = {}

(* The processor is at ReceiveMessage: wg.Wait has returned. *)
Polling(p) == batch[p] = {} /\ Running(p) = {}

Receive(p, S) ==
    /\ Polling(p)
    /\ S # {} /\ Cardinality(S) <= BatchSize
    /\ \A m \in S : queue[m] = "visible" /\ handle[m] < MaxReceives[m]
    /\ queue' = [m \in Messages |-> IF m \in S THEN "hidden" ELSE queue[m]]
    /\ handle' = [m \in Messages |-> IF m \in S THEN handle[m] + 1
                                                ELSE handle[m]]
    /\ batch' = [batch EXCEPT ![p] = S]
    /\ UNCHANGED <<requests, jobs, token, payments, crashes, lost>>

(* Mutant: a goroutine is started without a slot of sem. *)
DispatchWithoutSlot(p, m) ==
    /\ m \in batch[p]
    /\ batch' = [batch EXCEPT ![p] = @ \ {m}]
    /\ jobs' = [jobs EXCEPT ![p][m] =
                  [phase |-> IF m \in Holding THEN "started" ELSE "deleting",
                   handle |-> handle[m]]]
    /\ UNCHANGED <<requests, queue, handle, token, payments, crashes, lost>>

(* One iteration over the batch: a free slot of sem, and a goroutine that  *)
(* decodes its message.  One that holds no order is deleted at once.       *)
Dispatch(p, m) ==
    /\ m \in batch[p]
    /\ Cardinality(Running(p)) < NumWorkers
    /\ batch' = [batch EXCEPT ![p] = @ \ {m}]
    /\ jobs' = [jobs EXCEPT ![p][m] =
                  [phase |-> IF m \in Holding THEN "started" ELSE "deleting",
                   handle |-> handle[m]]]
    /\ UNCHANGED <<requests, queue, handle, token, payments, crashes, lost>>

JobPays(p, m) ==
    /\ jobs[p][m].phase = "started"
    /\ Acquire(p, m)
    /\ jobs' = [jobs EXCEPT ![p][m].phase = "paying"]
    /\ UNCHANGED <<requests, queue, handle, batch, payments, crashes, lost>>

JobPaid(p, m) ==
    /\ jobs[p][m].phase = "paying"
    /\ Release(p, m)
    /\ jobs' = [jobs EXCEPT ![p][m].phase = "deleting"]
    /\ UNCHANGED <<requests, queue, handle, batch, crashes, lost>>

(* DeleteMessage.  With a handle that is no longer the latest it may leave *)
(* the message; with the latest only an error does.                        *)
DeleteReturns(p, m, done) ==
    /\ queue' = IF done THEN [queue EXCEPT ![m] = "deleted"] ELSE queue
    /\ \/ /\ done \/ jobs[p][m].handle # handle[m]
          /\ UNCHANGED lost
       \/ /\ ~done
          /\ lost < MaxLost
          /\ lost' = lost + 1

(* Mutant: the message is deleted while its payment waits.                 *)
JobDeletesUnpaid(p, m, done) ==
    /\ jobs[p][m].phase # "none"
    /\ DeleteReturns(p, m, done)
    /\ jobs' = [jobs EXCEPT ![p][m] = NoJob]
    /\ UNCHANGED <<requests, handle, batch, token, payments, crashes>>

(* deleteMsg: an error is only logged.                                     *)
JobDeletes(p, m, done) ==
    /\ jobs[p][m].phase = "deleting"
    /\ DeleteReturns(p, m, done)
    /\ jobs' = [jobs EXCEPT ![p][m] = NoJob]
    /\ UNCHANGED <<requests, handle, batch, token, payments, crashes>>

(* SQS shows a received message again. *)
VisibilityExpires(m) ==
    /\ queue[m] = "hidden"
    /\ queue' = [queue EXCEPT ![m] = "visible"]
    /\ UNCHANGED <<requests, handle, batch, jobs, token, payments, crashes, lost>>

(* The task dies and ECS starts another. *)
Crash(p) ==
    /\ crashes < MaxCrashes
    /\ crashes' = crashes + 1
    /\ batch' = [batch EXCEPT ![p] = {}]
    /\ jobs' = [jobs EXCEPT ![p] = [m \in Messages |-> NoJob]]
    /\ token' = [token EXCEPT ![p] = Free]
    /\ UNCHANGED <<requests, queue, handle, payments, lost>>

Next ==
    \/ \E o \in Orders : \/ SyncOrder(o)   \/ SyncPay(o)   \/ SyncComplete(o)
                         \/ AsyncAccept(o) \/ AsyncRefuse(o)
    \/ \E p \in Processors :
          \/ \E S \in SUBSET Messages : Receive(p, S)
          \/ \E m \in Messages : \/ Dispatch(p, m)
                                 \/ JobPays(p, m)
                                 \/ JobPaid(p, m)
                                 \/ \E done \in BOOLEAN : JobDeletes(p, m, done)
          \/ Crash(p)
    \/ \E m \in Messages : VisibilityExpires(m) \/ Duplicate(m)

Spec == Init /\ [][Next]_vars

(* Goroutines run, a waiter gets a semaphore that is released for ever,    *)
(* processors poll, and a hidden message is shown again.                   *)
Fairness ==
    /\ \A o \in Orders : SF_vars(SyncPay(o)) /\ WF_vars(SyncComplete(o))
    /\ \A p \in Processors :
          /\ WF_vars(\E S \in SUBSET Messages : Receive(p, S))
          /\ \A m \in Holding : SF_vars(JobPays(p, m)) /\ WF_vars(JobPaid(p, m))
          /\ \A m \in Messages :
                /\ WF_vars(Dispatch(p, m))
                /\ WF_vars(\E done \in BOOLEAN : JobDeletes(p, m, done))
    /\ \A m \in Messages : WF_vars(VisibilityExpires(m))

FairSpec == Spec /\ Fairness

-----------------------------------------------------------------------------
(* Properties *)

(* Answered 202 and not paid yet. *)
Unpaid(o) ==
    requests[o] = "accepted" /\ \A m \in MessagesOf(o) : payments[m] = 0

Paying == {o \in Orders : requests[o] = "paying"}

PayingIn(p) == {m \in Messages : jobs[p][m].phase = "paying"}

(* In each process one payment is under way at a time, also right after a  *)
(* crash, and what holds the token is what is being paid; in a processor   *)
(* no more goroutines run than it has worker slots.                        *)
LimitsHold ==
    /\ \A o \in Paying : token[Receiver] = o
    /\ \A p \in Processors :
          /\ \A m \in PayingIn(p) : token[p] = m
          /\ Cardinality(Running(p)) <= NumWorkers

(* An order answered 202 is not lost: until it has been paid a message of  *)
(* it is in the queue, shown or hidden, whatever crashed in between.       *)
AcceptedNotLost ==
    \A o \in Orders :
        Unpaid(o) =>
            \E m \in MessagesOf(o) : queue[m] \in {"visible", "hidden"}

(* With one processor each message of an order is paid once, and once more *)
(* only for each crash and each failed delete, although visibility         *)
(* timeouts expire while messages of a batch wait for the token: the next  *)
(* poll comes after the batch.  The receiver pays an order once.  (Nothing *)
(* looks whether an order was paid: one that is published or delivered     *)
(* twice is paid for each of its messages.)                                *)
PaidOnce ==
    /\ \A o \in Orders : payments[o] <= 1
    /\ Cardinality(Processors) = 1 =>
          \A m \in Messages : payments[m] <= 1 + crashes + lost

(* To be paid: as promised by a 202, or before the handler answers. *)
Owed(o) == Unpaid(o) \/ requests[o] \in {"sync", "paying"}

(* Every order is settled: one accepted with 202 is paid, also if          *)
(* processors crash, and a synchronous one is completed.                   *)
OrdersSettled == \A o \in Orders : Owed(o) ~> ~Owed(o)
=============================================================================

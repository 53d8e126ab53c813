----------------------- MODULE OrderProcessing_proofs -----------------------
(***************************************************************************)
(* Theorems about the order service, for every number of orders, messages  *)
(* of an order, other messages, processors, worker slots, crashes and      *)
(* failed deletes: limits are kept, no accepted order is lost, and with    *)
(* one processor each message of an order is paid once, and once more only *)
(* for each crash and each failed delete.                                  *)
(***************************************************************************)
EXTENDS OrderProcessing, FiniteSetTheorems, TLAPS

(* Which sets are apart, and what a message holds. *)
LEMMA Distinct ==
    /\ Holding \subseteq Messages
    /\ \A o \in Orders : MessagesOf(o) \subseteq Holding
    /\ \A m \in Holding : OrderIn[m] \in Orders
    /\ Orders \cap Messages = {}
    /\ Processors \subseteq Processes
    /\ Receiver \in Processes
    /\ Free \notin Orders /\ Free \notin Messages
    /\ Receiver \notin Processors
BY OrderAssumption DEF Holding, MessagesOf, Processes

(* The actions one by one, for the proofs that go through all of them. *)
Step == \/ \E o \in Orders : \/ SyncOrder(o)   \/ SyncPay(o)   \/ SyncComplete(o)
                             \/ AsyncAccept(o) \/ AsyncRefuse(o)
        \/ \E p \in Processors : \E S \in SUBSET Messages : Receive(p, S)
        \/ \E p \in Processors : \E m \in Messages : JobPays(p, m)
        \/ \E p \in Processors : \E m \in Messages : JobPaid(p, m)
        \/ \E p \in Processors : \E m \in Messages : Dispatch(p, m)
        \/ \E p \in Processors : \E m \in Messages :
              \E done \in BOOLEAN : JobDeletes(p, m, done)
        \/ \E p \in Processors : Crash(p)
        \/ \E m \in Messages : VisibilityExpires(m) \/ Duplicate(m)

(* Every step is one of these. *)
LEMMA StepCases == [Next]_vars => Step \/ UNCHANGED vars
BY DEF Next, Step

(* Every step keeps the type. *)
LEMMA TypeStep == TypeOK /\ [Next]_vars => TypeOK'
<1> SUFFICES ASSUME TypeOK, [Next]_vars PROVE TypeOK'
  OBVIOUS
<1> USE DEF TypeOK
<1>1. ASSUME NEW o \in Orders,
             SyncOrder(o) \/ SyncPay(o) \/ SyncComplete(o)
      PROVE  TypeOK'
  BY <1>1, Distinct DEF SyncOrder, SyncPay, SyncComplete, Acquire, Release
<1>2. ASSUME NEW o \in Orders, AsyncAccept(o) \/ AsyncRefuse(o) PROVE TypeOK'
  BY <1>2, Distinct DEF AsyncAccept, AsyncRefuse
<1>3. ASSUME NEW p \in Processors, NEW S \in SUBSET Messages, Receive(p, S)
      PROVE  TypeOK'
  BY <1>3 DEF Receive
<1>4. ASSUME NEW p \in Processors, NEW m \in Messages, JobPays(p, m) \/ JobPaid(p, m)
      PROVE  TypeOK'
  <2>1. jobs' \in [Processors -> [Messages -> Job]]
    <3>1. jobs[p][m] \in Job /\ jobs[p] \in [Messages -> Job]
      OBVIOUS
    <3>2. PICK s \in {"paying", "deleting"} :
             jobs' = [jobs EXCEPT ![p] =
                        [jobs[p] EXCEPT ![m] = [jobs[p][m] EXCEPT !.phase = s]]]
      BY <1>4 DEF JobPays, JobPaid
    <3>3. [jobs[p][m] EXCEPT !.phase = s] \in Job
      BY <3>1 DEF Job
    <3> QED
      BY <3>1, <3>2, <3>3
  <2>2. token' \in [Processes -> Orders \cup Messages \cup {Free}]
    BY <1>4, Distinct DEF JobPays, JobPaid, Acquire, Release
  <2>3. payments' \in [Orders \cup Messages -> Nat]
    BY <1>4 DEF JobPays, JobPaid, Release
  <2> QED
    BY <1>4, <2>1, <2>2, <2>3 DEF JobPays, JobPaid
<1>5. ASSUME NEW p \in Processors, NEW m \in Messages, Dispatch(p, m)
      PROVE  TypeOK'
  <2>1. [phase |-> IF m \in Holding THEN "started" ELSE "deleting",
         handle |-> handle[m]] \in Job
    BY DEF Job
  <2> QED
    BY <1>5, <2>1 DEF Dispatch
<1>6. ASSUME NEW p \in Processors, NEW m \in Messages, NEW done \in BOOLEAN,
             JobDeletes(p, m, done)
      PROVE  TypeOK'
  <2>1. NoJob \in Job
    BY DEF NoJob, Job
  <2>2. lost' \in 0..MaxLost
    BY <1>6, SizeAssumption DEF JobDeletes, DeleteReturns
  <2> QED
    BY <1>6, <2>1, <2>2 DEF JobDeletes, DeleteReturns
<1>7. ASSUME NEW p \in Processors, Crash(p) PROVE TypeOK'
  <2>1. NoJob \in Job
    BY DEF NoJob, Job
  <2>2. crashes' \in 0..MaxCrashes
    BY <1>7, SizeAssumption DEF Crash
  <2> QED
    BY <1>7, <2>1, <2>2, Distinct DEF Crash
<1>8. ASSUME NEW m \in Messages, VisibilityExpires(m) \/ Duplicate(m)
      PROVE  TypeOK'
  BY <1>8 DEF VisibilityExpires, Duplicate
<1>9. CASE UNCHANGED vars
  BY <1>9 DEF vars
<1> QED
  BY <1>1, <1>2, <1>3, <1>4, <1>5, <1>6, <1>7, <1>8, <1>9, StepCases DEF Step

(* Every reachable state of the order service is well typed. *)
THEOREM OrdersTyped == Spec => []TypeOK
<1>1. Init => TypeOK
  <2> SUFFICES ASSUME Init PROVE TypeOK
    OBVIOUS
  <2>1. NoJob \in Job
    BY DEF NoJob, Job
  <2> QED
    BY <2>1, SizeAssumption, Distinct DEF Init, TypeOK
<1> QED
  BY <1>1, TypeStep, PTL DEF Spec

-----------------------------------------------------------------------------
(* The limits *)

(* What is being paid in a process holds its token: a second payment       *)
(* cannot begin, as the token is not free.                                 *)
TokenInv == /\ \A o \in Orders : requests[o] = "paying" => token[Receiver] = o
            /\ \A p \in Processors, m \in Messages :
                  jobs[p][m].phase = "paying" => token[p] = m

(* Every step keeps the token with the one payment under way. *)
LEMMA TokenStep == TypeOK /\ TokenInv /\ [Next]_vars => TokenInv'
<1> SUFFICES ASSUME TypeOK, TokenInv, [Next]_vars PROVE TokenInv'
  OBVIOUS
<1> USE Distinct DEF TypeOK, TokenInv
<1>1. ASSUME NEW o \in Orders,
             SyncOrder(o) \/ SyncPay(o) \/ SyncComplete(o)
      PROVE  TokenInv'
  <2>1. UNCHANGED jobs /\ \A p \in Processors : token'[p] = token[p]
    BY <1>1 DEF SyncOrder, SyncPay, SyncComplete, Acquire, Release
  <2>2. CASE SyncOrder(o)
    BY <2>1, <2>2 DEF SyncOrder
  <2>3. CASE SyncPay(o)
    <3>1. \A x \in Orders : requests[x] # "paying"
      BY <2>3 DEF SyncPay, Acquire
    <3> QED
      BY <2>1, <2>3, <3>1 DEF SyncPay, Acquire
  <2>4. CASE SyncComplete(o)
    <3>1. \A x \in Orders \ {o} : requests[x] # "paying"
      BY <2>4 DEF SyncComplete
    <3> QED
      BY <2>1, <2>4, <3>1 DEF SyncComplete
  <2> QED
    BY <1>1, <2>2, <2>3, <2>4
<1>2. ASSUME NEW o \in Orders, AsyncAccept(o) \/ AsyncRefuse(o) PROVE TokenInv'
  BY <1>2 DEF AsyncAccept, AsyncRefuse
<1>3. ASSUME NEW p \in Processors, NEW S \in SUBSET Messages, Receive(p, S)
      PROVE  TokenInv'
  BY <1>3 DEF Receive
<1>4. ASSUME NEW p \in Processors, NEW m \in Messages, JobPays(p, m)
      PROVE  TokenInv'
  <2>1. \A q \in Processors, x \in Messages :
           ~(q = p /\ x = m) => jobs'[q][x] = jobs[q][x]
    BY <1>4 DEF JobPays
  <2>2. /\ \A x \in Messages : jobs[p][x].phase # "paying"
        /\ token'[p] = m
        /\ \A q \in Processes \ {p} : token'[q] = token[q]
    BY <1>4 DEF JobPays, Acquire
  <2> QED
    BY <1>4, <2>1, <2>2 DEF JobPays
<1>5. ASSUME NEW p \in Processors, NEW m \in Messages, JobPaid(p, m)
      PROVE  TokenInv'
  <2>1. \A q \in Processors, x \in Messages :
           ~(q = p /\ x = m) => jobs'[q][x] = jobs[q][x]
    BY <1>5 DEF JobPaid
  <2>2. /\ \A x \in Messages \ {m} : jobs[p][x].phase # "paying"
        /\ jobs'[p][m].phase = "deleting"
        /\ \A q \in Processes \ {p} : token'[q] = token[q]
    BY <1>5 DEF JobPaid, Release, Job
  <2> QED
    BY <1>5, <2>1, <2>2 DEF JobPaid
<1>6. ASSUME NEW p \in Processors, NEW m \in Messages,
             Dispatch(p, m) \/ (\E done \in BOOLEAN : JobDeletes(p, m, done))
      PROVE  TokenInv'
  <2>1. \A q \in Processors, x \in Messages :
           ~(q = p /\ x = m) => jobs'[q][x] = jobs[q][x]
    BY <1>6 DEF Dispatch, JobDeletes
  <2>2. jobs'[p][m].phase # "paying" /\ UNCHANGED <<requests, token>>
    BY <1>6 DEF Dispatch, JobDeletes, NoJob
  <2> QED
    BY <2>1, <2>2
<1>7. ASSUME NEW p \in Processors, Crash(p) PROVE TokenInv'
  <2>1. /\ \A q \in Processors \ {p} : jobs'[q] = jobs[q]
        /\ \A q \in Processes \ {p} : token'[q] = token[q]
        /\ \A x \in Messages : jobs'[p][x].phase = "none"
    BY <1>7 DEF Crash, NoJob
  <2> QED
    BY <1>7, <2>1 DEF Crash
<1>8. ASSUME NEW m \in Messages, VisibilityExpires(m) \/ Duplicate(m)
      PROVE  TokenInv'
  BY <1>8 DEF VisibilityExpires, Duplicate
<1>9. CASE UNCHANGED vars
  BY <1>9 DEF vars
<1> QED
  BY <1>1, <1>2, <1>3, <1>4, <1>5, <1>6, <1>7, <1>8, <1>9, StepCases DEF Step

SlotInv == \A p \in Processors : /\ IsFiniteSet(Running(p))
                                 /\ Cardinality(Running(p)) <= NumWorkers

(* One element more or less. *)
LEMMA OneElement ==
    ASSUME NEW S, NEW x, IsFiniteSet(S)
    PROVE  /\ Cardinality(S) \in Nat
           /\ IsFiniteSet(S \cup {x})
           /\ Cardinality(S \cup {x}) <= Cardinality(S) + 1
           /\ IsFiniteSet(S \ {x})
           /\ Cardinality(S \ {x}) <= Cardinality(S)
<1>1. Cardinality(S) \in Nat
  BY FS_CardinalityType
<1>2. /\ IsFiniteSet(S \cup {x})
      /\ Cardinality(S \cup {x}) = IF x \in S THEN Cardinality(S)
                                   ELSE Cardinality(S) + 1
  BY FS_AddElement
<1>3. /\ IsFiniteSet(S \ {x})
      /\ Cardinality(S \ {x}) = IF x \in S THEN Cardinality(S) - 1
                                ELSE Cardinality(S)
  BY FS_RemoveElement
<1> QED
  BY <1>1, <1>2, <1>3

(* Every step keeps the goroutines within the slots. *)
LEMMA SlotStep == TypeOK /\ SlotInv /\ [Next]_vars => SlotInv'
<1> SUFFICES ASSUME TypeOK, SlotInv, [Next]_vars PROVE SlotInv'
  OBVIOUS
<1> USE Distinct
<1>0. ASSUME \A p \in Processors : Running(p)' = Running(p) PROVE SlotInv'
  BY <1>0 DEF SlotInv
<1>1. ASSUME UNCHANGED jobs PROVE SlotInv'
  BY <1>0, <1>1 DEF Running
<1>2. ASSUME NEW p \in Processors, NEW o \in Messages, JobPays(p, o) \/ JobPaid(p, o)
      PROVE  SlotInv'
  <2>1. \A q \in Processors, m \in Messages :
           ~(q = p /\ m = o) => jobs'[q][m] = jobs[q][m]
    BY <1>2 DEF JobPays, JobPaid, TypeOK
  <2>2. jobs[p][o].phase # "none" /\ jobs'[p][o].phase # "none"
    BY <1>2 DEF JobPays, JobPaid, TypeOK, Job
  <2> QED
    BY <1>0, <2>1, <2>2 DEF Running
<1>3. ASSUME NEW p \in Processors, NEW m \in Messages, Dispatch(p, m)
      PROVE  SlotInv'
  <2>1. /\ \A q \in Processors, x \in Messages :
              ~(q = p /\ x = m) => jobs'[q][x] = jobs[q][x]
        /\ jobs'[p][m].phase # "none"
        /\ Cardinality(Running(p)) < NumWorkers
    BY <1>3 DEF Dispatch, TypeOK
  <2>2. /\ Running(p)' = Running(p) \cup {m}
        /\ \A q \in Processors \ {p} : Running(q)' = Running(q)
    BY <2>1 DEF Running
  <2>3. /\ Cardinality(Running(p)) \in Nat
        /\ IsFiniteSet(Running(p) \cup {m})
        /\ Cardinality(Running(p) \cup {m}) <= Cardinality(Running(p)) + 1
        /\ Cardinality(Running(p) \cup {m}) \in Nat
    BY OneElement, FS_CardinalityType DEF SlotInv
  <2>4. Cardinality(Running(p) \cup {m}) <= NumWorkers
    BY <2>1, <2>3, SizeAssumption
  <2> QED
    BY <2>2, <2>3, <2>4 DEF SlotInv
<1>4. ASSUME NEW p \in Processors, NEW m \in Messages, NEW done \in BOOLEAN,
             JobDeletes(p, m, done)
      PROVE  SlotInv'
  <2>1. /\ \A q \in Processors, x \in Messages :
              ~(q = p /\ x = m) => jobs'[q][x] = jobs[q][x]
        /\ jobs'[p][m].phase = "none"
    BY <1>4 DEF JobDeletes, NoJob, TypeOK
  <2>2. /\ Running(p)' = Running(p) \ {m}
        /\ \A q \in Processors \ {p} : Running(q)' = Running(q)
    BY <2>1 DEF Running
  <2>3. /\ Cardinality(Running(p)) \in Nat
        /\ Cardinality(Running(p)) <= NumWorkers
        /\ IsFiniteSet(Running(p) \ {m})
        /\ Cardinality(Running(p) \ {m}) <= Cardinality(Running(p))
        /\ Cardinality(Running(p) \ {m}) \in Nat
    BY OneElement, FS_CardinalityType DEF SlotInv
  <2>4. Cardinality(Running(p) \ {m}) <= NumWorkers
    BY <2>3, SizeAssumption
  <2> QED
    BY <2>2, <2>3, <2>4 DEF SlotInv
<1>5. ASSUME NEW p \in Processors, Crash(p) PROVE SlotInv'
  <2>1. Running(p)' = {} /\ \A q \in Processors \ {p} : Running(q)' = Running(q)
    BY <1>5 DEF Crash, NoJob, Running, TypeOK
  <2>2. IsFiniteSet({}) /\ Cardinality({}) <= NumWorkers
    BY FS_EmptySet, SizeAssumption
  <2> QED
    BY <2>1, <2>2 DEF SlotInv
<1> QED
  BY <1>1, <1>2, <1>3, <1>4, <1>5, StepCases
     DEF Step, SyncOrder, SyncPay, SyncComplete, AsyncAccept, AsyncRefuse,
         Receive, VisibilityExpires, Duplicate, vars

(* In each process one payment is under way at a time, also right after a  *)
(* crash, and no processor has more goroutines than slots.                 *)
THEOREM LimitsKept == Spec => []LimitsHold
<1>1. Init => TokenInv /\ SlotInv
  <2> SUFFICES ASSUME Init PROVE TokenInv /\ SlotInv
    OBVIOUS
  <2>1. \A p \in Processors : Running(p) = {}
    BY DEF Init, Running, NoJob
  <2>2. IsFiniteSet({}) /\ Cardinality({}) <= NumWorkers
    BY FS_EmptySet, SizeAssumption
  <2>3. SlotInv
    BY <2>1, <2>2 DEF SlotInv
  <2>4. TokenInv
    BY Distinct DEF Init, TokenInv, NoJob
  <2> QED
    BY <2>3, <2>4
<1>2. TokenInv /\ SlotInv => LimitsHold
  BY DEF TokenInv, SlotInv, LimitsHold, Paying, PayingIn
<1> QED
  BY <1>1, <1>2, OrdersTyped, TokenStep, SlotStep, PTL DEF Spec

-----------------------------------------------------------------------------
(* No accepted order is lost *)

InQueue(m) == queue[m] \in {"visible", "hidden"}

(* A message of an order whose goroutine is about to delete it, or that    *)
(* was deleted, has been paid, and an order answered 202 has a message.    *)
NotLostInv ==
    /\ \A o \in Orders :
          requests[o] = "accepted" =>
              \E m \in MessagesOf(o) : queue[m] # "absent"
    /\ \A m \in Holding : queue[m] = "deleted" => payments[m] > 0
    /\ \A p \in Processors, m \in Holding :
          jobs[p][m].phase = "deleting" => payments[m] > 0

(* Every step keeps an order's messages in the queue until they are paid. *)
LEMMA NotLostStep == TypeOK /\ NotLostInv /\ [Next]_vars => NotLostInv'
<1> SUFFICES ASSUME TypeOK, NotLostInv, [Next]_vars PROVE NotLostInv'
  OBVIOUS
<1> USE Distinct DEF TypeOK, NotLostInv
<1>1. ASSUME NEW o \in Orders, SyncOrder(o) \/ SyncPay(o) \/ SyncComplete(o)
      PROVE  NotLostInv'
  <2>1. \A m \in Messages : payments'[m] = payments[m]
    BY <1>1 DEF SyncOrder, SyncPay, SyncComplete, Release
  <2> QED
    BY <1>1, <2>1 DEF SyncOrder, SyncPay, SyncComplete
<1>2. ASSUME NEW m \in Messages, queue' = [queue EXCEPT ![m] = "visible"],
             UNCHANGED <<jobs, payments>>,
             \A o \in Orders : requests'[o] = "accepted" =>
                requests[o] = "accepted" \/ m \in MessagesOf(o)
      PROVE  NotLostInv'
  <2>1. \A o \in Orders :
           requests'[o] = "accepted" =>
              \E n \in MessagesOf(o) : queue'[n] # "absent"
    BY <1>2
  <2> QED
    BY <1>2, <2>1
<1>3. ASSUME NEW o \in Orders, AsyncAccept(o) \/ AsyncRefuse(o)
      PROVE  NotLostInv'
  <2>1. CASE UNCHANGED queue /\ AsyncRefuse(o)
    BY <2>1 DEF AsyncRefuse
  <2>2. ASSUME NEW m \in MessagesOf(o), queue' = [queue EXCEPT ![m] = "visible"]
        PROVE  NotLostInv'
    <3>1. UNCHANGED <<jobs, payments>> /\ \A x \in Orders \ {o} : requests'[x] = requests[x]
      BY <1>3 DEF AsyncAccept, AsyncRefuse
    <3> QED
      BY <1>2, <2>2, <3>1
  <2> QED
    BY <1>3, <2>1, <2>2 DEF AsyncAccept, AsyncRefuse
<1>4. ASSUME NEW m \in Messages, VisibilityExpires(m) \/ Duplicate(m)
      PROVE  NotLostInv'
  BY <1>2, <1>4 DEF VisibilityExpires, Duplicate
<1>5. ASSUME NEW p \in Processors, NEW S \in SUBSET Messages, Receive(p, S)
      PROVE  NotLostInv'
  <2>1. ASSUME NEW m \in Messages
        PROVE  \/ queue'[m] = queue[m]
               \/ queue[m] = "visible" /\ queue'[m] = "hidden"
    <3>1. /\ queue'[m] = IF m \in S THEN "hidden" ELSE queue[m]
          /\ m \in S => queue[m] = "visible"
      BY <1>5 DEF Receive
    <3> QED
      BY <3>1
  <2>2. \A m \in Messages : /\ queue[m] # "absent" => queue'[m] # "absent"
                            /\ queue'[m] = "deleted" => queue[m] = "deleted"
    BY <2>1
  <2> QED
    BY <1>5, <2>2 DEF Receive
<1>6. ASSUME NEW p \in Processors, NEW m \in Messages, JobPays(p, m)
      PROVE  NotLostInv'
  <2>1. \A q \in Processors, x \in Messages :
           jobs'[q][x].phase = "deleting" => jobs[q][x].phase = "deleting"
    BY <1>6 DEF JobPays, Job
  <2> QED
    BY <1>6, <2>1 DEF JobPays
<1>7. ASSUME NEW p \in Processors, NEW m \in Messages, JobPaid(p, m)
      PROVE  NotLostInv'
  <2>1. \A q \in Processors, x \in Messages :
           x # m /\ jobs'[q][x].phase = "deleting" => jobs[q][x].phase = "deleting"
    BY <1>7 DEF JobPaid
  <2>2. \A x \in Messages : payments'[x] = IF x = m THEN payments[x] + 1
                                           ELSE payments[x]
    BY <1>7 DEF JobPaid, Release
  <2> QED
    BY <1>7, <2>1, <2>2 DEF JobPaid
<1>8. ASSUME NEW p \in Processors, NEW m \in Messages, Dispatch(p, m)
      PROVE  NotLostInv'
  <2>1. \A q \in Processors, x \in Holding :
           jobs'[q][x].phase = "deleting" => jobs[q][x].phase = "deleting"
    BY <1>8 DEF Dispatch
  <2> QED
    BY <1>8, <2>1 DEF Dispatch
<1>9. ASSUME NEW p \in Processors, NEW m \in Messages, NEW done \in BOOLEAN,
              JobDeletes(p, m, done)
       PROVE  NotLostInv'
  <2>1. \A q \in Processors, x \in Messages :
           jobs'[q][x].phase = "deleting" => jobs[q][x].phase = "deleting"
    BY <1>9 DEF JobDeletes, NoJob
  <2>2. /\ \A x \in Messages \ {m} : queue'[x] = queue[x]
        /\ queue'[m] = queue[m] \/ queue'[m] = "deleted"
        /\ m \in Holding => payments[m] > 0
    BY <1>9 DEF JobDeletes, DeleteReturns
  <2> QED
    BY <1>9, <2>1, <2>2 DEF JobDeletes
<1>10. ASSUME NEW p \in Processors, Crash(p) PROVE NotLostInv'
  <2>1. \A q \in Processors, x \in Messages :
           jobs'[q][x].phase = "deleting" => jobs[q][x].phase = "deleting"
    BY <1>10 DEF Crash, NoJob
  <2> QED
    BY <1>10, <2>1 DEF Crash
<1>11. CASE UNCHANGED vars
  BY <1>11 DEF vars
<1> QED
  BY <1>1, <1>3, <1>4, <1>5, <1>6, <1>7, <1>8, <1>9, <1>10, <1>11, StepCases
     DEF Step

(* A message of an order answered 202 is in the queue until the order has  *)
(* been paid, whatever crashes and whichever deletes fail.                 *)
THEOREM AcceptedKept == Spec => []AcceptedNotLost
<1>1. Init => NotLostInv
  BY Distinct DEF Init, NotLostInv, NoJob
<1>2. TypeOK /\ NotLostInv => AcceptedNotLost
  BY Distinct DEF TypeOK, NotLostInv, AcceptedNotLost, Unpaid
<1> QED
  BY <1>1, <1>2, OrdersTyped, NotLostStep, PTL DEF Spec

-----------------------------------------------------------------------------
(* How often an order is paid *)

(* One processor.  A message that it has, in its batch or in a goroutine,  *)
(* is in the queue and has the latest handle; one that is in the queue and *)
(* is not about to be deleted was paid only on deliveries that ended in a  *)
(* crash or in a failed delete.  An order has no message before its        *)
(* handler has called Publish.                                             *)
Unpublished == {"new", "sync", "paying", "completed"}

PayInv(p) ==
    \A m \in Messages :
        /\ m \in Holding /\ requests[OrderIn[m]] \in Unpublished =>
              queue[m] = "absent"
        /\ m \in batch[p] => jobs[p][m].phase = "none" /\ InQueue(m)
        /\ jobs[p][m].phase # "none" =>
              InQueue(m) /\ jobs[p][m].handle = handle[m]
        /\ queue[m] = "absent" => payments[m] = 0
        /\ InQueue(m) /\ jobs[p][m].phase # "deleting" =>
              payments[m] <= crashes + lost
        /\ payments[m] <= 1 + crashes + lost

(* The receiver pays an order when it completes it. *)
SyncInv == \A o \in Orders : payments[o] = IF requests[o] = "completed" THEN 1
                                                                        ELSE 0

(* Every step keeps the count of the receiver's payments. *)
LEMMA SyncStep == TypeOK /\ SyncInv /\ [Next]_vars => SyncInv'
<1> SUFFICES ASSUME TypeOK, SyncInv, [Next]_vars, NEW o \in Orders
             PROVE  payments'[o] = IF requests'[o] = "completed" THEN 1 ELSE 0
  BY DEF SyncInv
<1> USE Distinct DEF TypeOK, SyncInv
<1>1. ASSUME NEW x \in Orders,
             \/ SyncOrder(x) \/ SyncPay(x)
             \/ AsyncAccept(x) \/ AsyncRefuse(x)
      PROVE  payments'[o] = IF requests'[o] = "completed" THEN 1 ELSE 0
  BY <1>1 DEF SyncOrder, SyncPay, AsyncAccept, AsyncRefuse
<1>2. ASSUME NEW x \in Orders, SyncComplete(x)
      PROVE  payments'[o] = IF requests'[o] = "completed" THEN 1 ELSE 0
  BY <1>2 DEF SyncComplete, Release
<1>3. ASSUME UNCHANGED requests, payments'[o] = payments[o]
      PROVE  payments'[o] = IF requests'[o] = "completed" THEN 1 ELSE 0
  BY <1>3
<1>4. ASSUME NEW p \in Processors, NEW m \in Messages, JobPaid(p, m)
      PROVE  UNCHANGED requests /\ payments'[o] = payments[o]
  BY <1>4 DEF JobPaid, Release
<1> QED
  BY <1>1, <1>2, <1>3, <1>4, StepCases
     DEF Step, Receive, JobPays, Dispatch, JobDeletes, Crash,
         VisibilityExpires, Duplicate, vars

(* Every step keeps the count of a message's payments. *)
LEMMA PayStep ==
    ASSUME NEW p, Processors = {p}, TypeOK, PayInv(p), [Next]_vars
    PROVE  PayInv(p)'
<1> USE Distinct DEF PayInv, InQueue
<1>0. /\ p \in Processors
      /\ crashes \in Nat /\ lost \in Nat
      /\ \A m \in Messages : payments[m] \in Nat
  BY SizeAssumption DEF TypeOK
<1>1. ASSUME NEW o \in Orders, SyncOrder(o) \/ SyncPay(o) \/ SyncComplete(o)
      PROVE  PayInv(p)'
  <2>1. \A m \in Messages : payments'[m] = payments[m]
    BY <1>1 DEF SyncOrder, SyncPay, SyncComplete, Release, TypeOK
  <2>2. \A x \in Orders : requests'[x] \in Unpublished =>
                             requests[x] \in Unpublished
    BY <1>1 DEF SyncOrder, SyncPay, SyncComplete, Unpublished, TypeOK
  <2> QED
    BY <1>1, <2>1, <2>2 DEF SyncOrder, SyncPay, SyncComplete
<1>2. ASSUME NEW m \in Messages, queue' = [queue EXCEPT ![m] = "visible"],
             queue[m] # "deleted",
             m \in Holding => requests'[OrderIn[m]] \notin Unpublished,
             \A o \in Orders : requests'[o] \in Unpublished =>
                                  requests[o] \in Unpublished,
             UNCHANGED <<handle, batch, jobs, payments, crashes, lost>>
      PROVE  PayInv(p)'
  <2>1. \A x \in Messages \ {m} : queue'[x] = queue[x]
    BY <1>2 DEF TypeOK
  <2>2. /\ queue'[m] = "visible"
        /\ queue[m] = "absent" => payments[m] = 0 /\ jobs[p][m].phase = "none"
        /\ queue[m] # "absent" => InQueue(m)
    BY <1>2 DEF TypeOK
  <2> QED
    BY <1>0, <1>2, <2>1, <2>2
<1>11. ASSUME NEW o \in Orders, AsyncAccept(o) \/ AsyncRefuse(o)
       PROVE  PayInv(p)'
  <2>1. CASE AsyncRefuse(o) /\ UNCHANGED queue
    <3>1. \A x \in Orders : requests'[x] \in Unpublished =>
                               requests[x] \in Unpublished
      BY <2>1 DEF AsyncRefuse, Unpublished, TypeOK
    <3> QED
      BY <2>1, <3>1 DEF AsyncRefuse
  <2>2. ASSUME NEW m \in MessagesOf(o), queue' = [queue EXCEPT ![m] = "visible"]
        PROVE  PayInv(p)'
    <3>1. UNCHANGED <<handle, batch, jobs, payments, crashes, lost>>
      BY <1>11 DEF AsyncAccept, AsyncRefuse
    <3>2. /\ m \in Holding /\ OrderIn[m] = o
          /\ requests[o] = "new" /\ requests'[o] \in {"accepted", "refused"}
          /\ \A x \in Orders \ {o} : requests'[x] = requests[x]
      BY <1>11 DEF MessagesOf, AsyncAccept, AsyncRefuse, TypeOK
    <3>3. /\ queue[m] # "deleted"
          /\ requests'[OrderIn[m]] \notin Unpublished
          /\ \A x \in Orders : requests'[x] \in Unpublished =>
                                   requests[x] \in Unpublished
      BY <3>2 DEF Unpublished
    <3> QED
      BY <1>2, <2>2, <3>1, <3>2, <3>3
  <2> QED
    BY <1>11, <2>1, <2>2 DEF AsyncAccept, AsyncRefuse
<1>3. ASSUME NEW S \in SUBSET Messages, Receive(p, S) PROVE PayInv(p)'
  <2>1. \A m \in Messages : jobs[p][m].phase = "none"
    BY <1>3 DEF Receive, Polling, Running
  <2>2. /\ batch'[p] = S
        /\ \A m \in Messages : queue'[m] = IF m \in S THEN "hidden" ELSE queue[m]
        /\ \A m \in S : queue[m] = "visible"
        /\ UNCHANGED <<requests, jobs, payments, crashes, lost>>
    BY <1>0, <1>3 DEF Receive, TypeOK
  <2> QED
    BY <2>1, <2>2
<1>4. ASSUME NEW m \in Messages, JobPays(p, m) PROVE PayInv(p)'
  <2>1. /\ jobs[p][m].phase = "started"
        /\ jobs'[p][m].phase = "paying"
        /\ jobs'[p][m].handle = jobs[p][m].handle
        /\ \A x \in Messages \ {m} : jobs'[p][x] = jobs[p][x]
        /\ UNCHANGED <<requests, queue, handle, batch, payments, crashes, lost>>
    BY <1>0, <1>4 DEF JobPays, TypeOK, Job
  <2> QED
    BY <2>1
<1>5. ASSUME NEW m \in Messages, JobPaid(p, m) PROVE PayInv(p)'
  <2>1. /\ jobs[p][m].phase = "paying"
        /\ jobs'[p][m].phase = "deleting"
        /\ jobs'[p][m].handle = jobs[p][m].handle
        /\ \A x \in Messages \ {m} : jobs'[p][x] = jobs[p][x]
        /\ UNCHANGED <<requests, queue, handle, batch, crashes, lost>>
    BY <1>0, <1>5 DEF JobPaid, TypeOK, Job
  <2>2. \A x \in Messages : payments'[x] = IF x = m THEN payments[x] + 1
                                         ELSE payments[x]
    BY <1>5 DEF JobPaid, Release, TypeOK
  <2>3. payments[m] <= crashes + lost
    BY <2>1
  <2> QED
    BY <1>0, <2>1, <2>2, <2>3
<1>6. ASSUME NEW m \in Messages, Dispatch(p, m) PROVE PayInv(p)'
  <2>1. /\ m \in batch[p]
        /\ batch'[p] = batch[p] \ {m}
        /\ jobs'[p][m].handle = handle[m]
        /\ jobs'[p][m].phase # "none"
        /\ \A x \in Messages \ {m} : jobs'[p][x] = jobs[p][x]
        /\ UNCHANGED <<requests, queue, handle, payments, crashes, lost>>
    BY <1>0, <1>6 DEF Dispatch, TypeOK
  <2> QED
    BY <2>1
<1>7. ASSUME NEW m \in Messages, NEW done \in BOOLEAN, JobDeletes(p, m, done)
      PROVE  PayInv(p)'
  <2>1. /\ jobs[p][m].phase = "deleting"
        /\ jobs'[p][m].phase = "none"
        /\ \A x \in Messages \ {m} : /\ jobs'[p][x] = jobs[p][x]
                                     /\ queue'[x] = queue[x]
        /\ UNCHANGED <<requests, handle, batch, payments, crashes>>
    BY <1>0, <1>7 DEF JobDeletes, DeleteReturns, NoJob, TypeOK
  <2>2. m \notin batch[p]
    BY <2>1
  <2>3. \/ done /\ queue'[m] = "deleted" /\ lost' = lost
        \/ ~done /\ queue' = queue /\ lost' = lost + 1
    BY <2>1, <1>7 DEF JobDeletes, DeleteReturns, TypeOK
  <2> QED
    BY <1>0, <2>1, <2>2, <2>3
<1>8. CASE Crash(p)
  <2>1. /\ batch'[p] = {}
        /\ \A m \in Messages : jobs'[p][m].phase = "none"
        /\ crashes' = crashes + 1
        /\ UNCHANGED <<requests, queue, handle, payments, lost>>
    BY <1>0, <1>8 DEF Crash, NoJob, TypeOK
  <2> QED
    BY <1>0, <2>1
<1>9. ASSUME NEW m \in Messages, VisibilityExpires(m) \/ Duplicate(m)
      PROVE  PayInv(p)'
  <2>1. m \in Holding => requests[OrderIn[m]] \notin Unpublished
    BY <1>9 DEF VisibilityExpires, Duplicate, MessagesOf, Holding
  <2> QED
    BY <1>2, <1>9, <2>1 DEF VisibilityExpires, Duplicate
<1>10. CASE UNCHANGED vars
  BY <1>10 DEF vars
<1> QED
  BY <1>0, <1>1, <1>2, <1>3, <1>4, <1>5, <1>6, <1>7, <1>8, <1>9, <1>10, <1>11, StepCases
     DEF Step

(* The receiver pays an order once; with one processor each message of an  *)
(* order is paid once, and once more only for each crash and each failed   *)
(* delete, however often its visibility expires.                           *)
THEOREM PaidOnceEach == Spec => []PaidOnce
<1>1. Init => SyncInv
  BY Distinct DEF Init, SyncInv
<1>2. SyncInv => \A o \in Orders : payments[o] <= 1
  BY DEF SyncInv
<1>3. CASE Cardinality(Processors) = 1
  <2>1. PICK p : Processors = {p}
    BY <1>3, TaskAssumption, FS_Singleton
  <2>2. Init => PayInv(p)
    BY <2>1, Distinct DEF Init, PayInv, InQueue, NoJob
  <2>3. TypeOK /\ PayInv(p) /\ [Next]_vars => PayInv(p)'
    BY <2>1, PayStep
  <2>4. PayInv(p) /\ SyncInv => PaidOnce
    BY <1>2 DEF PayInv, PaidOnce
  <2> QED
    BY <1>1, <2>2, <2>3, <2>4, OrdersTyped, SyncStep, PTL DEF Spec
<1>4. CASE Cardinality(Processors) # 1
  <2>1. SyncInv => PaidOnce
    BY <1>2, <1>4 DEF PaidOnce
  <2> QED
    BY <1>1, <2>1, OrdersTyped, SyncStep, PTL DEF Spec
<1> QED
  BY <1>3, <1>4
=============================================================================

--------------------------- MODULE CircuitBreaker ---------------------------
(***************************************************************************)
(* The circuit-breaker proxy (proxy/main.go of the mid-term project).      *)
(*                                                                         *)
(* The breaker's mutex covers each of CanRequest, RecordSuccess and        *)
(* RecordFailure, but not the backend call between them: a result is       *)
(* recorded in whatever state the other requests have put the breaker      *)
(* meanwhile.  Client slots are the requests that may be in the proxy at   *)
(* once; each is reused for ever.                                          *)
(***************************************************************************)
EXTENDS Integers

CONSTANTS Clients,
          FailureThreshold,   \* 3 in main
          SuccessThreshold,   \* 2 in RecordSuccess
          MaxFailures         \* where the model stops counting failures

ASSUME ThresholdAssumption ==
    /\ FailureThreshold \in Nat \ {0}
    /\ SuccessThreshold \in Nat \ {0}
    /\ MaxFailures \in Nat
    /\ MaxFailures >= FailureThreshold

VARIABLES state, failureCount, successCount,   \* fields of CircuitBreaker
          expired,   \* time.Since(lastFailureTime) > recoveryTimeout
          calls,     \* client -> its request and its latest answer
          failRun,   \* history: failures recorded since the last success
          okRun      \* history: successes recorded since the last failure and
                     \* since the breaker half-opened, up to SuccessThreshold

breaker == <<state, failureCount, successCount, expired>>
history == <<failRun, okRun>>
vars == <<state, failureCount, successCount, expired, calls, failRun, okRun>>

State == {"CLOSED", "OPEN", "HALF_OPEN"}

TypeOK ==
    /\ state \in State
    /\ failureCount \in Nat
    /\ successCount \in 0..(SuccessThreshold - 1)
    /\ expired \in BOOLEAN
    /\ calls \in [Clients -> [phase : {"idle", "forwarded"},
                              answer : {"none", "backend", "fallback"}]]
    /\ failRun \in Nat
    /\ okRun \in 0..SuccessThreshold

(* lastFailureTime is the zero time: as long ago as can be. *)
Init ==
    /\ state = "CLOSED"
    /\ failureCount = 0
    /\ successCount = 0
    /\ expired = TRUE
    /\ calls = [c \in Clients |-> [phase |-> "idle", answer |-> "none"]]
    /\ failRun = 0
    /\ okRun = 0

(* The recovery timeout elapses. *)
Expire ==
    /\ state = "OPEN"
    /\ ~expired
    /\ expired' = TRUE
    /\ UNCHANGED <<state, failureCount, successCount, calls, history>>

(* Mutant: the breaker never looks at its clock. *)
CanRequestIfNotOpen == state # "OPEN"

(* The result of CanRequest. *)
CanRequest == state # "OPEN" \/ expired

(* The handler with CanRequest true: the request goes to the backend. *)
Forward(c) ==
    /\ calls[c].phase = "idle"
    /\ CanRequest
    /\ state' = IF state = "OPEN" THEN "HALF_OPEN" ELSE state
    /\ okRun' = IF state = "OPEN" THEN 0 ELSE okRun
    /\ calls' = [calls EXCEPT ![c].phase = "forwarded"]
    /\ UNCHANGED <<failureCount, successCount, expired, failRun>>

(* The handler with CanRequest false: cached data, the backend is spared. *)
Refuse(c) ==
    /\ calls[c].phase = "idle"
    /\ ~CanRequest
    /\ calls' = [calls EXCEPT ![c].answer = "fallback"]
    /\ UNCHANGED <<breaker, history>>

Answer(c, a) ==
    /\ calls[c].phase = "forwarded"
    /\ calls' = [calls EXCEPT ![c] = [phase |-> "idle", answer |-> a]]

(* Mutant of RecordSuccess: any late success closes the breaker. *)
RecordSuccessInAnyState ==
    /\ state' = "CLOSED"
    /\ failureCount' = 0
    /\ successCount' = 0
    /\ UNCHANGED expired

RecordSuccess ==
    /\ IF state = "HALF_OPEN"
       THEN IF successCount + 1 >= SuccessThreshold
            THEN state' = "CLOSED" /\ failureCount' = 0 /\ successCount' = 0
            ELSE /\ successCount' = successCount + 1
                 /\ UNCHANGED <<state, failureCount>>
       ELSE failureCount' = 0 /\ UNCHANGED <<state, successCount>>
    /\ UNCHANGED expired

(* One failure more; from MaxFailures on the count changes nothing.        *)
OneMore(n) == IF n < MaxFailures THEN n + 1 ELSE n

(* Mutants of RecordFailure: a threshold off by one; a success count that  *)
(* is not reset.                                                           *)
RecordFailureLate ==
    /\ failureCount' = OneMore(failureCount)
    /\ successCount' = 0
    /\ expired' = FALSE
    /\ state' = IF failureCount' > FailureThreshold THEN "OPEN" ELSE state

RecordFailureKeepsSuccesses ==
    /\ failureCount' = OneMore(failureCount)
    /\ expired' = FALSE
    /\ state' = IF failureCount' >= FailureThreshold THEN "OPEN" ELSE state
    /\ UNCHANGED successCount

RecordFailure ==
    /\ failureCount' = OneMore(failureCount)
    /\ successCount' = 0
    /\ expired' = FALSE
    /\ state' = IF failureCount' >= FailureThreshold THEN "OPEN" ELSE state

(* The backend answered below 500. *)
BackendSucceeds(c) ==
    /\ Answer(c, "backend")
    /\ RecordSuccess
    /\ failRun' = 0
    /\ okRun' = IF okRun < SuccessThreshold THEN okRun + 1 ELSE okRun

(* The backend answered 5xx or the call failed. *)
BackendFails(c) ==
    /\ Answer(c, "fallback")
    /\ RecordFailure
    /\ failRun' = OneMore(failRun)
    /\ okRun' = 0

Next == \/ Expire
        \/ \E c \in Clients : \/ Forward(c)
                              \/ Refuse(c)
                              \/ BackendSucceeds(c)
                              \/ BackendFails(c)

Spec == Init /\ [][Next]_vars

(* Clients keep calling, a forwarded call returns and time passes.  (The   *)
(* proxy's http.Get has no timeout; the album server always answers.)      *)
Fairness ==
    /\ WF_vars(Expire)
    /\ \A c \in Clients : /\ WF_vars(Forward(c))
                          /\ WF_vars(BackendSucceeds(c) \/ BackendFails(c))

FairSpec == Spec /\ Fairness

-----------------------------------------------------------------------------
(* Properties *)

(* While the breaker is closed, its count is the run of failures recorded  *)
(* since the last success, and that run is below the threshold: the        *)
(* breaker "opens after 3 failures" (main), no later, whatever happened    *)
(* since it was opened and closed before.                                  *)
ClosedCountsRun ==
    state = "CLOSED" => failureCount = failRun /\ failRun < FailureThreshold

(* The breaker closes only on successes recorded one after the other since *)
(* it half-opened, no failure among them: successCount holds nothing from  *)
(* an earlier half-open period, and late results of requests forwarded     *)
(* while it was open or closed do not upset the count.                     *)
ClosesOnSuccessesOnly ==
    [][state # "CLOSED" /\ state' = "CLOSED" =>
           state = "HALF_OPEN" /\ okRun' >= SuccessThreshold]_vars

(* Opened, it spares the backend for the whole recovery timeout after the  *)
(* latest recorded failure: no request is forwarded, and the breaker stays *)
(* open whatever late results come in.                                     *)
OpenSparesBackend ==
    [][state = "OPEN" /\ ~expired =>
           /\ state' = "OPEN"
           /\ \A c \in Clients : calls'[c].phase = "forwarded" =>
                                     calls[c].phase = "forwarded"]_vars

(* If the backend stops failing for good, the breaker ends up closed for   *)
(* good, from whatever the outage left behind.                             *)
Recovers ==
    <>[][~ \E c \in Clients : BackendFails(c)]_vars => <>[](state = "CLOSED")
=============================================================================

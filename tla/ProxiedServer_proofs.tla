------------------------ MODULE ProxiedServer_proofs -------------------------
(***************************************************************************)
(* Theorems about CircuitBreaker, for any number of overlapping requests   *)
(* and any two thresholds; then about this breaker in front of the crash-  *)
(* demonstration server, whenever the server crashes or is restarted.      *)
(***************************************************************************)
EXTENDS ProxiedServer, TLAPS

(* The successes counted while half open are among those recorded since    *)
(* the last failure and since the breaker half-opened, and outside that    *)
(* state nothing is counted, although successes are recorded there too.    *)
SuccessesCounted ==
    /\ state # "HALF_OPEN" => successCount = 0
    /\ state = "HALF_OPEN" => successCount <= okRun

BreakerInv == TypeOK /\ ClosedCountsRun /\ SuccessesCounted

(* The invariant holds in every reachable state. *)
LEMMA BreakerInvariant == Spec => []BreakerInv
<1> USE ThresholdAssumption
<1>1. Init => BreakerInv
  BY DEF Init, BreakerInv, TypeOK, State, ClosedCountsRun, SuccessesCounted
<1>2. BreakerInv /\ [Next]_vars => BreakerInv'
  <2> SUFFICES ASSUME BreakerInv, [Next]_vars PROVE BreakerInv'
    OBVIOUS
  <2> USE DEF BreakerInv, ClosedCountsRun, SuccessesCounted
  <2>1. CASE Expire
    BY <2>1 DEF Expire, TypeOK, history
  <2>2. ASSUME NEW c \in Clients, Forward(c) PROVE BreakerInv'
    <3>1. calls' \in [Clients -> [phase : {"idle", "forwarded"},
                                  answer : {"none", "backend", "fallback"}]]
      BY <2>2 DEF Forward, TypeOK
    <3> QED
      BY <2>2, <3>1 DEF Forward, TypeOK, State
  <2>3. ASSUME NEW c \in Clients, Refuse(c) PROVE BreakerInv'
    BY <2>3 DEF Refuse, TypeOK, breaker, history
  <2>4. ASSUME NEW c \in Clients, NEW a \in {"backend", "fallback"}, Answer(c, a)
        PROVE  calls' \in [Clients -> [phase : {"idle", "forwarded"},
                                       answer : {"none", "backend", "fallback"}]]
    BY <2>4 DEF Answer, TypeOK
  <2>5. ASSUME NEW c \in Clients, BackendSucceeds(c) PROVE BreakerInv'
    <3>1. CASE state = "HALF_OPEN"
      BY <2>4, <2>5, <3>1 DEF BackendSucceeds, RecordSuccess, TypeOK, State
    <3>2. CASE state # "HALF_OPEN"
      BY <2>4, <2>5, <3>2 DEF BackendSucceeds, RecordSuccess, TypeOK, State
    <3> QED
      BY <3>1, <3>2
  <2>6. ASSUME NEW c \in Clients, BackendFails(c) PROVE BreakerInv'
    <3>1. /\ failureCount' = OneMore(failureCount)
          /\ failRun' = OneMore(failRun)
          /\ successCount' = 0
          /\ okRun' = 0
          /\ expired' = FALSE
          /\ Answer(c, "fallback")
          /\ state' = IF failureCount' >= FailureThreshold
                      THEN "OPEN" ELSE state
      BY <2>6 DEF BackendFails, RecordFailure
    <3>2. TypeOK'
      <4>1. /\ state' \in State
            /\ failureCount' \in Nat
            /\ successCount' \in 0..(SuccessThreshold - 1)
            /\ failRun' \in Nat
            /\ okRun' \in 0..SuccessThreshold
        BY <3>1 DEF TypeOK, State, OneMore
      <4>2. expired' \in BOOLEAN
        BY <3>1
      <4> QED
        BY <2>4, <3>1, <4>1, <4>2 DEF TypeOK
    <3>3. ClosedCountsRun' /\ SuccessesCounted'
      BY <3>1 DEF TypeOK, State, OneMore
    <3> QED
      BY <3>2, <3>3
  <2>7. CASE UNCHANGED vars
    BY <2>7 DEF vars, TypeOK
  <2> QED
    BY <2>1, <2>2, <2>3, <2>5, <2>6, <2>7 DEF Next
<1> QED
  BY <1>1, <1>2, PTL DEF Spec

(* Whatever requests overlap, a closed breaker's count is the run of       *)
(* failures since the last success, and below the threshold.               *)
THEOREM ClosedCounts == Spec => []ClosedCountsRun
<1>1. BreakerInv => ClosedCountsRun
  BY DEF BreakerInv
<1> QED
  BY <1>1, BreakerInvariant, PTL

(* The breaker closes only from half open and only on SuccessThreshold     *)
(* successes recorded in a row since it half-opened, whenever the requests *)
(* that bring them were forwarded.                                         *)
THEOREM ClosesRightly == Spec => ClosesOnSuccessesOnly
<1> USE ThresholdAssumption
<1> DEFINE A == state # "CLOSED" /\ state' = "CLOSED" =>
                    state = "HALF_OPEN" /\ okRun' >= SuccessThreshold
<1>1. BreakerInv /\ [Next]_vars => A
  <2> SUFFICES ASSUME BreakerInv, [Next]_vars,
                      state # "CLOSED", state' = "CLOSED"
               PROVE  state = "HALF_OPEN" /\ okRun' >= SuccessThreshold
    OBVIOUS
  <2>1. PICK c \in Clients : BackendSucceeds(c)
    BY DEF Next, vars, Expire, Forward, Refuse, breaker, BackendFails,
           RecordFailure
  <2>2. state = "HALF_OPEN" /\ successCount + 1 >= SuccessThreshold
    BY <2>1 DEF BackendSucceeds, RecordSuccess
  <2>3. okRun \in 0..SuccessThreshold /\ successCount \in Nat
        /\ successCount <= okRun
    BY <2>2 DEF BreakerInv, SuccessesCounted, TypeOK
  <2> QED
    BY <2>1, <2>2, <2>3 DEF BackendSucceeds
<1>2. BreakerInv /\ [Next]_vars => [A]_vars
  BY <1>1
<1> QED
  BY <1>2, BreakerInvariant, PTL DEF Spec, ClosesOnSuccessesOnly

(* While the recovery timeout runs the breaker stays open and forwards     *)
(* nothing, whatever late results come in.                                 *)
THEOREM OpenSpares == Spec => OpenSparesBackend
<1> DEFINE A == state = "OPEN" /\ ~expired =>
                    /\ state' = "OPEN"
                    /\ \A c \in Clients : calls'[c].phase = "forwarded" =>
                                              calls[c].phase = "forwarded"
<1>1. BreakerInv /\ [Next]_vars => A
  <2> SUFFICES ASSUME BreakerInv, [Next]_vars, state = "OPEN", ~expired
               PROVE  /\ state' = "OPEN"
                      /\ \A c \in Clients : calls'[c].phase = "forwarded" =>
                                                calls[c].phase = "forwarded"
    OBVIOUS
  <2> USE DEF BreakerInv, TypeOK
  <2>1. CASE Expire
    BY <2>1 DEF Expire
  <2>2. ASSUME NEW c \in Clients, Refuse(c)
        PROVE  /\ state' = "OPEN"
               /\ \A d \in Clients : calls'[d].phase = calls[d].phase
    BY <2>2 DEF Refuse, breaker
  <2>3. ASSUME NEW c \in Clients, NEW a, Answer(c, a)
        PROVE  \A d \in Clients : calls'[d].phase = "forwarded" =>
                                      calls[d].phase = "forwarded"
    BY <2>3 DEF Answer
  <2>4. ASSUME NEW c \in Clients, BackendSucceeds(c) PROVE state' = "OPEN"
    BY <2>4 DEF BackendSucceeds, RecordSuccess
  <2>5. ASSUME NEW c \in Clients, BackendFails(c) PROVE state' = "OPEN"
    BY <2>5 DEF BackendFails, RecordFailure
  <2>6. \A c \in Clients : ~Forward(c)
    BY DEF Forward, CanRequest
  <2>7. CASE UNCHANGED vars
    BY <2>7 DEF vars
  <2> QED
    BY <2>1, <2>2, <2>3, <2>4, <2>5, <2>6, <2>7
       DEF Next, BackendSucceeds, BackendFails
<1>2. BreakerInv /\ [Next]_vars => [A]_vars
  BY <1>1
<1> QED
  BY <1>2, BreakerInvariant, PTL DEF Spec, OpenSparesBackend

-----------------------------------------------------------------------------
(* A step of the composition is a step of the breaker or none. *)
LEMMA ProxiedStep == [ProxiedNext]_proxiedVars => [Next]_vars
<1> SUFFICES ASSUME [ProxiedNext]_proxiedVars PROVE [Next]_vars
  OBVIOUS
<1>1. CASE Expire
  BY <1>1 DEF Next
<1>2. CASE UNCHANGED vars
  BY <1>2
<1>3. ASSUME NEW c \in Clients, Request(c) \/ Refuse(c) \/ Succeed(c) \/ Fail(c)
      PROVE  Next
  BY <1>3 DEF Next, Request, Succeed, Fail
<1>4. CASE UNCHANGED proxiedVars
  BY <1>4 DEF proxiedVars, vars
<1> QED
  BY <1>1, <1>2, <1>3, <1>4 DEF ProxiedNext

(* So what is proved of the breaker with any backend holds of the two.     *)
LEMMA ProxiedIsBreaker == ProxiedSpec => Spec
<1>1. ProxiedInit => Init
  BY DEF ProxiedInit
<1> QED
  BY <1>1, ProxiedStep, PTL DEF ProxiedSpec, Spec

(* A request is at the server exactly while the proxy waits for it: no     *)
(* crash, restart or late answer makes a result of a request that nobody   *)
(* waits for, or takes one away from a request.                            *)
Matched == /\ calls \in [Clients -> [phase : {"idle", "forwarded"},
                                     answer : {"none", "backend", "fallback"}]]
           /\ backend \in [Clients -> {"none", "sent", "passed", "ok", "failed"}]
           /\ \A c \in Clients :
                 calls[c].phase = "forwarded" <=> backend[c] # "none"

(* A client of the proxy waits exactly while its request is in the server: *)
(* each result, also of a crash, is recorded for one request.              *)
THEOREM ResultsMatchRequests == ProxiedSpec => []Matched
<1>1. ProxiedInit => Matched
  BY DEF ProxiedInit, Init, Matched
<1>2. Matched /\ [ProxiedNext]_proxiedVars => Matched'
  <2> SUFFICES ASSUME Matched, [ProxiedNext]_proxiedVars PROVE Matched'
    OBVIOUS
  <2> USE DEF Matched
  <2>1. CASE Expire /\ UNCHANGED server
    BY <2>1 DEF Expire, server
  <2>2. CASE Restart /\ UNCHANGED vars
    BY <2>2 DEF Restart, vars
  <2>3. ASSUME NEW c \in Clients, Request(c) PROVE Matched'
    BY <2>3 DEF Request, Forward, Moves
  <2>4. ASSUME NEW c \in Clients, Refuse(c), UNCHANGED server PROVE Matched'
    BY <2>4 DEF Refuse, server
  <2>5. ASSUME NEW c \in Clients, CrashMiddleware(c), UNCHANGED vars
        PROVE  Matched'
    BY <2>5 DEF CrashMiddleware, Moves, vars
  <2>6. ASSUME NEW c \in Clients, Handle(c), UNCHANGED vars PROVE Matched'
    BY <2>6 DEF Handle, Moves, vars
  <2>7. ASSUME NEW c \in Clients, Succeed(c) PROVE Matched'
    BY <2>7 DEF Succeed, BackendSucceeds, Answer, Moves
  <2>8. ASSUME NEW c \in Clients, Fail(c) PROVE Matched'
    BY <2>8 DEF Fail, BackendFails, Answer, Moves
  <2>9. CASE UNCHANGED proxiedVars
    BY <2>9 DEF proxiedVars, vars, server
  <2> QED
    BY <2>1, <2>2, <2>3, <2>4, <2>5, <2>6, <2>7, <2>8, <2>9 DEF ProxiedNext
<1> QED
  BY <1>1, <1>2, PTL DEF ProxiedSpec

(* The server is crashed and has answered everything it let through. *)
Drained == crashed /\ \A c \in Clients : backend[c] \notin {"passed", "ok"}

(* A crashed server has counted past its threshold, so it refuses whatever *)
(* comes.                                                                  *)
CrashInv == /\ requestCount \in Nat /\ crashed \in BOOLEAN
            /\ crashed => requestCount > CrashThreshold

LEMMA CrashInvariant == ProxiedSpec => []CrashInv
<1> USE CrashAssumption
<1>1. ProxiedInit => CrashInv
  <2> SUFFICES ASSUME ProxiedInit PROVE CrashInv
    OBVIOUS
  <2>1. requestCount \in Nat
    BY DEF ProxiedInit
  <2>2. crashed = FALSE
    BY DEF ProxiedInit
  <2> QED
    BY <2>1, <2>2, Zenon DEF CrashInv
<1>2. CrashInv /\ [ProxiedNext]_proxiedVars => CrashInv'
  <2> SUFFICES ASSUME CrashInv, [ProxiedNext]_proxiedVars PROVE CrashInv'
    OBVIOUS
  <2> USE DEF CrashInv
  <2>1. CASE Restart
    BY <2>1 DEF Restart
  <2>2. ASSUME NEW c \in Clients, CrashMiddleware(c) PROVE CrashInv'
    BY <2>2 DEF CrashMiddleware
  <2>3. CASE UNCHANGED <<requestCount, crashed>>
    BY <2>3
  <2> QED
    BY <2>1, <2>2, <2>3 DEF ProxiedNext, proxiedVars, server, Handle
<1> QED
  BY <1>1, <1>2, PTL DEF ProxiedSpec

(* A server that has crashed and answered what it had let through answers  *)
(* no request any more, and a breaker that is not closed by then does not  *)
(* close, however many probes the proxy sends, until somebody starts the   *)
(* process again.                                                          *)
THEOREM CrashedStaysOff ==
    ProxiedSpec => [][Drained /\ crashed' =>
                         Drained' /\ (state # "CLOSED" => state' # "CLOSED")]_proxiedVars
<1> USE CrashAssumption
<1> DEFINE A == Drained /\ crashed' =>
                    Drained' /\ (state # "CLOSED" => state' # "CLOSED")
<1>1. CrashInv /\ Matched /\ [ProxiedNext]_proxiedVars => A
  <2> SUFFICES ASSUME CrashInv, Matched, [ProxiedNext]_proxiedVars,
                      Drained, crashed'
               PROVE  Drained' /\ (state # "CLOSED" => state' # "CLOSED")
    OBVIOUS
  <2> USE DEF Drained
  <2>0. backend \in [Clients -> {"none", "sent", "passed", "ok", "failed"}]
    BY DEF Matched
  <2>1. ~Restart
    BY DEF Restart
  <2>2. CASE Expire /\ UNCHANGED server
    BY <2>2 DEF Expire, server
  <2>3. ASSUME NEW c \in Clients, Request(c), UNCHANGED <<requestCount, crashed>>
        PROVE  Drained' /\ (state # "CLOSED" => state' # "CLOSED")
    <3>1. Drained'
      BY <2>0, <2>3 DEF Request, Moves
    <3>2. state # "CLOSED" => state' # "CLOSED"
      BY <2>3 DEF Request, Forward
    <3> QED
      BY <3>1, <3>2
  <2>4. ASSUME NEW c \in Clients, Refuse(c), UNCHANGED server
        PROVE  Drained' /\ (state # "CLOSED" => state' # "CLOSED")
    BY <2>4 DEF Refuse, breaker, server
  <2>5. ASSUME NEW c \in Clients, CrashMiddleware(c), UNCHANGED vars
        PROVE  Drained' /\ (state # "CLOSED" => state' # "CLOSED")
    <3>1. backend' = [backend EXCEPT ![c] = "failed"]
      BY <2>5 DEF CrashInv, CrashMiddleware, Moves
    <3> QED
      BY <2>0, <2>5, <3>1 DEF vars
  <2>6. ASSUME NEW c \in Clients, Handle(c), UNCHANGED vars
        PROVE  Drained' /\ (state # "CLOSED" => state' # "CLOSED")
    BY <2>0, <2>6 DEF Handle, Moves
  <2>7. ASSUME NEW c \in Clients, Succeed(c) PROVE FALSE
    BY <2>7 DEF Succeed, Moves
  <2>8. ASSUME NEW c \in Clients, Fail(c), UNCHANGED <<requestCount, crashed>>
        PROVE  Drained' /\ (state # "CLOSED" => state' # "CLOSED")
    <3>1. Drained'
      BY <2>0, <2>8 DEF Fail, Moves
    <3>2. state # "CLOSED" => state' # "CLOSED"
      BY <2>8 DEF Fail, BackendFails, RecordFailure
    <3> QED
      BY <3>1, <3>2
  <2>9. CASE UNCHANGED proxiedVars
    BY <2>9 DEF proxiedVars, vars, server
  <2> QED
    BY <2>1, <2>2, <2>3, <2>4, <2>5, <2>6, <2>7, <2>8, <2>9 DEF ProxiedNext
<1>2. CrashInv /\ Matched /\ [ProxiedNext]_proxiedVars => [A]_proxiedVars
  BY <1>1
<1> QED
  BY <1>2, CrashInvariant, ResultsMatchRequests, PTL DEF ProxiedSpec
=============================================================================

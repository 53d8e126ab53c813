---------------------------- MODULE ProxiedServer ----------------------------
(***************************************************************************)
(* The circuit-breaker proxy in front of the crash-demonstration server    *)
(* (server/main.go of the mid-term project).  The server counts every      *)
(* request, slows down, and past crashThreshold answers 503 until its      *)
(* process is started again; the requests it has let through by then are   *)
(* answered as if nothing had happened, some of them much later.  Nothing  *)
(* bounds the delay of an answer, so the slow requests are not told apart. *)
(***************************************************************************)
EXTENDS CircuitBreaker

CONSTANT CrashThreshold   \* crashThreshold, 50 in the code

ASSUME CrashAssumption == CrashThreshold \in Nat \ {0}

VARIABLES requestCount,   \* counts no further than the first request refused
          crashed,
          backend   \* client -> where its forwarded request is: on its way,
                    \* past the middleware, answered below 500, or failed

server == <<requestCount, crashed, backend>>
proxiedVars == <<vars, server>>

ProxiedTypeOK ==
    /\ TypeOK
    /\ requestCount \in 0..(CrashThreshold + 1)
    /\ crashed \in BOOLEAN
    /\ backend \in [Clients -> {"none", "sent", "passed", "ok", "failed"}]

ProxiedInit ==
    /\ Init
    /\ requestCount = 0
    /\ crashed = FALSE
    /\ backend = [c \in Clients |-> "none"]

Moves(c, from, to) ==
    /\ backend[c] = from
    /\ backend' = [backend EXCEPT ![c] = to]

(* Mutant: only the one request past the threshold is refused. *)
CrashMiddlewareOnce(c) ==
    LET count == IF requestCount > CrashThreshold THEN requestCount
                 ELSE requestCount + 1
        refused == requestCount = CrashThreshold
    IN  /\ Moves(c, "sent", IF refused THEN "failed" ELSE "passed")
        /\ requestCount' = count
        /\ crashed' = (crashed \/ refused)

(* crashMiddleware: to the handler, at once or slowly, or a 503. *)
CrashMiddleware(c) ==
    LET count == IF requestCount > CrashThreshold THEN requestCount
                 ELSE requestCount + 1
        refused == count > CrashThreshold
    IN  /\ Moves(c, "sent", IF refused THEN "failed" ELSE "passed")
        /\ requestCount' = count
        /\ crashed' = (crashed \/ refused)

(* The album handlers answer below 500; healthCheck gives a 503 if another *)
(* request has crashed the server since this one was let through.          *)
Handle(c) ==
    /\ \/ Moves(c, "passed", "ok")
       \/ crashed /\ Moves(c, "passed", "failed")
    /\ UNCHANGED <<requestCount, crashed>>

(* The process ends and is started again.  The requests it was serving     *)
(* fail, and so do those that do not find it listening.                    *)
Restart ==
    /\ requestCount' = 0
    /\ crashed' = FALSE
    /\ \E missed \in SUBSET {c \in Clients : backend[c] = "sent"} :
          backend' = [c \in Clients |->
                        IF backend[c] = "passed" \/ c \in missed
                        THEN "failed" ELSE backend[c]]

(* The proxy's handler: CanRequest and http.Get, then the result. *)
Request(c) == Forward(c) /\ Moves(c, "none", "sent")
Succeed(c) == BackendSucceeds(c) /\ Moves(c, "ok", "none")
Fail(c)    == BackendFails(c) /\ Moves(c, "failed", "none")

ProxiedNext ==
    \/ Expire /\ UNCHANGED server
    \/ Restart /\ UNCHANGED vars
    \/ \E c \in Clients :
          \/ Request(c) /\ UNCHANGED <<requestCount, crashed>>
          \/ Refuse(c) /\ UNCHANGED server
          \/ CrashMiddleware(c) /\ UNCHANGED vars
          \/ Handle(c) /\ UNCHANGED vars
          \/ Succeed(c) /\ UNCHANGED <<requestCount, crashed>>
          \/ Fail(c) /\ UNCHANGED <<requestCount, crashed>>

ProxiedSpec == ProxiedInit /\ [][ProxiedNext]_proxiedVars

(* Clients keep calling, requests arrive, are handled and return, and time *)
(* passes.  Nobody has to restart the server.                              *)
ProxiedFairness ==
    /\ WF_proxiedVars(Expire /\ UNCHANGED server)
    /\ \A c \in Clients :
          /\ WF_proxiedVars(Request(c) /\ UNCHANGED <<requestCount, crashed>>)
          /\ WF_proxiedVars((CrashMiddleware(c) \/ Handle(c)) /\ UNCHANGED vars)
          /\ WF_proxiedVars(/\ Succeed(c) \/ Fail(c)
                            /\ UNCHANGED <<requestCount, crashed>>)

ProxiedFairSpec == ProxiedSpec /\ ProxiedFairness

-----------------------------------------------------------------------------
(* Properties *)

(* Once nobody restarts the server any more it crashes under its clients   *)
(* and ends up shielded: the answers it still owes may close the breaker   *)
(* again, but from some time on it never is, and requests only probe it.   *)
CrashIsShielded ==
    <>[][~Restart]_proxiedVars => <>[](state # "CLOSED")
=============================================================================

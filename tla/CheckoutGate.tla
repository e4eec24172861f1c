---------------------------- MODULE CheckoutGate ---------------------------
(***************************************************************************)
(* What stands between a client and the payment provider: POST             *)
(* /api/payment/checkout passes the rate limiter, the look-ups of the      *)
(* handler and the circuit breaker, in one process that may be restarted.  *)
(* A restart drops the requests in flight and the breaker's memory; the    *)
(* limiter's window is in Redis and stays.                                 *)
(***************************************************************************)
EXTENDS RateLimiter, CircuitBreaker

CONSTANTS
    MaxTime,     \* bound of the model: ticks of the clock
    MaxRestarts  \* bound of the model: restarts of the process

ASSUME GateAssumption == MaxTime \in Nat /\ MaxRestarts \in Nat

VARIABLE restarts

vars == <<now, req, limiterVars, breakerVars, restarts>>

Places == {"new", "queued", "admitted", "calling", "done"}

Init == LimiterInit /\ BreakerInit /\ restarts = 0

Arrive(r) == canActivate(r) /\ UNCHANGED <<breakerVars, restarts>>
Limit(r) == ExecMulti(r) /\ UNCHANGED <<breakerVars, restarts>>
Expire == KeyExpires /\ UNCHANGED <<breakerVars, restarts>>
Tick == TimePasses(MaxTime) /\ UNCHANGED <<breakerVars, restarts>>

\* Redis does not answer: the guard throws.
LimiterFails(r) ==
    /\ req[r] = "queued"
    /\ req' = [req EXCEPT ![r] = "done"]
    /\ UNCHANGED <<now, limiterVars, breakerVars, restarts>>

\* The answer comes before the call: the token or the body is not valid, the
\* idempotency key is known already, or the seat has no price.
AnsweredEarly(r) ==
    /\ req[r] = "admitted"
    /\ req' = [req EXCEPT ![r] = "done"]
    /\ UNCHANGED <<now, limiterVars, breakerVars, restarts>>

\* circuit_open.
CircuitOpen(r) ==
    /\ req[r] = "admitted"
    /\ Refuses(now)
    /\ req' = [req EXCEPT ![r] = "done"]
    /\ UNCHANGED <<now, limiterVars, breakerVars, restarts>>

\* breaker.exec(() => psp.createIntent(...)): the call starts ...
CallPsp(r) ==
    /\ req[r] = "admitted"
    /\ Admit(now)
    /\ req' = [req EXCEPT ![r] = "calling"]
    /\ UNCHANGED <<now, limiterVars, restarts>>

\* ... and is settled by its result, its error or the timeout, whichever is first;
\* an answer that comes after the timeout is ignored.
PspAnswers(r) ==
    /\ req[r] = "calling"
    /\ req' = [req EXCEPT ![r] = "done"]
    /\ OnSuccess \/ OnFailure(now)
    /\ UNCHANGED <<now, limiterVars, restarts>>

Restart ==
    /\ restarts < MaxRestarts
    /\ restarts' = restarts + 1
    /\ req' = [r \in Req |-> IF req[r] = "new" THEN "new" ELSE "done"]
    /\ ForgetBreaker
    /\ UNCHANGED <<now, limiterVars>>

Next ==
    \/ \E r \in Req :
          \/ Arrive(r) \/ Limit(r) \/ LimiterFails(r)
          \/ AnsweredEarly(r) \/ CircuitOpen(r) \/ CallPsp(r) \/ PspAnswers(r)
    \/ Expire \/ Tick \/ Restart

Spec == Init /\ [][Next]_vars

----------------------------------------------------------------------------
(***************************************************************************)
(* Properties.                                                             *)
(***************************************************************************)

\* The limiter's key, the breaker's fields and the requests are well typed.
TypeOK ==
    /\ now \in Nat
    /\ req \in [Req -> Places]
    /\ stamp \in [Req -> Nat]
    /\ zset \subseteq Req
    /\ expireAt \in Nat
    /\ accepted \subseteq Req
    /\ bstate \in {"closed", "open", "half_open"}
    /\ failures \in Nat /\ openedAt \in Nat /\ lastFailure \in Nat
    /\ restarts \in 0..MaxRestarts

\* No window holds more accepted requests than the limit, whatever was purged,
\* expired, delayed or lost in a restart.  A MULTI that is executed Delay after
\* its stamp makes the window that much shorter: the purge and the expiry of
\* the key go by a later clock than the stamp.
InWindow(t) == {r \in accepted : stamp[r] <= t /\ t + Delay < stamp[r] + Window}
WindowLimit == \A t \in 0..now : Cardinality(InWindow(t)) <= MaxRequests

\* The breaker is closed exactly while fewer failures than the threshold follow
\* the last success, however the calls overlapped; so it can always be reopened
\* by one failure when half open.
ClosedBelowThreshold == bstate = "closed" <=> ~Tripped(failures)

\* After a series of failures no call is started until the provider has been
\* left alone for the reset time, counted from the last failure: also in
\* half_open, which lets calls through without looking at the clock.
BacksOff ==
    [][\A r \in Req :
          req[r] = "admitted" /\ req'[r] = "calling" /\ Tripped(failures)
             => now > lastFailure + ResetTime]_vars
=============================================================================

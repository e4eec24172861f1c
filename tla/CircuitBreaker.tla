-------------------------- MODULE CircuitBreaker ---------------------------
(***************************************************************************)
(* The hand-rolled circuit breaker around the payment provider, in the     *)
(* memory of one process.  Any number of calls may be in flight: a call    *)
(* reports to whatever state the breaker has reached in the meantime, and  *)
(* half_open admits every call, not one probe.                             *)
(***************************************************************************)
EXTENDS Integers

CONSTANTS
    Threshold,   \* PSP_CB_ERROR_THRESHOLD: opens at failures * 2 >= Threshold
    ResetTime    \* PSP_CB_RESET_MS, in ticks

ASSUME BreakerAssumption == Threshold \in Nat \ {0} /\ ResetTime \in Nat

VARIABLES
    bstate,      \* state
    failures,    \* failures since the last success
    openedAt,
    lastFailure  \* history: when a call last failed

breakerVars == <<bstate, failures, openedAt, lastFailure>>

BreakerInit ==
    /\ bstate = "closed"
    /\ failures = 0
    /\ openedAt = 0
    /\ lastFailure = 0

Tripped(n) == n * 2 >= Threshold

\* exec() before the call: refused while open, unless the reset time is over.
Refuses(t) == bstate = "open" /\ t <= openedAt + ResetTime
Admit(t) ==
    /\ ~Refuses(t)
    /\ bstate' = IF bstate = "open" THEN "half_open" ELSE bstate
    /\ UNCHANGED <<failures, openedAt, lastFailure>>

\* Faulty variants: a success takes one failure back, or leaves the count as it
\* is.
SuccessForgivesOne ==
    /\ failures' = failures - 1
    /\ bstate' = "closed"
    /\ UNCHANGED <<openedAt, lastFailure>>
SuccessKeepsCount ==
    /\ bstate' = "closed"
    /\ UNCHANGED <<failures, openedAt, lastFailure>>

\* A call returned in time, whenever it started.
OnSuccess ==
    /\ failures' = 0
    /\ bstate' = "closed"
    /\ UNCHANGED <<openedAt, lastFailure>>

\* Faulty variant: only a closed breaker notes the time.
FailureKeepsTime(t) ==
    /\ failures' = failures + 1
    /\ lastFailure' = t
    /\ IF Tripped(failures + 1)
       THEN bstate' = "open" /\ openedAt' = IF bstate = "closed" THEN t ELSE openedAt
       ELSE UNCHANGED <<bstate, openedAt>>

\* A call threw or timed out, whenever it started.
OnFailure(t) ==
    /\ failures' = failures + 1
    /\ lastFailure' = t
    /\ IF Tripped(failures + 1)
       THEN bstate' = "open" /\ openedAt' = t
       ELSE UNCHANGED <<bstate, openedAt>>

\* A new process starts with a closed breaker.
ForgetBreaker ==
    /\ bstate' = "closed" /\ failures' = 0 /\ openedAt' = 0 /\ lastFailure' = 0
=============================================================================

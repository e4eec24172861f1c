------------------------- MODULE CheckoutGateProofs ------------------------
(***************************************************************************)
(* Proofs about CheckoutGate for any number of requests and restarts, any  *)
(* window, limit, delay, threshold and reset time.                         *)
(***************************************************************************)
EXTENDS CheckoutGate, FiniteSetTheorems, TLAPS

USE DEF limiterVars, breakerVars

\* Every step of a request, of Redis, of the clock or a restart keeps the state
\* well typed.
LEMMA TypeStep == TypeOK /\ [Next]_vars => TypeOK'
  <1> SUFFICES ASSUME TypeOK, [Next]_vars PROVE TypeOK'
    OBVIOUS
  <1> USE LimiterAssumption, BreakerAssumption, GateAssumption DEF TypeOK, Places
  <1>1. ASSUME NEW r \in Req, Arrive(r) PROVE TypeOK'
    BY <1>1 DEF Arrive, canActivate
  <1>2. ASSUME NEW r \in Req, Limit(r) PROVE TypeOK'
    <2>1. zset' \subseteq Req
      BY <1>2 DEF Limit, ExecMulti, Kept
    <2>2. expireAt' \in Nat
      BY <1>2 DEF Limit, ExecMulti
    <2>3. req' \in [Req -> Places] /\ accepted' \subseteq Req
      BY <1>2 DEF Limit, ExecMulti
    <2> QED BY <1>2, <2>1, <2>2, <2>3 DEF Limit, ExecMulti
  <1>3. ASSUME NEW r \in Req, LimiterFails(r) \/ AnsweredEarly(r) \/ CircuitOpen(r) PROVE TypeOK'
    BY <1>3 DEF LimiterFails, AnsweredEarly, CircuitOpen
  <1>4. ASSUME NEW r \in Req, CallPsp(r) PROVE TypeOK'
    BY <1>4 DEF CallPsp, Admit
  <1>5. ASSUME NEW r \in Req, PspAnswers(r) PROVE TypeOK'
    BY <1>5 DEF PspAnswers, OnSuccess, OnFailure
  <1>6. CASE Expire
    BY <1>6 DEF Expire, KeyExpires
  <1>7. CASE Tick
    BY <1>7 DEF Tick, TimePasses
  <1>8. CASE Restart
    BY <1>8 DEF Restart, ForgetBreaker
  <1>9. CASE UNCHANGED vars
    BY <1>9 DEF vars
  <1> QED BY <1>1, <1>2, <1>3, <1>4, <1>5, <1>6, <1>7, <1>8, <1>9 DEF Next

\* Every reachable state of the gate is well typed.
THEOREM TypeCorrect == Spec => []TypeOK
  <1>1. Init => TypeOK
    BY GateAssumption DEF Init, LimiterInit, BreakerInit, TypeOK, Places
  <1> QED BY <1>1, TypeStep, PTL DEF Spec

----------------------------------------------------------------------------
(* The circuit breaker *)

\* What the breaker remembers: it is closed below the threshold; otherwise it
\* was opened by the last failure, and if it is half open the reset time has
\* passed since.
BreakerInv ==
    /\ bstate = "closed" <=> ~Tripped(failures)
    /\ bstate # "closed" => openedAt = lastFailure
    /\ bstate = "half_open" => now > openedAt + ResetTime

\* No call, result or restart makes the breaker forget.
LEMMA BreakerStep == TypeOK /\ BreakerInv /\ [Next]_vars => BreakerInv'
  <1> SUFFICES ASSUME TypeOK, BreakerInv, [Next]_vars PROVE BreakerInv'
    OBVIOUS
  <1> USE BreakerAssumption DEF BreakerInv, Tripped, TypeOK
  <1>1. ASSUME NEW r \in Req,
               Arrive(r) \/ Limit(r) \/ LimiterFails(r) \/ AnsweredEarly(r) \/ CircuitOpen(r)
        PROVE  BreakerInv'
    BY <1>1 DEF Arrive, canActivate, Limit, ExecMulti, LimiterFails, AnsweredEarly, CircuitOpen
  <1>2. ASSUME NEW r \in Req, CallPsp(r) PROVE BreakerInv'
    BY <1>2 DEF CallPsp, Admit, Refuses
  <1>3. ASSUME NEW r \in Req, PspAnswers(r) PROVE BreakerInv'
    <2>1. CASE OnSuccess
      BY <1>3, <2>1 DEF PspAnswers, OnSuccess
    <2>2. CASE OnFailure(now)
      BY <1>3, <2>2 DEF PspAnswers, OnFailure
    <2> QED BY <1>3, <2>1, <2>2 DEF PspAnswers
  <1>4. CASE Expire
    BY <1>4 DEF Expire, KeyExpires
  <1>5. CASE Tick
    BY <1>5 DEF Tick, TimePasses
  <1>6. CASE Restart
    BY <1>6 DEF Restart, ForgetBreaker
  <1>7. CASE UNCHANGED vars
    BY <1>7 DEF vars
  <1> QED BY <1>1, <1>2, <1>3, <1>4, <1>5, <1>6, <1>7 DEF Next

\* The inductive invariant of the breaker.
LEMMA BreakerInvariance == Spec => [](TypeOK /\ BreakerInv)
  <1>1. Init => TypeOK /\ BreakerInv
    BY GateAssumption, BreakerAssumption
       DEF Init, LimiterInit, BreakerInit, TypeOK, Places, BreakerInv, Tripped
  <1> QED BY <1>1, TypeStep, BreakerStep, PTL DEF Spec

\* The breaker is closed exactly while there were fewer failures than the
\* threshold since the last success.
THEOREM BreakerClosedBelowThreshold == Spec => []ClosedBelowThreshold
  <1>1. BreakerInv => ClosedBelowThreshold
    BY DEF BreakerInv, ClosedBelowThreshold
  <1> QED BY <1>1, BreakerInvariance, PTL

\* After a series of failures the provider is left alone for the reset time.
THEOREM BreakerBacksOff == Spec => BacksOff
  <1> DEFINE Step == \A r \in Req :
               req[r] = "admitted" /\ req'[r] = "calling" /\ Tripped(failures)
                  => now > lastFailure + ResetTime
  <1>1. TypeOK /\ BreakerInv /\ [Next]_vars => [Step]_vars
    <2> SUFFICES ASSUME TypeOK, BreakerInv, Next, NEW r \in Req,
                        req[r] = "admitted", req'[r] = "calling", Tripped(failures)
                 PROVE  now > lastFailure + ResetTime
      OBVIOUS
    <2>1. CallPsp(r)
      <3>1. ASSUME NEW q \in Req, Arrive(q) \/ LimiterFails(q) \/ AnsweredEarly(q) \/ CircuitOpen(q)
            PROVE  FALSE
        BY <3>1 DEF Arrive, canActivate, LimiterFails, AnsweredEarly, CircuitOpen, TypeOK
      <3>2. ASSUME NEW q \in Req, Limit(q) PROVE FALSE
        BY <3>2 DEF Limit, ExecMulti, TypeOK
      <3>3. ASSUME NEW q \in Req, PspAnswers(q) PROVE FALSE
        BY <3>3 DEF PspAnswers, TypeOK
      <3>4. ASSUME NEW q \in Req, CallPsp(q) PROVE q = r
        BY <3>4 DEF CallPsp, TypeOK
      <3>5. ASSUME Expire \/ Tick \/ Restart PROVE FALSE
        BY <3>5 DEF Expire, KeyExpires, Tick, TimePasses, Restart, TypeOK
      <3> QED BY <3>1, <3>2, <3>3, <3>4, <3>5 DEF Next
    <2>2. bstate # "closed" /\ openedAt = lastFailure
      BY DEF BreakerInv
    <2>3. CASE bstate = "half_open"
      BY <2>2, <2>3 DEF BreakerInv
    <2>4. CASE bstate = "open"
      BY <2>1, <2>2, <2>4, BreakerAssumption DEF CallPsp, Admit, Refuses, TypeOK
    <2> QED BY <2>2, <2>3, <2>4 DEF TypeOK
  <1> HIDE DEF Step
  <1>2. Spec => [][Step]_vars
    BY <1>1, BreakerInvariance, PTL DEF Spec
  <1> QED BY <1>2 DEF BacksOff, Step

----------------------------------------------------------------------------
(* The rate limiter *)

\* The requests whose MULTI was executed are older than the ones on their way,
\* which are at most Delay old; the sorted set has every accepted request that
\* can still be in the window of one on its way or to come; and no window, of
\* any time, holds too many of them.
Windows == \A t \in Nat : Cardinality(InWindow(t)) <= MaxRequests
LimiterInv ==
    /\ \A r \in Req : req[r] = "queued" => stamp[r] <= now /\ now <= stamp[r] + Delay
    /\ \A q \in accepted \union zset :
          /\ req[q] \notin {"new", "queued"}
          /\ stamp[q] <= now
          /\ \A r \in Req : req[r] = "queued" => stamp[q] <= stamp[r]
    /\ \A q \in accepted \ zset :
          /\ stamp[q] + Window <= now + Delay
          /\ \A r \in Req : req[r] = "queued" => stamp[q] + Window <= stamp[r] + Delay
    /\ \A q \in zset : stamp[q] + Window <= expireAt

\* A window is a finite set of requests, and a part of a set that is within the
\* limit is within the limit.
LEMMA PartWithinLimit ==
  ASSUME NEW S \in SUBSET Req, NEW T \in SUBSET S, Cardinality(S) <= MaxRequests
  PROVE  Cardinality(T) <= MaxRequests
  <1>1. IsFiniteSet(S)
    BY LimiterAssumption, FS_Subset
  <1>2. IsFiniteSet(T) /\ Cardinality(T) <= Cardinality(S)
    BY <1>1, FS_Subset
  <1>3. Cardinality(S) \in Nat /\ Cardinality(T) \in Nat
    BY <1>1, <1>2, FS_CardinalityType
  <1> QED BY <1>2, <1>3, LimiterAssumption

\* The bookkeeping of stamps, sorted set and expiry survives every step.
LEMMA LimiterStep == TypeOK /\ LimiterInv /\ [Next]_vars => LimiterInv'
  <1> SUFFICES ASSUME TypeOK, LimiterInv, [Next]_vars PROVE LimiterInv'
    OBVIOUS
  <1> USE LimiterAssumption DEF LimiterInv, TypeOK
  <1>1. ASSUME NEW r \in Req, Arrive(r) PROVE LimiterInv'
    BY <1>1 DEF Arrive, canActivate
  <1>2. ASSUME NEW r \in Req, Limit(r) PROVE LimiterInv'
    <2>1. /\ req[r] = "queued" /\ stamp[r] <= now
          /\ \A q \in Req : req[q] = "queued" => stamp[r] <= stamp[q]
      BY <1>2 DEF Limit, ExecMulti, FirstInQueue
    <2>2. /\ zset' = {q \in zset : stamp[q] + Window > stamp[r]} \union {r}
          /\ expireAt' = now + Window
          /\ accepted' \subseteq accepted \union {r}
          /\ now' = now /\ stamp' = stamp
          /\ req'[r] \in {"admitted", "done"}
          /\ \A q \in Req \ {r} : req'[q] = req[q]
      BY <1>2 DEF Limit, ExecMulti, Kept
    <2>3. \A q \in Req : req'[q] = "queued" => q # r /\ req[q] = "queued"
      BY <2>2
    <2>4. \A q \in accepted' \union zset' : q = r \/ q \in accepted \union zset
      BY <2>2
    <2>5. \A q \in accepted' \union zset' :
             /\ req'[q] \notin {"new", "queued"}
             /\ stamp'[q] <= now'
             /\ \A x \in Req : req'[x] = "queued" => stamp'[q] <= stamp'[x]
      BY <2>1, <2>2, <2>3, <2>4
    <2>6. \A q \in accepted' \ zset' :
             /\ q \in accepted
             /\ q \in zset => stamp[q] + Window <= stamp[r]
      BY <2>2
    <2>7. \A q \in accepted' \ zset' :
             /\ stamp'[q] + Window <= now' + Delay
             /\ \A x \in Req : req'[x] = "queued" => stamp'[q] + Window <= stamp'[x] + Delay
      BY <2>1, <2>2, <2>3, <2>6
    <2>8. \A q \in zset' : stamp'[q] + Window <= expireAt'
      BY <2>1, <2>2
    <2> QED BY <2>2, <2>3, <2>5, <2>7, <2>8
  <1>3. ASSUME NEW r \in Req, LimiterFails(r) \/ AnsweredEarly(r) \/ CircuitOpen(r)
        PROVE  LimiterInv'
    BY <1>3 DEF LimiterFails, AnsweredEarly, CircuitOpen
  <1>4. ASSUME NEW r \in Req, CallPsp(r) \/ PspAnswers(r) PROVE LimiterInv'
    BY <1>4 DEF CallPsp, PspAnswers
  <1>5. CASE Expire
    BY <1>5 DEF Expire, KeyExpires
  <1>6. CASE Tick
    BY <1>6 DEF Tick, TimePasses
  <1>7. CASE Restart
    BY <1>7 DEF Restart
  <1>8. CASE UNCHANGED vars
    BY <1>8 DEF vars
  <1> QED BY <1>1, <1>2, <1>3, <1>4, <1>5, <1>6, <1>7, <1>8 DEF Next

\* No step overfills a window: an accepted request was counted together with all
\* the others in any window it is in.
LEMMA WindowsStep == TypeOK /\ LimiterInv /\ Windows /\ [Next]_vars => Windows'
  <1> SUFFICES ASSUME TypeOK, LimiterInv, Windows, [Next]_vars, NEW t \in Nat
               PROVE  Cardinality(InWindow(t)') <= MaxRequests
    BY DEF Windows
  <1>0. Cardinality(InWindow(t)) <= MaxRequests /\ InWindow(t) \in SUBSET Req
    BY DEF Windows, InWindow, TypeOK
  <1>1. ASSUME InWindow(t)' \subseteq InWindow(t)
        PROVE  Cardinality(InWindow(t)') <= MaxRequests
    BY <1>0, <1>1, PartWithinLimit
  <1>2. ASSUME NEW r \in Req, Arrive(r) PROVE InWindow(t)' \subseteq InWindow(t)
    <2>1. accepted' = accepted /\ \A q \in accepted : stamp'[q] = stamp[q]
      BY <1>2 DEF Arrive, canActivate, LimiterInv, TypeOK
    <2> QED BY <2>1 DEF InWindow
  <1>3. ASSUME NEW r \in Req, Limit(r)
        PROVE  Cardinality(InWindow(t)') <= MaxRequests
    <2>1. stamp' = stamp /\ FirstInQueue(r)
      BY <1>3 DEF Limit, ExecMulti
    <2>2. \/ accepted' = accepted
          \/ accepted' = accepted \union {r} /\ Cardinality(Counted(r)) <= MaxRequests
      BY <1>3 DEF Limit, ExecMulti
    <2>3. CASE r \notin InWindow(t)'
      <3>1. InWindow(t)' \subseteq InWindow(t)
        BY <2>1, <2>2, <2>3 DEF InWindow
      <3> QED BY <1>1, <3>1
    <2>4. CASE r \in InWindow(t)' /\ accepted' = accepted
      <3>1. InWindow(t)' \subseteq InWindow(t)
        BY <2>1, <2>4 DEF InWindow
      <3> QED BY <1>1, <3>1
    <2>5. CASE r \in InWindow(t)' /\ accepted' = accepted \union {r}
                /\ Cardinality(Counted(r)) <= MaxRequests
      <3>1. stamp[r] <= t
        BY <2>1, <2>5 DEF InWindow
      <3>2. ASSUME NEW q \in InWindow(t)' PROVE q \in Counted(r)
        <4>1. /\ q \in accepted \union {r} /\ q \in Req
              /\ t + Delay < stamp[q] + Window
          BY <2>1, <2>5 DEF InWindow, TypeOK
        <4>2. CASE q = r
          BY <4>2, LimiterAssumption DEF Counted, Kept, TypeOK
        <4>3. CASE q # r
          <5>1. q \in accepted /\ stamp[q] <= stamp[r]
            BY <2>1, <4>1, <4>3 DEF LimiterInv, FirstInQueue
          <5>2. stamp[r] + Delay < stamp[q] + Window
            BY <3>1, <4>1, LimiterAssumption DEF TypeOK
          <5>3. q \in zset
            <6> SUFFICES ASSUME q \notin zset PROVE FALSE
              OBVIOUS
            <6>1. stamp[q] + Window <= stamp[r] + Delay
              BY <2>1, <5>1 DEF LimiterInv, FirstInQueue
            <6> QED BY <4>1, <5>2, <6>1, LimiterAssumption DEF TypeOK
          <5>4. stamp[q] + Window > stamp[r]
            BY <4>1, <5>2, LimiterAssumption DEF TypeOK
          <5> QED BY <4>1, <5>1, <5>3, <5>4, LimiterAssumption DEF Counted, Kept, TypeOK
        <4> QED BY <4>2, <4>3
      <3>3. Counted(r) \in SUBSET Req
        BY DEF Counted, Kept, TypeOK
      <3>4. InWindow(t)' \in SUBSET Counted(r)
        BY <3>2
      <3> QED BY <2>5, <3>3, <3>4, PartWithinLimit
    <2> QED BY <2>2, <2>3, <2>4, <2>5
  <1>4. ASSUME NEW r \in Req,
               LimiterFails(r) \/ AnsweredEarly(r) \/ CircuitOpen(r) \/ CallPsp(r) \/ PspAnswers(r)
        PROVE  InWindow(t)' \subseteq InWindow(t)
    BY <1>4 DEF LimiterFails, AnsweredEarly, CircuitOpen, CallPsp, PspAnswers, InWindow
  <1>5. ASSUME Expire \/ Tick \/ Restart PROVE InWindow(t)' \subseteq InWindow(t)
    BY <1>5 DEF Expire, KeyExpires, Tick, TimePasses, Restart, InWindow
  <1>6. ASSUME UNCHANGED vars PROVE InWindow(t)' \subseteq InWindow(t)
    BY <1>6 DEF vars, InWindow
  <1> QED BY <1>1, <1>2, <1>3, <1>4, <1>5, <1>6 DEF Next

\* No window of length Window - Delay holds more than the limit, for any number
\* of requests, restarts, purges and expiries.
THEOREM LimitHolds == Spec => []WindowLimit
  <1> DEFINE Inv == TypeOK /\ LimiterInv /\ Windows
  <1>1. Init => Inv
    <2> SUFFICES ASSUME Init PROVE Inv
      OBVIOUS
    <2>1. TypeOK /\ LimiterInv /\ accepted = {}
      BY GateAssumption DEF Init, LimiterInit, BreakerInit, TypeOK, Places, LimiterInv
    <2>2. \A t \in Nat : InWindow(t) = {}
      BY <2>1 DEF InWindow
    <2>3. Windows
      BY <2>2, FS_EmptySet, LimiterAssumption DEF Windows
    <2> QED BY <2>1, <2>3
  <1>2. Inv /\ [Next]_vars => Inv'
    BY TypeStep, LimiterStep, WindowsStep
  <1>3. Inv => WindowLimit
    BY DEF Windows, WindowLimit, TypeOK
  <1> QED BY <1>1, <1>2, <1>3, PTL DEF Spec
=============================================================================

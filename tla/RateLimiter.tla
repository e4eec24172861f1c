---------------------------- MODULE RateLimiter ----------------------------
(***************************************************************************)
(* RateLimitGuard: a sliding window of request stamps per client address,  *)
(* kept in a Redis sorted set (three copies of rate-limit.guard.ts; this   *)
(* is one key of it).  A request takes its stamp from the process's clock  *)
(* and sends one MULTI that is executed later, in the order of sending.    *)
(* Rejected requests stay in the window too.                               *)
(***************************************************************************)
EXTENDS Naturals, FiniteSets

CONSTANTS
    Req,         \* requests of one client to one limited route
    Window,      \* cfg.windowMs, in ticks
    MaxRequests, \* cfg.max
    Delay        \* how long Redis may take to execute a MULTI, in ticks

ASSUME LimiterAssumption ==
    /\ IsFiniteSet(Req)
    /\ Window \in Nat /\ MaxRequests \in Nat /\ Delay \in Nat
    /\ Delay <= Window

VARIABLES
    now,         \* Date.now(), in ticks
    req,         \* where each request is
    stamp,       \* its stamp
    zset,        \* members of the sorted set
    expireAt,    \* when the key expires
    accepted     \* requests the guard has let through

limiterVars == <<stamp, zset, expireAt, accepted>>

LimiterInit ==
    /\ now = 0
    /\ req = [r \in Req |-> "new"]
    /\ stamp = [r \in Req |-> 0]
    /\ zset = {}
    /\ expireAt = 0
    /\ accepted = {}

\* canActivate up to the await: the stamp is taken, the MULTI sent.
canActivate(r) ==
    /\ req[r] = "new"
    /\ req' = [req EXCEPT ![r] = "queued"]
    /\ stamp' = [stamp EXCEPT ![r] = now]
    /\ UNCHANGED <<now, zset, expireAt, accepted>>

FirstInQueue(r) ==
    /\ req[r] = "queued"
    /\ \A q \in Req : req[q] = "queued" => stamp[r] <= stamp[q]

\* Faulty variant: members are counted before the new one is added.
CountedBefore(r) == {q \in zset : stamp[q] + Window > stamp[r] /\ stamp[q] <= stamp[r]}

\* zremrangebyscore removes the scores up to stamp - Window, zadd adds this
\* request, zcount counts the scores from stamp - Window to stamp.
Kept(r) == {q \in zset : stamp[q] + Window > stamp[r]} \union {r}
Counted(r) == {q \in Kept(r) : stamp[q] + Window >= stamp[r] /\ stamp[q] <= stamp[r]}

\* The MULTI, executed as one; the guard admits the request or answers 429.  The
\* connection may break before the guard hears of it, and the request fails.
ExecMulti(r) ==
    /\ FirstInQueue(r)
    /\ zset' = Kept(r)
    /\ expireAt' = now + Window
    /\ \/ /\ Cardinality(Counted(r)) <= MaxRequests
          /\ req' = [req EXCEPT ![r] = "admitted"]
          /\ accepted' = accepted \union {r}
       \/ /\ Cardinality(Counted(r)) > MaxRequests
          /\ req' = [req EXCEPT ![r] = "done"]
          /\ UNCHANGED accepted
       \/ /\ req' = [req EXCEPT ![r] = "done"]
          /\ UNCHANGED accepted
    /\ UNCHANGED <<now, stamp>>

\* PEXPIRE: the key goes away a window after the last MULTI.
KeyExpires ==
    /\ zset # {} /\ now >= expireAt
    /\ zset' = {}
    /\ UNCHANGED <<now, req, stamp, expireAt, accepted>>

\* Time passes, but not beyond the delay of a MULTI that is on its way.
TimePasses(max) ==
    /\ now < max
    /\ \A r \in Req : req[r] = "queued" => now < stamp[r] + Delay
    /\ now' = now + 1
    /\ UNCHANGED <<req, stamp, zset, expireAt, accepted>>
=============================================================================

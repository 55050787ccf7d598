------------------------------ MODULE RateLimits ------------------------------
(***************************************************************************)
(* The sliding-window limiters of the API, for the calls of one client: the *)
(* per-address list of the sandbox, the per-key list of get_tenant_context, *)
(* the deque of RateLimitMiddleware, and the sorted set that instances of   *)
(* the API share in Redis. The lists are read and written without an await; *)
(* the Redis limiter reads its clock first and sends a transaction later.   *)
(***************************************************************************)
EXTENDS Integers, FiniteSets

CONSTANTS
  Limit,      \* RATE_LIMIT_MAX, MAX_REQUESTS_PER_WINDOW, rpm, requests_per_minute
  Window,     \* seconds in the window
  Ticks,      \* ticks of the clock in a second
  Skew,       \* bound: ticks between the clock and the transaction of a call
  Instances,  \* processes of the API that share the Redis limiter
  MaxTime,    \* bound: ticks
  MaxCalls    \* bound: calls

ASSUME LimitAssumption ==
  /\ Limit \in Nat \ {0} /\ Window \in Nat \ {0} /\ Ticks \in Nat \ {0}
  /\ Skew \in Nat /\ MaxTime \in Nat /\ MaxCalls \in Nat

VARIABLES
  site,      \* which limiter the client meets
  now,       \* the clock
  calls,     \* calls that reached the limiter
  recent,    \* the list or deque: calls with their times
  members,   \* the sorted set of Redis: times, a member of its own each
  expireAt,  \* when Redis drops the whole key
  flight,    \* each instance: the time its call read, or Idle
  grants,    \* history: the calls that were let through
  hint       \* history: when the last refusal said to come back, or NoHint

limitVars == <<site, now, calls, recent, members, expireAt, flight, grants, hint>>

Idle == -1
NoHint == -1
Sites == {"sandbox", "key", "middleware", "redis"}
W == Window * Ticks
Call == [n : 1..MaxCalls, at : 0..MaxTime]

LimitInit ==
  /\ site \in Sites
  /\ now = 0 /\ calls = 0
  /\ recent = {} /\ members = {} /\ expireAt = 0
  /\ flight = [i \in Instances |-> Idle]
  /\ grants = {} /\ hint = NoHint

\* Time passes, and Redis drops an idle key; a call in flight is not slower than Skew.
Tick ==
  /\ now < MaxTime
  /\ \A i \in Instances : flight[i] # Idle => now - flight[i] < Skew
  /\ now' = now + 1
  /\ members' = IF now + 1 >= expireAt THEN {} ELSE members
  /\ UNCHANGED <<site, calls, recent, expireAt, flight, grants, hint>>

\* The calls of the list that are inside the window.
Kept == {c \in recent : now - c.at < W}
Oldest == CHOOSE c \in Kept : \A d \in Kept : c.n <= d.n

\* int(): the rest of the oldest call's window, in whole seconds.
RetryIn == (W - (now - Oldest.at)) \div Ticks

This == [n |-> calls + 1, at |-> now]
InProcess(s) ==
  /\ site = s /\ calls < MaxCalls
  /\ calls' = calls + 1
  /\ UNCHANGED <<site, now, members, expireAt, flight>>
Admit == recent' = Kept \cup {This} /\ grants' = grants \cup {This} /\ hint' = NoHint

\* Mistake, not part of LimitSpec: a refused call takes a place in the list.
SandboxCallRecords ==
  /\ InProcess("sandbox")
  /\ recent' = Kept \cup {This}
  /\ \/ /\ Cardinality(Kept) < Limit
        /\ grants' = grants \cup {This} /\ hint' = NoHint
     \/ /\ Cardinality(Kept) >= Limit
        /\ hint' = now + Ticks * RetryIn
        /\ UNCHANGED grants

\* An endpoint of the sandbox: enforce_sandbox_limit comes first, and what the endpoint
\* computes or fails with after it changes nothing.
SandboxCall ==
  /\ InProcess("sandbox")
  /\ \/ Cardinality(Kept) < Limit /\ Admit
     \/ /\ Cardinality(Kept) >= Limit
        /\ hint' = now + Ticks * RetryIn
        /\ UNCHANGED <<recent, grants>>

\* check_rate_limit: the list of an API key. A refusal names no time.
KeySlot == Cardinality(Kept) < Limit

\* get_tenant_context: a key without balance is refused before it takes a slot, one
\* over its token quota after it.
KeyCall(funded, withinQuota) ==
  /\ InProcess("key")
  /\ hint' = NoHint
  /\ \/ ~funded /\ UNCHANGED <<recent, grants>>
     \/ funded /\ ~KeySlot /\ recent' = Kept /\ UNCHANGED grants
     \/ /\ funded /\ KeySlot
        /\ recent' = Kept \cup {This}
        /\ grants' = IF withinQuota THEN grants \cup {This} ELSE grants

\* RateLimitMiddleware.dispatch: the wait it advises is a second at least.
MiddlewareCall ==
  /\ InProcess("middleware")
  /\ \/ Cardinality(Kept) < Limit /\ Admit
     \/ /\ Cardinality(Kept) >= Limit
        /\ recent' = Kept
        /\ hint' = now + Ticks * (IF RetryIn > 1 THEN RetryIn ELSE 1)
        /\ UNCHANGED grants

\* RedisRateLimiter.check_rate_limit reads the clock of its instance.
ReadClock(i) ==
  /\ site = "redis" /\ flight[i] = Idle
  /\ flight' = [flight EXCEPT ![i] = now]
  /\ UNCHANGED <<site, now, calls, recent, members, expireAt, grants, hint>>

\* The transaction: trim, count, add whatever the count is, renew the expiry.
Transact(i) ==
  LET at == flight[i]
      kept == {t \in members : t > at - W}
  IN /\ site = "redis" /\ flight[i] # Idle /\ calls < MaxCalls
     /\ calls' = calls + 1
     /\ members' = kept \cup {at}
     /\ expireAt' = now + W + Ticks
     /\ flight' = [flight EXCEPT ![i] = Idle]
     /\ \/ /\ Cardinality(kept) < Limit
           /\ grants' = grants \cup {[n |-> calls + 1, at |-> at]}
           /\ hint' = NoHint
        \/ /\ Cardinality(kept) >= Limit
           /\ hint' = now + W
           /\ UNCHANGED grants
     /\ UNCHANGED <<site, now, recent>>

LimitNext ==
  \/ Tick
  \/ SandboxCall
  \/ \E funded, withinQuota \in BOOLEAN : KeyCall(funded, withinQuota)
  \/ MiddlewareCall
  \/ \E i \in Instances : ReadClock(i) \/ Transact(i)

LimitSpec == LimitInit /\ [][LimitNext]_limitVars

-------------------------------------------------------------------------------
(* Properties.                                                               *)

LimitTypeOK ==
  /\ site \in Sites
  /\ now \in 0..MaxTime /\ calls \in 0..MaxCalls
  /\ recent \subseteq Call /\ grants \subseteq Call
  /\ members \subseteq 0..MaxTime /\ expireAt \in Nat
  /\ flight \in [Instances -> {Idle} \cup 0..MaxTime]
  /\ hint \in Nat \cup {NoHint}

\* The calls let through in the window that ends with call c are at most Limit, in
\* the lists of one process.
ListLimit ==
  \A c \in grants :
    Cardinality({d \in grants : d.n <= c.n /\ d.at > c.at - W}) <= Limit

\* In Redis two calls of one instant are one member, and a call that was slow to
\* arrive finds a set trimmed by a later clock: the limit holds for instants, over
\* windows that are shorter by Skew.
RedisLimit ==
  \A t \in 0..MaxTime :
    Cardinality({u \in {c.at : c \in grants} : u <= t /\ u > t - (W - Skew)}) <= Limit

\* No window admits more calls than the limit, whatever was refused, trimmed or
\* expired in between (enforce_sandbox_limit, check_rate_limit, dispatch).
LimitHolds == IF site = "redis" THEN RedisLimit ELSE ListLimit

\* A client that was refused and waits as long as it was told, and a second more for
\* the fraction int() cuts off, finds room, if nobody took it meanwhile.
RetryFindsRoom ==
  (hint # NoHint /\ now >= hint + Ticks) =>
    IF site = "redis"
    THEN Cardinality({t \in members : t > now - W}) < Limit
    ELSE Cardinality(Kept) < Limit

\* What a limiter promises: never more than the limit, and room after the wait.
LimiterSound == LimitHolds /\ RetryFindsRoom
===============================================================================

------------------------------ MODULE RateLimit ------------------------------
(***************************************************************************)
(* One key of the token-bucket rate limiter. The instances of the API      *)
(* settle it by a script in Redis, each with its own clock; the in-memory  *)
(* limiter does the same by consumeTokenBucket. Amounts are counted in     *)
(* Interval-ths of a token, so that a unit of time adds RefillTokens.      *)
(*   apps/api/src/shared/rate-limit.ts, apps/api/src/shared/token-bucket.ts *)
(***************************************************************************)
EXTENDS Naturals, Sequences

CONSTANTS
    Capacity, RefillTokens, Interval, \* RateLimitRule
    Second,     \* units of time in a second: TTL and Retry-After are seconds
    Instances,  \* API processes
    Offset,     \* how far the clock of an instance is ahead
    MaxTime, MaxCalls  \* bounds on time and on calls

ASSUME RateLimitAssumption ==
    /\ Capacity \in Nat \ {0} /\ RefillTokens \in Nat \ {0} /\ Interval \in Nat \ {0}
    /\ Second \in Nat \ {0} /\ MaxTime \in Nat /\ MaxCalls \in Nat
    /\ Offset \in [Instances -> Nat]

NoBucket == [amount |-> 0, ts |-> 0, expires |-> 0]

VARIABLES
    now,      \* Redis's clock
    bucket,   \* the hash of the key and when it expires
    memory,   \* the state an in-memory limiter would have after the same calls
    verdict,  \* the outcomes of the last call by both
    admitted, \* history: the clocks at which a call was let through
    setBack,  \* history: how far ts has been set back in all
    made      \* calls so far

limiterVars == <<now, bucket, memory, verdict, admitted, setBack, made>>

Ceil(a, b) == (a + b - 1) \div b
(* The clocks of two instances differ by no more than the margin the script  *)
(* leaves a key beyond the time its bucket takes to fill: one interval, of   *)
(* a minute at least in RATE_LIMITS, in whole seconds.                       *)
ASSUME ClockAssumption ==
    \A i, j \in Instances : Offset[i] <= Offset[j] + Second * Ceil(Interval, Second)

AtMost(a, b) == IF a <= b THEN a ELSE b
Past(a, b) == IF a >= b THEN a - b ELSE 0

Full == Capacity * Interval

\* Mutant: time since the last admitted call is counted again after a refusal.
ConsumeKeepingTs(state, clock) ==
    LET have == AtMost(Full, state.amount + Past(clock, state.ts) * RefillTokens)
    IN  IF have >= Interval
        THEN [allowed |-> TRUE, retryAfter |-> 0, amount |-> have - Interval, ts |-> clock]
        ELSE [allowed |-> FALSE, retryAfter |-> Ceil(Interval - have, RefillTokens),
              amount |-> have, ts |-> state.ts]

(* consumeTokenBucket, at a cost of one token.                              *)
Consume(state, clock) ==
    LET have == AtMost(Full, state.amount + Past(clock, state.ts) * RefillTokens)
    IN  IF have >= Interval
        THEN [allowed |-> TRUE, retryAfter |-> 0, amount |-> have - Interval, ts |-> clock]
        ELSE [allowed |-> FALSE, retryAfter |-> Ceil(Interval - have, RefillTokens),
              amount |-> have, ts |-> clock]

(* From empty to full and an interval more, in whole seconds.               *)
Ttl == Second * (Ceil(Full, RefillTokens * Second) + Ceil(Interval, Second))

Expired == now >= bucket.expires

(* A key that is not there is a full bucket.                                *)
StateAt(clock) ==
    IF Expired THEN [amount |-> Full, ts |-> clock] ELSE [amount |-> bucket.amount, ts |-> bucket.ts]

RetryAfterHeader(ms) == IF ms = 0 THEN 0 ELSE IF Ceil(ms, Second) = 0 THEN 1 ELSE Ceil(ms, Second)

LimiterInit ==
    /\ now = 0
    /\ bucket = NoBucket
    /\ memory = [amount |-> Full, ts |-> 0]
    /\ verdict = [redis |-> <<TRUE, 0>>, memory |-> <<TRUE, 0>>]
    /\ admitted = <<>> /\ setBack = 0 /\ made = 0

Tick ==
    /\ now < MaxTime
    /\ now' = now + 1
    /\ UNCHANGED <<bucket, memory, verdict, admitted, setBack, made>>

(* RedisRateLimiter.consume by instance i: the script is atomic, the time   *)
(* it stores is the caller's.                                               *)
CallLimiter(i) ==
    LET clock == now + Offset[i]
        out == Consume(StateAt(clock), clock)
        ref == Consume(memory, clock)
    IN  /\ made < MaxCalls /\ made' = made + 1
        /\ bucket' = [amount |-> out.amount, ts |-> out.ts, expires |-> now + Ttl]
        /\ memory' = [amount |-> ref.amount, ts |-> ref.ts]
        /\ verdict' = [redis |-> <<out.allowed, out.retryAfter>>, memory |-> <<ref.allowed, ref.retryAfter>>]
        /\ admitted' = IF out.allowed THEN Append(admitted, [at |-> clock, setBack |-> setBack + Past(StateAt(clock).ts, clock)])
                       ELSE admitted
        /\ setBack' = setBack + Past(StateAt(clock).ts, clock)
        /\ UNCHANGED now

LimiterNext == Tick \/ \E i \in Instances : CallLimiter(i)

LimiterSpec == LimiterInit /\ [][LimiterNext]_limiterVars

-----------------------------------------------------------------------------
\* Properties

(* Between any two admitted calls no more were let through than the bucket   *)
(* holds and time has refilled; what is let through beyond it is what the    *)
(* clocks were set back in between, counted a second time.                   *)
RateBound ==
    \A a, b \in DOMAIN admitted :
        a <= b =>
          (b - a + 1) * Interval + RefillTokens * (admitted[a].at + admitted[a].setBack)
            <= Full + RefillTokens * (admitted[b].at + admitted[b].setBack)

(* Redis forgets a key only when it would be full: the script and the in-    *)
(* memory limiter decide alike as long as clocks are apart by no more than   *)
(* the margin of the TTL.                                                    *)
LimitersAgree == verdict.redis = verdict.memory

(* Who is refused and waits as long as Retry-After says is let through,      *)
(* unless others came first.                                                 *)
RetryAfterIsEnough ==
    ~verdict.redis[1] =>
        Consume([amount |-> bucket.amount, ts |-> bucket.ts],
                bucket.ts + Second * RetryAfterHeader(verdict.redis[2])).allowed

(* The limiter admits no more than its bucket, alike in Redis and in memory, *)
(* and its Retry-After can be relied on (rate-limit.ts, token-bucket.ts).    *)
LimitsHold == RateBound /\ LimitersAgree /\ RetryAfterIsEnough
=============================================================================

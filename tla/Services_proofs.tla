-------------------------- MODULE Services_proofs ---------------------------
(***************************************************************************)
(* Proofs about the services: uploads up to the quota (Admission), calls   *)
(* up to the rate (RateLimit), the answer to a question (Answering), what  *)
(* it stands on (Grounding) and the measuring of it (Evaluation).          *)
(*                                                                         *)
(* RateLimit, for every rule, every number of instances and clocks apart   *)
(* by no more than the margin of the TTL. The inductive invariant speaks   *)
(* of the key as the last call has left it. Both limiters hold the same    *)
(* bucket (SameBucket), the key lives as long as its bucket takes to fill  *)
(* (Lives), and what is left in the bucket counts with what was let        *)
(* through (Spent): the bound that the admitted calls keep among           *)
(* themselves is too weak to survive the next call.                        *)
(*                                                                         *)
(* Admission, for any finite set of clients, any files and any limits:     *)
(* the rows of a workspace are accounted for, and a document goes through  *)
(* the worker once.                                                        *)
(*                                                                         *)
(* Three things are counted inductively. A request whose client is gone    *)
(* may still insert a row nobody owns, and was paid for when the client    *)
(* was lost, so such requests count with the rows that are left (Owed). A  *)
(* request that has passed the quota has its room when it is counted with  *)
(* the rows (Counted): at the check there are no more of them than clients *)
(* and losses. And with all of them inserted the workspace holds what one  *)
(* of them was allowed, and the others at their largest (Weighed). The     *)
(* bytes are a recursive sum; what an insertion adds to it is proved by    *)
(* induction over the rows.                                                *)
(*                                                                         *)
(* Answering, for any characters, marker, sources and bounds: what is let  *)
(* out is right because no marker can begin in it, whatever comes next     *)
(* (Hopeless), and what is held back is the longest end that may become    *)
(* one. What the handler knows of its call (Lined) and the call's own      *)
(* account of what was told and recorded (Told, Recorded) carry the rest.  *)
(*                                                                         *)
(* Grounding and Evaluation, for any passages, texts and datasets: their   *)
(* functions are folds, whose values at each place exist by one induction  *)
(* (Recursion). The sources are followed along the ranking (WellChosen),   *)
(* the history from its end (EndTaken), the evaluation by counting its     *)
(* measures and verdicts against its cases (CasesCounted).                 *)
(***************************************************************************)
EXTENDS Admission, RateLimit, Answering, Evaluation, FiniteSetTheorems, SequenceTheorems, WellFoundedInduction, TLAPS

-----------------------------------------------------------------------------
\* RateLimit: arithmetic

(* Rounding a quotient up covers the dividend. *)
LEMMA CeilCovers ==
  ASSUME NEW a \in Nat, NEW b \in Nat \ {0}
  PROVE  Ceil(a, b) \in Nat /\ b * Ceil(a, b) >= a
<1>1. (a + b - 1) \div b \in Nat
  BY SMT
<1>2. b * ((a + b - 1) \div b) > (a + b - 1) - b
  BY SMT
<1> QED
  BY <1>1, <1>2 DEF Ceil

(* It is zero for zero only. *)
LEMMA CeilPositive ==
  ASSUME NEW a \in Nat \ {0}, NEW b \in Nat \ {0}
  PROVE  Ceil(a, b) > 0
<1>1. Ceil(a, b) \in Nat /\ b * Ceil(a, b) >= a
  BY CeilCovers
<1> QED
  BY <1>1

(* The smaller of two numbers, and a difference that stops at zero. *)
LEMMA AtMostBounds ==
  ASSUME NEW a \in Nat, NEW b \in Nat
  PROVE  AtMost(a, b) \in Nat /\ AtMost(a, b) <= a /\ AtMost(a, b) <= b
BY DEF AtMost

LEMMA PastNat ==
  ASSUME NEW a \in Nat, NEW b \in Nat
  PROVE  Past(a, b) \in Nat
BY DEF Past

(* Setting a clock back and setting it forward cancel out. *)
LEMMA PastBalances ==
  ASSUME NEW a \in Nat, NEW b \in Nat
  PROVE  a + Past(b, a) = b + Past(a, b)
BY DEF Past

(* A bucket has room for one token at least. *)
LEMMA FullNat == Full \in Nat /\ Full >= Interval
BY RateLimitAssumption DEF Full

(* The time a key lives fills its bucket, by whatever clock it is read. *)
LEMMA TtlFills ==
  ASSUME NEW i \in Instances, NEW j \in Instances, NEW t \in Nat, NEW n \in Nat, n >= t + Ttl
  PROVE  /\ Ttl \in Nat
         /\ n + Offset[i] >= t + Offset[j]
         /\ RefillTokens * ((n + Offset[i]) - (t + Offset[j])) >= Full
<1> DEFINE k == Ceil(Full, RefillTokens * Second)
           m == Ceil(Interval, Second)
<1>1. RefillTokens * Second \in Nat \ {0}
  BY RateLimitAssumption
<1>2. k \in Nat /\ (RefillTokens * Second) * k >= Full
  BY <1>1, FullNat, CeilCovers
<1>3. m \in Nat
  BY CeilCovers, RateLimitAssumption
<1>4. Offset[i] \in Nat /\ Offset[j] \in Nat /\ Offset[j] <= Offset[i] + Second * m
  BY RateLimitAssumption, ClockAssumption
<1>5. Ttl = Second * k + Second * m
  BY <1>2, <1>3, RateLimitAssumption DEF Ttl
<1> HIDE DEF k, m
<1>6. Second * k \in Nat /\ Second * m \in Nat
  BY <1>2, <1>3, RateLimitAssumption
<1> DEFINE x == (n + Offset[i]) - (t + Offset[j])
<1>7. x \in Nat /\ x >= Second * k
  BY <1>4, <1>5, <1>6
<1>8. RefillTokens * x >= RefillTokens * (Second * k)
  <2> HIDE DEF x
  <2> QED
    BY <1>6, <1>7, RateLimitAssumption
<1>9. RefillTokens * (Second * k) = (RefillTokens * Second) * k
  BY <1>2, RateLimitAssumption
<1>10. RefillTokens * x >= Full
  <2> HIDE DEF x
  <2>1. RefillTokens * x \in Nat /\ (RefillTokens * Second) * k \in Nat
    BY <1>1, <1>2, <1>7, RateLimitAssumption
  <2> QED
    BY <1>2, <1>8, <1>9, <2>1, FullNat
<1>11. Ttl \in Nat /\ n + Offset[i] >= t + Offset[j]
  BY <1>4, <1>5, <1>6, <1>7
<1> QED
  BY <1>10, <1>11
-----------------------------------------------------------------------------
\* A settlement

Buckets == [amount : 0..Full, ts : Nat]

(* What is in a bucket when it is settled at a clock. *)
Have(state, clock) == AtMost(Full, state.amount + Past(clock, state.ts) * RefillTokens)

LEMMA HaveBounds ==
  ASSUME NEW s \in Buckets, NEW c \in Nat
  PROVE  /\ Have(s, c) \in 0..Full
         /\ Past(c, s.ts) * RefillTokens \in Nat
         /\ Have(s, c) <= s.amount + Past(c, s.ts) * RefillTokens
         /\ s.amount + Past(c, s.ts) * RefillTokens >= Full => Have(s, c) = Full
<1>1. s.amount \in 0..Full /\ s.ts \in Nat /\ Full \in Nat
  BY FullNat DEF Buckets
<1>2. Past(c, s.ts) * RefillTokens \in Nat
  <2>1. Past(c, s.ts) \in Nat
    BY <1>1, PastNat
  <2> QED
    BY <2>1, RateLimitAssumption
<1> DEFINE x == Past(c, s.ts) * RefillTokens
<1> HIDE DEF x
<1> QED
  BY <1>1, <1>2 DEF Have, AtMost, x

(* A settlement depends on what is in the bucket and on the clock only: a    *)
(* token is taken if there is one, and Retry-After speaks of what is missing. *)
LEMMA ConsumeSettles ==
  ASSUME NEW s \in Buckets, NEW c \in Nat
  PROVE  LET have == Have(s, c)
             out == Consume(s, c)
         IN  /\ out.ts = c
             /\ out.allowed \in BOOLEAN /\ (out.allowed <=> have >= Interval)
             /\ out.retryAfter = IF have >= Interval THEN 0 ELSE Ceil(Interval - have, RefillTokens)
             /\ out.retryAfter \in Nat
             /\ out.amount = IF have >= Interval THEN have - Interval ELSE have
             /\ out.amount \in 0..Full
<1>1. Have(s, c) \in 0..Full
  BY HaveBounds
<1>2. Have(s, c) < Interval => Ceil(Interval - Have(s, c), RefillTokens) \in Nat
  BY <1>1, FullNat, CeilCovers, RateLimitAssumption
<1>3. Interval \in Nat \ {0} /\ Full \in Nat
  BY FullNat, RateLimitAssumption
<1>4. Consume(s, c) = IF Have(s, c) >= Interval
        THEN [allowed |-> TRUE, retryAfter |-> 0, amount |-> Have(s, c) - Interval, ts |-> c]
        ELSE [allowed |-> FALSE, retryAfter |-> Ceil(Interval - Have(s, c), RefillTokens),
              amount |-> Have(s, c), ts |-> c]
  BY DEF Consume, Have
<1> DEFINE have == Have(s, c)
<1> HIDE DEF have
<1> QED
  BY <1>1, <1>2, <1>3, <1>4 DEF have

(* Whoever waits as long as Retry-After says finds a token.                  *)
LEMMA WaitIsEnough ==
  ASSUME NEW h \in Nat, h < Interval, NEW t \in Nat
  PROVE  LET wait == Second * RetryAfterHeader(Ceil(Interval - h, RefillTokens))
         IN  wait \in Nat /\ h + Past(t + wait, t) * RefillTokens >= Interval
<1> DEFINE ms == Ceil(Interval - h, RefillTokens)
           wait == Second * RetryAfterHeader(ms)
<1>1. ms \in Nat /\ ms > 0 /\ RefillTokens * ms >= Interval - h
  BY CeilCovers, CeilPositive, RateLimitAssumption
<1> HIDE DEF ms
<1>2. Ceil(ms, Second) \in Nat /\ Ceil(ms, Second) > 0 /\ Second * Ceil(ms, Second) >= ms
  BY <1>1, CeilCovers, CeilPositive, RateLimitAssumption
<1>3. wait = Second * Ceil(ms, Second)
  BY <1>1, <1>2 DEF RetryAfterHeader
<1>4. wait \in Nat /\ wait >= ms
  BY <1>2, <1>3, RateLimitAssumption
<1> HIDE DEF wait
<1>5. Past(t + wait, t) = wait
  BY <1>4 DEF Past
<1>6. wait * RefillTokens >= RefillTokens * ms
  BY <1>1, <1>4, RateLimitAssumption
<1>7. wait * RefillTokens \in Nat /\ RefillTokens * ms \in Nat
  BY <1>1, <1>4, RateLimitAssumption
<1>8. h + wait * RefillTokens >= Interval
  BY <1>1, <1>6, <1>7, RateLimitAssumption
<1> QED
  BY <1>4, <1>5, <1>8 DEF wait, ms

-----------------------------------------------------------------------------
\* The invariant

LimiterTyped ==
    /\ now \in Nat /\ setBack \in Nat /\ made \in Nat
    /\ bucket \in [amount : 0..Full, ts : Nat, expires : Nat]
    /\ memory \in Buckets
    /\ verdict \in [redis : BOOLEAN \X Nat, memory : BOOLEAN \X Nat]
    /\ admitted \in Seq([at : Nat, setBack : Nat])

(* Nobody has called yet. *)
Untouched ==
    /\ bucket = NoBucket /\ memory = [amount |-> Full, ts |-> 0]
    /\ admitted = <<>> /\ verdict.redis[1]

(* The last call came from some instance at some time, and its key lives as  *)
(* long as the bucket takes to fill.                                         *)
Lives == \E i \in Instances, t \in Nat : bucket.ts = t + Offset[i] /\ bucket.expires = t + Ttl

(* Both limiters hold the same bucket. *)
SameBucket == bucket.amount = memory.amount /\ bucket.ts = memory.ts

(* What time is worth at a call, in parts of a token. *)
Worth(e) == RefillTokens * (e.at + e.setBack)

(* What was let through since any call, together with what is left, is no    *)
(* more than the bucket holds and time has refilled.                         *)
Spent ==
    \A a \in DOMAIN admitted :
        (Len(admitted) - a + 1) * Interval + Worth(admitted[a]) + bucket.amount
          <= Full + RefillTokens * (bucket.ts + setBack)

LimiterInv ==
    /\ LimiterTyped
    /\ Untouched \/ (Lives /\ SameBucket)
    /\ Spent
    /\ LimitsHold

LEMMA InitLimiter == LimiterInit => LimiterInv
<1> SUFFICES ASSUME LimiterInit PROVE LimiterInv
  OBVIOUS
<1> USE DEF LimiterInit
<1>1. LimiterTyped
  <2>1. bucket \in [amount : 0..Full, ts : Nat, expires : Nat] /\ memory \in Buckets
    BY FullNat DEF NoBucket, Buckets
  <2>2. verdict \in [redis : BOOLEAN \X Nat, memory : BOOLEAN \X Nat]
    OBVIOUS
  <2>3. admitted \in Seq([at : Nat, setBack : Nat])
    OBVIOUS
  <2> QED
    BY <2>1, <2>2, <2>3 DEF LimiterTyped
<1>2. Untouched
  BY DEF Untouched
<1>3. Spent
  BY DEF Spent
<1>4. LimitsHold
  <2>1. RateBound
    BY DEF RateBound
  <2>2. LimitersAgree
    BY DEF LimitersAgree
  <2>3. RetryAfterIsEnough
    BY DEF RetryAfterIsEnough
  <2> QED
    BY <2>1, <2>2, <2>3 DEF LimitsHold
<1> QED
  BY <1>1, <1>2, <1>3, <1>4 DEF LimiterInv

(* Time passes without consequence. *)
LEMMA TickLimiter == LimiterInv /\ Tick => LimiterInv'
<1> SUFFICES ASSUME LimiterInv, Tick PROVE LimiterInv'
  OBVIOUS
<1> USE DEF LimiterInv, Tick
<1>1. LimiterTyped'
  BY DEF LimiterTyped
<1>2. (Untouched \/ (Lives /\ SameBucket))'
  BY DEF Untouched, Lives, SameBucket
<1>3. Spent'
  BY DEF Spent
<1>4. LimitsHold'
  BY DEF LimitsHold, RateBound, LimitersAgree, RetryAfterIsEnough
<1> QED
  BY <1>1, <1>2, <1>3, <1>4

(* The bucket a call finds holds as much in Redis as in memory, whether the  *)
(* key is there or was forgotten; and with what is left, what was let        *)
(* through before is paid for.                                               *)
LEMMA CallFinds ==
  ASSUME LimiterInv, NEW i \in Instances
  PROVE  LET clock == now + Offset[i]
             kept == StateAt(clock)
             sb == setBack + Past(kept.ts, clock)
         IN  /\ clock \in Nat /\ kept \in Buckets /\ sb \in Nat
             /\ Have(kept, clock) = Have(memory, clock)
             /\ \A a \in DOMAIN admitted :
                  (Len(admitted) - a + 1) * Interval + Worth(admitted[a]) + Have(kept, clock)
                    <= Full + RefillTokens * (clock + sb)
<1> DEFINE clock == now + Offset[i]
           kept == StateAt(clock)
           sb == setBack + Past(kept.ts, clock)
           K(a) == (Len(admitted) - a + 1) * Interval + Worth(admitted[a])
<1>0. LimiterTyped /\ Spent /\ (Untouched \/ (Lives /\ SameBucket))
  BY DEF LimiterInv
<1>1. clock \in Nat
  BY <1>0, RateLimitAssumption DEF LimiterTyped
<1>2. Full \in Nat /\ Full >= Interval
  BY FullNat
<1>3. bucket.amount \in 0..Full /\ bucket.ts \in Nat /\ setBack \in Nat /\ memory \in Buckets
  BY <1>0 DEF LimiterTyped
<1>4. kept \in Buckets
  BY <1>1, <1>2, <1>3 DEF StateAt, Buckets
<1>5. sb \in Nat
  <2>1. kept.ts \in Nat
    BY <1>4 DEF Buckets
  <2>2. Past(kept.ts, clock) \in Nat
    BY <1>1, <2>1, PastNat
  <2> QED
    BY <1>3, <2>2
<1>6. \A a \in DOMAIN admitted : K(a) \in Nat /\ K(a) + bucket.amount <= Full + RefillTokens * (bucket.ts + setBack)
  <2> SUFFICES ASSUME NEW a \in DOMAIN admitted
               PROVE  K(a) \in Nat /\ K(a) + bucket.amount <= Full + RefillTokens * (bucket.ts + setBack)
    OBVIOUS
  <2>1. Len(admitted) - a + 1 \in Nat /\ admitted[a] \in [at : Nat, setBack : Nat]
    <3>1. admitted \in Seq([at : Nat, setBack : Nat]) /\ a \in 1..Len(admitted) /\ Len(admitted) \in Nat
      BY <1>0, LenProperties DEF LimiterTyped
    <3>2. admitted[a] \in [at : Nat, setBack : Nat]
      BY <3>1, ElementOfSeq
    <3> QED
      BY <3>1, <3>2
  <2>2. Worth(admitted[a]) \in Nat
    BY <2>1, RateLimitAssumption, SMTT(60) DEF Worth
  <2>3. (Len(admitted) - a + 1) * Interval \in Nat
    BY <2>1, RateLimitAssumption
  <2> QED
    BY <1>0, <2>2, <2>3 DEF Spent
<1> HIDE DEF K
<1>7. CASE ~Expired
  <2>1. Lives /\ SameBucket
    BY <1>0, <1>7 DEF Untouched, Expired, NoBucket, LimiterTyped
  <2>2. kept = [amount |-> bucket.amount, ts |-> bucket.ts]
    BY <1>7 DEF StateAt
  <2>3. Have(kept, clock) = Have(memory, clock)
    BY <2>1, <2>2 DEF Have, SameBucket
  <2>4. clock + sb = bucket.ts + setBack + Past(clock, bucket.ts)
    <3>1. sb = setBack + Past(bucket.ts, clock)
      BY <2>2
    <3>2. bucket.ts + Past(clock, bucket.ts) = clock + Past(bucket.ts, clock)
      BY <1>1, <1>3, PastBalances
    <3>3. Past(clock, bucket.ts) \in Nat /\ Past(bucket.ts, clock) \in Nat
      BY <1>1, <1>3, PastNat
    <3> HIDE DEF clock, sb
    <3> QED
      BY <1>1, <1>3, <3>1, <3>2, <3>3
  <2>5. Past(clock, bucket.ts) \in Nat
    BY <1>1, <1>3, PastNat
  <2>6. Have(kept, clock) \in 0..Full /\ Have(kept, clock) <= bucket.amount + Past(clock, bucket.ts) * RefillTokens
    BY <1>1, <1>4, <2>2, HaveBounds
  <2>7. RefillTokens * (clock + sb) = RefillTokens * (bucket.ts + setBack) + Past(clock, bucket.ts) * RefillTokens
    <3> HIDE DEF clock, sb
    <3> QED
      BY <1>3, <2>4, <2>5, RateLimitAssumption
  <2>8. RefillTokens * (bucket.ts + setBack) \in Nat /\ Past(clock, bucket.ts) * RefillTokens \in Nat
    BY <1>3, <2>5, RateLimitAssumption
  <2>9. \A a \in DOMAIN admitted : K(a) + Have(kept, clock) <= Full + RefillTokens * (clock + sb)
    <3> HIDE DEF clock, sb, kept
    <3> QED
      BY <1>2, <1>3, <1>6, <2>6, <2>7, <2>8
  <2> QED
    BY <1>1, <1>4, <1>5, <2>3, <2>9 DEF K
<1>8. CASE Expired
  <2>1. kept = [amount |-> Full, ts |-> clock]
    BY <1>8 DEF StateAt
  <2>2. Past(clock, clock) = 0 /\ sb = setBack
    BY <1>1, <1>3, <2>1 DEF Past
  <2>3. Have(kept, clock) = Full
    BY <1>1, <1>2, <1>4, <2>1, <2>2, HaveBounds, RateLimitAssumption
  <2>4. CASE Untouched
    <3>1. Have(memory, clock) = Full
      <4>1. memory.amount = Full /\ memory.amount \in Nat
        BY <1>2, <2>4 DEF Untouched
      <4>2. Past(clock, memory.ts) * RefillTokens \in Nat
        BY <1>1, <1>3, HaveBounds
      <4>3. memory.amount + Past(clock, memory.ts) * RefillTokens >= Full
        <5> DEFINE x == Past(clock, memory.ts) * RefillTokens
        <5> HIDE DEF x
        <5> QED
          BY <1>2, <4>1, <4>2 DEF x
      <4> QED
        BY <1>1, <1>3, <4>3, HaveBounds
    <3>2. DOMAIN admitted = {}
      BY <2>4 DEF Untouched
    <3> QED
      BY <1>1, <1>4, <1>5, <2>3, <3>1, <3>2
  <2>5. CASE Lives /\ SameBucket
    <3>1. PICK j \in Instances, t \in Nat : bucket.ts = t + Offset[j] /\ bucket.expires = t + Ttl
      BY <2>5 DEF Lives
    <3>2. now \in Nat /\ now >= t + Ttl
      BY <1>0, <1>8, <3>1 DEF Expired, LimiterTyped
    <3>3. clock >= bucket.ts /\ RefillTokens * (clock - bucket.ts) >= Full
      BY <3>1, <3>2, TtlFills
    <3>4. Past(clock, memory.ts) * RefillTokens >= Full
      BY <1>1, <1>3, <2>5, <3>3, RateLimitAssumption DEF Past, SameBucket
    <3>5. Have(memory, clock) = Full
      BY <1>1, <1>2, <1>3, <3>4, HaveBounds DEF Buckets
    <3>6. RefillTokens * (clock + sb) = RefillTokens * (clock - bucket.ts) + RefillTokens * (bucket.ts + setBack)
      <4> HIDE DEF clock
      <4> QED
        BY <1>1, <1>3, <2>2, <3>3, RateLimitAssumption
    <3>7. RefillTokens * (clock - bucket.ts) \in Nat /\ RefillTokens * (bucket.ts + setBack) \in Nat
      BY <1>1, <1>3, <3>3, RateLimitAssumption
    <3>8. \A a \in DOMAIN admitted : K(a) + Have(kept, clock) <= Full + RefillTokens * (clock + sb)
      <4> HIDE DEF clock, sb, kept
      <4> QED
        BY <1>2, <1>3, <1>6, <2>3, <3>3, <3>6, <3>7
    <3> QED
      BY <1>1, <1>4, <1>5, <2>3, <3>5, <3>8 DEF K
  <2> QED
    BY <1>0, <2>4, <2>5
<1> QED
  BY <1>7, <1>8

(* A call keeps the invariant.                                               *)
LEMMA CallKeeps ==
  ASSUME LimiterInv, NEW i \in Instances, CallLimiter(i)
  PROVE  LimiterInv'
<1> DEFINE clock == now + Offset[i]
           kept == StateAt(clock)
           sb == setBack + Past(kept.ts, clock)
           have == Have(kept, clock)
           out == Consume(kept, clock)
           ref == Consume(memory, clock)
           n == Len(admitted)
           e == [at |-> clock, setBack |-> sb]
<1>0. LimiterTyped /\ RateBound
  BY DEF LimiterInv, LimitsHold
<1>1. /\ clock \in Nat /\ kept \in Buckets /\ sb \in Nat
      /\ have = Have(memory, clock)
      /\ \A a \in DOMAIN admitted :
           (n - a + 1) * Interval + Worth(admitted[a]) + have <= Full + RefillTokens * (clock + sb)
  BY CallFinds
<1>2. /\ bucket' = [amount |-> out.amount, ts |-> out.ts, expires |-> now + Ttl]
      /\ memory' = [amount |-> ref.amount, ts |-> ref.ts]
      /\ verdict' = [redis |-> <<out.allowed, out.retryAfter>>, memory |-> <<ref.allowed, ref.retryAfter>>]
      /\ admitted' = IF out.allowed THEN Append(admitted, e) ELSE admitted
      /\ setBack' = sb /\ made' = made + 1 /\ now' = now
  BY DEF CallLimiter
<1>3. /\ out.ts = clock /\ ref.ts = clock
      /\ out.allowed = ref.allowed /\ out.retryAfter = ref.retryAfter /\ out.amount = ref.amount
      /\ out.allowed \in BOOLEAN /\ (out.allowed <=> have >= Interval)
      /\ out.retryAfter = IF have >= Interval THEN 0 ELSE Ceil(Interval - have, RefillTokens)
      /\ out.retryAfter \in Nat
      /\ out.amount = IF have >= Interval THEN have - Interval ELSE have
      /\ out.amount \in 0..Full
  <2>1. memory \in Buckets
    BY <1>0 DEF LimiterTyped
  <2> HIDE DEF clock, kept
  <2> QED
    BY <1>1, <2>1, ConsumeSettles
<1>4. have \in 0..Full /\ Full \in Nat /\ Full >= Interval /\ Interval \in Nat \ {0} /\ RefillTokens \in Nat \ {0}
  BY <1>1, HaveBounds, FullNat, RateLimitAssumption
<1>5. n \in Nat /\ DOMAIN admitted = 1..n /\ admitted \in Seq([at : Nat, setBack : Nat])
  BY <1>0, LenProperties DEF LimiterTyped
<1>6. e \in [at : Nat, setBack : Nat] /\ Worth(e) = RefillTokens * (clock + sb) /\ Worth(e) \in Nat
  BY <1>1, <1>4 DEF Worth
<1>7. \A a \in DOMAIN admitted : Worth(admitted[a]) \in Nat /\ (n - a + 1) * Interval \in Nat
  <2> SUFFICES ASSUME NEW a \in 1..n PROVE Worth(admitted[a]) \in Nat /\ (n - a + 1) * Interval \in Nat
    BY <1>5
  <2>1. admitted[a] \in [at : Nat, setBack : Nat]
    BY <1>5, ElementOfSeq
  <2>2. n - a + 1 \in Nat
    BY <1>5
  <2> QED
    BY <1>4, <2>1, <2>2 DEF Worth
<1>8. Ttl \in Nat
  <2>1. RefillTokens * Second \in Nat \ {0}
    BY RateLimitAssumption
  <2>2. Ceil(Full, RefillTokens * Second) \in Nat /\ Ceil(Interval, Second) \in Nat
    BY <2>1, CeilCovers, FullNat, RateLimitAssumption
  <2> QED
    BY <2>2, RateLimitAssumption DEF Ttl
<1> HIDE DEF clock, kept, sb, have, out, ref, n, e
<1>9. LimiterTyped'
  <2>1. bucket' \in [amount : 0..Full, ts : Nat, expires : Nat]
    BY <1>0, <1>1, <1>2, <1>3, <1>8 DEF LimiterTyped
  <2>2. memory' \in Buckets
    BY <1>1, <1>2, <1>3 DEF Buckets
  <2>3. verdict' \in [redis : BOOLEAN \X Nat, memory : BOOLEAN \X Nat]
    BY <1>2, <1>3
  <2>4. admitted' \in Seq([at : Nat, setBack : Nat])
    BY <1>2, <1>5, <1>6, AppendProperties
  <2> QED
    BY <1>0, <1>1, <1>2, <2>1, <2>2, <2>3, <2>4, SMTT(60) DEF LimiterTyped
<1>10. (Lives /\ SameBucket)'
  <2>1. bucket'.ts = now + Offset[i] /\ bucket'.expires = now + Ttl /\ now \in Nat
    BY <1>0, <1>2, <1>3 DEF LimiterTyped, clock
  <2> QED
    BY <1>2, <1>3, <2>1 DEF Lives, SameBucket, Ttl
<1> DEFINE V == RefillTokens * (clock + sb)
           W(a) == Worth(admitted[a])
<1>11. V \in Nat /\ Worth(e) = V /\ RefillTokens * (bucket'.ts + setBack') = V
  BY <1>2, <1>3, <1>6
<1>12. ASSUME out.allowed PROVE (Spent /\ RateBound /\ RetryAfterIsEnough)'
  <2>1. /\ admitted' = Append(admitted, e) /\ Len(admitted') = n + 1 /\ DOMAIN admitted' = 1..(n + 1)
        /\ admitted'[n + 1] = e /\ \A a \in 1..n : admitted'[a] = admitted[a]
    BY <1>2, <1>5, <1>6, <1>12, AppendProperties DEF n
  <2>2. have >= Interval /\ bucket'.amount = have - Interval
    BY <1>2, <1>3, <1>12
  <2>3. \A a \in 1..n : (n - a + 1) * Interval \in Nat /\ W(a) \in Nat /\ (n - a + 1) * Interval + W(a) + have <= Full + V
    BY <1>1, <1>5, <1>7
  <2>4. \A a \in 1..n : (n + 1 - a + 1) * Interval = (n - a + 1) * Interval + Interval
    BY <1>4, <1>5
  <2>5. (n + 1 - (n + 1) + 1) * Interval = Interval
    BY <1>4, <1>5
  <2> HIDE DEF V, W
  <2>6. Spent'
    <3> SUFFICES ASSUME NEW a \in DOMAIN admitted'
                 PROVE  (Len(admitted') - a + 1) * Interval + Worth(admitted'[a]) + bucket'.amount
                          <= Full + RefillTokens * (bucket'.ts + setBack')
      BY DEF Spent, Worth
    <3>1. a \in 1..(n + 1) /\ Len(admitted') = n + 1
      BY <2>1
    <3>2. (Len(admitted') - a + 1) * Interval = (n + 1 - a + 1) * Interval
      BY <1>4, <1>5, <3>1
    <3>3. CASE a \in 1..n
      <4>1. Worth(admitted'[a]) = W(a)
        BY <2>1, <3>3 DEF W
      <4> QED
        BY <1>4, <1>11, <2>2, <2>3, <2>4, <3>1, <3>2, <3>3, <4>1, SMTT(60)
    <3>4. CASE a = n + 1
      <4>1. (n + 1 - a + 1) * Interval = Interval
        BY <2>5, <3>4
      <4>2. Worth(admitted'[a]) = V
        BY <1>11, <2>1, <3>4
      <4>3. (Len(admitted') - a + 1) * Interval = Interval
        BY <3>2, <4>1
      <4> QED
        BY <1>4, <1>5, <1>11, <2>2, <3>1, <3>4, <4>2, <4>3
    <3> QED
      BY <1>5, <3>1, <3>3, <3>4
  <2>7. RateBound'
    <3> SUFFICES ASSUME NEW a \in 1..(n + 1), NEW b \in 1..(n + 1), a <= b
                 PROVE  (b - a + 1) * Interval + Worth(admitted'[a]) <= Full + Worth(admitted'[b])
      BY <2>1 DEF RateBound, Worth
    <3>1. CASE b \in 1..n
      <4>1. a \in 1..n
        BY <1>5, <3>1
      <4> QED
        BY <1>0, <1>5, <2>1, <3>1, <4>1 DEF RateBound, Worth
    <3>2. CASE b = n + 1 /\ a \in 1..n
      <4>1. Worth(admitted'[a]) = W(a) /\ Worth(admitted'[b]) = V
        BY <1>11, <2>1, <3>2 DEF W
      <4>2. (b - a + 1) * Interval = (n - a + 1) * Interval + Interval
        BY <1>4, <1>5, <3>2
      <4>3. (n - a + 1) * Interval \in Nat /\ W(a) \in Nat /\ (n - a + 1) * Interval + W(a) + have <= Full + V
        BY <2>3, <3>2
      <4> QED
        BY <1>4, <1>11, <2>2, <4>1, <4>2, <4>3
    <3>3. CASE b = n + 1 /\ a = n + 1
      <4>1. Worth(admitted'[a]) = V /\ Worth(admitted'[b]) = V
        BY <1>11, <2>1, <3>3
      <4> QED
        BY <1>4, <1>11, <2>5, <3>3, <4>1
    <3> QED
      BY <1>5, <3>1, <3>2, <3>3
  <2>8. RetryAfterIsEnough'
    BY <1>2, <1>12 DEF RetryAfterIsEnough
  <2> QED
    BY <2>6, <2>7, <2>8
<1>13. ASSUME ~out.allowed PROVE (Spent /\ RateBound /\ RetryAfterIsEnough)'
  <2>1. admitted' = admitted /\ have < Interval /\ bucket'.amount = have
    BY <1>2, <1>3, <1>4, <1>13
  <2>2. Spent'
    <3> HIDE DEF V, W
    <3> SUFFICES ASSUME NEW a \in DOMAIN admitted
                 PROVE  (n - a + 1) * Interval + Worth(admitted[a]) + have <= Full + V
      BY <1>11, <2>1 DEF Spent, n, V
    <3> QED
      BY <1>1 DEF V
  <2>3. RateBound'
    BY <1>0, <2>1 DEF RateBound
  <2>4. RetryAfterIsEnough'
    <3> DEFINE ms == Ceil(Interval - have, RefillTokens)
               wait == Second * RetryAfterHeader(ms)
               left == [amount |-> have, ts |-> clock]
    <3>1. verdict'.redis[2] = ms /\ bucket'.amount = have /\ bucket'.ts = clock
      BY <1>2, <1>3, <2>1
    <3>2. wait \in Nat /\ have + Past(clock + wait, clock) * RefillTokens >= Interval
      BY <1>1, <1>4, <2>1, WaitIsEnough
    <3> HIDE DEF ms, wait
    <3>3. left \in Buckets /\ clock + wait \in Nat
      BY <1>1, <1>4, <3>2 DEF Buckets
    <3>4. Have(left, clock + wait) >= Interval
      <4> DEFINE x == Past(clock + wait, clock) * RefillTokens
      <4>1. x \in Nat
        BY <3>3, HaveBounds
      <4> HIDE DEF x
      <4>2. Have(left, clock + wait) = AtMost(Full, have + x)
        BY DEF Have, x
      <4> QED
        BY <1>4, <3>2, <4>1, <4>2 DEF AtMost, x
    <3>5. Consume(left, clock + wait).allowed
      BY <3>3, <3>4, ConsumeSettles
    <3> QED
      BY <3>1, <3>5 DEF RetryAfterIsEnough, wait, left
  <2> QED
    BY <2>2, <2>3, <2>4
<1>14. LimitersAgree'
  BY <1>2, <1>3 DEF LimitersAgree
<1> QED
  BY <1>9, <1>10, <1>12, <1>13, <1>14 DEF LimiterInv, LimitsHold

-----------------------------------------------------------------------------
(* LimiterInv is an inductive invariant of the limiter. *)
LEMMA SpecLimiter == LimiterSpec => []LimiterInv
<1>1. LimiterInv /\ [LimiterNext]_limiterVars => LimiterInv'
  <2> SUFFICES ASSUME LimiterInv, [LimiterNext]_limiterVars PROVE LimiterInv'
    OBVIOUS
  <2>1. CASE Tick
    BY <2>1, TickLimiter
  <2>2. ASSUME NEW i \in Instances, CallLimiter(i) PROVE LimiterInv'
    BY <2>2, CallKeeps
  <2>3. CASE UNCHANGED limiterVars
    BY <2>3 DEF LimiterInv, limiterVars, LimiterTyped, Untouched, Lives, SameBucket, Spent,
                LimitsHold, RateBound, LimitersAgree, RetryAfterIsEnough
  <2> QED
    BY <2>1, <2>2, <2>3 DEF LimiterNext
<1> QED
  BY <1>1, InitLimiter, PTL DEF LimiterSpec

(* For every rule and any number of instances: between two admitted calls no *)
(* more were let through than the bucket holds and time has refilled, Redis  *)
(* and memory decide alike, and Retry-After is long enough (rate-limit.ts,   *)
(* token-bucket.ts).                                                         *)
THEOREM LimitsAlwaysHold == LimiterSpec => []LimitsHold
<1>1. LimiterInv => LimitsHold
  BY DEF LimiterInv
<1> QED
  BY <1>1, SpecLimiter, PTL

-----------------------------------------------------------------------------
\* Admission: the invariant

Row == [content : {ContentOf[c] : c \in Clients}, key : Clients \cup {NoKey}, status : Statuses]
Requests(m) == [client : Clients, n : 1..MaxTries, pc : Steps, doc : 0..m, reply : Replies]

(* A request is of one try of a client, and a client that uploads the object *)
(* has none of its own.                                                      *)
Calls ==
    /\ \A r \in reqs : r.n <= tries[r.client]
    /\ \A r, q \in reqs : r.client = q.client /\ r.n = q.n => r = q
    /\ \A c \in Clients : progress[c] = "putting" => \A r \in reqs : r.client = c => r.n # tries[c]

(* Where a request is and what it holds agrees with what its client does.    *)
Creating(r) == r.pc \in {"find", "dup", "quota", "insert"} \/ r.reply \in {"created", "duplicate", "refused"}

Phase(r) ==
    /\ r.pc = "reply" <=> r.reply # "none"
    /\ r.pc = "reply" => Waits(r)
    /\ r.pc \in {"find", "dup", "insert"} => r.doc = 0
    /\ r.pc \in {"check", "complete"} => r.doc \in stored
    /\ r.reply \in {"created", "duplicate", "confirmed"} => r.doc \in DOMAIN docs
    /\ Waits(r) => IF Creating(r) THEN progress[r.client] = "creating"
                   ELSE progress[r.client] = "confirming" /\ r.doc = doc[r.client]

ClientPhase(c) ==
    /\ progress[c] \in Working => tries[c] # 0
    /\ progress[c] = "creating" => doc[c] = 0
    /\ progress[c] = "putting" => doc[c] \in DOMAIN docs
    /\ progress[c] = "confirming" => doc[c] \in stored

Phases == (\A c \in Clients : ClientPhase(c)) /\ \A r \in reqs : Phase(r)

(* A row is of the file its key names, and is stored when it is confirmed;   *)
(* requests and clients hold rows of their own file.                         *)
SoundRow(d) ==
    /\ docs[d].key # NoKey => docs[d].content = ContentOf[docs[d].key]
    /\ ~Pending(d) => d \in stored
    /\ \A e \in DOMAIN docs : docs[d].key = docs[e].key /\ docs[d].key # NoKey => d = e

Holds(r) ==
    /\ r.doc # 0 => docs[r.doc].content = ContentOf[r.client]
    /\ r.reply = "duplicate" => docs[r.doc].status = "ready"
    /\ r.reply = "confirmed" => ~Pending(r.doc)

ClientHolds(c) ==
    /\ progress[c] \in {"putting", "confirming", "done"} =>
          doc[c] \in DOMAIN docs /\ docs[doc[c]].content = ContentOf[c]
    /\ progress[c] = "done" => ~Pending(doc[c])

Rows ==
    /\ \A d \in DOMAIN docs : SoundRow(d)
    /\ \A r \in reqs : Holds(r)
    /\ \A c \in Clients : ClientHolds(c)

(* Rows that wait for an upload nobody is at work on, and requests that may  *)
(* still make such a row, are no more than the losses.                       *)
Tries == Clients \X (1..MaxTries)
Pair(r) == <<r.client, r.n>>

Secures(r) == Waits(r) /\ r.pc # "quota" /\ r.reply # "refused"
Secured(d) ==
    \/ \E r \in reqs : r.doc = d /\ Secures(r)
    \/ \E c \in Clients : progress[c] \in Working /\ doc[c] = d
Unsecured == {d \in DOMAIN docs : Pending(d) /\ ~Secured(d)}
Strays == {x \in Tries : \E r \in reqs : Pair(r) = x /\ ~Waits(r) /\ r.doc = 0}
Owed == Cardinality(Unsecured) + Cardinality(Strays) <= losses

(* What has passed the quota is counted, and weighed, as if it were inserted.*)
Inserts == {x \in Tries : \E r \in reqs : Pair(r) = x /\ r.pc = "insert"}
SizeFor(c) == SizeOf[ContentOf[c]]
Others == Cardinality(Clients) - 1 + losses
Counted == Len(docs) + Cardinality(Inserts) <= MaxDocuments + Others
Weighed ==
    /\ StorageBytes <= StorageQuota + Others * LargestFile
    /\ Inserts # {} =>
          \E x \in Inserts : StorageBytes + SizeFor(x[1]) + (Cardinality(Inserts) - 1) * LargestFile
                             <= StorageQuota + Others * LargestFile

AdmissionInv == AdmissionTypeOK /\ Calls /\ Phases /\ Rows /\ Owed /\ Counted /\ Weighed

-----------------------------------------------------------------------------
\* Induction over the naturals, and what the recursive sum is

(* The library's induction theorems are about operators; in terms of a set,  *)
(* induction follows from the order of the naturals being well founded.      *)
Less == {ss \in Nat \X Nat : ss[1] < ss[2]}

LEMMA LessWF == IsWellFoundedOn(Less, Nat)
BY NatLessThanWellFounded DEF OpToRel, Less

LEMMA SetInduction ==
  ASSUME NEW S, 0 \in S, \A n \in Nat : n \in S => n + 1 \in S
  PROVE  Nat \subseteq S
<1> SUFFICES ASSUME Nat \ S # {} PROVE FALSE
  OBVIOUS
<1>1. PICK x \in Nat \ S : \A y \in Nat \ S : ~ (<<y, x>> \in Less)
  <2>1. Nat \ S \subseteq Nat
    OBVIOUS
  <2> QED
    BY <2>1, LessWF, WFMin
<1>2. x # 0 /\ x - 1 \in Nat /\ <<x - 1, x>> \in Less
  BY <1>1 DEF Less
<1>3. x - 1 \in S
  BY <1>1, <1>2
<1>4. (x - 1) + 1 \in S
  BY <1>2, <1>3
<1> QED
  BY <1>1, <1>2, <1>4

(* The sums of the first rows, for sequences whose rows have a size. *)
Sums(f, table) ==
    /\ f \in [0..Len(table) -> Nat] /\ f[0] = 0
    /\ \A d \in 1..Len(table) : f[d] = f[d - 1] + SizeOf[table[d].content]

Adds(f, table) == f = [d \in 0..Len(table) |-> IF d = 0 THEN 0 ELSE f[d - 1] + SizeOf[table[d].content]]

Sized(table) == Len(table) \in Nat /\ \A d \in 1..Len(table) : SizeOf[table[d].content] \in Nat

LEMMA SumsExist ==
  ASSUME NEW table, Sized(table)
  PROVE  \E f : Sums(f, table)
<1> DEFINE Upto(n, f) == /\ f \in [0..n -> Nat] /\ f[0] = 0
                         /\ \A d \in 1..n : f[d] = f[d - 1] + SizeOf[table[d].content]
           Good == {n \in Nat : n <= Len(table) => \E f : Upto(n, f)}
<1>1. 0 \in Good
  <2> DEFINE z == [d \in 0..0 |-> 0]
  <2>1. Upto(0, z)
    OBVIOUS
  <2> QED
    BY <2>1
<1>2. ASSUME NEW n \in Nat, n \in Good PROVE n + 1 \in Good
  <2> SUFFICES ASSUME n + 1 <= Len(table) PROVE \E f : Upto(n + 1, f)
    <3> HIDE DEF Upto
    <3>1. n + 1 \in Nat
      OBVIOUS
    <3> QED
      BY <3>1
  <2>1. n <= Len(table)
    BY DEF Sized
  <2>2. PICK f : Upto(n, f)
    BY <1>2, <2>1
  <2> DEFINE k == SizeOf[table[n + 1].content]
             g == [d \in 0..(n + 1) |-> IF d = n + 1 THEN f[n] + k ELSE f[d]]
  <2>3. k \in Nat
    BY DEF Sized
  <2>4. g \in [0..(n + 1) -> Nat]
    BY <2>2, <2>3, SMTT(60)
  <2>5. g[0] = 0
    BY <2>2
  <2>6. ASSUME NEW d \in 1..(n + 1) PROVE g[d] = g[d - 1] + SizeOf[table[d].content]
    BY <2>2
  <2>7. Upto(n + 1, g)
    BY <2>4, <2>5, <2>6
  <2> QED
    BY <2>7
<1>3. Nat \subseteq Good
  <2> HIDE DEF Good
  <2> QED
    BY <1>1, <1>2, SetInduction
<1>4. Len(table) \in Good
  BY <1>3 DEF Sized
<1> QED
  BY <1>4, SMTT(60) DEF Sums

LEMMA SumsAgree ==
  ASSUME NEW s, NEW t, NEW f, NEW g, Sums(f, s), Sums(g, t), Len(s) \in Nat, Len(t) \in Nat,
         NEW m \in Nat, m <= Len(s), m <= Len(t),
         \A d \in 1..m : SizeOf[s[d].content] = SizeOf[t[d].content]
  PROVE  f[m] = g[m]
<1> DEFINE Good == {n \in Nat : n <= m => f[n] = g[n]}
<1>1. 0 \in Good
  BY DEF Sums
<1>2. ASSUME NEW n \in Nat, n \in Good PROVE n + 1 \in Good
  <2> SUFFICES ASSUME n + 1 <= m PROVE f[n + 1] = g[n + 1]
    OBVIOUS
  <2>1. f[n] = g[n]
    BY <1>2
  <2>2. n + 1 \in 1..Len(s) /\ n + 1 \in 1..Len(t) /\ n + 1 \in 1..m /\ (n + 1) - 1 = n
    OBVIOUS
  <2>3. f[n + 1] = f[n] + SizeOf[s[n + 1].content]
    BY <2>2 DEF Sums
  <2>4. g[n + 1] = g[n] + SizeOf[t[n + 1].content]
    BY <2>2 DEF Sums
  <2> QED
    BY <2>1, <2>2, <2>3, <2>4
<1>3. Nat \subseteq Good
  <2> HIDE DEF Good
  <2> QED
    BY <1>1, <1>2, SetInduction
<1>4. m \in Good
  BY <1>3
<1> QED
  BY <1>4

(* What the model's recursive definition computes. *)
LEMMA TotalIsSum ==
  ASSUME NEW table, Sized(table)
  PROVE  \E f : Sums(f, table) /\ TotalSize(table) = f[Len(table)]
<1> DEFINE theSum == CHOOSE f : Adds(f, table)
<1>1. TotalSize(table) = theSum[Len(table)]
  BY DEF TotalSize, Adds
<1>2. PICK h : Sums(h, table)
  BY SumsExist
<1>3. Adds(h, table)
  <2>1. DOMAIN h = 0..Len(table)
    BY <1>2 DEF Sums
  <2>2. ASSUME NEW d \in 0..Len(table) PROVE h[d] = IF d = 0 THEN 0 ELSE h[d - 1] + SizeOf[table[d].content]
    BY <1>2 DEF Sums, Sized
  <2>3. h = [d \in 0..Len(table) |-> h[d]]
    BY <1>2 DEF Sums
  <2> QED
    BY <2>2, <2>3 DEF Adds
<1>4. Adds(theSum, table)
  BY <1>3
<1> HIDE DEF theSum
<1>5. Sums(theSum, table)
  <2>1. \A d \in 0..Len(table) : theSum[d] = IF d = 0 THEN 0 ELSE theSum[d - 1] + SizeOf[table[d].content]
    BY <1>4 DEF Adds
  <2>2. DOMAIN theSum = 0..Len(table)
    BY <1>4 DEF Adds
  <2> DEFINE Good == {n \in Nat : n <= Len(table) => theSum[n] \in Nat}
  <2>3. 0 \in Good
    BY <2>1 DEF Sized
  <2>4. ASSUME NEW n \in Nat, n \in Good PROVE n + 1 \in Good
    <3> SUFFICES ASSUME n + 1 <= Len(table) PROVE theSum[n + 1] \in Nat
      OBVIOUS
    <3>1. theSum[n + 1] = theSum[n] + SizeOf[table[n + 1].content]
      BY <2>1, SMTT(60) DEF Sized
    <3>2. SizeOf[table[n + 1].content] \in Nat /\ theSum[n] \in Nat
      BY <2>4 DEF Sized
    <3> QED
      BY <3>1, <3>2
  <2>5. Nat \subseteq Good
    <3> HIDE DEF Good
    <3> QED
      BY <2>3, <2>4, SetInduction
  <2>6. \A d \in 0..Len(table) : theSum[d] \in Nat
    BY <2>5
  <2>7. theSum \in [0..Len(table) -> Nat]
    <3>1. theSum = [d \in 0..Len(table) |-> theSum[d]]
      BY <1>4 DEF Adds
    <3> QED
      BY <2>6, <3>1
  <2> QED
    BY <2>1, <2>7 DEF Sums, Sized
<1> QED
  BY <1>1, <1>5

LEMMA TotalIsNat ==
  ASSUME NEW table, Sized(table)
  PROVE  TotalSize(table) \in Nat
BY TotalIsSum DEF Sums, Sized

LEMMA TotalOfNone == TotalSize(<<>>) = 0
<1>1. Sized(<<>>)
  BY DEF Sized
<1> QED
  BY <1>1, TotalIsSum DEF Sums

(* A row that is added adds its size; rows of the same sizes have the same   *)
(* total.                                                                    *)
LEMMA TotalOfSame ==
  ASSUME NEW s, NEW t, Sized(s), Len(t) = Len(s), \A d \in 1..Len(s) : t[d].content = s[d].content
  PROVE  TotalSize(t) = TotalSize(s)
<1>1. Sized(t)
  BY DEF Sized
<1>2. PICK f : Sums(f, s) /\ TotalSize(s) = f[Len(s)]
  BY TotalIsSum
<1>3. PICK g : Sums(g, t) /\ TotalSize(t) = g[Len(t)]
  BY <1>1, TotalIsSum
<1>4. f[Len(s)] = g[Len(s)]
  <2>1. \A d \in 1..Len(s) : SizeOf[s[d].content] = SizeOf[t[d].content]
    OBVIOUS
  <2>2. Len(s) \in Nat /\ Len(t) \in Nat /\ Len(s) <= Len(s) /\ Len(s) <= Len(t)
    BY DEF Sized
  <2> QED
    BY <1>2, <1>3, <2>1, <2>2, SumsAgree
<1> QED
  BY <1>2, <1>3, <1>4

LEMMA TotalOfMore ==
  ASSUME NEW R, NEW s \in Seq(R), Sized(s), NEW row \in R, SizeOf[row.content] \in Nat
  PROVE  TotalSize(Append(s, row)) = TotalSize(s) + SizeOf[row.content]
<1> DEFINE t == Append(s, row)
<1>1. /\ Len(t) = Len(s) + 1 /\ t[Len(s) + 1] = row /\ Len(s) \in Nat
      /\ \A d \in 1..Len(s) : t[d] = s[d]
  BY AppendProperties DEF Sized
<1> HIDE DEF t
<1>2. Sized(t)
  BY <1>1 DEF Sized
<1>3. PICK f : Sums(f, s) /\ TotalSize(s) = f[Len(s)]
  BY TotalIsSum
<1>4. PICK g : Sums(g, t) /\ TotalSize(t) = g[Len(t)]
  BY <1>2, TotalIsSum
<1>5. f[Len(s)] = g[Len(s)]
  <2>1. \A d \in 1..Len(s) : SizeOf[s[d].content] = SizeOf[t[d].content]
    BY <1>1
  <2>2. Len(s) \in Nat /\ Len(t) \in Nat /\ Len(s) <= Len(s) /\ Len(s) <= Len(t)
    BY <1>1
  <2> QED
    BY <1>3, <1>4, <2>1, <2>2, SumsAgree
<1>6. g[Len(s) + 1] = g[Len(s)] + SizeOf[t[Len(s) + 1].content]
  <2>1. Len(s) + 1 \in 1..Len(t) /\ (Len(s) + 1) - 1 = Len(s)
    BY <1>1
  <2> QED
    BY <1>4, <2>1 DEF Sums
<1> QED
  BY <1>1, <1>3, <1>4, <1>5, <1>6 DEF t
-----------------------------------------------------------------------------
\* Counting

LEMMA OneMore ==
  ASSUME NEW A, NEW x, IsFiniteSet(A)
  PROVE  /\ IsFiniteSet(A \cup {x}) /\ Cardinality(A) \in Nat /\ Cardinality(A \cup {x}) \in Nat
         /\ Cardinality(A \cup {x}) <= Cardinality(A) + 1
<1>1. /\ IsFiniteSet(A \cup {x})
      /\ Cardinality(A \cup {x}) = Cardinality(A) \/ Cardinality(A \cup {x}) = Cardinality(A) + 1
  BY FS_AddElement, Zenon
<1>2. Cardinality(A) \in Nat
  BY FS_CardinalityType
<1> QED
  BY <1>1, <1>2

LEMMA NoMore ==
  ASSUME NEW A, NEW B, IsFiniteSet(A), B \subseteq A
  PROVE  IsFiniteSet(B) /\ Cardinality(A) \in Nat /\ Cardinality(B) \in Nat /\ Cardinality(B) <= Cardinality(A)
BY FS_Subset, FS_CardinalityType

LEMMA OneLess ==
  ASSUME NEW A, NEW x \in A, NEW B, IsFiniteSet(A), B \subseteq A \ {x}
  PROVE  Cardinality(A) \in Nat /\ Cardinality(B) \in Nat /\ Cardinality(B) <= Cardinality(A) - 1
<1>1. IsFiniteSet(A \ {x}) /\ Cardinality(A \ {x}) = Cardinality(A) - 1
  BY FS_RemoveElement
<1> QED
  BY <1>1, NoMore, FS_CardinalityType

(* The largest of a finite set of numbers.                                   *)
LEMMA LargestExists ==
  ASSUME NEW S, S \subseteq Nat, IsFiniteSet(S), S # {}
  PROVE  \E m \in S : \A x \in S : x <= m
<1> DEFINE Good == {n \in Nat : \A T \in SUBSET S : Cardinality(T) = n + 1 => \E m \in T : \A x \in T : x <= m}
<1>1. 0 \in Good
  <2> SUFFICES ASSUME NEW T \in SUBSET S, Cardinality(T) = 1 PROVE \E m \in T : \A x \in T : x <= m
    OBVIOUS
  <2>1. PICK m : T = {m}
    BY FS_Subset, FS_Singleton
  <2> QED
    BY <2>1
<1>2. ASSUME NEW n \in Nat, n \in Good PROVE n + 1 \in Good
  <2> SUFFICES ASSUME NEW T \in SUBSET S, Cardinality(T) = n + 1 + 1 PROVE \E m \in T : \A x \in T : x <= m
    OBVIOUS
  <2>1. IsFiniteSet(T)
    BY FS_Subset
  <2>2. PICK y : y \in T
    BY <2>1, FS_EmptySet
  <2>3. Cardinality(T \ {y}) = n + 1
    <3>1. Cardinality(T \ {y}) = Cardinality(T) - 1
      BY <2>1, <2>2, FS_RemoveElement
    <3> QED
      BY <3>1
  <2>4. PICK m \in T \ {y} : \A x \in T \ {y} : x <= m
    BY <1>2, <2>3
  <2>5. CASE y <= m
    BY <2>4, <2>5
  <2>6. CASE m <= y
    BY <2>2, <2>4, <2>6
  <2> QED
    BY <2>2, <2>4, <2>5, <2>6
<1>3. Nat \subseteq Good
  <2> HIDE DEF Good
  <2> QED
    BY <1>1, <1>2, SetInduction
<1>4. PICK n \in Nat : Cardinality(S) = n + 1
  <2>1. Cardinality(S) \in Nat /\ Cardinality(S) # 0
    BY FS_CardinalityType, FS_EmptySet
  <2>2. Cardinality(S) - 1 \in Nat /\ Cardinality(S) = (Cardinality(S) - 1) + 1
    BY <2>1
  <2> QED
    BY <2>2
<1>5. n \in Good
  BY <1>3
<1> QED
  BY <1>4, <1>5

LEMMA LargestIs == LargestFile \in Nat /\ \A c \in Clients : SizeFor(c) \in Nat /\ SizeFor(c) <= LargestFile
<1> DEFINE S == {SizeOf[ContentOf[c]] : c \in Clients}
<1>1. IsFiniteSet(S)
  <2> DEFINE f == [c \in Clients |-> SizeOf[ContentOf[c]]]
  <2>1. f \in Surjection(Clients, S)
    BY DEF Surjection
  <2> HIDE DEF f
  <2> QED
    BY <2>1, AdmissionAssumption, FS_Surjection
<1>2. S \subseteq Nat /\ S # {}
  BY AdmissionAssumption
<1>3. PICK m \in S : \A x \in S : x <= m
  <2> HIDE DEF S
  <2> QED
    BY <1>1, <1>2, LargestExists
<1>4. \E s \in S : \A c \in Clients : SizeOf[ContentOf[c]] <= s
  BY <1>3
<1>5. LargestFile \in S /\ \A c \in Clients : SizeOf[ContentOf[c]] <= LargestFile
  BY <1>4 DEF LargestFile
<1> QED
  BY <1>2, <1>5, AdmissionAssumption DEF SizeFor

(* What the state's type says of rows, requests and clients. *)
LEMMA Types ==
  ASSUME AdmissionTypeOK
  PROVE  /\ docs \in Seq(Row) /\ Len(docs) \in Nat /\ DOMAIN docs = 1..Len(docs)
         /\ \A d \in DOMAIN docs : docs[d] \in Row
         /\ reqs \subseteq Requests(Len(docs)) /\ stored \subseteq DOMAIN docs
         /\ losses \in Nat /\ Cardinality(Clients) \in Nat /\ Cardinality(Clients) # 0
         /\ Sized(docs) /\ StorageBytes \in Nat
<1>1. docs \in Seq(Row) /\ reqs \subseteq Requests(Len(docs))
  BY DEF AdmissionTypeOK, Row, Requests
<1>2. Len(docs) \in Nat /\ DOMAIN docs = 1..Len(docs) /\ \A d \in DOMAIN docs : docs[d] \in Row
  BY <1>1, ElementOfSeq
<1>3. Cardinality(Clients) \in Nat /\ Cardinality(Clients) # 0
  BY AdmissionAssumption, FS_CardinalityType, FS_EmptySet
<1>4. Sized(docs)
  BY <1>2, AdmissionAssumption DEF Sized, Row
<1>5. StorageBytes \in Nat
  BY <1>4, TotalIsNat DEF StorageBytes
<1>6. losses \in Nat /\ stored \subseteq DOMAIN docs
  BY AdmissionAssumption DEF AdmissionTypeOK
<1> QED
  BY <1>1, <1>2, <1>3, <1>4, <1>5, <1>6

LEMMA PairsFinite == /\ IsFiniteSet(Tries) /\ IsFiniteSet(Strays) /\ IsFiniteSet(Inserts)
                     /\ IsFiniteSet(Strays') /\ IsFiniteSet(Inserts')
<1>1. IsFiniteSet(Tries)
  <2>1. IsFiniteSet(1..MaxTries) /\ IsFiniteSet(Clients)
    BY AdmissionAssumption, FS_Interval
  <2> QED
    BY <2>1, FS_Product DEF Tries
<1>2. Strays \subseteq Tries /\ Inserts \subseteq Tries /\ Strays' \subseteq Tries /\ Inserts' \subseteq Tries
  BY DEF Strays, Inserts
<1> QED
  BY <1>1, <1>2, FS_Subset

LEMMA RowsFinite ==
  ASSUME AdmissionTypeOK
  PROVE  IsFiniteSet(Unsecured)
<1>1. Unsecured \subseteq 1..Len(docs) /\ Len(docs) \in Nat
  BY Types DEF Unsecured
<1>2. IsFiniteSet(1..Len(docs))
  BY <1>1, FS_Interval
<1> QED
  BY <1>1, <1>2, FS_Subset

(* The budget is kept when nothing is left that was not; when a loss leaves  *)
(* one thing more; and when a stray request leaves its row.                  *)
LEMMA OwedKept ==
  ASSUME AdmissionTypeOK, Owed, losses' = losses, Unsecured' \subseteq Unsecured, Strays' \subseteq Strays
  PROVE  Owed'
BY RowsFinite, PairsFinite, NoMore, Types, SMTT(60) DEF Owed

LEMMA OwedLost ==
  ASSUME AdmissionTypeOK, Owed, losses' = losses + 1, NEW x,
         \/ Unsecured' \subseteq Unsecured \cup {x} /\ Strays' \subseteq Strays
         \/ Unsecured' \subseteq Unsecured /\ Strays' \subseteq Strays \cup {x}
  PROVE  Owed'
<1>1. /\ IsFiniteSet(Unsecured) /\ IsFiniteSet(Strays) /\ losses \in Nat
      /\ Cardinality(Unsecured) + Cardinality(Strays) <= losses
  BY RowsFinite, PairsFinite, Types DEF Owed
<1>2. CASE Unsecured' \subseteq Unsecured \cup {x} /\ Strays' \subseteq Strays
  <2>1. /\ IsFiniteSet(Unsecured \cup {x}) /\ Cardinality(Unsecured) \in Nat
        /\ Cardinality(Unsecured \cup {x}) <= Cardinality(Unsecured) + 1
    BY <1>1, OneMore
  <2>2. Cardinality(Unsecured') \in Nat /\ Cardinality(Unsecured') <= Cardinality(Unsecured) + 1
    BY <1>2, <2>1, NoMore
  <2>3. Cardinality(Strays') \in Nat /\ Cardinality(Strays) \in Nat /\ Cardinality(Strays') <= Cardinality(Strays)
    BY <1>1, <1>2, NoMore
  <2> QED
    BY <1>1, <2>1, <2>2, <2>3 DEF Owed
<1>3. CASE Unsecured' \subseteq Unsecured /\ Strays' \subseteq Strays \cup {x}
  <2>1. /\ IsFiniteSet(Strays \cup {x}) /\ Cardinality(Strays) \in Nat
        /\ Cardinality(Strays \cup {x}) <= Cardinality(Strays) + 1
    BY <1>1, OneMore
  <2>2. Cardinality(Strays') \in Nat /\ Cardinality(Strays') <= Cardinality(Strays) + 1
    BY <1>3, <2>1, NoMore
  <2>3. /\ Cardinality(Unsecured') \in Nat /\ Cardinality(Unsecured) \in Nat
        /\ Cardinality(Unsecured') <= Cardinality(Unsecured)
    BY <1>1, <1>3, NoMore
  <2> QED
    BY <1>1, <2>1, <2>2, <2>3 DEF Owed
<1> QED
  BY <1>2, <1>3

LEMMA OwedMoved ==
  ASSUME AdmissionTypeOK, Owed, losses' = losses, NEW x, NEW y \in Strays,
         Unsecured' \subseteq Unsecured \cup {x}, Strays' \subseteq Strays \ {y}
  PROVE  Owed'
<1>1. /\ IsFiniteSet(Unsecured) /\ IsFiniteSet(Strays) /\ losses \in Nat
      /\ Cardinality(Unsecured) + Cardinality(Strays) <= losses
  BY RowsFinite, PairsFinite, Types DEF Owed
<1>2. /\ IsFiniteSet(Unsecured \cup {x}) /\ Cardinality(Unsecured) \in Nat
      /\ Cardinality(Unsecured \cup {x}) <= Cardinality(Unsecured) + 1
  BY <1>1, OneMore
<1>3. Cardinality(Unsecured') \in Nat /\ Cardinality(Unsecured') <= Cardinality(Unsecured) + 1
  BY <1>2, NoMore
<1>4. Cardinality(Strays') \in Nat /\ Cardinality(Strays) \in Nat /\ Cardinality(Strays') <= Cardinality(Strays) - 1
  BY <1>1, OneLess
<1> QED
  BY <1>1, <1>2, <1>3, <1>4 DEF Owed

LEMMA Products ==
  ASSUME NEW a \in Nat, NEW b \in Nat, a <= b, NEW l \in Nat
  PROVE  /\ a * l \in Nat /\ b * l \in Nat /\ a * l <= b * l
         /\ (a + 1) * l = a * l + l /\ (b + 1) * l = b * l + l
OBVIOUS

(* A request that leaves, and a loss, only make more room.                   *)
LEMMA RoomKept ==
  ASSUME AdmissionTypeOK, Counted, Weighed, Inserts' \subseteq Inserts, Len(docs') = Len(docs),
         StorageBytes' = StorageBytes, losses' \in Nat, losses <= losses'
  PROVE  Counted' /\ Weighed'
<1> DEFINE k == Cardinality(Inserts)
           k2 == Cardinality(Inserts')
           l == LargestFile
           o == Others
           o2 == Cardinality(Clients) - 1 + losses'
           b == StorageBytes
<1>1. /\ l \in Nat /\ k \in Nat /\ k2 \in Nat /\ k2 <= k /\ o \in Nat /\ o2 \in Nat /\ o <= o2 /\ b \in Nat
      /\ MaxDocuments \in Nat /\ StorageQuota \in Nat /\ Len(docs) \in Nat
  BY LargestIs, PairsFinite, NoMore, Types, AdmissionAssumption DEF Others
<1>2. o * l <= o2 * l /\ o * l \in Nat /\ o2 * l \in Nat
  BY <1>1, Products
<1>3. Others' = o2
  BY DEF Others
<1>4. Counted'
  <2>1. Len(docs) + k <= MaxDocuments + o
    BY DEF Counted
  <2>2. Len(docs) + k2 <= MaxDocuments + o2
    BY <1>1, <2>1
  <2> QED
    BY <1>3, <2>2 DEF Counted
<1>5. ASSUME Inserts' # {}
      PROVE \E y \in Inserts' : b + SizeFor(y[1]) + (k2 - 1) * l <= StorageQuota + o2 * l
  <2>0. Inserts # {}
    BY <1>5
  <2>1. PICK x \in Inserts : b + SizeFor(x[1]) + (k - 1) * l <= StorageQuota + o * l
    BY <2>0 DEF Weighed
  <2>2. x[1] \in Clients
    BY DEF Inserts, Tries
  <2>3. SizeFor(x[1]) \in Nat
    BY <2>2, LargestIs
  <2>4. k2 # 0
    BY <1>5, PairsFinite, FS_EmptySet
  <2>5. CASE x \in Inserts'
    <3>1. k2 - 1 \in Nat /\ k - 1 \in Nat /\ k2 - 1 <= k - 1
      BY <1>1, <2>4
    <3>2. (k2 - 1) * l <= (k - 1) * l /\ (k2 - 1) * l \in Nat /\ (k - 1) * l \in Nat
      BY <1>1, <3>1, Products
    <3> DEFINE p == (k - 1) * l
               p2 == (k2 - 1) * l
               room == o * l
               room2 == o2 * l
    <3>4. /\ p \in Nat /\ p2 \in Nat /\ p2 <= p /\ room \in Nat /\ room2 \in Nat /\ room <= room2
          /\ b + SizeFor(x[1]) + p <= StorageQuota + room
      BY <1>2, <2>1, <3>2
    <3> HIDE DEF k, k2, l, o, o2, b, p, p2, room, room2
    <3>3. b + SizeFor(x[1]) + p2 <= StorageQuota + room2
      BY <1>1, <2>3, <3>4, SMTT(60)
    <3> QED
      BY <2>5, <3>3 DEF k, k2, l, o, o2, b, p2, room2
  <2>6. CASE x \notin Inserts'
    <3>1. PICK y : y \in Inserts'
      BY <1>5
    <3>2. SizeFor(y[1]) \in Nat /\ SizeFor(y[1]) <= l
      <4>1. y[1] \in Clients
        BY <3>1 DEF Inserts, Tries
      <4> QED
        BY <4>1, LargestIs
    <3>3. k2 <= k - 1
      BY <2>6, PairsFinite, OneLess
    <3>4. k2 - 1 \in Nat /\ k - 2 \in Nat /\ k2 - 1 <= k - 2 /\ k - 1 = (k - 2) + 1
      BY <1>1, <2>4, <3>3, SMTT(60)
    <3> HIDE DEF k, k2, l, o, o2, b
    <3>5. (k2 - 1) * l <= (k - 2) * l /\ (k - 1) * l = (k - 2) * l + l /\ (k2 - 1) * l \in Nat /\ (k - 2) * l \in Nat
      BY <1>1, <3>4, Products
    <3>6. PICK mine \in Nat, theirs \in Nat, all \in Nat, all2 \in Nat :
             mine = (k2 - 1) * l /\ theirs = (k - 2) * l /\ all = o * l /\ all2 = o2 * l
      BY <1>2, <3>5
    <3>7. mine <= theirs /\ all <= all2 /\ b + SizeFor(x[1]) + (theirs + l) <= StorageQuota + all
      BY <1>2, <2>1, <3>5, <3>6
    <3>8. b + SizeFor(y[1]) + mine <= StorageQuota + all2
      <4>1. PICK sx \in Nat, sy \in Nat, most \in Nat, table \in Nat, quota \in Nat :
               sx = SizeFor(x[1]) /\ sy = SizeFor(y[1]) /\ most = l /\ table = b /\ quota = StorageQuota
        BY <1>1, <2>3, <3>2
      <4>2. sy <= most /\ mine <= theirs /\ all <= all2 /\ table + sx + (theirs + most) <= quota + all
        BY <3>2, <3>7, <4>1
      <4>3. table + sy + mine <= quota + all2
        BY ONLY <4>2
      <4> QED
        BY <4>1, <4>3
    <3> QED
      BY <3>1, <3>6, <3>8
  <2> QED
    BY <2>5, <2>6
<1>6. b <= StorageQuota + o2 * l
  <2>1. b <= StorageQuota + o * l
    BY DEF Weighed
  <2> HIDE DEF k, k2, l, o, o2, b
  <2> QED
    BY <1>1, <1>2, <2>1
<1>7. LargestFile' = l /\ StorageQuota' = StorageQuota /\ \A c : SizeFor(c)' = SizeFor(c)
  BY DEF LargestFile, SizeFor
<1> QED
  BY <1>3, <1>4, <1>5, <1>6, <1>7 DEF Weighed

(* Requests that have passed the quota are of a client that waits, each of   *)
(* one of them, or stray.                                                    *)
LEMMA InsertsFew ==
  ASSUME AdmissionTypeOK, Owed, Phases, NEW x \in Tries,
         x[2] = tries[x[1]] \/ x \in Strays, Inserts' \subseteq Inserts \cup {x}
  PROVE  Cardinality(Inserts') \in Nat /\ Cardinality(Inserts') <= Cardinality(Clients) + losses
<1> DEFINE W == {<<c, tries[c]>> : c \in Clients}
<1>1. IsFiniteSet(W) /\ Cardinality(W) <= Cardinality(Clients)
  <2> DEFINE f == [c \in Clients |-> <<c, tries[c]>>]
  <2>1. f \in Surjection(Clients, W)
    BY DEF Surjection
  <2> HIDE DEF f, W
  <2> QED
    BY <2>1, AdmissionAssumption, FS_Surjection
<1>2. Inserts \subseteq W \cup Strays
  <2> SUFFICES ASSUME NEW y \in Inserts, y \notin Strays PROVE y \in W
    OBVIOUS
  <2>1. PICK r \in reqs : Pair(r) = y /\ r.pc = "insert"
    BY DEF Inserts
  <2>2. r.doc = 0 /\ y \in Tries
    BY <2>1 DEF Phases, Phase, Inserts
  <2>3. Waits(r)
    BY <2>1, <2>2 DEF Strays
  <2>4. y = <<r.client, tries[r.client]>> /\ y[1] = r.client /\ y[1] \in Clients
    BY <2>1, <2>2, <2>3 DEF Waits, Pair, Tries
  <2> QED
    BY <2>4
<1>3. x \in W \cup Strays
  <2>1. x = <<x[1], x[2]>> /\ x[1] \in Clients
    BY DEF Tries
  <2> QED
    BY <2>1
<1>4. Inserts' \subseteq W \cup Strays
  BY <1>2, <1>3
<1> HIDE DEF W
<1>5. /\ IsFiniteSet(W \cup Strays)
      /\ Cardinality(W \cup Strays) = Cardinality(W) + Cardinality(Strays) - Cardinality(W \cap Strays)
  BY <1>1, PairsFinite, FS_Union
<1>6. IsFiniteSet(W \cap Strays)
  BY <1>1, FS_Intersection
<1>7. /\ Cardinality(W \cap Strays) \in Nat /\ Cardinality(W) \in Nat /\ Cardinality(Strays) \in Nat
      /\ Cardinality(Unsecured) \in Nat
  BY <1>1, <1>6, PairsFinite, RowsFinite, FS_CardinalityType
<1>8. Cardinality(Inserts') \in Nat /\ Cardinality(Inserts') <= Cardinality(W \cup Strays)
  BY <1>4, <1>5, NoMore
<1>9. Cardinality(Unsecured) + Cardinality(Strays) <= losses /\ losses \in Nat /\ Cardinality(Clients) \in Nat
  BY Types DEF Owed
<1> QED
  BY <1>1, <1>5, <1>7, <1>8, <1>9

LEMMA RoomMade ==
  ASSUME AdmissionTypeOK, Owed, Phases, NEW x \in Tries,
         x[2] = tries[x[1]] \/ x \in Strays, Inserts' \subseteq Inserts \cup {x}, x \in Inserts',
         docs' = docs, losses' = losses, Len(docs) < MaxDocuments,
         StorageBytes + SizeFor(x[1]) <= StorageQuota
  PROVE  Counted' /\ Weighed'
<1> DEFINE k2 == Cardinality(Inserts')
           n == Cardinality(Clients)
           l == LargestFile
           b == StorageBytes
           s == SizeFor(x[1])
           m == (k2 - 1) * l
           w == Others * l
<1>1. k2 \in Nat /\ k2 <= n + losses
  BY InsertsFew
<1>2. k2 # 0
  BY PairsFinite, FS_EmptySet
<1>3. /\ l \in Nat /\ n \in Nat /\ n # 0 /\ losses \in Nat /\ b \in Nat /\ s \in Nat /\ Len(docs) \in Nat
      /\ MaxDocuments \in Nat /\ StorageQuota \in Nat
  <2>1. x[1] \in Clients
    BY DEF Tries
  <2> QED
    BY <2>1, LargestIs, Types, AdmissionAssumption
<1>4. Others' = Others /\ StorageBytes' = b /\ LargestFile' = l /\ \A c : SizeFor(c)' = SizeFor(c)
  BY DEF Others, StorageBytes, LargestFile, SizeFor
<1>5. k2 - 1 \in Nat /\ Others \in Nat /\ k2 - 1 <= Others /\ Others = n - 1 + losses
  BY <1>1, <1>2, <1>3, SMTT(60) DEF Others
<1>6. m <= w /\ m \in Nat /\ w \in Nat
  BY <1>3, <1>5, Products
<1>7. b + s + m <= StorageQuota + w /\ b <= StorageQuota + w
  <2> HIDE DEF m, w, b, s
  <2> QED
    BY <1>3, <1>6 DEF b, s
<1>8. Len(docs) + k2 <= MaxDocuments + Others
  BY <1>1, <1>3, <1>5, SMTT(60)
<1> QED
  BY <1>4, <1>7, <1>8 DEF Counted, Weighed

(* The request that inserts takes the room that was kept for it, and leaves  *)
(* the others theirs.                                                        *)
LEMMA RoomTaken ==
  ASSUME AdmissionTypeOK, Counted, Weighed, NEW z \in Inserts, Inserts' \subseteq Inserts \ {z},
         Len(docs') = Len(docs) + 1, StorageBytes' = StorageBytes + SizeFor(z[1]), losses' = losses
  PROVE  Counted' /\ Weighed'
<1> DEFINE k == Cardinality(Inserts)
           k2 == Cardinality(Inserts')
           l == LargestFile
           o == Others
           b == StorageBytes
           s == SizeFor(z[1])
           w == o * l
<1>1. k \in Nat /\ k2 \in Nat /\ k2 <= k - 1
  BY PairsFinite, OneLess
<1>2. /\ l \in Nat /\ o \in Nat /\ b \in Nat /\ s \in Nat /\ s <= l /\ Len(docs) \in Nat
      /\ MaxDocuments \in Nat /\ StorageQuota \in Nat
  <2>1. z[1] \in Clients
    BY DEF Inserts, Tries
  <2> QED
    BY <2>1, LargestIs, Types, AdmissionAssumption, SMTT(60) DEF Others
<1>3. Others' = o /\ LargestFile' = l /\ \A c : SizeFor(c)' = SizeFor(c)
  BY DEF Others, LargestFile, SizeFor
<1>4. PICK x \in Inserts : b + SizeFor(x[1]) + (k - 1) * l <= StorageQuota + w
  BY DEF Weighed
<1>5. SizeFor(x[1]) \in Nat /\ SizeFor(x[1]) <= l
  <2>1. x[1] \in Clients
    BY DEF Inserts, Tries
  <2> QED
    BY <2>1, LargestIs
<1>6. w \in Nat
  BY <1>2
<1>7. Counted'
  <2>1. Len(docs) + k <= MaxDocuments + o
    BY DEF Counted
  <2>2. Len(docs) + 1 + k2 <= MaxDocuments + o
    BY <1>1, <1>2, <2>1, SMTT(60)
  <2> QED
    BY <1>3, <2>2 DEF Counted
<1>8. CASE Inserts' = {}
  <2>1. b + s <= StorageQuota + w
    <3>1. k - 1 \in Nat
      BY <1>1
    <3>2. (k - 1) * l \in Nat
      BY <1>2, <3>1
    <3>3. CASE x = z
      <4> HIDE DEF k, l, o, b, w
      <4> QED
        BY <1>2, <1>4, <1>6, <3>2, <3>3
    <3>4. CASE x # z
      <4>1. Inserts \ {z} # {} /\ IsFiniteSet(Inserts \ {z}) /\ Cardinality(Inserts \ {z}) = k - 1
        BY <3>4, PairsFinite, FS_RemoveElement
      <4>2. k - 1 # 0
        BY <4>1, FS_EmptySet
      <4> HIDE DEF k, l, o, b, w, s
      <4>3. k - 2 \in Nat /\ k - 1 = (k - 2) + 1
        BY <1>1, <3>1, <4>2
      <4>4. (k - 1) * l = (k - 2) * l + l /\ (k - 2) * l \in Nat
        BY <1>2, <4>3, Products, SMTT(60)
      <4> QED
        BY <1>2, <1>4, <1>5, <1>6, <4>4, SMTT(60)
    <3> QED
      BY <3>3, <3>4
  <2> QED
    BY <1>3, <1>7, <1>8, <2>1 DEF Weighed
<1>9. CASE Inserts' # {}
  <2>1. k2 # 0
    BY <1>9, PairsFinite, FS_EmptySet
  <2>2. k2 - 1 \in Nat /\ k - 2 \in Nat /\ k2 - 1 <= k - 2 /\ k - 1 = (k - 2) + 1
    BY <1>1, <2>1
  <2>3. (k2 - 1) * l <= (k - 2) * l /\ (k - 1) * l = (k - 2) * l + l /\ (k2 - 1) * l \in Nat /\ (k - 2) * l \in Nat
    BY <1>2, <2>2, Products, SMTT(60)
  <2>4. \E y \in Inserts' : b + s + SizeFor(y[1]) + (k2 - 1) * l <= StorageQuota + w
    <3>1. CASE x \in Inserts'
      <4> HIDE DEF k, k2, l, o, b, w, s
      <4>1. b + s + SizeFor(x[1]) + (k2 - 1) * l <= StorageQuota + w
        BY <1>2, <1>4, <1>5, <1>6, <2>3, SMTT(60)
      <4> QED
        BY <3>1, <4>1
    <3>2. CASE x = z
      <4>1. PICK y : y \in Inserts'
        BY <1>9
      <4>2. SizeFor(y[1]) \in Nat /\ SizeFor(y[1]) <= l
        <5>1. y[1] \in Clients
          BY <4>1 DEF Inserts, Tries
        <5> QED
          BY <5>1, LargestIs
      <4>3. SizeFor(x[1]) = s
        BY <3>2
      <4> HIDE DEF k, k2, l, o, b, w, s
      <4>4. b + s + SizeFor(y[1]) + (k2 - 1) * l <= StorageQuota + w
        BY <1>2, <1>4, <1>6, <2>3, <4>2, <4>3, SMTT(60)
      <4> QED
        BY <4>1, <4>4
    <3>3. CASE x \notin Inserts' /\ x # z
      <4>1. PICK y : y \in Inserts'
        BY <1>9
      <4>2. SizeFor(y[1]) \in Nat /\ SizeFor(y[1]) <= l
        <5>1. y[1] \in Clients
          BY <4>1 DEF Inserts, Tries
        <5> QED
          BY <5>1, LargestIs
      <4>3. k2 <= k - 2
        <5>1. Inserts' \subseteq (Inserts \ {z}) \ {x} /\ x \in Inserts \ {z}
          BY <3>3
        <5>2. IsFiniteSet(Inserts \ {z}) /\ Cardinality(Inserts \ {z}) = k - 1
          BY PairsFinite, FS_RemoveElement
        <5>3. k2 <= Cardinality(Inserts \ {z}) - 1
          BY <5>1, <5>2, OneLess
        <5> QED
          BY <1>1, <5>2, <5>3
      <4>4. k - 3 \in Nat /\ k2 - 1 <= k - 3 /\ k - 2 = (k - 3) + 1
        BY <1>1, <2>1, <2>2, <4>3, SMTT(60)
      <4> HIDE DEF k, k2, l, o, b, w, s
      <4>5. (k2 - 1) * l <= (k - 3) * l /\ (k - 2) * l = (k - 3) * l + l /\ (k - 3) * l \in Nat
        BY <1>2, <2>2, <4>4, Products, SMTT(60)
      <4>6. PICK mine \in Nat, theirs \in Nat : mine = (k2 - 1) * l /\ theirs = (k - 3) * l
        BY <2>3, <4>5
      <4>7. mine <= theirs /\ b + SizeFor(x[1]) + ((theirs + l) + l) <= StorageQuota + w
        BY <1>4, <2>3, <4>5, <4>6
      <4>8. b + s + SizeFor(y[1]) + mine <= StorageQuota + w
        BY <1>2, <1>5, <1>6, <4>2, <4>7, SMTT(60)
      <4> QED
        BY <4>1, <4>6, <4>8
    <3> QED
      BY <3>1, <3>2, <3>3
  <2>5. b + s <= StorageQuota + w
    <3>1. PICK y \in Inserts' : b + s + SizeFor(y[1]) + (k2 - 1) * l <= StorageQuota + w
      BY <2>4
    <3>2. SizeFor(y[1]) \in Nat
      <4>1. y[1] \in Clients
        BY DEF Inserts, Tries
      <4> QED
        BY <4>1, LargestIs
    <3> HIDE DEF k, k2, l, o, b, w, s
    <3> QED
      BY <1>2, <1>6, <2>3, <3>1, <3>2, SMTT(60)
  <2> QED
    BY <1>3, <1>7, <1>9, <2>4, <2>5 DEF Weighed
<1> QED
  BY <1>8, <1>9
-----------------------------------------------------------------------------
\* What the server does

(* Rows are only added, and move on.                                         *)
Advanced ==
    /\ docs' \in Seq(Row) /\ Len(docs) <= Len(docs')
    /\ \A d \in DOMAIN docs :
          /\ docs'[d].content = docs[d].content /\ docs'[d].key = docs[d].key
          /\ docs'[d].status = "pending_upload" => docs[d].status = "pending_upload"
          /\ docs[d].status = "ready" => docs'[d].status = "ready"

LEMMA Advancing ==
  ASSUME AdmissionInv, Advanced, UNCHANGED <<stored, progress, doc, tries, losses>>
  PROVE  /\ DOMAIN docs' = 1..Len(docs') /\ Len(docs') \in Nat /\ DOMAIN docs \subseteq DOMAIN docs'
         /\ stored \subseteq DOMAIN docs' /\ doc \in [Clients -> 0..Len(docs')]
         /\ \A r : Waits(r)' = Waits(r)
         /\ \A r \in reqs : r \in Requests(Len(docs')) /\ Phase(r)' /\ Holds(r)'
         /\ \A c \in Clients : ClientPhase(c)' /\ ClientHolds(c)'
<1>1. /\ DOMAIN docs = 1..Len(docs) /\ Len(docs) \in Nat /\ reqs \subseteq Requests(Len(docs))
      /\ stored \subseteq DOMAIN docs /\ doc \in [Clients -> 0..Len(docs)]
  BY Types DEF AdmissionInv, AdmissionTypeOK
<1>2. DOMAIN docs' = 1..Len(docs') /\ Len(docs') \in Nat /\ Len(docs) <= Len(docs')
  BY DEF Advanced
<1>3. DOMAIN docs \subseteq DOMAIN docs' /\ 0..Len(docs) \subseteq 0..Len(docs')
  BY <1>1, <1>2
<1>4. stored \subseteq DOMAIN docs' /\ doc \in [Clients -> 0..Len(docs')]
  BY <1>1, <1>3
<1>5. \A r : Waits(r)' = Waits(r)
  BY DEF Waits
<1>6. ASSUME NEW r \in reqs PROVE r \in Requests(Len(docs')) /\ Phase(r)' /\ Holds(r)'
  <2>1. r \in Requests(Len(docs)) /\ Phase(r) /\ Holds(r)
    BY <1>1 DEF AdmissionInv, Phases, Rows
  <2>2. r \in Requests(Len(docs'))
    BY <1>3, <2>1 DEF Requests
  <2>3. Phase(r)'
    BY <1>3, <1>5, <2>1 DEF Phase
  <2>4. r.doc # 0 => r.doc \in DOMAIN docs
    BY <1>1, <2>1 DEF Requests
  <2>5. r.reply \in {"duplicate", "confirmed"} => r.doc \in DOMAIN docs
    BY <2>1 DEF Phase
  <2>6. Holds(r)'
    BY <2>1, <2>4, <2>5 DEF Holds, Advanced, Pending
  <2> QED
    BY <2>2, <2>3, <2>6
<1>7. ASSUME NEW c \in Clients PROVE ClientPhase(c)' /\ ClientHolds(c)'
  <2>1. ClientPhase(c) /\ ClientHolds(c)
    BY DEF AdmissionInv, Phases, Rows
  <2>2. ClientPhase(c)'
    BY <1>3, <2>1 DEF ClientPhase
  <2>3. ClientHolds(c)'
    BY <1>3, <2>1 DEF ClientHolds, Advanced, Pending
  <2> QED
    BY <2>2, <2>3
<1> QED
  BY <1>2, <1>3, <1>4, <1>5, <1>6, <1>7

(* The server replaces a request by what has become of it, if anything.      *)
Served(r, Q) ==
    /\ reqs' = (reqs \ {r}) \cup Q /\ Q \subseteq Requests(Len(docs'))
    /\ \A p, q \in Q : p = q
    /\ \A q \in Q : q.client = r.client /\ q.n = r.n
    /\ ServerStep

LEMMA Serving ==
  ASSUME AdmissionInv, Advanced, NEW r \in reqs, NEW Q, Served(r, Q),
         \A q \in Q : Phase(q)' /\ Holds(q)', \A d \in DOMAIN docs' : SoundRow(d)'
  PROVE  AdmissionTypeOK' /\ Calls' /\ Phases' /\ Rows'
<1>1. UNCHANGED <<stored, progress, doc, tries, shown, losses>>
  BY DEF Served, ServerStep
<1>2. /\ stored \subseteq DOMAIN docs' /\ doc \in [Clients -> 0..Len(docs')]
      /\ \A x \in reqs : x \in Requests(Len(docs')) /\ Phase(x)' /\ Holds(x)'
      /\ \A c \in Clients : ClientPhase(c)' /\ ClientHolds(c)'
  BY <1>1, Advancing
<1>3. reqs' \subseteq Requests(Len(docs'))
  BY <1>2 DEF Served
<1>4. AdmissionTypeOK'
  BY <1>1, <1>2, <1>3 DEF AdmissionInv, AdmissionTypeOK, Advanced, Row, Requests
<1>5. Calls'
  <2>1. \A x \in reqs' : \E y \in reqs : y.client = x.client /\ y.n = x.n /\ (y = x \/ (y = r /\ x \in Q))
    BY DEF Served
  <2>2. \A x \in reqs' : x.n <= tries'[x.client]
    BY <1>1, <2>1 DEF AdmissionInv, Calls
  <2>3. ASSUME NEW x \in reqs', NEW y \in reqs', x.client = y.client, x.n = y.n PROVE x = y
    BY <2>3 DEF AdmissionInv, Calls, Served
  <2>4. \A c \in Clients : progress'[c] = "putting" => \A x \in reqs' : x.client = c => x.n # tries'[c]
    BY <1>1, <2>1 DEF AdmissionInv, Calls
  <2> QED
    BY <2>2, <2>3, <2>4 DEF Calls
<1>6. Phases'
  BY <1>2 DEF Phases, Served
<1>7. Rows'
  BY <1>2 DEF Rows, Served
<1> QED
  BY <1>4, <1>5, <1>6, <1>7

(* A request that held its row keeps it, and none loses one: nothing is left *)
(* behind that was not.                                                      *)
LEMMA ServingOwed ==
  ASSUME AdmissionInv, Advanced, Len(docs') = Len(docs), NEW r \in reqs, NEW Q, Served(r, Q),
         r.doc # 0 /\ Secures(r) => \E q \in Q : q.doc = r.doc /\ q.pc # "quota" /\ q.reply # "refused",
         \A q \in Q : q.doc = 0 => r.doc = 0
  PROVE  Owed'
<1>1. UNCHANGED <<stored, progress, doc, tries, losses>> /\ \A x : Waits(x)' = Waits(x)
  BY DEF Served, ServerStep, Waits
<1>2. DOMAIN docs' = DOMAIN docs /\ 0 \notin DOMAIN docs
  BY Types DEF AdmissionInv, Advanced
<1>3. ASSUME NEW d \in DOMAIN docs, Secured(d) PROVE Secured(d)'
  <2>1. CASE \E c \in Clients : progress[c] \in Working /\ doc[c] = d
    BY <1>1, <2>1 DEF Secured
  <2>2. CASE \E x \in reqs : x.doc = d /\ Secures(x)
    <3>1. PICK x \in reqs : x.doc = d /\ Secures(x)
      BY <2>2
    <3>2. CASE x # r
      <4>1. x \in reqs' /\ Secures(x)'
        BY <1>1, <3>1, <3>2 DEF Served, Secures
      <4> QED
        BY <3>1, <4>1 DEF Secured
    <3>3. CASE x = r
      <4>1. PICK q \in Q : q.doc = d /\ q.pc # "quota" /\ q.reply # "refused"
        BY <1>2, <3>1, <3>3
      <4>2. q \in reqs' /\ Secures(q)'
        BY <1>1, <3>1, <3>3, <4>1 DEF Served, Secures, Waits
      <4> QED
        BY <4>1, <4>2 DEF Secured
    <3> QED
      BY <3>2, <3>3
  <2> QED
    BY <1>3, <2>1, <2>2 DEF Secured
<1>4. Unsecured' \subseteq Unsecured
  BY <1>2, <1>3 DEF Unsecured, Pending, Advanced
<1>5. Strays' \subseteq Strays
  <2> SUFFICES ASSUME NEW y \in Strays' PROVE y \in Strays
    OBVIOUS
  <2>1. PICK q \in reqs' : Pair(q) = y /\ ~Waits(q)' /\ q.doc = 0
    BY DEF Strays
  <2>2. \E x \in reqs : Pair(x) = y /\ ~Waits(x) /\ x.doc = 0
    BY <1>1, <2>1 DEF Served, Pair, Waits
  <2> QED
    BY <2>2 DEF Strays
<1> QED
  BY <1>1, <1>4, <1>5, OwedKept DEF AdmissionInv

LEMMA ServingRoom ==
  ASSUME AdmissionInv, Len(docs') = Len(docs), StorageBytes' = StorageBytes,
         NEW r \in reqs, NEW Q, Served(r, Q), \A q \in Q : q.pc = "insert" => r.pc = "insert"
  PROVE  Counted' /\ Weighed'
<1>1. Inserts' \subseteq Inserts
  <2> SUFFICES ASSUME NEW y \in Inserts' PROVE y \in Inserts
    OBVIOUS
  <2>1. PICK q \in reqs' : Pair(q) = y /\ q.pc = "insert"
    BY DEF Inserts
  <2>2. \E x \in reqs : Pair(x) = y /\ x.pc = "insert"
    BY <2>1 DEF Served, Pair
  <2> QED
    BY <2>2 DEF Inserts
<1>2. losses' = losses /\ losses \in Nat
  BY Types DEF Served, ServerStep, AdmissionInv
<1> QED
  BY <1>1, <1>2, RoomKept DEF AdmissionInv

(* An answer reaches the client that waits for it, or nobody.                *)
Answered(r, a, d, Q) ==
    /\ reqs' = (reqs \ {r}) \cup Q /\ \A p, q \in Q : p = q
    /\ Waits(r) => Q # {}
    /\ \A q \in Q : /\ Waits(r)
                    /\ q.client = r.client /\ q.n = r.n /\ q.pc = "reply" /\ q.reply = a /\ q.doc = d

LEMMA Gives ==
  ASSUME NEW m \in Nat, NEW r \in Requests(m), NEW a \in Replies, NEW d \in 0..m, Give(r, a, d)
  PROVE  \E Q \in SUBSET Requests(m) : Answered(r, a, d, Q)
<1>1. CASE ~Waits(r)
  <2>1. reqs' = (reqs \ {r}) \cup {}
    BY <1>1 DEF Give
  <2>2. Answered(r, a, d, {})
    BY <1>1, <2>1 DEF Answered
  <2> QED
    BY <2>2
<1>2. CASE Waits(r)
  <2> DEFINE q == [r EXCEPT !.pc = "reply", !.reply = a, !.doc = d]
  <2>1. q \in Requests(m) /\ q.client = r.client /\ q.n = r.n /\ q.pc = "reply" /\ q.reply = a /\ q.doc = d
    BY DEF Requests, Steps
  <2>2. reqs' = (reqs \ {r}) \cup {q}
    BY <1>2 DEF Give, Move
  <2> HIDE DEF q
  <2>3. {q} \in SUBSET Requests(m) /\ Answered(r, a, d, {q})
    BY <1>2, <2>1, <2>2 DEF Answered
  <2> QED
    BY <2>3
<1> QED
  BY <1>1, <1>2

(* Where the rows stay as they are.                                          *)
LEMMA RowsStay ==
  ASSUME AdmissionInv, UNCHANGED docs, stored' = stored
  PROVE  /\ Advanced /\ Len(docs') = Len(docs) /\ StorageBytes' = StorageBytes
         /\ \A d \in DOMAIN docs' : SoundRow(d)'
<1>1. Advanced /\ Len(docs') = Len(docs) /\ StorageBytes' = StorageBytes
  BY Types DEF AdmissionInv, Advanced, StorageBytes
<1>2. \A d \in DOMAIN docs' : SoundRow(d)'
  BY DEF AdmissionInv, Rows, SoundRow, Pending
<1> QED
  BY <1>1, <1>2

LEMMA ServingStill ==
  ASSUME AdmissionInv, UNCHANGED docs, NEW r \in reqs, NEW Q, Served(r, Q), \A q \in Q : Phase(q) /\ Holds(q),
         r.doc # 0 /\ Secures(r) => \E q \in Q : q.doc = r.doc /\ q.pc # "quota" /\ q.reply # "refused",
         \A q \in Q : q.doc = 0 => r.doc = 0
  PROVE  /\ AdmissionTypeOK' /\ Calls' /\ Phases' /\ Rows' /\ Owed'
         /\ (\A q \in Q : q.pc = "insert" => r.pc = "insert") => AdmissionInv'
<1>1. UNCHANGED <<stored, progress, doc, tries>>
  BY DEF Served, ServerStep
<1>2. /\ Advanced /\ Len(docs') = Len(docs) /\ StorageBytes' = StorageBytes
      /\ \A d \in DOMAIN docs' : SoundRow(d)'
  BY <1>1, RowsStay
<1>3. \A q \in Q : Phase(q)' /\ Holds(q)'
  BY <1>1 DEF Phase, Holds, Waits, Pending
<1>4. AdmissionTypeOK' /\ Calls' /\ Phases' /\ Rows'
  BY <1>2, <1>3, Serving
<1>5. Owed'
  BY <1>2, ServingOwed
<1>6. (\A q \in Q : q.pc = "insert" => r.pc = "insert") => Counted' /\ Weighed'
  BY <1>2, ServingRoom
<1> QED
  BY <1>4, <1>5, <1>6 DEF AdmissionInv

(* What is known of a request.                                               *)
LEMMA RequestIs ==
  ASSUME AdmissionInv, NEW r \in reqs
  PROVE  /\ r \in Requests(Len(docs)) /\ Len(docs) \in Nat /\ DOMAIN docs = 1..Len(docs)
         /\ r.client \in Clients /\ r.doc \in 0..Len(docs) /\ r.n \in 1..MaxTries /\ r.reply \in Replies
         /\ Phase(r) /\ Holds(r) /\ Pair(r) \in Tries
BY Types DEF AdmissionInv, Requests, Phases, Rows, Pair, Tries

LEMMA AnswerKeeps ==
  ASSUME AdmissionInv, NEW r \in reqs, NEW a \in Replies \ {"none"}, NEW d \in 0..Len(docs),
         Give(r, a, d), ServerStep, UNCHANGED docs, r.pc # "reply",
         a \in {"created", "duplicate", "refused"} <=> r.pc \in {"find", "dup", "quota", "insert"},
         a # "refused" => d \in DOMAIN docs /\ docs[d].content = ContentOf[r.client],
         a = "duplicate" => docs[d].status = "ready", a = "confirmed" => ~Pending(d), a = "refused" => d = r.doc,
         d = r.doc \/ (d # 0 /\ r.doc = 0), r.pc # "quota" => a # "refused" \/ r.doc = 0
  PROVE  AdmissionInv'
<1>1. /\ r \in Requests(Len(docs)) /\ Len(docs) \in Nat /\ DOMAIN docs = 1..Len(docs) /\ r.client \in Clients
      /\ Phase(r) /\ Holds(r) /\ r.reply = "none"
  BY RequestIs DEF Phase
<1>2. PICK Q \in SUBSET Requests(Len(docs)) : Answered(r, a, d, Q)
  BY <1>1, Gives
<1>3. Served(r, Q)
  BY <1>2 DEF Served, Answered
<1>4. ASSUME NEW q \in Q PROVE Phase(q) /\ Holds(q)
  <2>1. Waits(r) /\ q.client = r.client /\ q.n = r.n /\ q.pc = "reply" /\ q.reply = a /\ q.doc = d
    BY <1>2 DEF Answered
  <2>2. Waits(q)
    BY <2>1 DEF Waits
  <2>3. Creating(q) <=> Creating(r)
    BY <1>1, <2>1 DEF Creating, Replies
  <2>4. IF Creating(q) THEN progress[q.client] = "creating" ELSE progress[q.client] = "confirming" /\ q.doc = doc[q.client]
    <3>1. CASE Creating(r)
      BY <1>1, <2>1, <2>3, <3>1 DEF Phase
    <3>2. CASE ~Creating(r)
      <4>1. a = "confirmed" /\ d \in DOMAIN docs
        BY <1>1, <3>2 DEF Creating, Replies
      <4>2. d = r.doc
        <5>1. r.pc \in {"check", "complete"}
          BY <1>1, <3>2 DEF Creating, Requests, Steps
        <5>2. r.doc \in DOMAIN docs
          BY <1>1, <5>1, Types DEF Phase, AdmissionInv
        <5> QED
          BY <1>1, <5>2
      <4> QED
        BY <1>1, <2>1, <2>3, <3>2, <4>2 DEF Phase
    <3> QED
      BY <3>1, <3>2
  <2>5. Phase(q)
    BY <1>1, <2>1, <2>2, <2>4 DEF Phase
  <2>6. Holds(q)
    <3>1. d # 0 => docs[d].content = ContentOf[r.client]
      BY <1>1 DEF Holds
    <3> QED
      BY <2>1, <3>1 DEF Holds
  <2> QED
    BY <2>5, <2>6
<1>5. r.doc # 0 /\ Secures(r) => \E q \in Q : q.doc = r.doc /\ q.pc # "quota" /\ q.reply # "refused"
  BY <1>2 DEF Secures, Answered
<1>6. \A q \in Q : q.doc = 0 => r.doc = 0
  BY <1>2 DEF Answered
<1>7. \A q \in Q : q.pc = "insert" => r.pc = "insert"
  BY <1>2 DEF Answered
<1> QED
  BY <1>3, <1>4, <1>5, <1>6, <1>7, ServingStill

(* A request that goes on, without an answer yet.                            *)
LEMMA GoKeeps ==
  ASSUME AdmissionInv, NEW r \in reqs, NEW pc \in {"dup", "quota", "insert", "complete"}, NEW d \in 0..Len(docs), NEW q,
         q = [[r EXCEPT !.pc = pc] EXCEPT !.doc = d],
         Move(r, q), ServerStep, UNCHANGED docs, r.pc # "reply",
         pc = "complete" <=> r.pc = "check", pc # "complete" => r.pc \in {"find", "dup", "quota"},
         r.doc # 0 => d = r.doc, d # r.doc => pc = "quota", pc \in {"dup", "insert"} => d = 0,
         d # 0 => docs[d].content = ContentOf[r.client]
  PROVE  /\ AdmissionTypeOK' /\ Calls' /\ Phases' /\ Rows' /\ Owed'
         /\ pc # "insert" => AdmissionInv'
<1> DEFINE Q == {q}
<1>1. /\ r \in Requests(Len(docs)) /\ Len(docs) \in Nat /\ DOMAIN docs = 1..Len(docs) /\ r.client \in Clients
      /\ Phase(r) /\ Holds(r) /\ r.reply = "none"
  BY RequestIs DEF Phase
<1>2. q \in Requests(Len(docs)) /\ q.client = r.client /\ q.n = r.n /\ q.pc = pc /\ q.doc = d /\ q.reply = "none"
  BY <1>1 DEF Requests, Steps
<1>3. Served(r, Q)
  BY <1>2 DEF Served, Move
<1>4. Phase(q)
  <2>1. Waits(q) <=> Waits(r)
    BY <1>2 DEF Waits
  <2>2. Creating(q) <=> Creating(r)
    BY <1>1, <1>2 DEF Creating
  <2>3. pc \in {"check", "complete"} => d = r.doc /\ r.pc = "check" /\ ~Creating(r)
    BY <1>1, <1>2, <2>2 DEF Creating
  <2>4. Waits(q) => IF Creating(q) THEN progress[q.client] = "creating"
                    ELSE progress[q.client] = "confirming" /\ q.doc = doc[q.client]
    BY <1>1, <1>2, <2>1, <2>2, <2>3 DEF Phase, Creating
  <2> QED
    BY <1>1, <1>2, <2>3, <2>4 DEF Phase
<1>5. Holds(q)
  BY <1>2 DEF Holds
<1>6. r.doc # 0 /\ Secures(r) => q.doc = r.doc /\ q.pc # "quota" /\ q.reply # "refused"
  BY <1>1, <1>2 DEF Secures, Phase
<1>7. q.doc = 0 => r.doc = 0
  BY <1>2
<1>8. (\A x \in Q : Phase(x) /\ Holds(x)) /\ (\A x \in Q : x.doc = 0 => r.doc = 0)
  BY <1>4, <1>5, <1>7
<1>9. r.doc # 0 /\ Secures(r) => \E x \in Q : x.doc = r.doc /\ x.pc # "quota" /\ x.reply # "refused"
  BY <1>6
<1>10. pc # "insert" => \A x \in Q : x.pc = "insert" => r.pc = "insert"
  BY <1>2
<1> HIDE DEF Q
<1> QED
  BY <1>3, <1>8, <1>9, <1>10, ServingStill

LEMMA KeyedRow ==
  ASSUME AdmissionInv, NEW c \in Clients, NEW d \in WithKey(c)
  PROVE  d \in DOMAIN docs /\ docs[d].content = ContentOf[c]
<1>1. d \in DOMAIN docs /\ docs[d].key = c /\ docs[d].key # NoKey
  BY DEF WithKey, KeyOf
<1>2. SoundRow(d)
  BY <1>1 DEF AdmissionInv, Rows
<1> QED
  BY <1>1, <1>2 DEF SoundRow

LEMMA ReceiveKeeps ==
  ASSUME AdmissionInv, NEW r \in reqs, Receive(r)
  PROVE  AdmissionInv'
<1>1. r.pc = "find" /\ r.doc = 0 /\ r.client \in Clients /\ DOMAIN docs = 1..Len(docs) /\ Len(docs) \in Nat
  BY RequestIs DEF Receive, Phase
<1>2. CASE Gate(r)
  <2>1. Give(r, "refused", 0) /\ ServerStep /\ UNCHANGED docs
    BY <1>1, <1>2 DEF Gate, Answer
  <2>2. "refused" \in Replies \ {"none"} /\ 0 \in 0..Len(docs)
    BY <1>1 DEF Replies
  <2> QED
    BY <1>1, <2>1, <2>2, AnswerKeeps
<1>3. CASE Find(r)
  <2>1. CASE WithKey(r.client) = {}
    <3> DEFINE q == [r EXCEPT !.pc = "dup"]
    <3>1. q = [[r EXCEPT !.pc = "dup"] EXCEPT !.doc = 0]
      BY <1>1, RequestIs DEF Requests
    <3>2. Move(r, q) /\ ServerStep /\ UNCHANGED docs
      BY <1>3, <2>1 DEF Find, Go
    <3>3. 0 \in 0..Len(docs)
      BY <1>1
    <3> HIDE DEF q
    <3> QED
      BY <1>1, <3>1, <3>2, <3>3, GoKeeps
  <2>2. CASE WithKey(r.client) # {}
    <3>1. PICK d \in WithKey(r.client) : Move(r, [r EXCEPT !.pc = "quota", !.doc = d])
      BY <1>3, <2>2 DEF Find
    <3> DEFINE q == [r EXCEPT !.pc = "quota", !.doc = d]
    <3>2. q = [[r EXCEPT !.pc = "quota"] EXCEPT !.doc = d]
      OBVIOUS
    <3>3. ServerStep /\ UNCHANGED docs
      BY <1>3 DEF Find
    <3>4. d \in 0..Len(docs) /\ docs[d].content = ContentOf[r.client]
      BY <1>1, <3>1, KeyedRow, SMTT(60)
    <3>5. Move(r, q)
      BY <3>1
    <3> HIDE DEF q
    <3> QED
      BY <1>1, <3>2, <3>3, <3>4, <3>5, GoKeeps
  <2> QED
    BY <2>1, <2>2, SMTT(60)
<1> QED
  BY <1>2, <1>3 DEF Receive

LEMMA DupKeeps ==
  ASSUME AdmissionInv, NEW r \in reqs, Dup(r)
  PROVE  AdmissionInv'
<1>1. /\ r.pc = "dup" /\ r.doc = 0 /\ r.client \in Clients /\ DOMAIN docs = 1..Len(docs) /\ Len(docs) \in Nat
      /\ ServerStep /\ UNCHANGED docs
  BY RequestIs, SMTT(60) DEF Dup, Phase
<1>2. CASE Duplicates(r.client) = {}
  <2> DEFINE q == [r EXCEPT !.pc = "quota"]
  <2>1. q = [[r EXCEPT !.pc = "quota"] EXCEPT !.doc = 0]
    BY <1>1, RequestIs DEF Requests
  <2>2. Move(r, q)
    BY <1>2 DEF Dup, Go
  <2>3. 0 \in 0..Len(docs)
    BY <1>1
  <2> HIDE DEF q
  <2> QED
    BY <1>1, <2>1, <2>2, <2>3, GoKeeps
<1>3. CASE Duplicates(r.client) # {}
  <2>1. PICK d \in Duplicates(r.client) : Give(r, "duplicate", d)
    BY <1>3 DEF Dup
  <2>2. d \in DOMAIN docs /\ docs[d].content = ContentOf[r.client] /\ docs[d].status = "ready"
    BY DEF Duplicates
  <2>3. "duplicate" \in Replies \ {"none"} /\ d \in 0..Len(docs) /\ d # 0
    BY <1>1, <2>2 DEF Replies
  <2> QED
    BY <1>1, <2>1, <2>2, <2>3, AnswerKeeps
<1> QED
  BY <1>2, <1>3

LEMMA CheckKeeps ==
  ASSUME AdmissionInv, NEW r \in reqs, Check(r)
  PROVE  AdmissionInv'
<1>1. /\ r.pc = "check" /\ r.doc \in stored /\ r.doc \in DOMAIN docs /\ r.client \in Clients
      /\ DOMAIN docs = 1..Len(docs) /\ Len(docs) \in Nat
      /\ docs[r.doc].content = ContentOf[r.client]
      /\ ServerStep /\ UNCHANGED docs
  <2>1. r.pc = "check" /\ r.doc \in stored /\ r.doc \in DOMAIN docs
    BY RequestIs, Types DEF Check, Phase, AdmissionInv
  <2> QED
    BY <2>1, RequestIs DEF Check, Holds
<1>2. CASE ~Pending(r.doc)
  <2>1. Give(r, "confirmed", r.doc)
    BY <1>2 DEF Check, Answer
  <2>2. "confirmed" \in Replies \ {"none"} /\ r.doc \in 0..Len(docs)
    BY <1>1, SMTT(60) DEF Replies
  <2> QED
    BY <1>1, <1>2, <2>1, <2>2, AnswerKeeps
<1>3. CASE Pending(r.doc)
  <2> DEFINE q == [r EXCEPT !.pc = "complete"]
  <2>1. q = [[r EXCEPT !.pc = "complete"] EXCEPT !.doc = r.doc]
    BY RequestIs DEF Requests
  <2>2. Move(r, q)
    BY <1>1, <1>3 DEF Check, Go
  <2>3. r.doc \in 0..Len(docs)
    BY <1>1
  <2> HIDE DEF q
  <2> QED
    BY <1>1, <2>1, <2>2, <2>3, GoKeeps
<1> QED
  BY <1>2, <1>3

LEMMA QuotaKeeps ==
  ASSUME AdmissionInv, NEW r \in reqs, Quota(r)
  PROVE  AdmissionInv'
<1>1. /\ r.pc = "quota" /\ r.client \in Clients /\ r.doc \in 0..Len(docs)
      /\ DOMAIN docs = 1..Len(docs) /\ Len(docs) \in Nat /\ Phase(r) /\ Holds(r) /\ Pair(r) \in Tries
      /\ ServerStep /\ UNCHANGED docs
  BY RequestIs DEF Quota
<1>2. CASE Exceeds(r.client)
  <2>1. Give(r, "refused", r.doc)
    BY <1>2 DEF Quota, Answer
  <2>2. "refused" \in Replies \ {"none"}
    BY DEF Replies
  <2> QED
    BY <1>1, <2>1, <2>2, AnswerKeeps
<1>3. CASE ~Exceeds(r.client) /\ r.doc # 0
  <2>1. Give(r, "created", r.doc)
    BY <1>3 DEF Quota, Answer
  <2>2. "created" \in Replies \ {"none"} /\ r.doc \in DOMAIN docs /\ docs[r.doc].content = ContentOf[r.client]
    BY <1>1, <1>3 DEF Replies, Holds
  <2> QED
    BY <1>1, <2>1, <2>2, AnswerKeeps
<1>4. CASE ~Exceeds(r.client) /\ r.doc = 0
  <2> DEFINE q == [r EXCEPT !.pc = "insert"]
             x == Pair(r)
  <2>1. q = [[r EXCEPT !.pc = "insert"] EXCEPT !.doc = 0]
    BY <1>4, RequestIs DEF Requests
  <2>2. Move(r, q)
    BY <1>4 DEF Quota, Go
  <2>3. 0 \in 0..Len(docs)
    BY <1>1
  <2>4. AdmissionTypeOK' /\ Calls' /\ Phases' /\ Rows' /\ Owed'
    <3> HIDE DEF q
    <3> QED
      BY <1>1, <1>4, <2>1, <2>2, <2>3, GoKeeps
  <2>5. q.client = r.client /\ q.n = r.n /\ q.pc = "insert"
    BY <1>1, RequestIs DEF Requests
  <2>6. Inserts' \subseteq Inserts \cup {x}
    <3> SUFFICES ASSUME NEW y \in Inserts' PROVE y \in Inserts \/ y = x
      OBVIOUS
    <3>1. PICK p \in reqs' : Pair(p) = y /\ p.pc = "insert"
      BY DEF Inserts
    <3>2. y \in Tries
      BY DEF Inserts
    <3>3. CASE p = q
      BY <2>5, <3>1, <3>3 DEF Pair
    <3>4. CASE p \in reqs
      BY <3>1, <3>2, <3>4 DEF Inserts
    <3> QED
      BY <2>2, <3>1, <3>3, <3>4 DEF Move
  <2>7. x \in Inserts'
    <3>1. q \in reqs' /\ Pair(q) = x
      BY <2>2, <2>5 DEF Move, Pair
    <3> QED
      BY <1>1, <2>5, <3>1 DEF Inserts
  <2>8. x[2] = tries[x[1]] \/ x \in Strays
    <3>1. CASE Waits(r)
      BY <3>1 DEF Waits, Pair
    <3>2. CASE ~Waits(r)
      BY <1>1, <1>4, <3>2 DEF Strays
    <3> QED
      BY <3>1, <3>2
  <2>9. StorageBytes + SizeFor(x[1]) <= StorageQuota /\ Len(docs) < MaxDocuments
    <3>1. x[1] = r.client /\ SizeFor(r.client) \in Nat /\ StorageBytes \in Nat
      BY <1>1, LargestIs, Types DEF Pair, AdmissionInv
    <3>2. ~(StorageBytes + SizeFor(r.client) > StorageQuota) /\ ~(Len(docs) >= MaxDocuments)
      BY <1>4 DEF Exceeds, SizeFor
    <3> QED
      BY <1>1, <3>1, <3>2, AdmissionAssumption
  <2>10. losses' = losses
    BY <1>1 DEF ServerStep
  <2>11. Counted' /\ Weighed'
    <3> HIDE DEF x
    <3> QED
      BY <1>1, <2>6, <2>7, <2>8, <2>9, <2>10, RoomMade DEF AdmissionInv, x
  <2> QED
    BY <2>4, <2>11 DEF AdmissionInv
<1> QED
  BY <1>2, <1>3, <1>4

(* A row that is stored moves on.                                            *)
LEMMA RowMoves ==
  ASSUME AdmissionInv, NEW d \in DOMAIN docs, d \in stored, docs[d].status # "ready",
         NEW s \in Statuses \ {"pending_upload"},
         docs' = [docs EXCEPT ![d] = [@ EXCEPT !.status = s]], stored' = stored
  PROVE  /\ Advanced /\ Len(docs') = Len(docs) /\ StorageBytes' = StorageBytes
         /\ \A e \in DOMAIN docs' : SoundRow(e)'
         /\ ~Pending(d)'
<1>1. docs \in Seq(Row) /\ Len(docs) \in Nat /\ DOMAIN docs = 1..Len(docs) /\ docs[d] \in Row /\ Sized(docs)
  BY Types DEF AdmissionInv
<1> DEFINE row == [docs[d] EXCEPT !.status = s]
<1>2. row \in Row /\ row.content = docs[d].content /\ row.key = docs[d].key /\ row.status = s
  BY <1>1 DEF Row
<1>3. docs' = [docs EXCEPT ![d] = row]
  OBVIOUS
<1> HIDE DEF row
<1>4. /\ docs' \in Seq(Row) /\ Len(docs') = Len(docs)
      /\ \A e \in 1..Len(docs) : docs'[e] = IF e = d THEN row ELSE docs[e]
  BY <1>1, <1>2, <1>3, ExceptSeq
<1>5. DOMAIN docs' = DOMAIN docs
  BY <1>3
<1>6. Advanced
  BY <1>1, <1>2, <1>4 DEF Advanced
<1>7. StorageBytes' = StorageBytes
  <2>1. TotalSize(docs') = TotalSize(docs)
    BY <1>1, <1>2, <1>4, TotalOfSame
  <2> QED
    BY <2>1 DEF StorageBytes
<1>8. ~Pending(d)'
  BY <1>1, <1>2, <1>4 DEF Pending
<1>9. ASSUME NEW e \in DOMAIN docs' PROVE SoundRow(e)'
  <2>1. SoundRow(e) /\ e \in DOMAIN docs
    BY <1>5 DEF AdmissionInv, Rows
  <2>2. \A f \in DOMAIN docs : docs'[f].content = docs[f].content /\ docs'[f].key = docs[f].key
    BY <1>1, <1>2, <1>4
  <2>3. ~Pending(e)' => e \in stored'
    BY <1>1, <1>4, <2>1 DEF SoundRow, Pending
  <2> QED
    BY <1>5, <2>1, <2>2, <2>3 DEF SoundRow
<1> QED
  BY <1>4, <1>6, <1>7, <1>8, <1>9

LEMMA ConfirmKeeps ==
  ASSUME AdmissionInv, NEW r \in reqs, Confirm(r)
  PROVE  AdmissionInv'
<1>1. /\ r.pc = "complete" /\ r.doc \in stored /\ r.doc \in DOMAIN docs /\ r.client \in Clients
      /\ DOMAIN docs = 1..Len(docs) /\ Len(docs) \in Nat /\ r.reply = "none"
      /\ docs[r.doc].content = ContentOf[r.client] /\ r \in Requests(Len(docs))
      /\ Give(r, "confirmed", r.doc) /\ ServerStep /\ Phase(r) /\ r.doc # 0
  <2>1. r.pc = "complete" /\ r.doc \in stored /\ r.doc \in DOMAIN docs /\ Phase(r) /\ r \in Requests(Len(docs))
    BY RequestIs, Types DEF Confirm, Phase, AdmissionInv
  <2> QED
    BY <2>1, RequestIs DEF Confirm, Holds, Phase, Answer
<1>2. /\ Advanced /\ Len(docs') = Len(docs) /\ StorageBytes' = StorageBytes
      /\ (\A e \in DOMAIN docs' : SoundRow(e)') /\ ~Pending(r.doc)'
  <2>1. stored' = stored
    BY <1>1 DEF ServerStep
  <2>2. CASE ~Pending(r.doc)
    <3>1. docs' = docs
      BY <2>2 DEF Confirm
    <3>2. ~Pending(r.doc)'
      BY <2>2, <3>1 DEF Pending
    <3> QED
      BY <2>1, <3>1, <3>2, RowsStay
  <2>3. CASE Pending(r.doc)
    <3>1. docs' = [docs EXCEPT ![r.doc] = [@ EXCEPT !.status = "queued"]]
      BY <2>3 DEF Confirm
    <3>2. docs[r.doc].status # "ready" /\ "queued" \in Statuses \ {"pending_upload"}
      BY <2>3 DEF Pending, Statuses
    <3> QED
      BY <1>1, <2>1, <3>1, <3>2, RowMoves
  <2> QED
    BY <2>2, <2>3
<1>3. PICK Q \in SUBSET Requests(Len(docs')) : Answered(r, "confirmed", r.doc, Q)
  <2>1. "confirmed" \in Replies /\ r.doc \in 0..Len(docs)
    BY <1>1 DEF Replies
  <2> QED
    BY <1>1, <1>2, <2>1, Gives
<1>4. Served(r, Q)
  BY <1>1, <1>3 DEF Served, Answered
<1>5. ASSUME NEW q \in Q PROVE Phase(q)' /\ Holds(q)'
  <2>1. /\ Waits(r) /\ q.client = r.client /\ q.n = r.n /\ q.pc = "reply" /\ q.reply = "confirmed" /\ q.doc = r.doc
        /\ UNCHANGED <<stored, progress, doc, tries>>
    BY <1>1, <1>3 DEF ServerStep, Answered
  <2>2. Waits(q)' /\ ~Creating(q) /\ ~Creating(r)
    BY <1>1, <2>1 DEF Waits, Creating
  <2>3. r.doc \in DOMAIN docs'
    BY <1>1, <1>2 DEF Advanced
  <2>4. Phase(q)'
    BY <1>1, <2>1, <2>2, <2>3 DEF Phase, Creating
  <2>5. Holds(q)'
    BY <1>1, <1>2, <2>1 DEF Holds, Advanced
  <2> QED
    BY <2>4, <2>5
<1>6. AdmissionTypeOK' /\ Calls' /\ Phases' /\ Rows'
  BY <1>2, <1>4, <1>5, Serving
<1>7. Owed'
  <2>1. r.doc # 0 /\ Secures(r) => \E q \in Q : q.doc = r.doc /\ q.pc # "quota" /\ q.reply # "refused"
    BY <1>3 DEF Secures, Answered
  <2>2. \A q \in Q : q.doc = 0 => r.doc = 0
    BY <1>3 DEF Answered
  <2> QED
    BY <1>2, <1>4, <2>1, <2>2, ServingOwed
<1>8. Counted' /\ Weighed'
  <2>1. \A q \in Q : q.pc = "insert" => r.pc = "insert"
    BY <1>3 DEF Answered
  <2> QED
    BY <1>2, <1>4, <2>1, ServingRoom
<1> QED
  BY <1>6, <1>7, <1>8 DEF AdmissionInv

(* The row a request inserts is the only one with its key.                   *)
LEMMA RowAdded ==
  ASSUME AdmissionInv, NEW c \in Clients, WithKey(c) = {}, docs' = Inserted(c), stored' = stored
  PROVE  /\ Advanced /\ Len(docs') = Len(docs) + 1 /\ StorageBytes' = StorageBytes + SizeFor(c)
         /\ \A e \in DOMAIN docs' : SoundRow(e)'
         /\ docs'[Len(docs) + 1].content = ContentOf[c]
<1> DEFINE row == [content |-> ContentOf[c], key |-> KeyOf(c), status |-> "pending_upload"]
<1>1. docs \in Seq(Row) /\ Len(docs) \in Nat /\ DOMAIN docs = 1..Len(docs) /\ Sized(docs)
  BY Types DEF AdmissionInv
<1>2. row \in Row /\ row.content = ContentOf[c] /\ row.key = KeyOf(c) /\ row.status = "pending_upload"
  BY DEF Row, KeyOf, Statuses
<1>3. docs' = Append(docs, row)
  BY DEF Inserted
<1> HIDE DEF row
<1>4. /\ docs' \in Seq(Row) /\ Len(docs') = Len(docs) + 1
      /\ \A e \in 1..Len(docs) : docs'[e] = docs[e]
      /\ docs'[Len(docs) + 1] = row
  BY <1>1, <1>2, <1>3, AppendProperties
<1>5. DOMAIN docs' = 1..(Len(docs) + 1)
  BY <1>1, <1>4
<1>6. Advanced
  BY <1>1, <1>4 DEF Advanced
<1>7. StorageBytes' = StorageBytes + SizeFor(c)
  <2>1. SizeOf[row.content] \in Nat /\ SizeOf[row.content] = SizeFor(c)
    BY <1>2, AdmissionAssumption DEF SizeFor
  <2>2. TotalSize(Append(docs, row)) = TotalSize(docs) + SizeOf[row.content]
    BY <1>1, <1>2, <2>1, TotalOfMore
  <2> QED
    BY <1>3, <2>1, <2>2 DEF StorageBytes
<1>8. ASSUME NEW e \in DOMAIN docs' PROVE SoundRow(e)'
  <2>1. \A f \in 1..Len(docs) : docs[f].key = KeyOf(c) => KeyOf(c) = NoKey
    BY <1>1 DEF WithKey
  <2>2. CASE e = Len(docs) + 1
    <3>1. docs'[e].key # NoKey => docs'[e].content = ContentOf[docs'[e].key]
      BY <1>2, <1>4, <2>2 DEF KeyOf
    <3>2. Pending(e)'
      BY <1>2, <1>4, <2>2 DEF Pending
    <3>3. ASSUME NEW f \in DOMAIN docs', docs'[e].key = docs'[f].key, docs'[e].key # NoKey PROVE e = f
      BY <1>1, <1>2, <1>4, <1>5, <2>1, <2>2, <3>3
    <3> QED
      BY <3>1, <3>2, <3>3 DEF SoundRow
  <2>3. CASE e \in 1..Len(docs)
    <3>1. SoundRow(e) /\ docs'[e] = docs[e]
      BY <1>1, <1>4, <2>3 DEF AdmissionInv, Rows
    <3>2. ASSUME NEW f \in DOMAIN docs', docs'[e].key = docs'[f].key, docs'[e].key # NoKey PROVE e = f
      <4>1. CASE f \in 1..Len(docs)
        BY <1>1, <1>4, <3>1, <3>2, <4>1 DEF SoundRow
      <4>2. CASE f = Len(docs) + 1
        BY <1>2, <1>4, <2>1, <2>3, <3>1, <3>2, <4>2
      <4> QED
        BY <1>1, <1>5, <4>1, <4>2
    <3>3. ~Pending(e)' => e \in stored'
      BY <3>1 DEF SoundRow, Pending
    <3> QED
      BY <3>1, <3>2, <3>3 DEF SoundRow
  <2> QED
    BY <1>1, <1>5, <2>2, <2>3
<1> QED
  BY <1>2, <1>4, <1>6, <1>7, <1>8

LEMMA InsertKeeps ==
  ASSUME AdmissionInv, NEW r \in reqs, Insert(r)
  PROVE  AdmissionInv'
<1>1. /\ r.pc = "insert" /\ r.doc = 0 /\ r.client \in Clients /\ DOMAIN docs = 1..Len(docs) /\ Len(docs) \in Nat
      /\ r \in Requests(Len(docs)) /\ Pair(r) \in Tries /\ Phase(r) /\ r.reply = "none" /\ ServerStep
  BY RequestIs DEF Insert, Phase
<1>2. CASE WithKey(r.client) # {}
  <2>1. Give(r, "refused", 0) /\ UNCHANGED docs
    BY <1>1, <1>2 DEF Insert, Answer
  <2>2. "refused" \in Replies \ {"none"} /\ 0 \in 0..Len(docs)
    BY <1>1 DEF Replies
  <2> QED
    BY <1>1, <2>1, <2>2, AnswerKeeps
<1>3. CASE WithKey(r.client) = {}
  <2> DEFINE z == Pair(r)
  <2>0. PICK d : d = Len(docs) + 1
    OBVIOUS
  <2>1. docs' = Inserted(r.client) /\ Give(r, "created", d) /\ UNCHANGED <<stored, progress, doc, tries, losses>>
    BY <1>1, <1>3, <2>0 DEF Insert, ServerStep
  <2>2. /\ Advanced /\ Len(docs') = d /\ StorageBytes' = StorageBytes + SizeFor(r.client)
        /\ (\A e \in DOMAIN docs' : SoundRow(e)') /\ docs'[d].content = ContentOf[r.client]
    BY <1>1, <1>3, <2>0, <2>1, RowAdded
  <2>3. /\ DOMAIN docs' = 1..d /\ \A x : Waits(x)' = Waits(x)
        /\ r \in Requests(d)
    BY <1>1, <2>0, <2>1, <2>2, Advancing
  <2>4. PICK Q \in SUBSET Requests(d) : Answered(r, "created", d, Q)
    <3>1. d \in Nat /\ "created" \in Replies /\ d \in 0..d
      BY <1>1, <2>0 DEF Replies
    <3> QED
      BY <2>1, <2>3, <3>1, Gives
  <2>5. Served(r, Q)
    BY <1>1, <2>2, <2>4 DEF Served, Answered
  <2>6. ASSUME NEW q \in Q PROVE Phase(q)' /\ Holds(q)'
    <3>1. /\ Waits(r) /\ q.client = r.client /\ q.n = r.n /\ q.pc = "reply" /\ q.reply = "created" /\ q.doc = d
          /\ d \in DOMAIN docs'
      BY <1>1, <2>0, <2>3, <2>4 DEF Answered
    <3>2. Waits(q)' /\ Creating(q) /\ Creating(r)
      BY <1>1, <2>3, <3>1 DEF Waits, Creating
    <3>3. Phase(q)'
      BY <1>1, <2>1, <3>1, <3>2 DEF Phase, Creating
    <3>4. Holds(q)'
      BY <2>2, <3>1 DEF Holds
    <3> QED
      BY <3>3, <3>4
  <2>7. AdmissionTypeOK' /\ Calls' /\ Phases' /\ Rows'
    BY <2>2, <2>5, <2>6, Serving
  <2>8. \A x \in reqs' : (x \in reqs /\ x # r /\ Pair(x) # z) \/ (x \in Q /\ Pair(x) = z)
    <3>1. \A x \in reqs : Pair(x) = z => x = r
      BY DEF Pair, AdmissionInv, Calls
    <3>2. \A x \in Q : Pair(x) = z
      BY <2>4 DEF Pair, Answered
    <3> QED
      BY <2>4, <3>1, <3>2 DEF Answered
  <2>9. ASSUME NEW e \in DOMAIN docs, Secured(e) PROVE Secured(e)'
    <3>1. CASE \E c \in Clients : progress[c] \in Working /\ doc[c] = e
      BY <2>1, <3>1 DEF Secured
    <3>2. CASE \E x \in reqs : x.doc = e /\ Secures(x)
      <4>1. PICK x \in reqs : x.doc = e /\ Secures(x)
        BY <3>2
      <4>2. x # r
        BY <1>1, <4>1
      <4>3. x \in reqs' /\ Secures(x)'
        BY <2>3, <2>4, <4>1, <4>2 DEF Secures, Answered
      <4> QED
        BY <4>1, <4>3 DEF Secured
    <3> QED
      BY <2>9, <3>1, <3>2 DEF Secured
  <2>10. Unsecured' \subseteq Unsecured \cup {d}
    <3> SUFFICES ASSUME NEW e \in Unsecured', e # d PROVE e \in Unsecured
      OBVIOUS
    <3>1. e \in DOMAIN docs /\ ~Secured(e)' /\ Pending(e)'
      BY <1>1, <2>0, <2>3 DEF Unsecured
    <3>2. Pending(e)
      BY <2>2, <3>1 DEF Pending, Advanced
    <3> QED
      BY <2>9, <3>1, <3>2 DEF Unsecured
  <2>11. Owed'
    <3>1. CASE Waits(r)
      <4>1. Unsecured' \subseteq Unsecured
        <5>1. PICK q \in Q : q.doc = d /\ q.pc = "reply" /\ q.reply = "created" /\ q.client = r.client /\ q.n = r.n
          BY <2>4, <3>1 DEF Answered
        <5>2. q \in reqs' /\ Secures(q)'
          BY <2>3, <2>4, <3>1, <5>1 DEF Secures, Waits, Answered
        <5>3. Secured(d)'
          BY <5>1, <5>2 DEF Secured
        <5> QED
          BY <2>10, <5>3 DEF Unsecured
      <4>2. Strays' \subseteq Strays
        <5> SUFFICES ASSUME NEW y \in Strays' PROVE y \in Strays
          OBVIOUS
        <5>1. PICK q \in reqs' : Pair(q) = y /\ ~Waits(q)' /\ q.doc = 0
          BY DEF Strays
        <5>2. q \in reqs
          <6>1. d # 0
            BY <1>1, <2>0
          <6> QED
            BY <2>4, <5>1, <6>1 DEF Answered
        <5> QED
          BY <2>3, <5>1, <5>2 DEF Strays
      <4> QED
        BY <2>1, <4>1, <4>2, OwedKept DEF AdmissionInv
    <3>2. CASE ~Waits(r)
      <4>1. z \in Strays
        BY <1>1, <3>2 DEF Strays
      <4>2. Strays' \subseteq Strays \ {z}
        <5> SUFFICES ASSUME NEW y \in Strays' PROVE y \in Strays /\ y # z
          OBVIOUS
        <5>1. PICK q \in reqs' : Pair(q) = y /\ ~Waits(q)' /\ q.doc = 0
          BY DEF Strays
        <5>2. q \in reqs /\ Pair(q) # z
          BY <2>4, <2>8, <3>2, <5>1 DEF Answered
        <5> QED
          BY <2>3, <5>1, <5>2 DEF Strays
      <4> HIDE DEF z
      <4> QED
        BY <2>1, <2>10, <4>1, <4>2, OwedMoved DEF AdmissionInv
    <3> QED
      BY <3>1, <3>2
  <2>12. Counted' /\ Weighed'
    <3>1. z \in Inserts
      BY <1>1 DEF Inserts
    <3>2. Inserts' \subseteq Inserts \ {z}
      <4> SUFFICES ASSUME NEW y \in Inserts' PROVE y \in Inserts /\ y # z
        OBVIOUS
      <4>1. PICK q \in reqs' : Pair(q) = y /\ q.pc = "insert"
        BY DEF Inserts
      <4>2. q \in reqs /\ Pair(q) # z
        BY <2>4, <2>8, <4>1 DEF Answered
      <4> QED
        BY <4>1, <4>2 DEF Inserts
    <3>3. z[1] = r.client
      BY DEF Pair
    <3> HIDE DEF z
    <3> QED
      BY <2>0, <2>1, <2>2, <3>1, <3>2, <3>3, RoomTaken DEF AdmissionInv
  <2> QED
    BY <2>7, <2>11, <2>12 DEF AdmissionInv
<1> QED
  BY <1>2, <1>3

LEMMA ProcessKeeps ==
  ASSUME AdmissionInv, NEW d \in DOMAIN docs, Process(d)
  PROVE  AdmissionInv'
<1>1. PICK s \in Statuses \ {"pending_upload"} : docs' = [docs EXCEPT ![d] = [@ EXCEPT !.status = s]]
  BY DEF Process, Statuses
<1>2. /\ docs[d].status # "ready" /\ ~Pending(d) /\ d \in stored
      /\ UNCHANGED <<stored, reqs, progress, doc, tries, losses>>
  <2>1. docs[d].status # "ready" /\ docs[d].status # "pending_upload"
    BY DEF Process
  <2> QED
    BY <2>1 DEF Process, Pending, AdmissionInv, Rows, SoundRow
<1>3. /\ Advanced /\ Len(docs') = Len(docs) /\ StorageBytes' = StorageBytes
      /\ \A e \in DOMAIN docs' : SoundRow(e)'
  BY <1>1, <1>2, RowMoves
<1>4. /\ stored \subseteq DOMAIN docs' /\ doc \in [Clients -> 0..Len(docs')]
      /\ \A r : Waits(r)' = Waits(r)
      /\ \A r \in reqs : r \in Requests(Len(docs')) /\ Phase(r)' /\ Holds(r)'
      /\ \A c \in Clients : ClientPhase(c)' /\ ClientHolds(c)'
  BY <1>2, <1>3, Advancing
<1>5. AdmissionTypeOK'
  BY <1>2, <1>3, <1>4 DEF AdmissionInv, AdmissionTypeOK, Advanced, Row, Requests
<1>6. Calls' /\ Phases' /\ Rows'
  BY <1>2, <1>3, <1>4 DEF AdmissionInv, Calls, Phases, Rows
<1>7. Owed'
  <2>1. DOMAIN docs' = DOMAIN docs
    BY <1>1
  <2>2. \A e : Secured(e)' <=> Secured(e)
    BY <1>2, <1>4 DEF Secured, Secures
  <2>3. Unsecured' \subseteq Unsecured
    BY <1>3, <2>1, <2>2 DEF Unsecured, Pending, Advanced
  <2>4. Strays' \subseteq Strays
    BY <1>2, <1>4 DEF Strays
  <2> QED
    BY <1>2, <2>3, <2>4, OwedKept DEF AdmissionInv
<1>8. Counted' /\ Weighed'
  <2>1. Inserts' \subseteq Inserts
    BY <1>2 DEF Inserts
  <2>2. losses' \in Nat /\ losses <= losses'
    BY <1>2, Types DEF AdmissionInv
  <2> QED
    BY <1>3, <2>1, <2>2, RoomKept DEF AdmissionInv
<1> QED
  BY <1>5, <1>6, <1>7, <1>8 DEF AdmissionInv

-----------------------------------------------------------------------------
\* What the clients do

(* The rows stay; the rest is about requests and clients.                    *)
LEMMA ClientSteps ==
  ASSUME AdmissionInv, UNCHANGED docs, stored \subseteq stored', stored' \subseteq DOMAIN docs
  PROVE  /\ DOMAIN docs = 1..Len(docs) /\ Len(docs) \in Nat /\ docs' \in Seq(Row)
         /\ \A d \in DOMAIN docs' : SoundRow(d)'
         /\ StorageBytes' = StorageBytes
<1>1. DOMAIN docs = 1..Len(docs) /\ Len(docs) \in Nat /\ docs' \in Seq(Row)
  BY Types DEF AdmissionInv
<1>2. \A d \in DOMAIN docs' : SoundRow(d)'
  BY DEF AdmissionInv, Rows, SoundRow, Pending
<1> QED
  BY <1>1, <1>2 DEF StorageBytes

LEMMA FewerInserts ==
  ASSUME AdmissionInv, UNCHANGED docs, losses' \in Nat, losses <= losses',
         \A q \in reqs' : q.pc = "insert" => q \in reqs
  PROVE  Counted' /\ Weighed'
<1>1. Inserts' \subseteq Inserts
  BY DEF Inserts
<1>2. Len(docs') = Len(docs) /\ StorageBytes' = StorageBytes
  BY DEF StorageBytes
<1> QED
  BY <1>1, <1>2, RoomKept DEF AdmissionInv

LEMMA PickKeeps ==
  ASSUME AdmissionInv, NEW c \in Clients, Pick(c)
  PROVE  AdmissionInv'
<1>0. PICK n, q : n = tries[c] + 1 /\ q = Request(c, n, "find", 0)
  OBVIOUS
<1>1. /\ progress[c] \notin Working /\ tries[c] < MaxTries
      /\ progress' = [progress EXCEPT ![c] = "creating"]
      /\ doc' = [doc EXCEPT ![c] = 0]
      /\ tries' = [tries EXCEPT ![c] = tries[c] + 1]
      /\ reqs' = reqs \cup {q}
      /\ UNCHANGED <<docs, stored, losses>>
  BY <1>0 DEF Pick
<1>2. /\ progress \in [Clients -> Working \cup {"idle", "done", "failed"}]
      /\ doc \in [Clients -> 0..Len(docs)] /\ tries \in [Clients -> 0..MaxTries]
      /\ stored \subseteq DOMAIN docs /\ reqs \subseteq Requests(Len(docs)) /\ losses \in Nat
      /\ Len(docs) \in Nat /\ DOMAIN docs = 1..Len(docs)
  BY Types DEF AdmissionInv, AdmissionTypeOK
<1>3. /\ q.client = c /\ q.n = n /\ q.pc = "find" /\ q.doc = 0 /\ q.reply = "none"
      /\ n \in 1..MaxTries /\ q \in Requests(Len(docs))
  BY <1>0, <1>1, <1>2, AdmissionAssumption DEF Request, Requests, Steps, Replies
<1>4. /\ \A e \in Clients : tries[e] <= tries'[e] /\ (e # c => tries'[e] = tries[e] /\ doc'[e] = doc[e] /\ progress'[e] = progress[e])
      /\ tries'[c] = n /\ doc'[c] = 0 /\ progress'[c] = "creating"
  BY <1>0, <1>1, <1>2, <1>3
<1>5. ASSUME NEW r \in reqs
      PROVE /\ r.client \in Clients /\ r.n <= tries[r.client] /\ r.n \in Nat /\ Phase(r) /\ Holds(r)
            /\ Waits(r)' <=> Waits(r)
            /\ r.client = c => ~Waits(r)
  <2>1. r.client \in Clients /\ r.n <= tries[r.client] /\ r.n \in Nat /\ Phase(r) /\ Holds(r)
    BY <1>2 DEF AdmissionInv, Calls, Phases, Rows, Requests
  <2>2. r.client = c => ~Waits(r) /\ ~Waits(r)'
    BY <1>0, <1>1, <1>2, <1>4, <2>1 DEF Waits, Working
  <2>3. r.client # c => (Waits(r)' <=> Waits(r))
    BY <1>4, <2>1 DEF Waits
  <2> QED
    BY <2>1, <2>2, <2>3
<1>6. AdmissionTypeOK'
  <2>1. progress' \in [Clients -> Working \cup {"idle", "done", "failed"}]
    BY <1>1, <1>2 DEF Working
  <2>2. doc' \in [Clients -> 0..Len(docs)] /\ tries' \in [Clients -> 0..MaxTries]
    BY <1>0, <1>1, <1>2, <1>3
  <2>3. reqs' \subseteq Requests(Len(docs))
    BY <1>1, <1>2, <1>3
  <2> QED
    BY <1>1, <2>1, <2>2, <2>3 DEF AdmissionInv, AdmissionTypeOK, Requests
<1>7. Calls'
  <2>1. \A r \in reqs' : r.n <= tries'[r.client]
    <3>1. \A r \in reqs : r.n <= tries'[r.client]
      BY <1>0, <1>2, <1>4, <1>5, SMTT(60)
    <3>2. q.n <= tries'[q.client]
      BY <1>2, <1>3, <1>4
    <3> QED
      BY <1>1, <3>1, <3>2
  <2>2. \A r \in reqs : ~(r.client = q.client /\ r.n = q.n)
    BY <1>0, <1>2, <1>3, <1>5
  <2>3. \A r, p \in reqs' : r.client = p.client /\ r.n = p.n => r = p
    BY <1>1, <2>2 DEF AdmissionInv, Calls
  <2>4. \A e \in Clients : progress'[e] = "putting" => \A r \in reqs' : r.client = e => r.n # tries'[e]
    BY <1>1, <1>3, <1>4 DEF AdmissionInv, Calls
  <2> QED
    BY <2>1, <2>3, <2>4 DEF Calls
<1>8. Waits(q)' /\ Creating(q)
  BY <1>3, <1>4 DEF Waits, Creating
<1>9. Phases'
  <2>1. \A e \in Clients : ClientPhase(e)'
    BY <1>1, <1>3, <1>4 DEF ClientPhase, AdmissionInv, Phases
  <2>2. ASSUME NEW r \in reqs PROVE Phase(r)'
    BY <1>1, <1>4, <1>5 DEF Phase
  <2>3. Phase(q)'
    BY <1>3, <1>4, <1>8 DEF Phase
  <2> QED
    BY <1>1, <2>1, <2>2, <2>3 DEF Phases
<1>10. Rows'
  <2>1. \A e \in DOMAIN docs' : SoundRow(e)'
    BY <1>1, <1>2, ClientSteps
  <2>2. ASSUME NEW r \in reqs PROVE Holds(r)'
    BY <1>1, <1>5 DEF Holds, Pending
  <2>3. Holds(q)'
    BY <1>3 DEF Holds
  <2>4. \A e \in Clients : ClientHolds(e)'
    BY <1>1, <1>4 DEF ClientHolds, Pending, AdmissionInv, Rows
  <2> QED
    BY <1>1, <2>1, <2>2, <2>3, <2>4 DEF Rows
<1>11. Owed'
  <2>1. ASSUME NEW d \in DOMAIN docs, Secured(d) PROVE Secured(d)'
    <3>1. CASE \E r \in reqs : r.doc = d /\ Secures(r)
      BY <1>1, <1>5, <3>1 DEF Secured, Secures
    <3>2. CASE \E e \in Clients : progress[e] \in Working /\ doc[e] = d
      BY <1>1, <1>4, <3>2 DEF Secured
    <3> QED
      BY <2>1, <3>1, <3>2 DEF Secured
  <2>2. Unsecured' \subseteq Unsecured
    BY <1>1, <2>1 DEF Unsecured, Pending
  <2>3. Strays' \subseteq Strays
    BY <1>1, <1>5, <1>8 DEF Strays
  <2> QED
    BY <1>1, <2>2, <2>3, OwedKept DEF AdmissionInv
<1>12. Counted' /\ Weighed'
  BY <1>1, <1>2, <1>3, FewerInserts
<1> QED
  BY <1>6, <1>7, <1>9, <1>10, <1>11, <1>12 DEF AdmissionInv

LEMMA PutKeeps ==
  ASSUME AdmissionInv, NEW c \in Clients, Put(c)
  PROVE  AdmissionInv'
<1>0. PICK q : q = Request(c, tries[c], "check", doc[c])
  OBVIOUS
<1>1. /\ progress[c] = "putting"
      /\ stored' = stored \cup {doc[c]}
      /\ progress' = [progress EXCEPT ![c] = "confirming"]
      /\ reqs' = reqs \cup {q}
      /\ UNCHANGED <<docs, doc, tries, losses>>
  BY <1>0 DEF Put
<1>2. /\ progress \in [Clients -> Working \cup {"idle", "done", "failed"}]
      /\ doc \in [Clients -> 0..Len(docs)] /\ tries \in [Clients -> 0..MaxTries]
      /\ stored \subseteq DOMAIN docs /\ reqs \subseteq Requests(Len(docs)) /\ losses \in Nat
      /\ Len(docs) \in Nat /\ DOMAIN docs = 1..Len(docs)
      /\ doc[c] \in DOMAIN docs /\ docs[doc[c]].content = ContentOf[c]
  <2>1. doc[c] \in DOMAIN docs /\ docs[doc[c]].content = ContentOf[c]
    BY <1>1 DEF AdmissionInv, Rows, ClientHolds
  <2> QED
    BY <2>1, Types DEF AdmissionInv, AdmissionTypeOK
<1>3. stored' \subseteq DOMAIN docs /\ stored \subseteq stored' /\ doc[c] \in stored'
  BY <1>1, <1>2
<1>4. q.client = c /\ q.n = tries[c] /\ q.pc = "check" /\ q.doc = doc[c] /\ q.reply = "none" /\ q \in Requests(Len(docs))
  <2>1. tries[c] # 0
    BY <1>1 DEF AdmissionInv, Phases, ClientPhase, Working
  <2> QED
    BY <1>0, <1>2, <2>1, AdmissionAssumption DEF Request, Requests, Steps, Replies
<1>5. progress'[c] = "confirming" /\ \A e \in Clients : e # c => progress'[e] = progress[e]
  BY <1>1, <1>2
<1>6. ASSUME NEW r \in reqs
      PROVE /\ r.client \in Clients /\ r.n <= tries[r.client] /\ Phase(r) /\ Holds(r)
            /\ (r.client = c => r.n # tries[c] /\ ~Waits(r)) /\ (Waits(r)' <=> Waits(r))
  <2>1. /\ r.client \in Clients /\ r.n <= tries[r.client] /\ Phase(r) /\ Holds(r)
        /\ r.client = c => r.n # tries[c]
    BY <1>1, <1>2 DEF AdmissionInv, Calls, Phases, Rows, Requests
  <2>2. r.client = c => ~Waits(r) /\ ~Waits(r)'
    BY <1>1, <2>1 DEF Waits
  <2>3. r.client # c => (Waits(r)' <=> Waits(r))
    BY <1>1, <1>5, <2>1 DEF Waits
  <2> QED
    BY <2>1, <2>2, <2>3
<1>7. AdmissionTypeOK'
  <2>1. progress' \in [Clients -> Working \cup {"idle", "done", "failed"}]
    BY <1>1, <1>2 DEF Working
  <2>2. reqs' \subseteq Requests(Len(docs))
    BY <1>1, <1>2, <1>4
  <2> QED
    BY <1>1, <1>3, <2>1, <2>2 DEF AdmissionInv, AdmissionTypeOK, Requests
<1>8. Calls'
  <2>1. \A r \in reqs' : r.n <= tries'[r.client]
    BY <1>1, <1>2, <1>4, <1>6
  <2>2. \A r, p \in reqs' : r.client = p.client /\ r.n = p.n => r = p
    <3>1. \A r \in reqs : ~(r.client = q.client /\ r.n = q.n)
      BY <1>4, <1>6
    <3> QED
      BY <1>1, <3>1 DEF AdmissionInv, Calls
  <2>3. \A e \in Clients : progress'[e] = "putting" => \A r \in reqs' : r.client = e => r.n # tries'[e]
    BY <1>1, <1>4, <1>5 DEF AdmissionInv, Calls
  <2> QED
    BY <2>1, <2>2, <2>3 DEF Calls
<1>9. Waits(q)' /\ ~Creating(q)
  BY <1>1, <1>4, <1>5 DEF Waits, Creating
<1>10. Phases'
  <2>1. \A e \in Clients : ClientPhase(e)'
    BY <1>1, <1>3, <1>5 DEF ClientPhase, AdmissionInv, Phases, Working
  <2>2. ASSUME NEW r \in reqs PROVE Phase(r)'
    BY <1>1, <1>3, <1>5, <1>6 DEF Phase
  <2>3. Phase(q)'
    BY <1>1, <1>3, <1>4, <1>5, <1>9 DEF Phase
  <2> QED
    BY <1>1, <2>1, <2>2, <2>3 DEF Phases
<1>11. Rows'
  <2>1. \A e \in DOMAIN docs' : SoundRow(e)'
    BY <1>1, <1>3, ClientSteps
  <2>2. ASSUME NEW r \in reqs PROVE Holds(r)'
    BY <1>1, <1>6 DEF Holds, Pending
  <2>3. Holds(q)'
    BY <1>1, <1>2, <1>4 DEF Holds
  <2>4. \A e \in Clients : ClientHolds(e)'
    BY <1>1, <1>2, <1>5 DEF ClientHolds, Pending, AdmissionInv, Rows
  <2> QED
    BY <1>1, <2>1, <2>2, <2>3, <2>4 DEF Rows
<1>12. Owed'
  <2>1. ASSUME NEW d \in DOMAIN docs, Secured(d) PROVE Secured(d)'
    <3>1. CASE \E r \in reqs : r.doc = d /\ Secures(r)
      BY <1>1, <1>6, <3>1 DEF Secured, Secures
    <3>2. CASE \E e \in Clients : progress[e] \in Working /\ doc[e] = d
      BY <1>1, <1>5, <3>2 DEF Secured, Working
    <3> QED
      BY <2>1, <3>1, <3>2 DEF Secured
  <2>2. Unsecured' \subseteq Unsecured
    BY <1>1, <2>1 DEF Unsecured, Pending
  <2>3. Strays' \subseteq Strays
    BY <1>1, <1>6, <1>9 DEF Strays
  <2> QED
    BY <1>1, <2>2, <2>3, OwedKept DEF AdmissionInv
<1>13. Counted' /\ Weighed'
  BY <1>1, <1>2, <1>4, FewerInserts
<1> QED
  BY <1>7, <1>8, <1>10, <1>11, <1>12, <1>13 DEF AdmissionInv

(* A client that stops working on its upload, by a loss: requests it made    *)
(* may remain, and one thing more is left behind.                            *)
LEMMA Lost ==
  ASSUME AdmissionInv, NEW c \in Clients, progress[c] \in Working,
         progress' = [progress EXCEPT ![c] = "failed"],
         reqs' \subseteq reqs, \A r \in reqs : r.client # c => r \in reqs',
         Loss, UNCHANGED <<docs, doc, tries>>,
         stored \subseteq stored', stored' \subseteq DOMAIN docs,
         \A r \in reqs' : r.client = c => r.pc # "reply" \/ ~Waits(r)
  PROVE  AdmissionInv'
<1>1. /\ progress \in [Clients -> Working \cup {"idle", "done", "failed"}]
      /\ doc \in [Clients -> 0..Len(docs)] /\ tries \in [Clients -> 0..MaxTries]
      /\ reqs \subseteq Requests(Len(docs)) /\ losses \in Nat /\ Len(docs) \in Nat /\ DOMAIN docs = 1..Len(docs)
      /\ losses' = losses + 1 /\ losses' \in 0..MaxLosses
  BY Types, AdmissionAssumption, SMTT(60) DEF AdmissionInv, AdmissionTypeOK, Loss
<1>2. progress'[c] = "failed" /\ \A e \in Clients : e # c => progress'[e] = progress[e]
  BY <1>1
<1>3. ASSUME NEW r \in reqs
      PROVE /\ r.client \in Clients /\ r.n <= tries[r.client] /\ Phase(r) /\ Holds(r)
            /\ r.client # c => (Waits(r)' <=> Waits(r))
            /\ r.client = c => ~Waits(r)'
  <2>1. r.client \in Clients /\ r.n <= tries[r.client] /\ Phase(r) /\ Holds(r)
    BY <1>1 DEF AdmissionInv, Calls, Phases, Rows, Requests
  <2> QED
    BY <1>2, <2>1 DEF Waits
<1>4. AdmissionTypeOK'
  <2>1. progress' \in [Clients -> Working \cup {"idle", "done", "failed"}]
    BY <1>1
  <2> QED
    BY <1>1, <2>1 DEF AdmissionInv, AdmissionTypeOK
<1>5. Calls'
  BY <1>2 DEF AdmissionInv, Calls
<1>6. Phases'
  <2>1. \A e \in Clients : ClientPhase(e)'
    BY <1>2 DEF ClientPhase, AdmissionInv, Phases, Working
  <2>2. ASSUME NEW r \in reqs' PROVE Phase(r)'
    <3>1. r \in reqs /\ Phase(r)
      BY <1>3
    <3>2. r.pc = "reply" => Waits(r)'
      BY <1>3, <3>1 DEF Phase
    <3>3. Waits(r)' => Waits(r) /\ r.client # c
      BY <1>3, <3>1
    <3> QED
      BY <1>2, <1>3, <3>1, <3>2, <3>3 DEF Phase
  <2> QED
    BY <2>1, <2>2 DEF Phases
<1>7. Rows'
  <2>1. \A e \in DOMAIN docs' : SoundRow(e)'
    BY ClientSteps
  <2>2. ASSUME NEW r \in reqs' PROVE Holds(r)'
    BY <1>3 DEF Holds, Pending
  <2>3. \A e \in Clients : ClientHolds(e)'
    BY <1>2 DEF ClientHolds, Pending, AdmissionInv, Rows
  <2> QED
    BY <2>1, <2>2, <2>3 DEF Rows
<1>8. Counted' /\ Weighed'
  BY <1>1, FewerInserts
<1>9. Owed'
  <2>1. ASSUME NEW d \in DOMAIN docs, Secured(d), ~Secured(d)'
        PROVE d = doc[c] \/ \E r \in reqs : r.client = c /\ Secures(r) /\ r.doc = d
    <3>1. CASE \E e \in Clients : progress[e] \in Working /\ doc[e] = d
      BY <1>2, <2>1, <3>1 DEF Secured
    <3>2. CASE \E r \in reqs : r.doc = d /\ Secures(r)
      <4>1. PICK r \in reqs : r.doc = d /\ Secures(r)
        BY <3>2
      <4>2. r \in reqs' /\ r.client # c => Secured(d)'
        BY <1>3, <4>1 DEF Secured, Secures
      <4> QED
        BY <2>1, <4>1, <4>2
    <3> QED
      BY <2>1, <3>1, <3>2 DEF Secured
  <2>2. ASSUME NEW y \in Strays', y \notin Strays
        PROVE \E r \in reqs : r.client = c /\ Waits(r) /\ r.doc = 0 /\ y = Pair(r)
    <3>1. PICK r \in reqs' : Pair(r) = y /\ ~Waits(r)' /\ r.doc = 0
      BY <2>2 DEF Strays
    <3>2. y \in Tries
      BY <2>2 DEF Strays
    <3>3. Waits(r)
      BY <2>2, <3>1, <3>2 DEF Strays
    <3> QED
      BY <1>3, <3>1, <3>3
  <2>3. \A r, p \in reqs : r.client = c /\ p.client = c /\ Waits(r) /\ Waits(p) => r = p
    BY DEF Waits, AdmissionInv, Calls
  <2>4. ASSUME NEW d \in Unsecured', d \notin Unsecured
        PROVE d \in DOMAIN docs /\ d # 0 /\ (d = doc[c] \/ \E r \in reqs : r.client = c /\ Secures(r) /\ r.doc = d)
    <3>1. d \in DOMAIN docs /\ ~Secured(d)' /\ Pending(d)
      BY <2>4 DEF Unsecured, Pending
    <3>2. Secured(d)
      BY <2>4, <3>1 DEF Unsecured
    <3> QED
      BY <1>1, <2>1, <3>1, <3>2
  <2>5. CASE progress[c] \in {"putting", "confirming"}
    <3>1. ASSUME NEW r \in reqs, r.client = c, Waits(r) PROVE r.doc = doc[c] /\ r.doc # 0
      <4>1. progress[c] = "confirming"
        BY <2>5, <3>1 DEF Waits
      <4>2. r.doc = doc[c]
        BY <1>3, <3>1, <4>1 DEF Phase
      <4>3. doc[c] \in DOMAIN docs
        BY <4>1 DEF AdmissionInv, Rows, ClientHolds
      <4> QED
        BY <1>1, <4>2, <4>3
    <3>2. Strays' \subseteq Strays
      BY <2>2, <3>1
    <3>3. Unsecured' \subseteq Unsecured \cup {doc[c]}
      BY <2>4, <3>1 DEF Secures
    <3>4. PICK x : x = doc[c]
      OBVIOUS
    <3> QED
      BY <1>1, <3>2, <3>3, <3>4, OwedLost DEF AdmissionInv
  <2>6. CASE progress[c] = "creating" /\ \E r \in reqs : r.client = c /\ Waits(r) /\ r.doc # 0
    <3>1. PICK r \in reqs : r.client = c /\ Waits(r) /\ r.doc # 0
      BY <2>6
    <3>2. doc[c] = 0
      BY <2>6 DEF AdmissionInv, Phases, ClientPhase
    <3>3. Strays' \subseteq Strays
      BY <2>2, <2>3, <3>1
    <3>4. Unsecured' \subseteq Unsecured \cup {r.doc}
      BY <2>3, <2>4, <3>1, <3>2 DEF Secures
    <3> QED
      BY <1>1, <3>3, <3>4, OwedLost DEF AdmissionInv
  <2>7. CASE progress[c] = "creating" /\ \A r \in reqs : r.client = c /\ Waits(r) => r.doc = 0
    <3>1. doc[c] = 0
      BY <2>7 DEF AdmissionInv, Phases, ClientPhase
    <3>2. Unsecured' \subseteq Unsecured
      BY <2>4, <2>7, <3>1 DEF Secures
    <3>3. PICK x : x = <<c, tries[c]>>
      OBVIOUS
    <3>4. Strays' \subseteq Strays \cup {x}
      BY <2>2, <3>3 DEF Pair, Waits
    <3> QED
      BY <1>1, <3>2, <3>4, OwedLost DEF AdmissionInv
  <2> QED
    BY <2>5, <2>6, <2>7 DEF Working
<1> QED
  BY <1>4, <1>5, <1>6, <1>7, <1>8, <1>9 DEF AdmissionInv

LEMMA PutFailsKeeps ==
  ASSUME AdmissionInv, NEW c \in Clients, PutFails(c)
  PROVE  AdmissionInv'
<1>1. doc[c] \in DOMAIN docs /\ stored \subseteq DOMAIN docs
  BY Types DEF PutFails, AdmissionInv, Rows, ClientHolds
<1>2. stored \subseteq stored' /\ stored' \subseteq DOMAIN docs
  BY <1>1 DEF PutFails
<1>3. \A r \in reqs : r.client = c => ~Waits(r)
  BY DEF PutFails, Waits
<1>4. /\ progress[c] \in Working /\ progress' = [progress EXCEPT ![c] = "failed"]
      /\ reqs' = reqs /\ Loss /\ UNCHANGED <<docs, doc, tries>>
  BY DEF PutFails, Working
<1> QED
  BY <1>2, <1>3, <1>4, Lost

LEMMA GiveUpKeeps ==
  ASSUME AdmissionInv, NEW r \in reqs, GiveUp(r)
  PROVE  AdmissionInv'
<1> DEFINE c == r.client
<1>1. c \in Clients /\ stored \subseteq DOMAIN docs
  BY RequestIs, Types DEF AdmissionInv
<1>2. /\ progress[c] \in Working /\ progress' = [progress EXCEPT ![c] = "failed"]
      /\ Loss /\ UNCHANGED <<docs, stored, doc, tries>> /\ Waits(r)
  BY DEF GiveUp, Waits, Working
<1>3. reqs' = reqs \ {r} \/ (r.pc # "reply" /\ reqs' = reqs)
  BY DEF GiveUp
<1>4. \A q \in reqs' : q.client = c => q.pc # "reply" \/ ~Waits(q)
  BY <1>2, <1>3 DEF Waits, AdmissionInv, Calls
<1>5. reqs' \subseteq reqs /\ \A q \in reqs : q.client # c => q \in reqs'
  BY <1>3
<1> HIDE DEF c
<1> QED
  BY <1>1, <1>2, <1>4, <1>5, Lost

LEMMA DeliverKeeps ==
  ASSUME AdmissionInv, NEW r \in reqs, Deliver(r)
  PROVE  AdmissionInv'
<1> DEFINE c == r.client
<1>1. /\ r.pc = "reply" /\ reqs' = reqs \ {r} /\ doc' = [doc EXCEPT ![c] = r.doc]
      /\ UNCHANGED <<docs, stored, tries, losses>>
  BY DEF Deliver
<1>2. /\ c \in Clients /\ r.doc \in 0..Len(docs) /\ DOMAIN docs = 1..Len(docs) /\ Len(docs) \in Nat
      /\ Phase(r) /\ Holds(r) /\ Waits(r) /\ r \in Requests(Len(docs))
  BY <1>1, RequestIs DEF Phase
<1>3. PICK p \in {"putting", "done", "failed"} :
         /\ progress' = [progress EXCEPT ![c] = p]
         /\ p = "putting" <=> r.reply = "created"
         /\ p = "done" <=> r.reply \in {"duplicate", "confirmed"}
         /\ p = "failed" <=> r.reply = "refused"
  BY DEF Deliver
<1>4. /\ progress \in [Clients -> Working \cup {"idle", "done", "failed"}]
      /\ doc \in [Clients -> 0..Len(docs)] /\ tries \in [Clients -> 0..MaxTries]
      /\ stored \subseteq DOMAIN docs /\ reqs \subseteq Requests(Len(docs)) /\ losses \in Nat
  BY Types DEF AdmissionInv, AdmissionTypeOK
<1> HIDE DEF c
<1>5. /\ progress'[c] = p /\ doc'[c] = r.doc
      /\ \A e \in Clients : e # c => progress'[e] = progress[e] /\ doc'[e] = doc[e]
  BY <1>1, <1>2, <1>3, <1>4
<1>6. ASSUME NEW q \in reqs'
      PROVE /\ q \in reqs /\ q.client \in Clients /\ Phase(q) /\ Holds(q)
            /\ Waits(q)' <=> Waits(q)
            /\ q.client = c => q.n # tries[c]
  <2>1. q \in reqs /\ q # r /\ q.client \in Clients /\ Phase(q) /\ Holds(q)
    BY <1>1, <1>4 DEF AdmissionInv, Phases, Rows, Requests
  <2>2. q.client = c => q.n # tries[c]
    BY <1>2, <2>1 DEF AdmissionInv, Calls, Waits, c
  <2>3. q.client # c => (Waits(q)' <=> Waits(q))
    BY <1>1, <1>5, <2>1 DEF Waits
  <2>4. q.client = c => ~Waits(q) /\ ~Waits(q)'
    BY <1>1, <2>2 DEF Waits
  <2> QED
    BY <2>1, <2>2, <2>3, <2>4
<1>7. AdmissionTypeOK'
  <2>1. progress' \in [Clients -> Working \cup {"idle", "done", "failed"}]
    BY <1>3, <1>4 DEF Working
  <2>2. doc' \in [Clients -> 0..Len(docs)]
    BY <1>1, <1>2, <1>4
  <2>3. reqs' \subseteq Requests(Len(docs))
    BY <1>1, <1>4
  <2> QED
    BY <1>1, <2>1, <2>2, <2>3 DEF AdmissionInv, AdmissionTypeOK, Requests
<1>8. Calls'
  BY <1>1, <1>5, <1>6 DEF AdmissionInv, Calls
<1>9. tries[c] # 0 /\ (r.reply = "confirmed" => r.doc = doc[c]) /\ (r.reply # "confirmed" => progress[c] = "creating")
  <2>1. progress[c] \in {"creating", "confirming"}
    BY <1>2 DEF Waits, c
  <2>2. tries[c] # 0
    BY <1>2, <2>1 DEF AdmissionInv, Phases, ClientPhase, Working
  <2>3. r.reply \in {"created", "duplicate", "refused", "confirmed"}
    BY <1>1, <1>2 DEF Phase, Requests, Replies
  <2> QED
    BY <1>1, <1>2, <2>2, <2>3 DEF Phase, Creating, c
<1>10. Phases'
  <2>1. \A e \in Clients : ClientPhase(e)'
    BY <1>1, <1>2, <1>5, <1>3, <1>9 DEF ClientPhase, AdmissionInv, Phases, Phase, Working
  <2>2. ASSUME NEW q \in reqs' PROVE Phase(q)'
    <3>1. Waits(q)' => q.client # c
      BY <1>6 DEF Waits, c
    <3> QED
      BY <1>1, <1>5, <1>6, <3>1 DEF Phase
  <2> QED
    BY <2>1, <2>2 DEF Phases
<1>11. Rows'
  <2>1. \A e \in DOMAIN docs' : SoundRow(e)'
    BY <1>1, <1>4, ClientSteps
  <2>2. ASSUME NEW q \in reqs' PROVE Holds(q)'
    BY <1>1, <1>6 DEF Holds, Pending
  <2>3. ASSUME NEW e \in Clients PROVE ClientHolds(e)'
    <3>1. CASE e # c
      BY <1>1, <1>5, <3>1 DEF ClientHolds, Pending, AdmissionInv, Rows
    <3>2. CASE e = c
      <4>1. p # "failed" => r.reply \in {"created", "duplicate", "confirmed"}
        BY <1>3
      <4>2. p # "failed" => r.doc \in DOMAIN docs /\ docs[r.doc].content = ContentOf[c]
        BY <1>2, <4>1 DEF Phase, Holds, c
      <4>3. p = "done" => ~Pending(r.doc)
        BY <1>2, <1>3 DEF Holds, Pending
      <4> QED
        BY <1>1, <1>3, <1>5, <3>2, <4>2, <4>3 DEF ClientHolds, Pending
    <3> QED
      BY <3>1, <3>2
  <2> QED
    BY <2>1, <2>2, <2>3 DEF Rows
<1>12. Owed'
  <2>1. ASSUME NEW d \in DOMAIN docs, Secured(d), Pending(d) PROVE Secured(d)'
    <3>1. CASE \E q \in reqs' : q.doc = d /\ Secures(q)
      BY <1>6, <3>1 DEF Secured, Secures
    <3>2. CASE \E e \in Clients : e # c /\ progress[e] \in Working /\ doc[e] = d
      BY <1>5, <3>2 DEF Secured
    <3>3. CASE progress[c] \in Working /\ doc[c] = d
      <4>1. progress[c] # "creating"
        BY <1>2, <3>3 DEF AdmissionInv, Phases, ClientPhase
      <4>2. r.reply = "confirmed" /\ r.doc = d
        BY <1>9, <3>3, <4>1
      <4> QED
        BY <1>2, <2>1, <4>2 DEF Holds
    <3>4. CASE r.doc = d /\ Secures(r)
      <4>1. r.reply \notin {"duplicate", "confirmed"}
        BY <1>2, <2>1, <3>4 DEF Holds, Pending
      <4>2. p = "putting"
        BY <1>3, <3>4, <4>1 DEF Secures
      <4> QED
        BY <1>2, <1>5, <3>4, <4>2 DEF Secured, Working
    <3>5. \/ \E q \in reqs' : q.doc = d /\ Secures(q)
          \/ \E e \in Clients : e # c /\ progress[e] \in Working /\ doc[e] = d
          \/ progress[c] \in Working /\ doc[c] = d
          \/ r.doc = d /\ Secures(r)
      BY <1>1, <2>1 DEF Secured
    <3> QED
      BY <3>1, <3>2, <3>3, <3>4, <3>5
  <2>2. Unsecured' \subseteq Unsecured
    BY <1>1, <2>1 DEF Unsecured, Pending
  <2>3. Strays' \subseteq Strays
    BY <1>6 DEF Strays
  <2> QED
    BY <1>1, <2>2, <2>3, OwedKept DEF AdmissionInv
<1>13. Counted' /\ Weighed'
  BY <1>1, <1>4, FewerInserts
<1> QED
  BY <1>7, <1>8, <1>10, <1>11, <1>12, <1>13 DEF AdmissionInv

-----------------------------------------------------------------------------
\* The theorems

LEMMA Start ==
  ASSUME AdmissionInit
  PROVE  AdmissionInv
<1>1. /\ docs = <<>> /\ stored = {} /\ reqs = {} /\ losses = 0
      /\ progress = [c \in Clients |-> "idle"] /\ doc = [c \in Clients |-> 0] /\ tries = [c \in Clients |-> 0]
  BY DEF AdmissionInit
<1>2. Len(docs) = 0 /\ DOMAIN docs = {} /\ docs \in Seq(Row)
  BY <1>1
<1>3. AdmissionTypeOK
  BY <1>1, <1>2, AdmissionAssumption DEF AdmissionTypeOK, Row
<1>4. Calls /\ Phases /\ Rows
  BY <1>1, <1>2 DEF Calls, Phases, Rows, ClientPhase, ClientHolds, Working
<1>5. Unsecured = {} /\ Strays = {} /\ Inserts = {}
  BY <1>1, <1>2 DEF Unsecured, Strays, Inserts
<1>6. Cardinality({}) = 0
  BY FS_EmptySet
<1>7. Owed
  BY <1>1, <1>5, <1>6 DEF Owed
<1>8. Cardinality(Clients) \in Nat /\ Cardinality(Clients) # 0
  BY <1>3, Types
<1>9. Others \in Nat
  BY <1>1, <1>8 DEF Others
<1>10. Counted
  BY <1>2, <1>5, <1>6, <1>9, AdmissionAssumption DEF Counted
<1>11. StorageBytes = 0
  BY <1>1, TotalOfNone DEF StorageBytes
<1>12. Others * LargestFile \in Nat
  BY <1>9, LargestIs, Products
<1>13. Weighed
  BY <1>5, <1>11, <1>12, AdmissionAssumption DEF Weighed
<1> QED
  BY <1>3, <1>4, <1>7, <1>10, <1>13 DEF AdmissionInv

LEMMA Still ==
  ASSUME AdmissionInv, UNCHANGED <<docs, stored, reqs, progress, doc, tries, losses>>
  PROVE  AdmissionInv'
<1>1. AdmissionTypeOK'
  BY DEF AdmissionInv, AdmissionTypeOK
<1>2. Calls' /\ Phases'
  BY DEF AdmissionInv, Calls, Phases, Phase, ClientPhase, Waits
<1>3. Rows'
  BY DEF AdmissionInv, Rows, SoundRow, Holds, ClientHolds, Pending
<1>4. Unsecured' = Unsecured /\ Strays' = Strays /\ Inserts' = Inserts
  BY DEF Unsecured, Secured, Secures, Waits, Pending, Strays, Inserts
<1>5. Owed'
  BY <1>4 DEF AdmissionInv, Owed
<1>6. Counted' /\ Weighed'
  <2>1. losses' \in Nat /\ losses <= losses'
    BY Types DEF AdmissionInv
  <2> QED
    BY <2>1, FewerInserts
<1> QED
  BY <1>1, <1>2, <1>3, <1>5, <1>6 DEF AdmissionInv

LEMMA StepKeeps ==
  ASSUME AdmissionInv, [AdmissionNext]_admissionVars
  PROVE  AdmissionInv'
<1>1. CASE UNCHANGED admissionVars
  BY <1>1, Still DEF admissionVars
<1>2. ASSUME NEW r \in reqs, Serve(r) PROVE AdmissionInv'
  BY <1>2, ReceiveKeeps, DupKeeps, QuotaKeeps, InsertKeeps, CheckKeeps, ConfirmKeeps, DeliverKeeps DEF Serve
<1>3. ASSUME NEW r \in reqs, GiveUp(r) PROVE AdmissionInv'
  BY <1>3, GiveUpKeeps
<1>4. ASSUME NEW c \in Clients, Pick(c) \/ Put(c) \/ PutFails(c) PROVE AdmissionInv'
  BY <1>4, PickKeeps, PutKeeps, PutFailsKeeps
<1>5. ASSUME NEW c \in Viewers, Poll(c) PROVE AdmissionInv'
  <2>1. UNCHANGED <<docs, stored, reqs, progress, doc, tries, losses>>
    BY <1>5 DEF Poll
  <2> QED
    BY <2>1, Still
<1>6. ASSUME NEW d \in DOMAIN docs, Process(d) PROVE AdmissionInv'
  BY <1>6, ProcessKeeps
<1> QED
  BY <1>1, <1>2, <1>3, <1>4, <1>5, <1>6 DEF AdmissionNext

LEMMA Accounts ==
  ASSUME AdmissionInv
  PROVE  UploadsAccounted
<1>1. /\ AdmissionTypeOK /\ losses \in Nat /\ Cardinality(Clients) \in Nat /\ Len(docs) \in Nat
      /\ Cardinality(Inserts) \in Nat
  BY Types, PairsFinite, FS_CardinalityType DEF AdmissionInv
<1>2. UploadOvershootBounded
  <2>1. Len(docs) + Cardinality(Inserts) <= MaxDocuments + Others
    BY DEF AdmissionInv, Counted
  <2>2. Len(docs) <= MaxDocuments + Others
    BY <1>1, <2>1, AdmissionAssumption DEF Others
  <2> QED
    BY <2>2 DEF UploadOvershootBounded, Others, AdmissionInv, Weighed
<1>3. KeyedUploadOnce
  <2> SUFFICES ASSUME NEW c \in Apps PROVE Cardinality(WithKey(c)) <= 1
    BY DEF KeyedUploadOnce
  <2>1. \A d, e \in WithKey(c) : d = e
    BY DEF WithKey, AdmissionInv, Rows, SoundRow
  <2>2. CASE WithKey(c) = {}
    BY <2>2, FS_EmptySet
  <2>3. CASE WithKey(c) # {}
    <3>1. PICK d : WithKey(c) = {d}
      BY <2>1, <2>3
    <3>2. Cardinality({d}) = 1
      BY FS_Singleton
    <3> QED
      BY <3>1, <3>2
  <2> QED
    BY <2>2, <2>3
<1>4. PendingAreOwed
  <2> DEFINE Left == {d \in DOMAIN docs :
                        /\ Pending(d)
                        /\ ~\E r \in reqs : r.doc = d /\ Waits(r)
                        /\ ~\E c \in Clients : progress[c] \in Working /\ doc[c] = d}
  <2>1. Left \subseteq Unsecured
    BY DEF Unsecured, Secured, Secures
  <2> HIDE DEF Left
  <2>2. /\ Cardinality(Left) \in Nat /\ Cardinality(Unsecured) \in Nat /\ Cardinality(Strays) \in Nat
        /\ Cardinality(Left) <= Cardinality(Unsecured)
    BY <1>1, <2>1, RowsFinite, PairsFinite, NoMore
  <2>3. Cardinality(Left) <= losses
    BY <1>1, <2>2 DEF AdmissionInv, Owed
  <2> QED
    BY <2>3 DEF PendingAreOwed, Left
<1>5. DoneIsStored
  <2>1. ASSUME NEW c \in Clients, progress[c] = "done"
        PROVE docs[doc[c]].content = ContentOf[c] /\ doc[c] \in stored /\ ~Pending(doc[c])
    <3>1. doc[c] \in DOMAIN docs /\ docs[doc[c]].content = ContentOf[c] /\ ~Pending(doc[c])
      BY <2>1 DEF AdmissionInv, Rows, ClientHolds
    <3> QED
      BY <3>1 DEF AdmissionInv, Rows, SoundRow
  <2>2. \A r \in reqs : r.reply = "duplicate" => docs[r.doc].status = "ready"
    BY DEF AdmissionInv, Rows, Holds
  <2> QED
    BY <2>1, <2>2 DEF DoneIsStored
<1> QED
  BY <1>1, <1>2, <1>3, <1>4, <1>5 DEF UploadsAccounted

LEMMA AlwaysInv == AdmissionSpec => []AdmissionInv
BY Start, StepKeeps, PTL DEF AdmissionSpec

(* The rows of a workspace are always accounted for, however the requests of *)
(* its clients overlap and whatever is lost: the quota is exceeded only by   *)
(* what raced, a key makes one row, and a client is told "done" of a stored  *)
(* document of its own file.                                                 *)
THEOREM UploadsAlwaysAccounted == AdmissionSpec => []UploadsAccounted
BY AlwaysInv, Accounts, PTL

(* A document moves through the worker in one direction: a late or repeated  *)
(* confirmation leaves its status alone.                                     *)
THEOREM ProcessedOnlyOnce == AdmissionSpec => ProcessedOnce
<1>1. ASSUME AdmissionInv, [AdmissionNext]_admissionVars
      PROVE  [\A d \in DOMAIN docs : docs'[d] # docs[d] => Rank(docs'[d].status) > Rank(docs[d].status)]_admissionVars
  <2> SUFFICES ASSUME AdmissionNext, NEW d \in DOMAIN docs, docs'[d] # docs[d]
               PROVE  Rank(docs'[d].status) > Rank(docs[d].status)
    BY <1>1
  <2>0. docs \in Seq(Row) /\ docs[d] \in Row /\ DOMAIN docs = 1..Len(docs) /\ Len(docs) \in Nat
    BY <1>1, Types DEF AdmissionInv
  <2>1. ASSUME NEW r \in reqs, Confirm(r) PROVE Rank(docs'[d].status) > Rank(docs[d].status)
    <3>1. Pending(r.doc) /\ docs' = [docs EXCEPT ![r.doc] = [docs[r.doc] EXCEPT !.status = "queued"]]
      BY <2>1 DEF Confirm
    <3>2. d = r.doc
      BY <3>1
    <3>3. docs'[d].status = "queued" /\ docs[d].status = "pending_upload"
      BY <2>0, <3>1, <3>2 DEF Pending, Row
    <3> QED
      BY <3>3 DEF Rank
  <2>2. ASSUME NEW r \in reqs, Insert(r) PROVE FALSE
    <3>1. docs' = Inserted(r.client) /\ r.client \in Clients
      BY <1>1, <2>2, RequestIs DEF Insert
    <3>2. docs'[d] = docs[d]
      BY <2>0, <3>1 DEF Inserted, Row
    <3> QED
      BY <3>2
  <2>3. ASSUME NEW e \in DOMAIN docs, Process(e) PROVE Rank(docs'[d].status) > Rank(docs[d].status)
    <3>1. CASE docs[e].status = "queued" /\ docs' = [docs EXCEPT ![e] = [docs[e] EXCEPT !.status = "processing"]]
      <4>1. d = e
        BY <3>1
      <4>2. docs'[d].status = "processing" /\ docs[d].status = "queued"
        BY <2>0, <3>1, <4>1 DEF Row
      <4> QED
        BY <4>2 DEF Rank
    <3>2. ASSUME NEW s \in {"ready", "failed"}, docs[e].status = "processing",
                 docs' = [docs EXCEPT ![e] = [docs[e] EXCEPT !.status = s]]
          PROVE Rank(docs'[d].status) > Rank(docs[d].status)
      <4>1. d = e
        BY <3>2
      <4>2. docs'[d].status = s /\ docs[d].status = "processing"
        BY <2>0, <3>2, <4>1 DEF Row
      <4> QED
        BY <4>2 DEF Rank
    <3> QED
      BY <2>3, <3>1, <3>2 DEF Process
  <2> QED
    BY <2>1, <2>2, <2>3 DEF AdmissionNext, Serve, Receive, Gate, Find, Dup, Quota, Check, Deliver, GiveUp,
       Pick, Put, PutFails, Poll
<1> QED
  BY <1>1, AlwaysInv, PTL DEF AdmissionSpec, ProcessedOnce

-----------------------------------------------------------------------------
\* Answering: the first and the last of a set of positions

LEMMA FirstExists ==
  ASSUME NEW S, S \subseteq Nat, S # {}
  PROVE  \E i \in S : \A j \in S : i <= j
<1>1. PICK i \in S : \A j \in S : ~ (<<j, i>> \in Less)
  BY LessWF, WFMin
<1>2. ASSUME NEW j \in S, j < i PROVE FALSE
  <2>1. j \in Nat /\ i \in Nat
    OBVIOUS
  <2>2. <<j, i>> \in Less
    BY <1>2, <2>1 DEF Less
  <2> QED
    BY <1>1, <2>2
<1>3. \A j \in S : j \in Nat /\ i \in Nat
  OBVIOUS
<1> QED
  BY <1>2, <1>3

LEMMA LastExists ==
  ASSUME NEW n \in Nat, NEW S, S \subseteq 0..n, S # {}
  PROVE  \E i \in S : \A j \in S : j <= i
<1> DEFINE T == {n - i : i \in S}
<1>1. T \subseteq Nat /\ T # {}
  <2>1. \A i \in S : i \in 0..n /\ n - i \in Nat
    OBVIOUS
  <2>2. PICK i \in S : TRUE
    OBVIOUS
  <2>3. n - i \in T
    OBVIOUS
  <2> QED
    BY <2>1, <2>3
<1>2. PICK t \in T : \A u \in T : t <= u
  BY <1>1, FirstExists
<1>3. PICK i \in S : t = n - i
  BY <1>2
<1>4. ASSUME NEW j \in S PROVE j <= i
  <2>1. n - j \in T
    OBVIOUS
  <2>2. t <= n - j /\ i \in 0..n /\ j \in 0..n
    BY <1>2, <2>1
  <2> QED
    BY <1>3, <2>2
<1> QED
  BY <1>4

-----------------------------------------------------------------------------
\* AnswerStream: where the marker is

Whole == Len(Marker)

LEMMA MarkerTyped == Marker \in Seq(Chars) /\ Whole \in Nat /\ Whole > 0 /\ \A k \in 1..Whole : Marker[k] \in Chars
BY AnswerStreamAssumption, LenProperties, ElementOfSeq DEF Whole

LEMMA Positioned ==
  ASSUME NEW t \in Seq(Chars), NEW i \in Int
  PROVE  i \in Positions(t) <=> /\ 1 <= i /\ i + Whole - 1 <= Len(t)
                                /\ \A k \in 1..Whole : t[i + k - 1] = Marker[k]
<1>1. Whole \in Nat /\ Len(t) \in Nat /\ Marker \in Seq(Chars)
  BY MarkerTyped, LenProperties
<1>2. i \in Positions(t) <=> 1 <= i /\ i + Whole - 1 <= Len(t) /\ MarkerAt(t, i)
  BY <1>1 DEF Positions, Whole
<1>3. ASSUME 1 <= i, i + Whole - 1 <= Len(t)
      PROVE  MarkerAt(t, i) <=> \A k \in 1..Whole : t[i + k - 1] = Marker[k]
  <2> DEFINE b == SubSeq(t, i, i + Whole - 1)
  <2>1. \A k \in i..(i + Whole - 1) : t[k] \in Chars
    BY <1>1, <1>3, ElementOfSeq
  <2>2. b \in Seq(Chars) /\ Len(b) = Whole /\ \A k \in 1..Whole : b[k] = t[i + k - 1]
    <3>1. i + Whole - 1 \in Int /\ (i + Whole - 1) - i + 1 = Whole
      BY <1>1
    <3>2. Len(b) = IF i <= i + Whole - 1 THEN (i + Whole - 1) - i + 1 ELSE 0
      BY <2>1, <3>1, SubSeqProperties
    <3>3. b \in Seq(Chars) /\ \A k \in 1..((i + Whole - 1) - i + 1) : b[k] = t[i + k - 1]
      BY <2>1, <3>1, SubSeqProperties
    <3> HIDE DEF b
    <3> QED
      BY <1>1, <3>1, <3>2, <3>3, MarkerTyped
  <2>3. b = Marker <=> \A k \in 1..Whole : b[k] = Marker[k]
    <3> HIDE DEF b
    <3> QED
      BY <1>1, <2>2, SeqEqual DEF Whole
  <2>4. MarkerAt(t, i) <=> b = Marker
    BY DEF MarkerAt, Whole
  <2> HIDE DEF b
  <2> QED
    BY <2>2, <2>3, <2>4
<1> QED
  BY <1>2, <1>3

LEMMA PositionsNat ==
  ASSUME NEW t \in Seq(Chars)
  PROVE  Positions(t) \subseteq Nat \ {0}
BY LenProperties, MarkerTyped DEF Positions, Whole

LEMMA FirstMarkerIs ==
  ASSUME NEW t \in Seq(Chars), Positions(t) # {}
  PROVE  FirstMarker(t) \in Positions(t) /\ \A j \in Positions(t) : FirstMarker(t) <= j
<1>1. \E i \in Positions(t) : \A j \in Positions(t) : i <= j
  BY PositionsNat, FirstExists
<1> QED
  BY <1>1 DEF FirstMarker

LEMMA FirstMarkerUnique ==
  ASSUME NEW t \in Seq(Chars), NEW p \in Positions(t), \A j \in Positions(t) : p <= j
  PROVE  FirstMarker(t) = p
<1>1. FirstMarker(t) \in Positions(t) /\ FirstMarker(t) <= p /\ p <= FirstMarker(t)
  BY FirstMarkerIs
<1> QED
  BY <1>1, PositionsNat

(* The end of a text that is a beginning of the marker. *)
Begins(t, k) == \A h \in 1..k : t[Len(t) - k + h] = Marker[h]

LEMMA BeginsIs ==
  ASSUME NEW t \in Seq(Chars), NEW k \in 0..Len(t), k <= Whole - 1
  PROVE  SubSeq(t, Len(t) - k + 1, Len(t)) = SubSeq(Marker, 1, k) <=> Begins(t, k)
<1> DEFINE a == SubSeq(t, Len(t) - k + 1, Len(t))
           b == SubSeq(Marker, 1, k)
<1>1. Len(t) \in Nat /\ Whole \in Nat /\ k \in Nat
  BY LenProperties, MarkerTyped
<1>2. a \in Seq(Chars) /\ Len(a) = k /\ \A h \in 1..k : a[h] = t[Len(t) - k + h]
  <2> DEFINE m == Len(t) - k + 1
             n == Len(t)
  <2>1. m \in Int /\ n \in Int /\ n - m + 1 = k /\ (m <= n <=> k > 0)
    BY <1>1
  <2>2. \A h \in m..n : t[h] \in Chars
    BY <1>1, ElementOfSeq
  <2>3. a \in Seq(Chars) /\ Len(a) = (IF m <= n THEN n - m + 1 ELSE 0) /\ \A h \in 1..(n - m + 1) : a[h] = t[m + h - 1]
    <3> HIDE DEF m, n
    <3>1. SubSeq(t, m, n) \in Seq(Chars) /\ Len(SubSeq(t, m, n)) = (IF m <= n THEN n - m + 1 ELSE 0)
          /\ \A h \in 1..(n - m + 1) : SubSeq(t, m, n)[h] = t[m + h - 1]
      BY <2>1, <2>2, SubSeqProperties
    <3> QED
      BY <3>1 DEF m, n
  <2>4. \A h \in 1..k : m + h - 1 = Len(t) - k + h
    BY <1>1
  <2> HIDE DEF a
  <2> QED
    BY <1>1, <2>1, <2>3, <2>4
<1>3. b \in Seq(Chars) /\ Len(b) = k /\ \A h \in 1..k : b[h] = Marker[h]
  <2>1. \A h \in 1..k : Marker[h] \in Chars
    BY <1>1, MarkerTyped
  <2>2. b \in Seq(Chars) /\ Len(b) = (IF 1 <= k THEN k - 1 + 1 ELSE 0) /\ \A h \in 1..(k - 1 + 1) : b[h] = Marker[1 + h - 1]
    BY <1>1, <2>1, SubSeqProperties
  <2> HIDE DEF b
  <2> QED
    BY <1>1, <2>2
<1>4. a = b <=> \A h \in 1..k : a[h] = b[h]
  <2> HIDE DEF a, b
  <2> QED
    BY <1>2, <1>3, SeqEqual
<1> HIDE DEF a, b
<1>5. a = b <=> Begins(t, k)
  BY <1>2, <1>3, <1>4 DEF Begins
<1> QED
  BY <1>5 DEF a, b

(* What is held back is the longest end that may become the marker. *)
LEMMA PrefixLengthIs ==
  ASSUME NEW t \in Seq(Chars)
  PROVE  LET l == MarkerPrefixLength(t) IN
         /\ l \in 0..Len(t) /\ l <= Whole - 1 /\ Begins(t, l)
         /\ \A k \in 0..Len(t) : k <= Whole - 1 /\ Begins(t, k) => k <= l
<1> DEFINE K == {k \in 0..Len(t) : k <= Whole - 1
                /\ SubSeq(t, Len(t) - k + 1, Len(t)) = SubSeq(Marker, 1, k)}
<1>1. Len(t) \in Nat /\ Whole \in Nat /\ Whole > 0
  BY LenProperties, MarkerTyped
<1>2. \A k \in 0..Len(t) : k \in K <=> k <= Whole - 1 /\ Begins(t, k)
  BY BeginsIs
<1>3. K \subseteq 0..Len(t)
  OBVIOUS
<1>4. MarkerPrefixLength(t) = CHOOSE k \in K : \A j \in K : j <= k
  BY DEF MarkerPrefixLength, Whole
<1> HIDE DEF K
<1>5. 0 \in K
  BY <1>1, <1>2 DEF Begins
<1>6. \E k \in K : \A j \in K : j <= k
  BY <1>1, <1>3, <1>5, LastExists
<1>7. MarkerPrefixLength(t) \in K /\ \A j \in K : j <= MarkerPrefixLength(t)
  BY <1>4, <1>6
<1> QED
  BY <1>2, <1>3, <1>7

-----------------------------------------------------------------------------
\* AnswerStream: texts

LEMMA CutOf ==
  ASSUME NEW t \in Seq(Chars), NEW i \in Nat, NEW j \in Nat, 1 <= i, i <= j + 1, j <= Len(t)
  PROVE  /\ SubSeq(t, i, j) \in Seq(Chars) /\ Len(SubSeq(t, i, j)) = j - i + 1
         /\ \A h \in 1..(j - i + 1) : SubSeq(t, i, j)[h] = t[i + h - 1]
<1>1. \A h \in i..j : t[h] \in Chars
  BY LenProperties, ElementOfSeq
<1>2. i \in Int /\ j \in Int
  OBVIOUS
<1>3. /\ SubSeq(t, i, j) \in Seq(Chars) /\ Len(SubSeq(t, i, j)) = IF i <= j THEN j - i + 1 ELSE 0
      /\ \A h \in 1..(j - i + 1) : SubSeq(t, i, j)[h] = t[i + h - 1]
  BY <1>1, <1>2, SubSeqProperties
<1> QED
  BY <1>3

LEMMA Joined ==
  ASSUME NEW b \in Seq(Chars), NEW t \in Seq(Chars)
  PROVE  /\ b \o t \in Seq(Chars) /\ Len(b \o t) = Len(b) + Len(t) /\ Len(b) \in Nat /\ Len(t) \in Nat
         /\ \A i \in 1..Len(b) : (b \o t)[i] = b[i]
         /\ \A i \in 1..Len(t) : (b \o t)[Len(b) + i] = t[i]
<1>1. Len(b) \in Nat /\ Len(t) \in Nat
  BY LenProperties
<1>2. /\ b \o t \in Seq(Chars) /\ Len(b \o t) = Len(b) + Len(t)
      /\ \A i \in 1..(Len(b) + Len(t)) : (b \o t)[i] = IF i <= Len(b) THEN b[i] ELSE t[i - Len(b)]
  BY ConcatProperties
<1>3. \A i \in 1..Len(b) : (b \o t)[i] = b[i]
  BY <1>1, <1>2
<1>4. ASSUME NEW i \in 1..Len(t) PROVE (b \o t)[Len(b) + i] = t[i]
  <2>1. Len(b) + i \in 1..(Len(b) + Len(t)) /\ ~ (Len(b) + i <= Len(b)) /\ (Len(b) + i) - Len(b) = i
    BY <1>1
  <2> QED
    BY <1>2, <2>1
<1> QED
  BY <1>1, <1>2, <1>3, <1>4

(* No marker begins at one of the first n characters, whatever follows. *)
Hopeless(t, n) ==
    \A i \in 1..n : \E k \in 1..Whole : i + k - 1 <= Len(t) /\ t[i + k - 1] # Marker[k]

LEMMA HopelessGrows ==
  ASSUME NEW s \in Seq(Chars), NEW c \in Seq(Chars), NEW n \in Nat, Hopeless(s, n)
  PROVE  Hopeless(s \o c, n)
<1> SUFFICES ASSUME NEW i \in 1..n
             PROVE  \E k \in 1..Whole : i + k - 1 <= Len(s \o c) /\ (s \o c)[i + k - 1] # Marker[k]
  BY DEF Hopeless
<1>1. PICK k \in 1..Whole : i + k - 1 <= Len(s) /\ s[i + k - 1] # Marker[k]
  BY DEF Hopeless
<1>2. i + k - 1 \in 1..Len(s) /\ Len(s) <= Len(s \o c)
  BY <1>1, MarkerTyped, Joined
<1>3. (s \o c)[i + k - 1] = s[i + k - 1]
  BY <1>2, Joined
<1> QED
  BY <1>1, <1>2, <1>3, Joined, SMTT(60)

LEMMA HopelessEnds ==
  ASSUME NEW s \in Seq(Chars), NEW n \in Nat, n <= Len(s), Hopeless(s, n), NEW j \in Positions(s)
  PROVE  j > n
<1>1. j \in Nat /\ 1 <= j /\ j + Whole - 1 <= Len(s) /\ \A k \in 1..Whole : s[j + k - 1] = Marker[k]
  BY PositionsNat, Positioned
<1>2. ASSUME j <= n PROVE FALSE
  <2>1. j \in 1..n
    BY <1>1, <1>2
  <2>2. PICK k \in 1..Whole : s[j + k - 1] # Marker[k]
    BY <2>1 DEF Hopeless
  <2> QED
    BY <1>1, <2>2
<1> QED
  BY <1>1, <1>2

LEMMA NoneInside ==
  ASSUME NEW s \in Seq(Chars), NEW n \in Nat, n <= Len(s), Hopeless(s, n), Len(s) - n < Whole
  PROVE  Positions(s) = {}
<1> SUFFICES ASSUME NEW j \in Positions(s) PROVE FALSE
  OBVIOUS
<1>1. j > n
  BY HopelessEnds
<1>2. j \in Nat /\ j + Whole - 1 <= Len(s)
  BY PositionsNat, Positioned
<1> QED
  BY <1>1, <1>2, MarkerTyped, LenProperties

LEMMA MarkerFound ==
  ASSUME NEW b \in Seq(Chars), NEW t \in Seq(Chars), Hopeless(b \o t, Len(b)), Positions(t) # {}
  PROVE  LET s == b \o t
             i == FirstMarker(t)
             p == FirstMarker(s)
         IN /\ i \in Positions(t) /\ Positions(s) # {}
            /\ b \o SubSeq(t, 1, i - 1) = SubSeq(s, 1, p - 1)
            /\ SubSeq(t, i + Whole, Len(t)) = SubSeq(s, p + Whole, Len(s))
            /\ b \o SubSeq(t, 1, i - 1) \in Seq(Chars) /\ SubSeq(t, i + Whole, Len(t)) \in Seq(Chars)
<1>1. PICK s, i, n, m : s = b \o t /\ i = FirstMarker(t) /\ n = Len(b) /\ m = Len(t)
  OBVIOUS
<1>2. /\ s \in Seq(Chars) /\ Len(s) = n + m /\ n \in Nat /\ m \in Nat /\ Whole \in Nat /\ Whole > 0
      /\ \A h \in 1..n : s[h] = b[h]
      /\ \A h \in 1..m : s[n + h] = t[h]
  BY <1>1, Joined, MarkerTyped
<1>3. i \in Positions(t) /\ \A j \in Positions(t) : i <= j
  BY <1>1, FirstMarkerIs
<1>4. i \in Nat /\ 1 <= i /\ i + Whole - 1 <= m /\ \A k \in 1..Whole : t[i + k - 1] = Marker[k]
  BY <1>1, <1>3, PositionsNat, Positioned, SMTT(60)
<1>5. n + i \in Positions(s)
  <2>1. ASSUME NEW k \in 1..Whole PROVE s[(n + i) + k - 1] = Marker[k]
    <3>1. i + k - 1 \in 1..m /\ (n + i) + k - 1 = n + (i + k - 1)
      BY <1>2, <1>4
    <3>2. s[n + (i + k - 1)] = t[i + k - 1]
      BY <1>2, <3>1
    <3> QED
      BY <1>4, <3>1, <3>2
  <2>2. n + i \in Int /\ 1 <= n + i /\ (n + i) + Whole - 1 <= Len(s)
    BY <1>2, <1>4
  <2> QED
    BY <1>2, <2>1, <2>2, Positioned
<1>6. ASSUME NEW j \in Positions(s) PROVE n + i <= j
  <2>1. j > n
    <3>1. n <= Len(s) /\ Hopeless(s, n)
      BY <1>1, <1>2
    <3> QED
      BY <1>2, <3>1, HopelessEnds
  <2>2. j \in Nat /\ j + Whole - 1 <= n + m /\ \A k \in 1..Whole : s[j + k - 1] = Marker[k]
    BY <1>2, PositionsNat, Positioned, SMTT(60)
  <2>3. j - n \in Int /\ 1 <= j - n /\ (j - n) + Whole - 1 <= m
    BY <1>2, <2>1, <2>2
  <2>4. ASSUME NEW k \in 1..Whole PROVE t[(j - n) + k - 1] = Marker[k]
    <3>1. (j - n) + k - 1 \in 1..m /\ n + ((j - n) + k - 1) = j + k - 1
      BY <1>2, <2>2, <2>3
    <3>2. s[n + ((j - n) + k - 1)] = t[(j - n) + k - 1]
      BY <1>2, <3>1
    <3> QED
      BY <2>2, <3>1, <3>2
  <2>5. j - n \in Positions(t)
    BY <1>1, <2>3, <2>4, Positioned
  <2>6. i <= j - n
    BY <1>3, <2>5
  <2> QED
    BY <1>2, <1>4, <2>2, <2>6
<1>7. FirstMarker(s) = n + i
  BY <1>2, <1>5, <1>6, FirstMarkerUnique
<1>8. b \o SubSeq(t, 1, i - 1) \in Seq(Chars) /\ b \o SubSeq(t, 1, i - 1) = SubSeq(s, 1, (n + i) - 1)
  <2>1. PICK u : u = SubSeq(t, 1, i - 1)
    OBVIOUS
  <2>2. u \in Seq(Chars) /\ Len(u) = i - 1 /\ \A h \in 1..(i - 1) : u[h] = t[h]
    <3>1. i - 1 \in Nat /\ 1 \in Nat /\ 1 <= (i - 1) + 1 /\ i - 1 <= Len(t) /\ (i - 1) - 1 + 1 = i - 1
      BY <1>1, <1>2, <1>4
    <3>2. u \in Seq(Chars) /\ Len(u) = (i - 1) - 1 + 1 /\ \A h \in 1..((i - 1) - 1 + 1) : u[h] = t[1 + h - 1]
      BY <2>1, <3>1, CutOf
    <3> QED
      BY <3>1, <3>2
  <2>3. PICK v : v = SubSeq(s, 1, (n + i) - 1)
    OBVIOUS
  <2>4. v \in Seq(Chars) /\ Len(v) = n + (i - 1) /\ \A h \in 1..(n + (i - 1)) : v[h] = s[h]
    <3>1. (n + i) - 1 \in Nat /\ 1 \in Nat /\ 1 <= ((n + i) - 1) + 1 /\ (n + i) - 1 <= Len(s) /\ ((n + i) - 1) - 1 + 1 = n + (i - 1)
      BY <1>2, <1>4
    <3>2. v \in Seq(Chars) /\ Len(v) = ((n + i) - 1) - 1 + 1 /\ \A h \in 1..(((n + i) - 1) - 1 + 1) : v[h] = s[1 + h - 1]
      BY <1>2, <2>3, <3>1, CutOf
    <3> QED
      BY <3>1, <3>2
  <2>5. /\ b \o u \in Seq(Chars) /\ Len(b \o u) = n + (i - 1)
        /\ \A h \in 1..n : (b \o u)[h] = b[h]
        /\ \A h \in 1..(i - 1) : (b \o u)[n + h] = u[h]
    <3>1. /\ b \o u \in Seq(Chars) /\ Len(b \o u) = Len(b) + Len(u)
          /\ \A h \in 1..Len(b) : (b \o u)[h] = b[h]
          /\ \A h \in 1..Len(u) : (b \o u)[Len(b) + h] = u[h]
      BY <2>2, Joined
    <3> QED
      BY <1>1, <2>2, <3>1
  <2>6. ASSUME NEW h \in 1..Len(b \o u) PROVE (b \o u)[h] = v[h]
    <3>1. CASE h <= n
      BY <1>2, <2>4, <2>5, <3>1
    <3>2. CASE h > n
      <4>1. h - n \in 1..(i - 1) /\ n + (h - n) = h /\ h - n \in 1..m
        BY <1>2, <1>4, <2>5, <3>2
      <4>2. (b \o u)[n + (h - n)] = t[h - n] /\ s[n + (h - n)] = t[h - n]
        BY <1>2, <2>2, <2>5, <4>1
      <4> QED
        BY <2>4, <2>5, <4>1, <4>2
    <3> QED
      BY <1>2, <2>5, <3>1, <3>2
  <2>7. b \o u = v
    BY <2>4, <2>5, <2>6, SeqEqual
  <2> QED
    BY <2>1, <2>3, <2>5, <2>7
<1>9. SubSeq(t, i + Whole, Len(t)) \in Seq(Chars) /\ SubSeq(t, i + Whole, Len(t)) = SubSeq(s, (n + i) + Whole, Len(s))
  <2>1. PICK u, v : u = SubSeq(t, i + Whole, m) /\ v = SubSeq(s, (n + i) + Whole, n + m)
    OBVIOUS
  <2>2. u \in Seq(Chars) /\ Len(u) = m - (i + Whole) + 1 /\ \A h \in 1..(m - (i + Whole) + 1) : u[h] = t[(i + Whole) + h - 1]
    <3>1. i + Whole \in Nat /\ m \in Nat /\ 1 <= i + Whole /\ i + Whole <= m + 1 /\ m <= Len(t)
      BY <1>1, <1>2, <1>4, SMTT(60)
    <3> QED
      BY <2>1, <3>1, CutOf, SMTT(60)
  <2>3. /\ v \in Seq(Chars) /\ Len(v) = (n + m) - ((n + i) + Whole) + 1
        /\ \A h \in 1..((n + m) - ((n + i) + Whole) + 1) : v[h] = s[((n + i) + Whole) + h - 1]
    <3>1. (n + i) + Whole \in Nat /\ n + m \in Nat /\ 1 <= (n + i) + Whole /\ (n + i) + Whole <= (n + m) + 1 /\ n + m <= Len(s)
      BY <1>2, <1>4, SMTT(60)
    <3> QED
      BY <1>2, <2>1, <3>1, CutOf, SMTT(60)
  <2>4. (n + m) - ((n + i) + Whole) + 1 = m - (i + Whole) + 1
    BY <1>2, <1>4
  <2>5. ASSUME NEW h \in 1..Len(u) PROVE u[h] = v[h]
    <3>1. (i + Whole) + h - 1 \in 1..m /\ ((n + i) + Whole) + h - 1 = n + ((i + Whole) + h - 1)
      BY <1>2, <1>4, <2>2, SMTT(60)
    <3>2. s[n + ((i + Whole) + h - 1)] = t[(i + Whole) + h - 1]
      BY <1>2, <3>1
    <3> QED
      BY <2>2, <2>3, <2>4, <3>1, <3>2
  <2>6. u = v
    BY <2>2, <2>3, <2>4, <2>5, SeqEqual
  <2> QED
    BY <1>1, <1>2, <2>1, <2>2, <2>6
<1> QED
  BY <1>1, <1>3, <1>5, <1>7, <1>8, <1>9

(* A text without the marker: its end may become one, the rest is passed on. *)
LEMMA MarkerAwaited ==
  ASSUME NEW b \in Seq(Chars), NEW t \in Seq(Chars), Hopeless(b \o t, Len(b)), Positions(t) = {}
  PROVE  LET safe == Len(t) - MarkerPrefixLength(t)
             out == b \o SubSeq(t, 1, safe)
             held == SubSeq(t, safe + 1, Len(t))
         IN /\ out \in Seq(Chars) /\ held \in Seq(Chars) /\ out \o held = b \o t
            /\ Hopeless(b \o t, Len(out)) /\ Positions(b \o t) = {}
            /\ Len(held) < Whole /\ held = SubSeq(Marker, 1, Len(held))
<1>1. PICK s, n, m, l : s = b \o t /\ n = Len(b) /\ m = Len(t) /\ l = MarkerPrefixLength(t)
  OBVIOUS
<1>2. /\ s \in Seq(Chars) /\ Len(s) = n + m /\ n \in Nat /\ m \in Nat /\ Whole \in Nat /\ Whole > 0
      /\ \A h \in 1..n : s[h] = b[h]
      /\ \A h \in 1..m : s[n + h] = t[h]
  BY <1>1, Joined, MarkerTyped
<1>3. /\ l \in 0..m /\ l <= Whole - 1 /\ Begins(t, l)
      /\ \A k \in 0..m : k <= Whole - 1 /\ Begins(t, k) => k <= l
  BY <1>1, PrefixLengthIs
<1>4. PICK u, v : u = SubSeq(t, 1, m - l) /\ v = SubSeq(t, (m - l) + 1, m)
  OBVIOUS
<1>5. u \in Seq(Chars) /\ Len(u) = m - l
  <2>1. m - l \in Nat /\ 1 \in Nat /\ 1 <= (m - l) + 1 /\ m - l <= Len(t) /\ (m - l) - 1 + 1 = m - l
    BY <1>1, <1>2, <1>3
  <2>2. u \in Seq(Chars) /\ Len(u) = (m - l) - 1 + 1
    BY <1>4, <2>1, CutOf
  <2> QED
    BY <2>1, <2>2
<1>6. v \in Seq(Chars) /\ Len(v) = l /\ v = SubSeq(Marker, 1, l)
  <2>1. (m - l) + 1 \in Nat /\ m \in Nat /\ 1 <= (m - l) + 1 /\ (m - l) + 1 <= m + 1 /\ m <= Len(t) /\ m - ((m - l) + 1) + 1 = l
    BY <1>1, <1>2, <1>3
  <2>2. v \in Seq(Chars) /\ Len(v) = m - ((m - l) + 1) + 1
    BY <1>4, <2>1, CutOf
  <2>3. SubSeq(t, Len(t) - l + 1, Len(t)) = SubSeq(Marker, 1, l)
    BY <1>1, <1>3, BeginsIs
  <2> QED
    BY <1>1, <1>4, <2>1, <2>2, <2>3
<1>7. b \o u \in Seq(Chars) /\ Len(b \o u) = n + (m - l)
  BY <1>1, <1>5, Joined, ZenonT(60)
<1>8. u \o v = t
  <2>1. 1 \in 1..(Len(t) + 1) /\ m - l \in (1 - 1)..Len(t) /\ Len(t) \in (m - l)..Len(t)
    BY <1>1, <1>2, <1>3
  <2>2. SubSeq(t, 1, m - l) \o SubSeq(t, (m - l) + 1, Len(t)) = SubSeq(t, 1, Len(t))
    BY <2>1, ConcatAdjacentSubSeq
  <2> QED
    BY <1>1, <1>4, <2>2, SubSeqFull
<1>9. (b \o u) \o v = s
  <2>1. (b \o u) \o v = b \o (u \o v)
    <3>1. b \in Seq(Chars) /\ u \in Seq(Chars) /\ v \in Seq(Chars)
      BY <1>5, <1>6
    <3> QED
      BY ONLY <3>1, ConcatAssociative, SMTT(60)
  <2> QED
    BY <1>1, <1>8, <2>1
<1>10. Hopeless(s, n + (m - l))
  <2> SUFFICES ASSUME NEW i \in 1..(n + (m - l))
               PROVE  \E k \in 1..Whole : i + k - 1 <= Len(s) /\ s[i + k - 1] # Marker[k]
    BY DEF Hopeless
  <2>1. CASE i <= n
    <3>1. i \in 1..n /\ Hopeless(s, n)
      BY <1>1, <1>2, <2>1
    <3> QED
      BY <3>1 DEF Hopeless
  <2>2. CASE i > n
    <3> SUFFICES ASSUME \A k \in 1..Whole : i + k - 1 <= Len(s) => s[i + k - 1] = Marker[k] PROVE FALSE
      OBVIOUS
    <3>1. PICK q, r : q = i - n /\ r = m - (i - n) + 1
      OBVIOUS
    <3>2. q \in Nat /\ 1 <= q /\ q <= m /\ r \in 1..m /\ i = n + q /\ r > l /\ q + r = m + 1
      BY <1>2, <1>3, <2>2, <3>1
    <3>3. ASSUME NEW k \in 1..Whole, q + k - 1 <= m PROVE t[q + k - 1] = Marker[k]
      <4>1. q + k - 1 \in 1..m /\ n + (q + k - 1) = i + k - 1 /\ i + k - 1 <= Len(s)
        BY <1>2, <3>2, <3>3
      <4>2. s[n + (q + k - 1)] = t[q + k - 1]
        BY <1>2, <4>1
      <4> QED
        BY <4>1, <4>2
    <3>4. CASE r >= Whole
      <4>1. q \in Int /\ q + Whole - 1 <= Len(t)
        BY <1>1, <1>2, <3>2, <3>4
      <4>2. \A k \in 1..Whole : t[q + k - 1] = Marker[k]
        <5>1. \A k \in 1..Whole : q + k - 1 <= m
          BY <1>1, <1>2, <3>2, <4>1, SMTT(60)
        <5> QED
          BY <3>3, <5>1
      <4> QED
        BY <3>2, <4>1, <4>2, Positioned
    <3>5. CASE r < Whole
      <4>1. r \in 0..m /\ r <= Whole - 1
        BY <1>2, <3>2, <3>5
      <4>2. ASSUME NEW h \in 1..r PROVE t[Len(t) - r + h] = Marker[h]
        <5>1. h \in 1..Whole /\ q + h - 1 <= m
          BY <1>2, <3>2, <4>1
        <5>2. m - r + h = q + h - 1
          BY <1>2, <3>2
        <5> QED
          BY <1>1, <3>3, <5>1, <5>2
      <4>3. Begins(t, r)
        BY <4>2 DEF Begins
      <4>4. r <= l
        BY <1>3, <4>1, <4>3
      <4> QED
        BY <1>3, <3>2, <4>4
    <3> QED
      BY <1>2, <3>2, <3>4, <3>5
  <2> QED
    BY <1>2, <1>3, <2>1, <2>2
<1>11. Positions(s) = {}
  <2>1. n + (m - l) \in Nat /\ n + (m - l) <= Len(s) /\ Len(s) - (n + (m - l)) < Whole
    BY <1>2, <1>3
  <2> QED
    BY <1>2, <1>10, <2>1, NoneInside
<1>12. /\ b \o SubSeq(t, 1, Len(t) - MarkerPrefixLength(t)) = b \o u
       /\ SubSeq(t, (Len(t) - MarkerPrefixLength(t)) + 1, Len(t)) = v
  BY <1>1, <1>4
<1>13. Hopeless(s, Len(b \o u)) /\ Len(v) < Whole /\ v = SubSeq(Marker, 1, Len(v))
  BY <1>2, <1>3, <1>6, <1>7, <1>10
<1> QED
  BY <1>1, <1>6, <1>7, <1>9, <1>11, <1>12, <1>13

(* Once it was found nothing that comes after it changes where it is. *)
LEMMA MarkerStands ==
  ASSUME NEW s \in Seq(Chars), NEW c \in Seq(Chars), Positions(s) # {}
  PROVE  LET p == FirstMarker(s) IN
         /\ Positions(s \o c) # {} /\ FirstMarker(s \o c) = p
         /\ SubSeq(s \o c, 1, p - 1) = SubSeq(s, 1, p - 1)
         /\ SubSeq(s, p + Whole, Len(s)) \o c = SubSeq(s \o c, p + Whole, Len(s \o c))
<1>1. PICK x, p, n, m : x = s \o c /\ p = FirstMarker(s) /\ n = Len(s) /\ m = Len(c)
  OBVIOUS
<1>2. /\ x \in Seq(Chars) /\ Len(x) = n + m /\ n \in Nat /\ m \in Nat /\ Whole \in Nat /\ Whole > 0
      /\ \A h \in 1..n : x[h] = s[h]
      /\ \A h \in 1..m : x[n + h] = c[h]
  BY <1>1, Joined, MarkerTyped
<1>3. p \in Positions(s) /\ \A j \in Positions(s) : p <= j
  BY <1>1, FirstMarkerIs
<1>4. p \in Nat /\ 1 <= p /\ p + Whole - 1 <= n /\ \A k \in 1..Whole : s[p + k - 1] = Marker[k]
  BY <1>1, <1>3, PositionsNat, Positioned, SMTT(60)
<1>5. p \in Positions(x)
  <2>1. ASSUME NEW k \in 1..Whole PROVE x[p + k - 1] = Marker[k]
    <3>1. p + k - 1 \in 1..n
      BY <1>2, <1>4, SMTT(60)
    <3> QED
      BY <1>2, <1>4, <3>1
  <2>2. p \in Int /\ p + Whole - 1 <= Len(x)
    BY <1>2, <1>4
  <2> QED
    BY <1>2, <1>4, <2>1, <2>2, Positioned
<1>6. ASSUME NEW j \in Positions(x), j < p PROVE FALSE
  <2>1. j \in Nat /\ 1 <= j /\ \A k \in 1..Whole : x[j + k - 1] = Marker[k]
    BY <1>2, PositionsNat, Positioned, SMTT(60)
  <2>2. j \in Int /\ j + Whole - 1 <= n
    BY <1>2, <1>4, <1>6, <2>1
  <2>3. ASSUME NEW k \in 1..Whole PROVE s[j + k - 1] = Marker[k]
    <3>1. j + k - 1 \in 1..n
      BY <1>2, <2>1, <2>2
    <3> QED
      BY <1>2, <2>1, <3>1
  <2>4. j \in Positions(s)
    BY <1>1, <2>1, <2>2, <2>3, Positioned
  <2>5. p <= j
    BY <1>3, <2>4
  <2> QED
    BY <1>4, <1>6, <2>1, <2>5
<1>7. FirstMarker(x) = p
  <2>1. \A j \in Positions(x) : p <= j
    BY <1>2, <1>4, <1>6, PositionsNat
  <2> QED
    BY <1>2, <1>5, <2>1, FirstMarkerUnique
<1>8. SubSeq(x, 1, p - 1) = SubSeq(s, 1, p - 1)
  <2>1. PICK u, v : u = SubSeq(x, 1, p - 1) /\ v = SubSeq(s, 1, p - 1)
    OBVIOUS
  <2>2. p - 1 \in Nat /\ 1 \in Nat /\ 1 <= (p - 1) + 1 /\ p - 1 <= Len(s) /\ p - 1 <= Len(x) /\ (p - 1) - 1 + 1 = p - 1
    BY <1>1, <1>2, <1>4
  <2>3. u \in Seq(Chars) /\ Len(u) = (p - 1) - 1 + 1 /\ \A h \in 1..((p - 1) - 1 + 1) : u[h] = x[1 + h - 1]
    BY <1>2, <2>1, <2>2, CutOf
  <2>4. v \in Seq(Chars) /\ Len(v) = (p - 1) - 1 + 1 /\ \A h \in 1..((p - 1) - 1 + 1) : v[h] = s[1 + h - 1]
    BY <2>1, <2>2, CutOf
  <2>5. ASSUME NEW h \in 1..Len(u) PROVE u[h] = v[h]
    <3>1. h \in 1..((p - 1) - 1 + 1) /\ 1 + h - 1 \in 1..n
      BY <1>1, <1>2, <2>2, <2>3
    <3> QED
      BY <1>2, <2>3, <2>4, <3>1
  <2>6. u = v
    BY <2>3, <2>4, <2>5, SeqEqual
  <2> QED
    BY <2>1, <2>6
<1>9. SubSeq(s, p + Whole, n) \o c = SubSeq(x, p + Whole, n + m)
  <2>1. PICK u, v : u = SubSeq(s, p + Whole, n) /\ v = SubSeq(x, p + Whole, n + m)
    OBVIOUS
  <2>2. p + Whole \in Nat /\ 1 <= p + Whole /\ p + Whole <= n + 1 /\ p + Whole <= (n + m) + 1 /\ n + m \in Nat /\ n <= Len(s) /\ n + m <= Len(x)
    BY <1>1, <1>2, <1>4
  <2>3. PICK d \in Nat : d = n - (p + Whole) + 1
    BY <1>2, <1>4, SMTT(60)
  <2>4. u \in Seq(Chars) /\ Len(u) = n - (p + Whole) + 1 /\ \A h \in 1..(n - (p + Whole) + 1) : u[h] = s[(p + Whole) + h - 1]
    BY <1>2, <2>1, <2>2, CutOf, SMTT(60)
  <2>5. /\ v \in Seq(Chars) /\ Len(v) = (n + m) - (p + Whole) + 1
        /\ \A h \in 1..((n + m) - (p + Whole) + 1) : v[h] = x[(p + Whole) + h - 1]
    BY <1>2, <2>1, <2>2, CutOf, SMTT(60)
  <2>6. (n + m) - (p + Whole) + 1 = d + m
    BY <1>2, <1>4, <2>3, SMTT(60)
  <2>7. /\ u \o c \in Seq(Chars) /\ Len(u \o c) = Len(u) + Len(c)
        /\ \A h \in 1..Len(u) : (u \o c)[h] = u[h]
        /\ \A h \in 1..Len(c) : (u \o c)[Len(u) + h] = c[h]
    BY <2>4, Joined
  <2>8. ASSUME NEW h \in 1..Len(u \o c) PROVE (u \o c)[h] = v[h]
    <3>1. h \in 1..(d + m) /\ Len(u) = d /\ Len(c) = m
      BY <1>1, <2>3, <2>4, <2>7
    <3>2. v[h] = x[(p + Whole) + h - 1]
      BY <2>5, <2>6, <3>1
    <3>3. CASE h <= d
      <4>1. h \in 1..d /\ (p + Whole) + h - 1 \in 1..n
        BY <1>2, <1>4, <2>3, <3>1, <3>3
      <4>2. (u \o c)[h] = s[(p + Whole) + h - 1]
        BY <2>3, <2>4, <2>7, <3>1, <4>1
      <4> QED
        BY <1>2, <3>2, <4>1, <4>2
    <3>4. CASE h > d
      <4>1. h - d \in 1..m /\ d + (h - d) = h /\ n + (h - d) = (p + Whole) + h - 1
        BY <1>2, <1>4, <2>3, <3>1, <3>4
      <4>2. (u \o c)[d + (h - d)] = c[h - d] /\ x[n + (h - d)] = c[h - d]
        BY <1>2, <2>7, <3>1, <4>1
      <4> QED
        BY <3>2, <4>1, <4>2
    <3> QED
      BY <2>3, <3>1, <3>3, <3>4
  <2>9. u \o c = v
    BY <1>1, <2>3, <2>4, <2>5, <2>6, <2>7, <2>8, SeqEqual, ZenonT(60)
  <2> QED
    BY <2>1, <2>9
<1> QED
  BY <1>1, <1>2, <1>5, <1>7, <1>8, <1>9

LEMMA TrimTyped ==
  ASSUME NEW t \in Seq(Chars)
  PROVE  Trim(t) \in Seq(Chars)
<1>1. CASE NonBlank(t) = {}
  BY <1>1 DEF Trim
<1>2. CASE NonBlank(t) # {}
  <2>1. Len(t) \in Nat /\ NonBlank(t) \subseteq 1..Len(t)
    BY LenProperties DEF NonBlank
  <2>2. NonBlank(t) \subseteq Nat /\ NonBlank(t) \subseteq 0..Len(t)
    BY <2>1
  <2>3. \E i \in NonBlank(t) : \A j \in NonBlank(t) : i <= j
    BY <1>2, <2>2, FirstExists
  <2>4. \E i \in NonBlank(t) : \A j \in NonBlank(t) : j <= i
    BY <1>2, <2>1, <2>2, LastExists
  <2>5. PICK i, j : /\ i = (CHOOSE x \in NonBlank(t) : \A y \in NonBlank(t) : x <= y)
                    /\ j = (CHOOSE x \in NonBlank(t) : \A y \in NonBlank(t) : y <= x)
    OBVIOUS
  <2>6. i \in NonBlank(t) /\ j \in NonBlank(t) /\ i <= j
    BY <2>3, <2>4, <2>5
  <2>7. i \in Nat /\ j \in Nat /\ 1 <= i /\ i <= j + 1 /\ j <= Len(t)
    BY <2>1, <2>6
  <2>8. SubSeq(t, i, j) \in Seq(Chars)
    BY <2>7, CutOf
  <2> QED
    BY <1>2, <2>5, <2>8 DEF Trim
<1> QED
  BY <1>1, <1>2

-----------------------------------------------------------------------------
\* AIGateway: one call

Before == {"quota", "prompt", "provider"}

(* What the caller has been told so far: nothing before the stream is handed *)
(* over, and of its usage nothing before the call is over.                   *)
Told ==
    /\ call.at \in Before => wire = "closed"
    /\ call.at # "idle" => promise = "none" /\ (IF wire = "closed" THEN reply = "none" ELSE reply = "value")
    /\ call.at = "streaming" => wire # "closed"
    /\ wire = "open" => call.at = "streaming"

(* Nothing is recorded before the end; then usage and trace agree.           *)
Recorded ==
    /\ call.at \notin {"idle", "trace"} => traces = <<>> /\ usages = 0
    /\ call.at = "trace" => traces = <<>> /\ usages = 1
    /\ call.at = "idle" =>
         \/ traces = <<>> /\ usages = 0 /\ reply # "value" /\ promise = "none"
         \/ traces = <<TRUE>> /\ usages = 1 /\ (IF wire = "closed" THEN reply = "value" ELSE promise = "resolved")
         \/ traces = <<FALSE>> /\ usages = 0 /\ (IF wire = "closed" THEN reply # "value" ELSE promise # "resolved")

GatewayInv == GatewayTypeOK /\ Told /\ Recorded

(* How the handler at a and its call go together.                            *)
Lined(a) ==
    /\ a \in {"idle", "retrieve", "embedding"} => wire = "closed" /\ call.kind # "stream"
    /\ a \in {"refuse", "ask"} => wire = "closed"
    /\ a \in {"refuse", "ask"} \/ (a \in {"mark", "done"} /\ wire = "closed") => call.at = "idle"
    /\ a = "calling" /\ wire = "closed" =>
         /\ reply # "value" /\ call.at \in Before \union {"idle", "failure"}
         /\ call.at # "idle" => call.kind = "stream"
    /\ a \in {"consume", "validate", "persist", "usage"} => wire # "closed"

Provided == {"AI_RATE_LIMITED", "AI_TIMEOUT", "AI_CONTEXT_TOO_LARGE", "AI_PROVIDER_UNAVAILABLE"}
Refused == {"AI_INVALID_RESPONSE", "AI_CONTENT_BLOCKED", "AI_QUOTA_EXCEEDED"}

LEMMA CodesAre ==
  /\ AICodes = Provided \union Refused
  /\ \A raw \in RawErrors : AICode(raw) \in Provided
  /\ {AICode(raw) : raw \in RawErrors} \subseteq Provided
  /\ \A stop \in Stops : StopCode(stop) \in {"none"} \union Refused
<1>1. /\ AICode("RateLimit") = "AI_RATE_LIMITED" /\ AICode("Timeout") = "AI_TIMEOUT"
      /\ AICode("TooLarge") = "AI_CONTEXT_TOO_LARGE" /\ AICode("Api") = "AI_PROVIDER_UNAVAILABLE"
  BY DEF AICode
<1>2. RawErrors = {"RateLimit", "Timeout", "TooLarge", "Api"}
  BY DEF RawErrors
<1>3. \A raw \in RawErrors : AICode(raw) \in Provided
  BY <1>1, <1>2 DEF Provided
<1>4. {AICode(raw) : raw \in RawErrors} = Provided
  <2>1. {AICode(raw) : raw \in RawErrors} \subseteq Provided
    BY <1>3
  <2>2. Provided \subseteq {AICode(raw) : raw \in RawErrors}
    BY <1>1, <1>2 DEF Provided
  <2> QED
    BY <2>1, <2>2
<1>5. AICodes = Provided \union Refused
  BY <1>4 DEF AICodes, Refused
<1>6. \A stop \in Stops : StopCode(stop) \in {"none"} \union Refused
  BY DEF Stops, StopCode, Refused
<1> QED
  BY <1>3, <1>4, <1>5, <1>6

LEMMA OneTrace ==
  /\ Append(<<>>, TRUE) = <<TRUE>> /\ Append(<<>>, FALSE) = <<FALSE>>
  /\ <<TRUE>> \in Seq(BOOLEAN) /\ <<FALSE>> \in Seq(BOOLEAN) /\ <<>> \in Seq(BOOLEAN)
  /\ Len(<<TRUE>>) = 1 /\ Len(<<FALSE>>) = 1 /\ Len(<<>>) = 0
  /\ <<TRUE>>[1] = TRUE /\ <<FALSE>>[1] = FALSE
  /\ <<TRUE>> # <<>> /\ <<FALSE>> # <<>> /\ <<TRUE>> # <<FALSE>>
<1>1. \A b : Append(<<>>, b) = <<b>>
  OBVIOUS
<1>2. \A b \in BOOLEAN : <<b>> \in Seq(BOOLEAN)
  OBVIOUS
<1>3. \A b : Len(<<b>>) = 1 /\ <<b>>[1] = b /\ <<b>> # <<>>
  OBVIOUS
<1>4. \A b, c : <<b>> = <<c>> => b = c
  OBVIOUS
<1> QED
  BY <1>1, <1>2, <1>3, <1>4, EmptySeq

LEMMA CallTyped ==
  ASSUME GatewayTypeOK
  PROVE  /\ call.at \in Stages /\ call.kind \in Kinds /\ call.wiring \in Wirings /\ call.code \in {"none"} \union AICodes
         /\ NoCall \in [at : Stages, kind : Kinds, wiring : Wirings, code : {"none"} \union AICodes]
         /\ NoCall.at = "idle" /\ NoCall.kind = "embed"
         /\ \A l \in Stages : /\ [call EXCEPT !.at = l] \in [at : Stages, kind : Kinds, wiring : Wirings, code : {"none"} \union AICodes]
                              /\ [call EXCEPT !.at = l].at = l /\ [call EXCEPT !.at = l].kind = call.kind
BY DEF GatewayTypeOK, NoCall, Stages, Kinds, Wirings

LEMMA GatewayBegins ==
  ASSUME GatewayInit
  PROVE  GatewayInv
<1>1. GatewayTypeOK
  BY AIGatewayAssumption, OneTrace, CodesAre DEF GatewayInit, GatewayTypeOK, NoCall, Stages, Kinds, Wirings
<1>2. Told /\ Recorded
  BY DEF GatewayInit, NoCall, Told, Recorded, Before
<1> QED
  BY <1>1, <1>2 DEF GatewayInv

(* A call that is made. *)
LEMMA CallIsMade ==
  ASSUME GatewayInv, NEW kind \in Kinds, NEW wiring \in Wirings, Call(kind, wiring)
  PROVE  /\ GatewayInv' /\ wire' = "closed" /\ reply' # "value"
         /\ call'.at \in {"idle", "quota"}
         /\ call'.at # "idle" => call'.kind = kind
         /\ call'.kind # "stream" \/ kind = "stream"
<1>1. GatewayTypeOK'
  BY OneTrace, CodesAre DEF GatewayInv, GatewayTypeOK, Call, NoCall, Stages, Kinds, Wirings
<1>2. (call'.at = "idle" /\ call'.kind = "embed" /\ reply' = "Error") \/ (call'.at = "quota" /\ call'.kind = kind /\ reply' = "none")
  BY DEF Call, NoCall
<1>3. promise' = "none" /\ wire' = "closed" /\ traces' = <<>> /\ usages' = 0
  BY DEF Call
<1>4. Told' /\ Recorded'
  BY <1>2, <1>3 DEF Told, Recorded, Before
<1> QED
  BY <1>1, <1>2, <1>3, <1>4 DEF GatewayInv

LEMMA FaultTyped ==
  ASSUME faults \in 0..MaxFaults, Fault \/ UNCHANGED faults
  PROVE  faults' \in 0..MaxFaults
BY AIGatewayAssumption DEF Fault

(* The call moves on, and nobody is told yet. *)
LEMMA MovesOn ==
  ASSUME GatewayInv, NEW a, Lined(a), NEW l \in {"prompt", "provider"}, call.at \in {"quota", "prompt"}, Goto(l),
         UNCHANGED <<reply, promise, wire, traces, usages, faults>>
  PROVE  GatewayInv' /\ Lined(a)'
<1>1. GatewayTypeOK /\ l \in Stages
  BY DEF GatewayInv, Stages
<1>2. call'.at = l /\ call'.kind = call.kind /\ call' \in [at : Stages, kind : Kinds, wiring : Wirings, code : {"none"} \union AICodes]
  BY <1>1, CallTyped DEF Goto
<1>3. GatewayTypeOK'
  BY <1>1, <1>2 DEF GatewayTypeOK
<1>4. Told' /\ Recorded' /\ Lined(a)'
  BY <1>2 DEF GatewayInv, Told, Recorded, Before, Lined
<1> QED
  BY <1>3, <1>4 DEF GatewayInv

(* It is over before the provider was asked. *)
LEMMA EndsEarly ==
  ASSUME GatewayInv, NEW a, Lined(a), NEW r \in {"AI_QUOTA_EXCEEDED", "Error"}, call.at \in {"quota", "prompt"}, Finish(r),
         UNCHANGED <<wire, traces, usages, faults>>
  PROVE  GatewayInv' /\ Lined(a)'
<1>1. wire = "closed" /\ GatewayTypeOK
  BY DEF GatewayInv, Told, Before
<1>2. call' = NoCall /\ reply' = r /\ promise' = promise
  BY <1>1 DEF Finish
<1>3. r \in {"Error"} \union AICodes
  BY CodesAre DEF Refused
<1>4. GatewayTypeOK'
  BY <1>1, <1>2, <1>3, CallTyped DEF GatewayTypeOK
<1>5. call'.at = "idle" /\ call'.kind = "embed"
  BY <1>1, <1>2, CallTyped
<1>6. Told' /\ Recorded' /\ Lined(a)'
  BY <1>1, <1>2, <1>5 DEF GatewayInv, Told, Recorded, Before, Lined
<1> QED
  BY <1>4, <1>6 DEF GatewayInv

(* It fails at the provider or at the end of its stream. *)
LEMMA FailsAt ==
  ASSUME GatewayInv, NEW a, Lined(a), NEW c \in AICodes, call.at \in {"provider", "streaming"}, wire # "open", Failed(c),
         Fault \/ UNCHANGED faults, UNCHANGED <<reply, promise, wire, traces, usages>>
  PROVE  GatewayInv' /\ Lined(a)'
<1>1. GatewayTypeOK
  BY DEF GatewayInv
<1>2. call'.at = "failure" /\ call'.kind = call.kind /\ call' \in [at : Stages, kind : Kinds, wiring : Wirings, code : {"none"} \union AICodes]
  BY <1>1, CallTyped DEF Failed, Stages
<1>3. GatewayTypeOK'
  <2>1. faults' \in 0..MaxFaults
    BY <1>1, FaultTyped DEF GatewayTypeOK
  <2> QED
    BY <1>1, <1>2, <2>1 DEF GatewayTypeOK
<1>4. Told' /\ Recorded' /\ Lined(a)'
  BY <1>2 DEF GatewayInv, Told, Recorded, Before, Lined
<1> QED
  BY <1>3, <1>4 DEF GatewayInv

(* The value is there, or the whole stream. *)
LEMMA ValueComes ==
  ASSUME GatewayInv, NEW a, Lined(a), call.at \in {"provider", "streaming"}, call.at = "provider" => call.kind # "stream",
         wire # "open", Goto("usage"), UNCHANGED <<reply, promise, wire, traces, usages, faults>>
  PROVE  GatewayInv' /\ Lined(a)'
<1>1. GatewayTypeOK /\ "usage" \in Stages
  BY DEF GatewayInv, Stages
<1>2. call'.at = "usage" /\ call'.kind = call.kind /\ call' \in [at : Stages, kind : Kinds, wiring : Wirings, code : {"none"} \union AICodes]
  BY <1>1, CallTyped DEF Goto
<1>3. GatewayTypeOK'
  BY <1>1, <1>2 DEF GatewayTypeOK
<1>4. Told' /\ Recorded' /\ Lined(a)'
  BY <1>2 DEF GatewayInv, Told, Recorded, Before, Lined
<1> QED
  BY <1>3, <1>4 DEF GatewayInv

LEMMA StreamOpens ==
  ASSUME GatewayInv, NEW a, Lined(a), OpenStream
  PROVE  GatewayInv' /\ Lined(a)'
<1>1. GatewayTypeOK /\ "streaming" \in Stages
  BY DEF GatewayInv, Stages
<1>2. call'.at = "streaming" /\ call'.kind = "stream" /\ call' \in [at : Stages, kind : Kinds, wiring : Wirings, code : {"none"} \union AICodes]
  BY <1>1, CallTyped DEF Goto, OpenStream
<1>3. GatewayTypeOK'
  BY <1>1, <1>2 DEF GatewayTypeOK, OpenStream
<1>4. Told' /\ Recorded' /\ Lined(a)'
  BY <1>2 DEF GatewayInv, Told, Recorded, Before, Lined, OpenStream
<1> QED
  BY <1>3, <1>4 DEF GatewayInv

LEMMA WireCloses ==
  ASSUME GatewayInv, NEW a, Lined(a), CloseWire
  PROVE  GatewayInv' /\ Lined(a)'
<1>1. GatewayTypeOK /\ wire = "open" /\ call.at = "streaming"
  BY DEF GatewayInv, CloseWire, Told
<1>2. wire' \in Stops \union Provided /\ (Fault \/ UNCHANGED faults) /\ UNCHANGED <<call, reply, promise, traces, usages>>
  BY CodesAre DEF CloseWire
<1>3. wire' \notin {"open", "closed"} /\ wire' \in Stops \union AICodes
  BY <1>2, CodesAre DEF Stops, Provided
<1>4. GatewayTypeOK'
  <2>1. faults' \in 0..MaxFaults
    BY <1>1, <1>2, FaultTyped DEF GatewayTypeOK
  <2> QED
    BY <1>1, <1>2, <1>3, <2>1 DEF GatewayTypeOK
<1>5. Told' /\ Recorded' /\ Lined(a)'
  BY <1>1, <1>2, <1>3 DEF GatewayInv, Told, Recorded, Before, Lined
<1> QED
  BY <1>4, <1>5 DEF GatewayInv

LEMMA UsageRecorded ==
  ASSUME GatewayInv, NEW a, Lined(a), RecordUsage
  PROVE  GatewayInv' /\ Lined(a)'
<1>1. GatewayTypeOK /\ "trace" \in Stages
  BY DEF GatewayInv, Stages
<1>2. call'.at = "trace" /\ call'.kind = call.kind /\ call' \in [at : Stages, kind : Kinds, wiring : Wirings, code : {"none"} \union AICodes]
  BY <1>1, CallTyped DEF Goto, RecordUsage, Hook
<1>3. usages = 0 /\ usages' = 1 /\ UNCHANGED <<reply, promise, wire, traces>> /\ (Fault \/ UNCHANGED faults) /\ call.at = "usage"
  BY DEF GatewayInv, Recorded, RecordUsage, Hook
<1>4. GatewayTypeOK'
  <2>1. faults' \in 0..MaxFaults
    BY <1>1, <1>3, FaultTyped DEF GatewayTypeOK
  <2> QED
    BY <1>1, <1>2, <1>3, <2>1 DEF GatewayTypeOK
<1>5. Told' /\ Recorded' /\ Lined(a)'
  BY <1>2, <1>3 DEF GatewayInv, Told, Recorded, Before, Lined
<1> QED
  BY <1>4, <1>5 DEF GatewayInv

(* It is over, as a success or a failure. *)
LEMMA CallEnds ==
  ASSUME GatewayInv, NEW a, Lined(a), RecordTrace \/ RecordFailure
  PROVE  GatewayInv' /\ Lined(a)'
<1> DEFINE ok == call.at = "trace"
           r == IF ok THEN "value" ELSE call.code
<1>1. GatewayTypeOK /\ call.at \in {"trace", "failure"} /\ traces = <<>>
  BY DEF GatewayInv, Recorded, RecordTrace, RecordFailure
<1>2. /\ call' = NoCall /\ UNCHANGED <<wire, usages>> /\ (Fault \/ UNCHANGED faults)
      /\ IF wire = "closed" THEN reply' = r /\ UNCHANGED promise
         ELSE promise' = (IF r = "value" THEN "resolved" ELSE "rejected") /\ UNCHANGED reply
  BY DEF RecordTrace, RecordFailure, Hook, Finish
<1>3. r \in {"none", "value"} \union AICodes /\ (r = "value" <=> ok)
  <2>1. call.code \in {"none"} \union AICodes
    BY <1>1, CallTyped
  <2> QED
    BY <2>1, CodesAre DEF Provided, Refused
<1>4. traces' = IF ok THEN <<TRUE>> ELSE <<FALSE>>
  BY <1>1, OneTrace DEF RecordTrace, RecordFailure
<1>5. call'.at = "idle" /\ call'.kind = "embed"
  BY <1>1, <1>2, CallTyped
<1>6. GatewayTypeOK'
  <2>1. faults' \in 0..MaxFaults
    BY <1>1, <1>2, FaultTyped DEF GatewayTypeOK
  <2>2. traces' \in Seq(BOOLEAN)
    BY <1>4, OneTrace
  <2>3. call' \in [at : Stages, kind : Kinds, wiring : Wirings, code : {"none"} \union AICodes]
    BY <1>1, <1>2, CallTyped
  <2> HIDE DEF r
  <2>4. reply' \in {"none", "value", "Error"} \union AICodes /\ promise' \in {"none", "resolved", "rejected"}
    BY <1>1, <1>2, <1>3 DEF GatewayTypeOK
  <2> QED
    BY <1>1, <1>2, <2>1, <2>2, <2>3, <2>4 DEF GatewayTypeOK
<1>7. usages = IF ok THEN 1 ELSE 0
  BY <1>1 DEF GatewayInv, Recorded
<1>8. Told'
  <2>1. wire # "open"
    BY <1>1 DEF GatewayInv, Told
  <2> QED
    BY <1>2, <1>5, <2>1 DEF Told, Before
<1>9. Recorded'
  <2> HIDE DEF r
  <2>1. IF wire' = "closed" THEN reply' = "value" <=> ok ELSE promise' = "resolved" <=> ok
    BY <1>2, <1>3
  <2>2. CASE ok
    BY <1>2, <1>4, <1>5, <1>7, <2>1, <2>2 DEF Recorded
  <2>3. CASE ~ ok
    BY <1>2, <1>4, <1>5, <1>7, <2>1, <2>3 DEF Recorded
  <2> QED
    BY <2>2, <2>3
<1>10. Lined(a)'
  <2>1. a = "calling" /\ wire = "closed" => ~ ok
    BY DEF Lined, Before
  <2> HIDE DEF r
  <2>2. a = "calling" /\ wire = "closed" => reply' # "value"
    BY <1>2, <1>3, <2>1
  <2> QED
    BY <1>2, <1>5, <2>2 DEF Lined, Before
<1> QED
  BY <1>6, <1>8, <1>9, <1>10 DEF GatewayInv

LEMMA GatewayMoves ==
  ASSUME GatewayInv, NEW a, Lined(a), GatewayStep
  PROVE  GatewayInv' /\ Lined(a)'
<1>1. CASE CheckQuota
  BY <1>1, MovesOn, EndsEarly DEF CheckQuota
<1>2. CASE ResolvePrompt
  BY <1>2, MovesOn, EndsEarly DEF ResolvePrompt
<1>3. wire # "open" \/ call.at = "streaming"
  BY DEF GatewayInv, Told
<1>4. CASE ProviderFails
  <2>1. wire # "open" /\ call.at = "provider" /\ (Fault \/ UNCHANGED faults) /\ UNCHANGED <<reply, promise, wire, traces, usages>>
    BY <1>3, <1>4 DEF ProviderFails
  <2>2. PICK c \in AICodes : Failed(c)
    BY <1>4, CodesAre DEF ProviderFails, Provided
  <2> QED
    BY <2>1, <2>2, FailsAt
<1>5. CASE GenerateObject
  <2>1. wire # "open" /\ call.at = "provider" /\ call.kind # "stream" /\ UNCHANGED <<reply, promise, wire, traces, usages, faults>>
    BY <1>3, <1>5 DEF GenerateObject
  <2>2. Goto("usage") \/ \E c \in AICodes : Failed(c)
    BY <1>5, CodesAre DEF GenerateObject, Refused
  <2> QED
    BY <2>1, <2>2, FailsAt, ValueComes
<1>6. CASE Embed
  <2>1. wire # "open" /\ call.at = "provider" /\ call.kind # "stream" /\ UNCHANGED <<reply, promise, wire, traces, usages, faults>>
    BY <1>3, <1>6 DEF Embed
  <2>2. Goto("usage") \/ \E c \in AICodes : Failed(c)
    BY <1>6, CodesAre DEF Embed, Refused
  <2> QED
    BY <2>1, <2>2, FailsAt, ValueComes
<1>7. CASE FinalMessage
  <2>1. wire # "open" /\ call.at = "streaming" /\ UNCHANGED <<reply, promise, wire, traces, usages, faults>>
    BY <1>7 DEF FinalMessage
  <2>2. wire \in Stops \union AICodes
    BY <2>1 DEF GatewayInv, GatewayTypeOK, Told
  <2>3. Goto("usage") \/ \E c \in AICodes : Failed(c)
    <3>1. PICK c : c = IF wire \in Stops THEN StopCode(wire) ELSE wire
      OBVIOUS
    <3>2. c \in {"none"} \union AICodes
      BY <2>2, <3>1, CodesAre
    <3>3. IF c = "none" THEN Goto("usage") ELSE Failed(c)
      BY <1>7, <3>1 DEF FinalMessage
    <3> QED
      BY <3>2, <3>3
  <2> QED
    BY <2>1, <2>3, FailsAt, ValueComes
<1> QED
  BY <1>1, <1>2, <1>4, <1>5, <1>6, <1>7, StreamOpens, WireCloses, UsageRecorded, CallEnds DEF GatewayStep

LEMMA GatewayShows ==
  ASSUME GatewayInv
  PROVE  GatewayTypeOK /\ TracedOnce /\ UsageOfSuccess
<1>1. GatewayTypeOK /\ Recorded
  BY DEF GatewayInv
<1>2. CASE call.at # "idle"
  <2>1. traces = <<>> /\ usages \in {0, 1}
    BY <1>1, <1>2 DEF Recorded
  <2> QED
    BY <1>1, <1>2, <2>1, OneTrace DEF TracedOnce, UsageOfSuccess
<1>3. CASE call.at = "idle"
  <2>1. CASE traces = <<>> /\ usages = 0 /\ reply # "value" /\ promise = "none"
    BY <1>1, <2>1, OneTrace DEF TracedOnce, UsageOfSuccess
  <2> DEFINE told == IF wire = "closed" THEN reply = "value" ELSE promise = "resolved"
  <2>2. CASE traces = <<TRUE>> /\ usages = 1 /\ told
    <3>1. Len(traces) <= 1 /\ traces # <<>> /\ traces[1] = TRUE /\ usages <= 1
      BY <2>2, OneTrace
    <3>2. told = TRUE
      BY <2>2
    <3>3. (usages = 1) = (traces = <<TRUE>>)
      BY <2>2
    <3>5. traces[1] = told
      BY <3>1, <3>2, Zenon
    <3>6. TracedOnce
      BY <3>1, <3>5, Zenon DEF TracedOnce
    <3>7. UsageOfSuccess
      BY <3>1, <3>3, Zenon DEF UsageOfSuccess
    <3> QED
      BY <1>1, <3>6, <3>7
  <2>3. CASE traces = <<FALSE>> /\ usages = 0 /\ ~ told
    <3>1. Len(traces) <= 1 /\ traces # <<>> /\ traces[1] = FALSE /\ usages <= 1
      BY <2>3, OneTrace
    <3>2. told = FALSE
      BY <2>3
    <3>3. usages # 1 /\ traces # <<TRUE>>
      BY <2>3, OneTrace
    <3>4. (usages = 1) = (traces = <<TRUE>>)
      BY <3>3
    <3>5. traces[1] = told
      BY <3>1, <3>2, Zenon
    <3>6. TracedOnce
      BY <3>1, <3>5, Zenon DEF TracedOnce
    <3>7. UsageOfSuccess
      BY <3>1, <3>4, Zenon DEF UsageOfSuccess
    <3> QED
      BY <1>1, <3>6, <3>7
  <2> QED
    BY <1>1, <1>3, <2>1, <2>2, <2>3 DEF Recorded
<1> QED
  BY <1>2, <1>3

-----------------------------------------------------------------------------
\* Answering: the text that was let out

(* At a the text is cut right; unless it is over, no marker can begin in     *)
(* what was passed on, whatever comes.                                       *)
Cut(a) ==
    /\ StreamTypeOK /\ ShownIsAnswer /\ HeldIsMarkerStart
    /\ ~ marked /\ a \notin {"mark", "done"} => Hopeless(sent, Len(body))

LEMMA CutBegins ==
  ASSUME StreamInit, NEW a
  PROVE  Cut(a)
<1>1. sent = <<>> /\ body = <<>> /\ pending = <<>> /\ ~ marked /\ tail = <<>> /\ marked \in BOOLEAN
  BY DEF StreamInit
<1>2. <<>> \in Seq(Chars) /\ Len(<<>>) = 0
  BY EmptySeq
<1>3. StreamTypeOK
  BY <1>1, <1>2 DEF StreamTypeOK
<1>4. Hopeless(sent, Len(body))
  BY <1>1, <1>2 DEF Hopeless
<1>5. Positions(sent) = {}
  <2>1. Positions(<<>>) = {}
    BY <1>2, MarkerTyped DEF Positions, Whole
  <2> QED
    BY <1>1, <2>1
<1>6. body \o pending = sent
  BY <1>1, <1>2, ConcatEmptySeq
<1>7. HeldIsMarkerStart
  <2>1. Len(pending) = 0 /\ SubSeq(Marker, 1, 0) = <<>>
    BY <1>1, <1>2, SubSeqEmpty
  <2> QED
    BY <1>1, <2>1, MarkerTyped DEF HeldIsMarkerStart, Whole
<1> QED
  BY <1>1, <1>3, <1>4, <1>5, <1>6, <1>7 DEF Cut, ShownIsAnswer

LEMMA CutStays ==
  ASSUME NEW a, NEW b, Cut(a), a \in {"mark", "done"} => b \in {"mark", "done"}, UNCHANGED streamVars
  PROVE  Cut(b)'
BY DEF Cut, streamVars, StreamTypeOK, ShownIsAnswer, HeldIsMarkerStart, Positions, MarkerAt, FirstMarker, Hopeless

LEMMA NothingHeld ==
  SubSeq(Marker, 1, 0) = <<>> /\ Len(<<>>) = 0 /\ 0 < Len(Marker) /\ <<>> \in Seq(Chars)
<1>1. SubSeq(Marker, 1, 0) = <<>>
  BY SubSeqEmpty
<1> QED
  BY <1>1, EmptySeq, MarkerTyped DEF Whole

LEMMA DeltaCuts ==
  ASSUME NEW a, Cut(a), a \notin {"mark", "done"}, NEW chunk \in Seq(Chars), Delta(chunk)
  PROVE  Cut(a)'
<1>1. PICK s, b, p, t, g : s = sent /\ b = body /\ p = pending /\ t = tail /\ g = pending \o chunk
  OBVIOUS
<1>2. s \in Seq(Chars) /\ b \in Seq(Chars) /\ p \in Seq(Chars) /\ t \in Seq(Chars) /\ marked \in BOOLEAN
  BY <1>1 DEF Cut, StreamTypeOK
<1>3. sent' = s \o chunk /\ sent' \in Seq(Chars)
  BY <1>1, <1>2, Joined DEF Delta
<1>4. PICK n : n = s \o chunk
  OBVIOUS
<1>5. CASE marked
  <2>1. body' = b /\ pending' = p /\ tail' = t \o chunk /\ marked' = marked
    BY <1>1, <1>5 DEF Delta
  <2>2. PICK q : q = FirstMarker(s)
    OBVIOUS
  <2>3. Positions(s) # {} /\ b = SubSeq(s, 1, q - 1) /\ t = SubSeq(s, q + Whole, Len(s))
    BY <1>1, <1>5, <2>2 DEF Cut, ShownIsAnswer, Whole
  <2>4. Positions(n) # {} /\ FirstMarker(n) = q /\ SubSeq(n, 1, q - 1) = b /\ t \o chunk = SubSeq(n, q + Whole, Len(n))
    BY <1>2, <1>4, <2>2, <2>3, MarkerStands
  <2>5. ShownIsAnswer'
    BY <1>3, <1>4, <1>5, <2>1, <2>4 DEF ShownIsAnswer, Positions, MarkerAt, FirstMarker, Whole
  <2>6. StreamTypeOK'
    BY <1>2, <1>3, <1>5, <2>1, Joined DEF StreamTypeOK
  <2>7. HeldIsMarkerStart'
    BY <1>1, <2>1 DEF Cut, HeldIsMarkerStart
  <2> QED
    BY <1>5, <2>1, <2>5, <2>6, <2>7 DEF Cut
<1>6. CASE ~ marked
  <2>1. b \o p = s /\ Hopeless(s, Len(b))
    BY <1>1, <1>6 DEF Cut, ShownIsAnswer
  <2>2. g \in Seq(Chars) /\ b \o g = n
    <3>1. g \in Seq(Chars) /\ g = p \o chunk
      BY <1>1, <1>2, Joined
    <3>2. (b \o p) \o chunk = b \o (p \o chunk)
      BY ONLY <1>2, chunk \in Seq(Chars), ConcatAssociative, SMTT(60)
    <3> QED
      BY <1>4, <2>1, <3>1, <3>2
  <2>3. Len(b) \in Nat
    BY <1>2, Joined
  <2>4. Hopeless(b \o g, Len(b))
    <3>1. Hopeless(s \o chunk, Len(b))
      BY <1>2, <2>1, <2>3, HopelessGrows
    <3> QED
      BY <1>4, <2>2, <3>1
  <2>5. CASE Positions(g) # {}
    <3>1. PICK i, q : i = FirstMarker(g) /\ q = FirstMarker(n)
      OBVIOUS
    <3>2. body' = b \o SubSeq(g, 1, i - 1) /\ tail' = SubSeq(g, i + Whole, Len(g)) /\ pending' = <<>> /\ marked' = TRUE
      BY <1>1, <1>6, <2>5, <3>1 DEF Delta, Whole
    <3>3. /\ Positions(n) # {} /\ b \o SubSeq(g, 1, i - 1) = SubSeq(n, 1, q - 1)
          /\ SubSeq(g, i + Whole, Len(g)) = SubSeq(n, q + Whole, Len(n))
          /\ b \o SubSeq(g, 1, i - 1) \in Seq(Chars) /\ SubSeq(g, i + Whole, Len(g)) \in Seq(Chars)
      <4>1. LET x == b \o g
                p1 == FirstMarker(x)
            IN /\ Positions(x) # {} /\ b \o SubSeq(g, 1, i - 1) = SubSeq(x, 1, p1 - 1)
               /\ SubSeq(g, i + Whole, Len(g)) = SubSeq(x, p1 + Whole, Len(x))
               /\ b \o SubSeq(g, 1, i - 1) \in Seq(Chars) /\ SubSeq(g, i + Whole, Len(g)) \in Seq(Chars)
        BY <1>2, <2>2, <2>4, <2>5, <3>1, MarkerFound
      <4> QED
        BY <2>2, <3>1, <4>1
    <3>4. ShownIsAnswer'
      <4>1. Positions(sent') = Positions(n) /\ FirstMarker(sent') = q
        BY <1>3, <1>4, <3>1
      <4> QED
        BY <1>3, <1>4, <3>1, <3>2, <3>3, <4>1 DEF ShownIsAnswer, Positions, MarkerAt, FirstMarker, Whole
    <3>5. StreamTypeOK'
      BY <1>3, <3>2, <3>3, NothingHeld DEF StreamTypeOK
    <3>6. HeldIsMarkerStart'
      BY <3>2, NothingHeld DEF HeldIsMarkerStart
    <3> QED
      BY <3>2, <3>4, <3>5, <3>6 DEF Cut
  <2>6. CASE Positions(g) = {}
    <3>1. PICK l, o, h : l = Len(g) - MarkerPrefixLength(g) /\ o = b \o SubSeq(g, 1, l) /\ h = SubSeq(g, l + 1, Len(g))
      OBVIOUS
    <3>2. body' = o /\ pending' = h /\ marked' = marked /\ tail' = t
      BY <1>1, <1>6, <2>6, <3>1 DEF Delta
    <3>3. /\ o \in Seq(Chars) /\ h \in Seq(Chars) /\ o \o h = b \o g
          /\ Hopeless(b \o g, Len(o)) /\ Positions(b \o g) = {}
          /\ Len(h) < Whole /\ h = SubSeq(Marker, 1, Len(h))
      BY <1>2, <2>2, <2>4, <2>6, <3>1, MarkerAwaited, ZenonT(60)
    <3>4. ShownIsAnswer'
      BY <1>3, <1>4, <1>6, <2>2, <3>2, <3>3 DEF ShownIsAnswer, Positions, MarkerAt
    <3>5. StreamTypeOK'
      BY <1>2, <1>3, <1>6, <3>2, <3>3 DEF StreamTypeOK
    <3>6. HeldIsMarkerStart'
      BY <3>2, <3>3 DEF HeldIsMarkerStart, Whole
    <3>7. Hopeless(sent, Len(body))'
      <4>1. Hopeless(n, Len(o))
        BY <2>2, <3>3
      <4>2. sent' = n /\ body' = o
        BY <1>3, <1>4, <3>2
      <4> QED
        BY ONLY <4>1, <4>2 DEF Hopeless
    <3> QED
      BY <3>4, <3>5, <3>6, <3>7 DEF Cut
  <2> QED
    BY <2>5, <2>6
<1> QED
  BY <1>2, <1>5, <1>6

LEMMA FlushCuts ==
  ASSUME NEW a, Cut(a), ~ marked, Flush
  PROVE  Cut("mark")'
<1>1. PICK s, b, p : s = sent /\ b = body /\ p = pending
  OBVIOUS
<1>2. s \in Seq(Chars) /\ b \in Seq(Chars) /\ p \in Seq(Chars) /\ tail \in Seq(Chars) /\ Positions(s) = {} /\ b \o p = s
  BY <1>1 DEF Cut, StreamTypeOK, ShownIsAnswer
<1>3. sent' = s /\ body' = b \o p /\ pending' = <<>> /\ marked' = marked /\ tail' = tail
  BY <1>1 DEF Flush
<1>4. StreamTypeOK'
  BY <1>2, <1>3, NothingHeld DEF StreamTypeOK, Cut
<1>5. HeldIsMarkerStart'
  BY <1>3, NothingHeld DEF HeldIsMarkerStart
<1>6. ShownIsAnswer'
  <2>1. s \o <<>> = s
    BY <1>2, ConcatEmptySeq
  <2>2. body' \o pending' = sent'
    BY <1>2, <1>3, <2>1
  <2> QED
    BY <1>2, <1>3, <2>2 DEF ShownIsAnswer, Positions, MarkerAt
<1> QED
  BY <1>4, <1>5, <1>6 DEF Cut

-----------------------------------------------------------------------------
\* Answering: the message and the events

Places == {"idle", "retrieve", "embedding", "refuse", "ask", "calling", "consume",
           "validate", "persist", "usage", "mark", "done"}
Messages == [status : {"pending", "completed", "failed"}, text : Seq(Chars), citations : Seq(Citation)]

HandlerTyped ==
    /\ at \in Places /\ code \in Codes /\ parsed \in Answers /\ msg \in Messages
    /\ sse \in Seq(Events) /\ broken \in BOOLEAN

Final == {"completed", "failed"}
Unended(events) == \A i \in DOMAIN events : events[i] \notin Final

(* A message is completed once its answer was found sound, and no event says *)
(* that it ended before the handler is done.                                 *)
Stands ==
    /\ msg.status = "completed" => at \in {"usage", "mark", "done"}
    /\ at = "usage" => msg.status = "completed"
    /\ at \in {"validate", "persist"} => marked
    /\ at = "persist" => Valid(parsed)
    /\ at # "done" => Unended(sse)

HandlerInv == HandlerTyped /\ Stands /\ StoredAnswerIsSound /\ LastEventTrue

AnsweringInv == GatewayInv /\ Lined(at) /\ Cut(at) /\ HandlerInv

LEMMA Writes ==
  ASSUME NEW s \in Seq(Events), NEW e \in Seq(Events)
  PROVE  /\ s \o e \in Seq(Events)
         /\ Unended(s) /\ Unended(e) => Unended(s \o e)
         /\ Len(e) > 0 => (s \o e)[Len(s \o e)] = e[Len(e)]
<1>1. Len(s) \in Nat /\ Len(e) \in Nat /\ DOMAIN s = 1..Len(s) /\ DOMAIN e = 1..Len(e)
  BY LenProperties
<1>2. /\ s \o e \in Seq(Events) /\ Len(s \o e) = Len(s) + Len(e) /\ DOMAIN (s \o e) = 1..(Len(s) + Len(e))
      /\ \A i \in 1..(Len(s) + Len(e)) : (s \o e)[i] = IF i <= Len(s) THEN s[i] ELSE e[i - Len(s)]
  BY ConcatProperties, LenProperties
<1>3. ASSUME Unended(s), Unended(e) PROVE Unended(s \o e)
  <2> SUFFICES ASSUME NEW i \in 1..(Len(s) + Len(e)) PROVE (s \o e)[i] \notin Final
    BY <1>2 DEF Unended
  <2>1. CASE i <= Len(s)
    BY <1>1, <1>2, <1>3, <2>1 DEF Unended
  <2>2. CASE i > Len(s)
    <3>1. i - Len(s) \in 1..Len(e) /\ (s \o e)[i] = e[i - Len(s)]
      BY <1>1, <1>2, <2>2
    <3> QED
      BY <1>1, <1>3, <3>1 DEF Unended
  <2> QED
    BY <1>1, <2>1, <2>2
<1>4. ASSUME Len(e) > 0 PROVE (s \o e)[Len(s \o e)] = e[Len(e)]
  <2>1. Len(s) + Len(e) \in 1..(Len(s) + Len(e)) /\ ~ (Len(s) + Len(e) <= Len(s)) /\ (Len(s) + Len(e)) - Len(s) = Len(e)
    BY <1>1, <1>4
  <2> QED
    BY <1>2, <2>1
<1> QED
  BY <1>2, <1>3, <1>4

LEMMA WritesOne ==
  ASSUME NEW s \in Seq(Events), NEW x \in Events
  PROVE  /\ s \o <<x>> \in Seq(Events)
         /\ Unended(s) /\ x \notin Final => Unended(s \o <<x>>)
         /\ (s \o <<x>>)[Len(s \o <<x>>)] = x
<1>1. <<x>> \in Seq(Events) /\ Len(<<x>>) = 1 /\ <<x>>[1] = x /\ DOMAIN <<x>> = {1}
  OBVIOUS
<1>2. PICK e \in Seq(Events) : e = <<x>>
  BY <1>1
<1>3. Len(e) = 1 /\ e[1] = x /\ DOMAIN e = {1}
  BY <1>1, <1>2
<1>4. x \notin Final => Unended(e)
  BY <1>3 DEF Unended
<1>5. /\ s \o e \in Seq(Events)
      /\ Unended(s) /\ Unended(e) => Unended(s \o e)
      /\ Len(e) > 0 => (s \o e)[Len(s \o e)] = e[Len(e)]
  BY Writes
<1>6. (s \o e)[Len(s \o e)] = x
  <2>1. Len(e) > 0
    BY <1>3
  <2> QED
    BY <1>3, <1>5, <2>1
<1> QED
  BY <1>2, <1>4, <1>5, <1>6

LEMMA AnsweringBegins ==
  ASSUME AnsweringInit
  PROVE  AnsweringInv
<1>1. /\ StreamInit /\ GatewayInit /\ at = "idle" /\ code = "none" /\ parsed = NoAnswer /\ sse = <<>> /\ broken = FALSE
      /\ msg = [status |-> "pending", text |-> <<>>, citations |-> <<>>]
  BY DEF AnsweringInit
<1>2. GatewayInv /\ Cut(at)
  BY <1>1, GatewayBegins, CutBegins
<1>3. Lined(at)
  BY <1>1 DEF GatewayInit, NoCall, Lined
<1>4. <<>> \in Seq(Chars) /\ <<>> \in Seq(Citation) /\ <<>> \in Seq(Events) /\ DOMAIN <<>> = {}
  OBVIOUS
<1>5. NoAnswer \in Answers
  <2>1. 0 \in 0..MaxCitations /\ <<>> \in [1..0 -> Citation]
    BY AnsweringAssumption
  <2>2. <<>> \in UNION {[1..n -> Citation] : n \in 0..MaxCitations}
    BY <2>1
  <2> QED
    BY <2>2 DEF NoAnswer, Answers
<1>6. msg \in Messages /\ msg.status = "pending"
  BY <1>1, <1>4 DEF Messages
<1>7. HandlerTyped
  BY <1>1, <1>4, <1>5, <1>6 DEF HandlerTyped, Places, Codes
<1>8. Stands /\ StoredAnswerIsSound /\ LastEventTrue
  BY <1>1, <1>4, <1>6 DEF Stands, StoredAnswerIsSound, LastEventTrue, Unended
<1> QED
  BY <1>2, <1>3, <1>7, <1>8 DEF AnsweringInv, HandlerInv

(* The handler goes on before anything is stored. *)
LEMMA GoesOn ==
  ASSUME HandlerInv, at \notin {"usage", "mark", "done"}, at' \in Places \ {"usage", "done"}, code' \in Codes,
         parsed' \in Answers, UNCHANGED msg, broken' \in BOOLEAN, sse' \in Seq(Events), Unended(sse)',
         at' \in {"validate", "persist"} => marked', at' = "persist" => Valid(parsed)'
  PROVE  HandlerInv'
<1>1. msg'.status # "completed"
  BY DEF HandlerInv, Stands
<1>2. HandlerTyped'
  BY DEF HandlerInv, HandlerTyped
<1>3. Stands'
  BY <1>1 DEF Stands
<1>4. StoredAnswerIsSound'
  BY <1>1 DEF StoredAnswerIsSound
<1>5. LastEventTrue'
  BY DEF LastEventTrue
<1> QED
  BY <1>2, <1>3, <1>4, <1>5 DEF HandlerInv

(* What stays as it is when the gateway is not concerned. *)
LEMMA GatewayWaits ==
  ASSUME GatewayInv, UNCHANGED <<call, reply, promise, wire, traces, usages>>, Fault \/ UNCHANGED faults
  PROVE  GatewayInv'
<1>1. GatewayTypeOK'
  <2>1. faults' \in 0..MaxFaults
    BY FaultTyped DEF GatewayInv, GatewayTypeOK
  <2> QED
    BY <2>1 DEF GatewayInv, GatewayTypeOK
<1>2. Told' /\ Recorded'
  BY DEF GatewayInv, Told, Recorded
<1> QED
  BY <1>1, <1>2 DEF GatewayInv

LEMMA Quiet ==
  ASSUME HandlerInv
  PROVE  /\ at \in Places /\ code \in Codes /\ parsed \in Answers /\ broken \in BOOLEAN /\ sse \in Seq(Events)
         /\ msg \in Messages /\ (at # "done" => Unended(sse))
         /\ {"INTERNAL", "none", "Error", "CITATION_VALIDATION_FAILED"} \union AICodes \subseteq Codes
BY DEF HandlerInv, HandlerTyped, Stands, Codes

-----------------------------------------------------------------------------
\* Answering: the handler's steps up to the answer

LEMMA CallsMade ==
  ASSUME AnsweringInv, Summarize \/ EmbedQuestion \/ Ask
  PROVE  AnsweringInv'
<1>1. GatewayInv /\ Lined(at) /\ Cut(at) /\ HandlerInv
  BY DEF AnsweringInv
<1>2. UNCHANGED <<streamVars, code, parsed, msg, sse, broken>>
  BY DEF Summarize, EmbedQuestion, Ask, handlerVars
<1>3. UNCHANGED sse /\ UNCHANGED marked
  BY <1>2 DEF streamVars
<1>4. PICK kind \in Kinds, wiring \in Wirings :
        /\ Call(kind, wiring)
        /\ \/ at = "idle" /\ at' = "idle" /\ kind # "stream"
           \/ at = "retrieve" /\ at' = "embedding" /\ kind # "stream"
           \/ at = "ask" /\ at' = "calling" /\ kind = "stream"
  <2>1. {"object", "embed", "stream"} \subseteq Kinds /\ "complete" \in Wirings
    BY DEF Kinds, Wirings
  <2>2. CASE Summarize
    BY <2>1, <2>2 DEF Summarize, handlerVars
  <2>3. CASE EmbedQuestion
    BY <2>1, <2>3 DEF EmbedQuestion
  <2>4. CASE Ask
    BY <2>1, <2>4 DEF Ask
  <2> QED
    BY <2>2, <2>3, <2>4
<1>5. /\ GatewayInv' /\ wire' = "closed" /\ reply' # "value" /\ call'.at \in {"idle", "quota"}
      /\ call'.at # "idle" => call'.kind = kind
      /\ call'.kind # "stream" \/ kind = "stream"
  BY <1>1, <1>4, CallIsMade
<1>6. Lined(at)'
  BY <1>4, <1>5 DEF Lined, Before
<1>7. Cut(at)'
  <2>1. PICK b : b = at'
    OBVIOUS
  <2>2. Cut(b)'
    BY <1>1, <1>2, <1>4, <2>1, CutStays
  <2> QED
    BY <2>1, <2>2 DEF Cut
<1>8. HandlerInv'
  <2>1. at \notin {"usage", "mark", "done"} /\ at' \in Places \ {"usage", "done"} /\ at' \notin {"validate", "persist"}
    BY <1>4 DEF Places
  <2>2. Unended(sse)'
    <3>1. Unended(sse) /\ sse' = sse
      BY <1>1, <1>3, <2>1, Quiet
    <3> QED
      BY <3>1 DEF Unended
  <2> QED
    BY <1>1, <1>2, <2>1, <2>2, Quiet, GoesOn
<1> QED
  BY <1>5, <1>6, <1>7, <1>8 DEF AnsweringInv


(* The handler goes on while the gateway and the parser wait. *)
LEMMA HandlerMoves ==
  ASSUME AnsweringInv, UNCHANGED <<call, reply, promise, wire, traces, usages>>, Fault \/ UNCHANGED faults,
         UNCHANGED streamVars, at \in {"mark", "done"} => at' \in {"mark", "done"}, Lined(at)', HandlerInv'
  PROVE  AnsweringInv'
<1>1. GatewayInv'
  BY GatewayWaits DEF AnsweringInv
<1>2. Cut(at)'
  <2>1. PICK b : b = at'
    OBVIOUS
  <2>2. Cut(b)'
    BY <2>1, CutStays DEF AnsweringInv
  <2> QED
    BY <2>1, <2>2 DEF Cut
<1> QED
  BY <1>1, <1>2 DEF AnsweringInv

LEMMA SubmitMoves ==
  ASSUME AnsweringInv, Submit
  PROVE  AnsweringInv'
<1>1. GatewayInv /\ Lined(at) /\ HandlerInv /\ at = "idle" /\ call.at = "idle" /\ at' = "retrieve"
  BY DEF AnsweringInv, Submit
<1>2. UNCHANGED <<call, reply, promise, wire, traces, usages, faults, streamVars, code, parsed, msg, broken>>
  BY DEF Submit, gatewayVars
<1>3. Lined(at)'
  BY <1>1, <1>2 DEF Lined
<1>4. sse' \in Seq(Events) /\ Unended(sse)'
  <2>1. PICK s \in Seq(Events) : s = sse /\ Unended(s)
    BY <1>1, Quiet
  <2>2. "started" \in Events /\ "started" \notin Final
    BY DEF Events, Final
  <2>3. s \o <<"started">> \in Seq(Events) /\ Unended(s \o <<"started">>)
    BY <2>1, <2>2, WritesOne
  <2>4. sse' = s \o <<"started">>
    BY <2>1 DEF Submit, Write
  <2> QED
    BY <2>3, <2>4 DEF Unended
<1>5. HandlerInv'
  <2>1. at' \in Places \ {"usage", "done"} /\ at' \notin {"validate", "persist"}
    BY <1>1 DEF Places
  <2> QED
    BY <1>1, <1>2, <1>4, <2>1, Quiet, GoesOn
<1> QED
  BY <1>1, <1>2, <1>3, <1>5, HandlerMoves

LEMMA RetrievedMoves ==
  ASSUME AnsweringInv, Retrieved
  PROVE  AnsweringInv'
<1>1. GatewayInv /\ Lined(at) /\ HandlerInv /\ at = "embedding" /\ reply # "none"
  BY DEF AnsweringInv, Retrieved
<1>2. /\ UNCHANGED <<call, reply, promise, wire, traces, usages, streamVars, parsed, msg>>
      /\ (Fault \/ UNCHANGED faults) /\ broken' \in BOOLEAN
  BY <1>1, Quiet DEF Retrieved, DatabaseFails
<1>3. call.at = "idle" /\ wire = "closed" /\ reply \in {"none", "value", "Error"} \union AICodes
  BY <1>1 DEF GatewayInv, GatewayTypeOK, Told, Lined
<1>4. at' \in {"mark", "refuse", "ask"} /\ code' \in Codes
  <2>1. CASE reply # "value" /\ Throw(reply)
    BY <1>1, <1>3, <2>1, Quiet DEF Throw
  <2>2. CASE Throw("INTERNAL")
    BY <1>1, <2>2, Quiet DEF Throw
  <2>3. CASE at' \in {"refuse", "ask"} /\ code' = code
    BY <1>1, <2>3, Quiet
  <2> QED
    BY <2>1, <2>2, <2>3 DEF Retrieved
<1>5. Lined(at)'
  BY <1>2, <1>3, <1>4 DEF Lined
<1>6. sse' \in Seq(Events) /\ Unended(sse)'
  <2>1. PICK s \in Seq(Events) : s = sse /\ Unended(s)
    BY <1>1, Quiet
  <2>2. "retrieval" \in Events /\ "retrieval" \notin Final
    BY DEF Events, Final
  <2>3. s \o <<"retrieval">> \in Seq(Events) /\ Unended(s \o <<"retrieval">>)
    BY <2>1, <2>2, WritesOne
  <2>4. sse' = s \/ sse' = s \o <<"retrieval">>
    BY <2>1 DEF Retrieved, Write
  <2> QED
    BY <2>1, <2>3, <2>4 DEF Unended
<1>7. HandlerInv'
  <2>1. at' \in Places \ {"usage", "done"} /\ at' \notin {"validate", "persist"}
    BY <1>4 DEF Places
  <2> QED
    BY <1>1, <1>2, <1>4, <1>6, <2>1, Quiet, GoesOn
<1> QED
  BY <1>1, <1>2, <1>5, <1>7, HandlerMoves

(* Steps that write nothing. *)
LEMMA SilentMoves ==
  ASSUME AnsweringInv, AskFails \/ Called \/ ReadTail \/ ReadFails \/ Validate
  PROVE  AnsweringInv'
<1>1. GatewayInv /\ Lined(at) /\ HandlerInv /\ at \in {"ask", "calling", "consume", "validate"}
  BY DEF AnsweringInv, AskFails, Called, ReadTail, ReadFails, Validate
<1>2. /\ UNCHANGED <<call, reply, promise, wire, traces, usages, streamVars, msg, sse>>
      /\ (Fault \/ UNCHANGED faults) /\ broken' \in BOOLEAN
  BY <1>1, Quiet DEF AskFails, Called, ReadTail, ReadFails, Validate, DatabaseFails, gatewayVars
<1>3. marked' = marked
  BY <1>2 DEF streamVars
<1>4. reply \in {"none", "value", "Error"} \union AICodes
  BY <1>1 DEF GatewayInv, GatewayTypeOK
<1>5. /\ at' \in {"mark", "consume", "validate", "persist"} /\ code' \in Codes /\ parsed' \in Answers
      /\ at' \in {"validate", "persist"} => marked
      /\ at' = "persist" => Valid(parsed) /\ parsed' = parsed
      /\ at' = "mark" /\ wire = "closed" => call.at = "idle"
      /\ at' # "mark" => wire # "closed"
  <2>1. CASE AskFails
    BY <1>1, <2>1, Quiet DEF AskFails, Throw, Lined
  <2>2. CASE Called
    <3>1. reply = "value" => wire # "closed"
      BY <1>1, <2>2 DEF Called, Lined
    <3>2. reply # "value" /\ wire = "closed" => call.at = "idle"
      BY <1>1, <2>2 DEF Called, GatewayInv, Told
    <3>3. parsed' = parsed /\ IF reply = "value" THEN at' = "consume" /\ code' = code ELSE at' = "mark" /\ code' = reply
      BY <2>2 DEF Called, Throw
    <3>4. reply # "value" => reply \in Codes
      BY <1>1, <1>4, <2>2, Quiet DEF Called
    <3> QED
      BY <1>1, <3>1, <3>2, <3>3, <3>4, Quiet
  <2>3. CASE ReadTail
    <3>1. "AI_INVALID_RESPONSE" \in Codes
      BY CodesAre, Quiet, <1>1 DEF Refused
    <3> QED
      BY <1>1, <2>3, <3>1, Quiet DEF ReadTail, Throw, Lined
  <2>4. CASE ReadFails
    BY <1>1, <2>4, Quiet DEF ReadFails, Throw, Lined
  <2>5. CASE Validate
    BY <1>1, <2>5, Quiet DEF Validate, Throw, Lined, HandlerInv, Stands
  <2> QED
    BY <2>1, <2>2, <2>3, <2>4, <2>5
<1>6. Lined(at)'
  BY <1>2, <1>5 DEF Lined
<1>7. Unended(sse)' /\ sse' \in Seq(Events)
  <2>1. sse' = sse /\ Unended(sse) /\ sse \in Seq(Events)
    BY <1>1, <1>2, Quiet
  <2> QED
    BY <2>1 DEF Unended
<1>8. HandlerInv'
  <2>1. at' \in Places \ {"usage", "done"}
    BY <1>5 DEF Places
  <2>2. at' \in {"validate", "persist"} => marked'
    BY <1>3, <1>5
  <2>3. at' = "persist" => Valid(parsed)'
    BY <1>5 DEF Valid
  <2> QED
    BY <1>1, <1>2, <1>5, <1>7, <2>1, <2>2, <2>3, Quiet, GoesOn
<1> QED
  BY <1>1, <1>2, <1>6, <1>8, HandlerMoves

(* Announcing a delta says nothing of the end. *)
LEMMA AnnounceQuiet ==
  ASSUME sse \in Seq(Events), Unended(sse), Announce
  PROVE  sse' \in Seq(Events) /\ Unended(sse)'
<1>1. PICK s \in Seq(Events) : s = sse /\ Unended(s)
  OBVIOUS
<1>2. "delta" \in Events /\ "delta" \notin Final
  BY DEF Events, Final
<1>3. s \o <<"delta">> \in Seq(Events) /\ Unended(s \o <<"delta">>)
  BY <1>1, <1>2, WritesOne
<1>4. sse' = s \/ sse' = s \o <<"delta">>
  BY <1>1 DEF Announce, Write
<1> QED
  BY <1>1, <1>3, <1>4 DEF Unended

LEMMA TakeDeltaMoves ==
  ASSUME AnsweringInv, TakeDelta
  PROVE  AnsweringInv'
<1>1. GatewayInv /\ Lined(at) /\ Cut(at) /\ HandlerInv /\ at = "consume" /\ at' = "consume"
  BY DEF AnsweringInv, TakeDelta
<1>2. UNCHANGED <<call, reply, promise, wire, traces, usages, faults, code, parsed, msg, broken>>
  BY DEF TakeDelta, gatewayVars
<1>3. GatewayInv'
  BY <1>1, <1>2, GatewayWaits
<1>4. Lined(at)'
  BY <1>1, <1>2 DEF Lined
<1>5. Cut(at)'
  <2>1. PICK n \in 1..MaxDelta : \E chunk \in [1..n -> Chars] : Delta(chunk)
    BY DEF TakeDelta
  <2>2. PICK chunk \in [1..n -> Chars] : Delta(chunk)
    BY <2>1
  <2>3. chunk \in Seq(Chars)
    <3>1. n \in Nat
      BY <2>1, AnsweringAssumption
    <3> QED
      BY <2>2, <3>1
  <2>4. PICK b : b = at
    OBVIOUS
  <2>5. Cut(b)'
    BY <1>1, <2>2, <2>3, <2>4, DeltaCuts
  <2> QED
    BY <1>1, <2>4, <2>5 DEF Cut
<1>6. sse' \in Seq(Events) /\ Unended(sse)'
  BY <1>1, Quiet, AnnounceQuiet DEF TakeDelta
<1>7. HandlerInv'
  <2>1. at' \in Places \ {"usage", "done"} /\ at' \notin {"validate", "persist"}
    BY <1>1 DEF Places
  <2> QED
    BY <1>1, <1>2, <1>6, <2>1, Quiet, GoesOn
<1> QED
  BY <1>3, <1>4, <1>5, <1>7 DEF AnsweringInv

LEMMA MarkerMissingMoves ==
  ASSUME AnsweringInv, MarkerMissing
  PROVE  AnsweringInv'
<1>1. GatewayInv /\ Lined(at) /\ Cut(at) /\ HandlerInv /\ at = "consume" /\ at' = "mark" /\ code' = "AI_INVALID_RESPONSE"
  BY DEF AnsweringInv, MarkerMissing, Throw
<1>2. UNCHANGED <<call, reply, promise, wire, traces, usages, faults, parsed, msg, broken>>
  BY DEF MarkerMissing, gatewayVars
<1>3. GatewayInv'
  BY <1>1, <1>2, GatewayWaits
<1>4. Lined(at)'
  BY <1>1, <1>2 DEF Lined
<1>5. Cut(at)'
  <2>1. Cut("mark")'
    BY <1>1, FlushCuts DEF MarkerMissing
  <2> QED
    BY <1>1, <2>1 DEF Cut
<1>6. sse' \in Seq(Events) /\ Unended(sse)'
  BY <1>1, Quiet, AnnounceQuiet DEF MarkerMissing
<1>7. HandlerInv'
  <2>1. at' \in Places \ {"usage", "done"} /\ at' \notin {"validate", "persist"}
    BY <1>1 DEF Places
  <2>2. code' \in Codes
    BY <1>1, CodesAre, Quiet DEF Refused
  <2> QED
    BY <1>1, <1>2, <1>6, <2>1, <2>2, Quiet, GoesOn
<1> QED
  BY <1>3, <1>4, <1>5, <1>7 DEF AnsweringInv


-----------------------------------------------------------------------------
\* Answering: the steps that store and tell

LEMMA RefuseMoves ==
  ASSUME AnsweringInv, Refuse
  PROVE  AnsweringInv'
<1>1. GatewayInv /\ Lined(at) /\ HandlerInv /\ at = "refuse" /\ wire = "closed" /\ call.at = "idle"
  BY DEF AnsweringInv, Refuse, Lined
<1>2. UNCHANGED <<call, reply, promise, wire, traces, usages, streamVars, parsed>> /\ (Fault \/ UNCHANGED faults)
  BY DEF Refuse, DatabaseFails
<1>3. msg' \in Messages
  <2>1. PICK m : m = [status |-> "completed", text |-> <<>>, citations |-> <<>>]
    OBVIOUS
  <2>2. m \in Messages
    <3>1. <<>> \in Seq(Chars) /\ <<>> \in Seq(Citation)
      OBVIOUS
    <3> QED
      BY <2>1, <3>1 DEF Messages
  <2>3. msg' = m \/ msg' = msg
    BY <2>1 DEF Refuse, Stored
  <2>4. msg \in Messages
    BY <1>1, Quiet
  <2> QED
    BY <2>2, <2>3, <2>4
<1>4. PICK s \in Seq(Events) : s = sse /\ Unended(s)
  BY <1>1, Quiet
<1>5. \/ /\ at' = "done" /\ msg'.status = "completed" /\ code' = code /\ broken' = broken
         /\ sse' = s \o <<"delta", "completed">>
      \/ at' = "mark" /\ broken' = TRUE /\ code' = "INTERNAL" /\ sse' = s
  BY <1>1, <1>4 DEF Refuse, Stored, DatabaseFails, Throw, Write
<1>6. PICK e : e = <<"delta", "completed">>
  OBVIOUS
<1>7. s \o e \in Seq(Events) /\ (s \o e)[Len(s \o e)] = "completed"
  <2>1. e \in Seq(Events) /\ Len(e) = 2 /\ e[2] = "completed"
    BY <1>6 DEF Events
  <2>2. s \o e \in Seq(Events) /\ (Len(e) > 0 => (s \o e)[Len(s \o e)] = e[Len(e)])
    BY <2>1, Writes
  <2>3. Len(e) > 0 /\ e[Len(e)] = "completed"
    BY <2>1
  <2> QED
    BY <2>2, <2>3
<1>8. HandlerTyped'
  BY <1>1, <1>2, <1>3, <1>5, <1>6, <1>7, Quiet DEF HandlerTyped, Places
<1>9. Stands'
  BY <1>4, <1>5 DEF Stands, Unended
<1>10. StoredAnswerIsSound'
  BY <1>1, <1>2 DEF StoredAnswerIsSound
<1>11. LastEventTrue'
  BY <1>5, <1>6, <1>7 DEF LastEventTrue
<1>12. Lined(at)'
  BY <1>1, <1>2, <1>5 DEF Lined
<1> QED
  BY <1>1, <1>2, <1>8, <1>9, <1>10, <1>11, <1>12, HandlerMoves DEF HandlerInv

LEMMA PersistMoves ==
  ASSUME AnsweringInv, Persist
  PROVE  AnsweringInv'
<1>1. GatewayInv /\ Lined(at) /\ Cut(at) /\ HandlerInv /\ at = "persist" /\ wire # "closed" /\ marked /\ Valid(parsed)
  BY DEF AnsweringInv, Persist, Lined, HandlerInv, Stands
<1>2. UNCHANGED <<call, reply, promise, wire, traces, usages, streamVars, parsed, sse>> /\ (Fault \/ UNCHANGED faults)
  BY DEF Persist, DatabaseFails
<1>3. PICK s, b, p : s = sent /\ b = body /\ p = parsed
  OBVIOUS
<1>4. sent' = s /\ body' = b /\ parsed' = p /\ marked' = marked /\ b \in Seq(Chars) /\ p \in Answers
  BY <1>1, <1>2, <1>3, Quiet DEF streamVars, Cut, StreamTypeOK
<1>5. Positions(s) # {} /\ b = SubSeq(s, 1, FirstMarker(s) - 1)
  BY <1>1, <1>3 DEF Cut, ShownIsAnswer
<1>6. p.citations \in Seq(Citation)
  <2>1. PICK n \in 0..MaxCitations : p.citations \in [1..n -> Citation]
    BY <1>4 DEF Answers
  <2>2. n \in Nat
    BY <2>1, AnsweringAssumption
  <2> QED
    BY <2>1, <2>2
<1>7. /\ \A i \in DOMAIN p.citations : p.citations[i].source \in OwnSources
      /\ (p.citations = <<>>) = p.insufficientEvidence
  <2>1. p.insufficientEvidence \in BOOLEAN
    BY <1>4 DEF Answers
  <2>2. p.insufficientEvidence <=> p.citations = <<>>
    BY <1>1, <1>3 DEF Valid
  <2>3. (p.citations = <<>>) = p.insufficientEvidence
    BY <2>1, <2>2, Zenon
  <2> QED
    BY <1>1, <1>3, <2>3 DEF Valid, Acceptable
<1>8. Trim(b) \in Seq(Chars)
  BY <1>4, TrimTyped
<1>9. PICK m : m = [status |-> "completed", text |-> Trim(b), citations |-> p.citations]
  OBVIOUS
<1>10. m \in Messages /\ m.status = "completed" /\ m.text = Trim(b) /\ m.citations = p.citations
  BY <1>6, <1>8, <1>9 DEF Messages
<1>11. \/ at' = "usage" /\ msg' = m /\ code' = code /\ broken' = broken
       \/ at' = "mark" /\ (msg' = m \/ msg' = msg) /\ code' = "INTERNAL" /\ broken' = TRUE
  BY <1>3, <1>9 DEF Persist, Stored, DatabaseFails, Throw
<1>12. msg.status # "completed"
  BY <1>1 DEF HandlerInv, Stands
<1>13. HandlerTyped'
  BY <1>1, <1>2, <1>10, <1>11, Quiet DEF HandlerTyped, Places
<1>14. Stands'
  <2>1. PICK e : e = sse /\ Unended(e)
    BY <1>1, Quiet
  <2>2. sse' = e
    BY <1>2, <2>1
  <2> QED
    BY <1>10, <1>11, <1>12, <2>1, <2>2 DEF Stands, Unended
<1>15. StoredAnswerIsSound'
  <2>1. CASE msg' = m
    <3>1. Positions(sent') # {} /\ msg'.text = Trim(SubSeq(sent', 1, FirstMarker(sent') - 1))
      BY <1>4, <1>5, <1>10, <2>1
    <3>2. /\ \A i \in DOMAIN msg'.citations : msg'.citations[i].source \in OwnSources
          /\ (msg'.citations = <<>>) = parsed'.insufficientEvidence
      BY <1>4, <1>7, <1>10, <2>1
    <3> QED
      BY <3>1, <3>2 DEF StoredAnswerIsSound, Positions, MarkerAt, FirstMarker, Trim, NonBlank
  <2>2. CASE msg' = msg
    BY <1>12, <2>2 DEF StoredAnswerIsSound
  <2> QED
    BY <1>11, <2>1, <2>2, SMTT(60)
<1>16. LastEventTrue'
  BY <1>11 DEF LastEventTrue
<1>17. Lined(at)'
  BY <1>1, <1>2, <1>11 DEF Lined
<1> QED
  BY <1>1, <1>2, <1>13, <1>14, <1>15, <1>16, <1>17, HandlerMoves DEF HandlerInv

(* What was stored is still sound when the text, the answer and the wire      *)
(* are what they were.                                                        *)
LEMMA StillSound ==
  ASSUME StoredAnswerIsSound, UNCHANGED <<sent, parsed>>, wire' # "closed" => wire # "closed", msg'.status = "completed" => msg' = msg
  PROVE  StoredAnswerIsSound'
<1> SUFFICES ASSUME msg'.status = "completed", wire' # "closed"
             PROVE  /\ Positions(sent') # {}
                    /\ msg'.text = Trim(SubSeq(sent', 1, FirstMarker(sent') - 1))
                    /\ \A i \in DOMAIN msg'.citations : msg'.citations[i].source \in OwnSources
                    /\ (msg'.citations = <<>>) = parsed'.insufficientEvidence
  BY DEF StoredAnswerIsSound, Positions, MarkerAt, FirstMarker, Trim, NonBlank
<1>1. sent' = sent /\ parsed' = parsed /\ msg' = msg /\ msg.status = "completed" /\ wire # "closed"
  OBVIOUS
<1>2. /\ Positions(sent) # {}
      /\ msg.text = Trim(SubSeq(sent, 1, FirstMarker(sent) - 1))
      /\ \A i \in DOMAIN msg.citations : msg.citations[i].source \in OwnSources
      /\ (msg.citations = <<>>) = parsed.insufficientEvidence
  BY <1>1 DEF StoredAnswerIsSound
<1> QED
  BY ONLY <1>1, <1>2, SMTT(60)

LEMMA CompleteMoves ==
  ASSUME AnsweringInv, Complete
  PROVE  AnsweringInv'
<1>1. GatewayInv /\ Lined(at) /\ HandlerInv /\ at = "usage" /\ at' = "done" /\ wire # "closed" /\ msg.status = "completed"
  BY DEF AnsweringInv, Complete, Lined, HandlerInv, Stands
<1>2. UNCHANGED <<call, reply, promise, wire, traces, usages, faults, streamVars, code, parsed, msg, broken>>
  BY DEF Complete, gatewayVars
<1>3. PICK s \in Seq(Events) : s = sse
  BY <1>1, Quiet
<1>4. PICK x, y : /\ x = IF parsed.citations = <<>> THEN <<>> ELSE <<"citations">>
                  /\ y = IF promise = "resolved" THEN <<"usage">> ELSE <<>>
  OBVIOUS
<1>5. x \in Seq(Events) /\ y \in Seq(Events) /\ "completed" \in Events
  <2>1. <<>> \in Seq(Events) /\ <<"citations">> \in Seq(Events) /\ <<"usage">> \in Seq(Events)
    BY DEF Events
  <2> QED
    BY <1>4, <2>1 DEF Events
<1>6. PICK z \in Seq(Events) : z = x \o y
  BY <1>5, ConcatProperties
<1>7. PICK e \in Seq(Events) : e = z \o <<"completed">> /\ Len(e) > 0 /\ e[Len(e)] = "completed"
  <2>1. z \o <<"completed">> \in Seq(Events) /\ (z \o <<"completed">>)[Len(z \o <<"completed">>)] = "completed"
    BY <1>5, WritesOne
  <2>2. Len(z \o <<"completed">>) = Len(z) + 1 /\ Len(z) \in Nat
    <3>1. <<"completed">> \in Seq(Events) /\ Len(<<"completed">>) = 1
      BY <1>5
    <3> QED
      BY <1>6, <3>1, ConcatProperties, LenProperties
  <2>3. Len(z \o <<"completed">>) > 0
    BY <2>2
  <2> QED
    BY <2>1, <2>3
<1>8. sse' = s \o e
  BY <1>3, <1>4, <1>6, <1>7 DEF Complete, Write
<1>9. sse' \in Seq(Events) /\ sse'[Len(sse')] = "completed"
  <2>1. s \o e \in Seq(Events) /\ (Len(e) > 0 => (s \o e)[Len(s \o e)] = e[Len(e)])
    BY Writes
  <2> QED
    BY <1>7, <1>8, <2>1
<1>10. HandlerTyped'
  BY <1>1, <1>2, <1>9, Quiet DEF HandlerTyped, Places
<1>11. Stands'
  BY <1>1 DEF Stands
<1>12. StoredAnswerIsSound'
  BY <1>1, <1>2, StillSound DEF HandlerInv, streamVars
<1>13. LastEventTrue'
  BY <1>1, <1>2, <1>9 DEF LastEventTrue
<1>14. Lined(at)'
  BY <1>1, <1>2 DEF Lined
<1> QED
  BY <1>1, <1>2, <1>10, <1>11, <1>12, <1>13, <1>14, HandlerMoves DEF HandlerInv

LEMMA FailMoves ==
  ASSUME AnsweringInv, Fail
  PROVE  AnsweringInv'
<1>1. GatewayInv /\ Lined(at) /\ HandlerInv /\ at = "mark" /\ at' = "done"
  BY DEF AnsweringInv, Fail
<1>2. UNCHANGED <<call, reply, promise, wire, traces, usages, streamVars, code, parsed>> /\ (Fault \/ UNCHANGED faults)
  BY DEF Fail, DatabaseFails
<1>3. PICK s \in Seq(Events) : s = sse
  BY <1>1, Quiet
<1>4. sse' \in Seq(Events) /\ sse'[Len(sse')] = "failed"
  <2>1. "failed" \in Events
    BY DEF Events
  <2>2. s \o <<"failed">> \in Seq(Events) /\ (s \o <<"failed">>)[Len(s \o <<"failed">>)] = "failed"
    BY <2>1, WritesOne
  <2> QED
    BY <1>3, <2>2 DEF Fail, Write
<1>5. Marked \in Messages /\ Marked.status = "failed"
  <2>1. msg \in Messages
    BY <1>1, Quiet
  <2> QED
    BY <2>1 DEF Marked, Messages
<1>6. \/ msg' = Marked /\ broken' = broken
      \/ (msg' = Marked \/ msg' = msg) /\ broken' = TRUE
  BY DEF Fail, DatabaseFails
<1>7. HandlerTyped'
  BY <1>1, <1>2, <1>4, <1>5, <1>6, Quiet DEF HandlerTyped, Places
<1>8. Stands'
  BY <1>1 DEF Stands
<1>9. StoredAnswerIsSound'
  BY <1>1, <1>2, <1>5, <1>6, StillSound DEF HandlerInv, streamVars
<1>10. LastEventTrue'
  BY <1>1, <1>4, <1>5, <1>6 DEF LastEventTrue
<1>11. Lined(at)'
  BY <1>1, <1>2 DEF Lined
<1> QED
  BY <1>1, <1>2, <1>7, <1>8, <1>9, <1>10, <1>11, HandlerMoves DEF HandlerInv

(* The gateway's own steps leave the handler alone: a wire is opened only for *)
(* who is calling, and a message is stored only when nobody calls.            *)
LEMMA GatewayStays ==
  ASSUME AnsweringInv, GatewayStep, UNCHANGED <<streamVars, handlerVars>>
  PROVE  AnsweringInv'
<1>1. GatewayInv /\ Lined(at) /\ Cut(at) /\ HandlerInv
  BY DEF AnsweringInv
<1>2. UNCHANGED <<at, code, parsed, msg, sse, broken, streamVars>> /\ UNCHANGED sent /\ UNCHANGED marked
  BY DEF handlerVars, streamVars
<1>3. PICK a : a = at
  OBVIOUS
<1>4. GatewayInv' /\ Lined(a)' /\ Cut(a)'
  BY <1>1, <1>2, <1>3, GatewayMoves, CutStays
<1>5. Lined(at)' /\ Cut(at)'
  BY <1>2, <1>3, <1>4 DEF Lined, Cut
<1>6. HandlerTyped' /\ LastEventTrue'
  BY <1>1, <1>2 DEF HandlerInv, HandlerTyped, LastEventTrue
<1>7. Stands'
  BY <1>1, <1>2 DEF HandlerInv, Stands, Valid, Acceptable, Unended
<1>8. StoredAnswerIsSound'
  <2>1. CASE wire # "closed" \/ msg.status # "completed"
    <3>1. CASE wire # "closed"
      BY <1>1, <1>2, <3>1, StillSound DEF HandlerInv
    <3>2. CASE msg.status # "completed"
      BY <1>2, <3>2 DEF StoredAnswerIsSound
    <3> QED
      BY <2>1, <3>1, <3>2
  <2>2. CASE wire = "closed" /\ msg.status = "completed"
    <3>1. at \in {"mark", "done"}
      BY <1>1, <2>2 DEF HandlerInv, Stands, Lined
    <3>2. call.at = "idle"
      BY <1>1, <2>2, <3>1 DEF Lined
    <3>3. FALSE
      BY <2>2, <3>2 DEF GatewayStep, CheckQuota, ResolvePrompt, ProviderFails, GenerateObject, Embed, OpenStream,
                        CloseWire, FinalMessage, RecordUsage, RecordTrace, RecordFailure
    <3> QED
      BY <3>3
  <2> QED
    BY <2>1, <2>2
<1> QED
  BY <1>4, <1>5, <1>6, <1>7, <1>8 DEF AnsweringInv, HandlerInv

LEMMA NothingMoves ==
  ASSUME AnsweringInv, UNCHANGED answeringVars
  PROVE  AnsweringInv'
<1>1. UNCHANGED <<call, reply, promise, wire, traces, usages, faults, streamVars, at, code, parsed, msg, sse, broken>>
  BY DEF answeringVars, gatewayVars, handlerVars
<1>2. Lined(at)'
  BY <1>1 DEF AnsweringInv, Lined
<1>3. HandlerTyped' /\ LastEventTrue'
  BY <1>1 DEF AnsweringInv, HandlerInv, HandlerTyped, LastEventTrue
<1>4. Stands'
  BY <1>1 DEF AnsweringInv, HandlerInv, Stands, Valid, Acceptable, Unended, streamVars
<1>5. StoredAnswerIsSound'
  BY <1>1, StillSound DEF AnsweringInv, HandlerInv, streamVars
<1> QED
  BY <1>1, <1>2, <1>3, <1>4, <1>5, HandlerMoves DEF HandlerInv


-----------------------------------------------------------------------------
\* Answering: the theorems

LEMMA AnsweringMoves ==
  ASSUME AnsweringInv, [AnsweringNext]_answeringVars
  PROVE  AnsweringInv'
<1>1. CASE Summarize \/ EmbedQuestion \/ Ask
  BY <1>1, CallsMade
<1>2. CASE Retrieved \/ Refuse
  BY <1>2, RetrievedMoves, RefuseMoves
<1>3. CASE AskFails \/ Called \/ ReadTail \/ ReadFails \/ Validate
  BY <1>3, SilentMoves
<1>4. CASE TakeDelta \/ MarkerMissing
  BY <1>4, TakeDeltaMoves, MarkerMissingMoves
<1>5. CASE Persist \/ Complete \/ Fail
  BY <1>5, PersistMoves, CompleteMoves, FailMoves
<1>6. CASE Submit
  BY <1>6, SubmitMoves
<1>7. CASE GatewayStep /\ UNCHANGED <<streamVars, handlerVars>>
  BY <1>7, GatewayStays
<1>8. CASE UNCHANGED answeringVars
  BY <1>8, NothingMoves
<1> QED
  BY <1>1, <1>2, <1>3, <1>4, <1>5, <1>6, <1>7, <1>8 DEF AnsweringNext, HandlerStep

LEMMA AnsweringHolds == AnsweringSpec => []AnsweringInv
<1>1. AnsweringInit => AnsweringInv
  BY AnsweringBegins
<1>2. AnsweringInv /\ [AnsweringNext]_answeringVars => AnsweringInv'
  BY AnsweringMoves
<1> QED
  BY <1>1, <1>2, PTL DEF AnsweringSpec

(* Whatever the cuts of the stream and whichever hook, provider or database  *)
(* call fails, the reader of generateAnswer is shown the text before the     *)
(* marker only, what is stored is that text with citations of the document,  *)
(* and each call is traced and counted for what it was.                      *)
THEOREM AnswerAlwaysSound == AnsweringSpec => []AnswerSound
<1>1. AnsweringInv => AnswerSound
  <2> SUFFICES ASSUME AnsweringInv PROVE AnswerSound
    OBVIOUS
  <2>1. GatewayTypeOK /\ TracedOnce /\ UsageOfSuccess
    BY GatewayShows DEF AnsweringInv
  <2>2. StreamTypeOK /\ ShownIsAnswer /\ HeldIsMarkerStart
    BY DEF AnsweringInv, Cut
  <2>3. AnsweringTypeOK /\ StoredAnswerIsSound
    BY <2>1, <2>2 DEF AnsweringInv, HandlerInv, HandlerTyped, Places, Messages, AnsweringTypeOK
  <2> QED
    BY <2>1, <2>2, <2>3 DEF AnswerSound
<1> QED
  BY <1>1, AnsweringHolds, PTL

(* The last event of generateAnswer tells what became of the message, unless *)
(* the database failed on the way, and once a final event is out nothing is   *)
(* written or stored any more.                                               *)
THEOREM EventsAlwaysTell == AnsweringSpec => EventsTellOutcome
<1>1. AnsweringInv => LastEventTrue
  BY DEF AnsweringInv, HandlerInv
<1>2. AnsweringInv /\ [AnsweringNext]_answeringVars
        => [\A i \in DOMAIN sse : sse[i] \in {"completed", "failed"} => UNCHANGED <<sse, msg>>]_answeringVars
  <2> SUFFICES ASSUME AnsweringInv, [AnsweringNext]_answeringVars, NEW i \in DOMAIN sse, sse[i] \in {"completed", "failed"}
               PROVE  UNCHANGED <<sse, msg>>
    OBVIOUS
  <2>1. at = "done"
    BY DEF AnsweringInv, HandlerInv, Stands, Unended, Final
  <2>2. UNCHANGED answeringVars \/ UNCHANGED handlerVars
    BY <2>1 DEF AnsweringNext, HandlerStep, Summarize, Submit, AskFails, EmbedQuestion, Retrieved, Refuse, Ask, Called,
                TakeDelta, ReadTail, MarkerMissing, ReadFails, Validate, Persist, Complete, Fail
  <2> QED
    BY <2>2 DEF answeringVars, handlerVars
<1> QED
  BY <1>1, <1>2, AnsweringHolds, PTL DEF AnsweringSpec, EventsTellOutcome, EndIsEnd

-----------------------------------------------------------------------------
\* Grounding, Evaluation: recursion over the first numbers

(* G makes each value of a row in S from the one before it, and f is that row. *)
Makes(G, S, a, n) == n \in Nat /\ a \in S /\ G \in [S \X (1..n) -> S]
Made(f, G, S, a, n) == f \in [0..n -> S] /\ f[0] = a /\ \A i \in 1..n : f[i] = G[<<f[i - 1], i>>]

(* There is such a row. *)
LEMMA Recursion ==
  ASSUME NEW n, NEW S, NEW a, NEW G, Makes(G, S, a, n)
  PROVE  \E f : Made(f, G, S, a, n)
<1> USE DEF Makes, Made
<1> DEFINE Upto(m, f) == /\ f \in [0..m -> S] /\ f[0] = a
                         /\ \A i \in 1..m : f[i] = G[<<f[i - 1], i>>]
           Good == {m \in Nat : m <= n => \E f : Upto(m, f)}
<1>1. 0 \in Good
  <2> DEFINE z == [i \in 0..0 |-> a]
  <2>1. Upto(0, z)
    OBVIOUS
  <2> QED
    BY <2>1
<1>2. ASSUME NEW m \in Nat, m \in Good PROVE m + 1 \in Good
  <2> SUFFICES ASSUME m + 1 <= n PROVE \E f : Upto(m + 1, f)
    <3> HIDE DEF Upto
    <3>1. m + 1 \in Nat
      OBVIOUS
    <3> QED
      BY <3>1
  <2>1. PICK f : Upto(m, f)
    BY <1>2
  <2> DEFINE v == G[<<f[m], m + 1>>]
             g == [i \in 0..(m + 1) |-> IF i = m + 1 THEN v ELSE f[i]]
  <2>2. v \in S
    BY <2>1
  <2>3. g \in [0..(m + 1) -> S] /\ g[0] = a
    BY <2>1, <2>2
  <2>4. ASSUME NEW i \in 1..(m + 1) PROVE g[i] = G[<<g[i - 1], i>>]
    <3>1. i - 1 \in 0..(m + 1) /\ i - 1 # m + 1 /\ g[i - 1] = f[i - 1]
      OBVIOUS
    <3>2. CASE i = m + 1
      <4>1. i - 1 = m /\ g[i] = v
        BY <3>2
      <4> QED
        BY <3>1, <3>2, <4>1
    <3>3. CASE i # m + 1
      <4>1. i \in 1..m /\ g[i] = f[i]
        BY <3>3
      <4>2. f[i] = G[<<f[i - 1], i>>]
        BY <2>1, <4>1
      <4> QED
        BY <3>1, <4>1, <4>2
    <3> QED
      BY <3>2, <3>3
  <2>5. Upto(m + 1, g)
    BY <2>3, <2>4
  <2> QED
    BY <2>5
<1>3. Nat \subseteq Good
  <2> HIDE DEF Good
  <2> QED
    BY <1>1, <1>2, SetInduction
<1>4. n \in Good
  BY <1>3
<1> QED
  BY <1>4

(* And what is made that way as long as it is in S is in S all along. *)
LEMMA RowStays ==
  ASSUME NEW n, NEW S, NEW a, NEW G, Makes(G, S, a, n), NEW h, h = [i \in 0..n |-> h[i]],
         h[0] = a, \A i \in 1..n : h[i - 1] \in S => h[i] = G[<<h[i - 1], i>>]
  PROVE  Made(h, G, S, a, n)
<1> USE DEF Makes
<1> DEFINE Good == {m \in Nat : m <= n => h[m] \in S}
<1>1. 0 \in Good
  OBVIOUS
<1>2. ASSUME NEW m \in Nat, m \in Good PROVE m + 1 \in Good
  <2> SUFFICES ASSUME m + 1 <= n PROVE h[m + 1] \in S
    OBVIOUS
  <2>1. h[m] \in S /\ m + 1 \in 1..n /\ (m + 1) - 1 = m
    BY <1>2, SMTT(60)
  <2>2. h[m + 1] = G[<<h[m], m + 1>>]
    BY <2>1
  <2> QED
    BY <2>1, <2>2
<1>3. Nat \subseteq Good
  <2> HIDE DEF Good
  <2> QED
    BY <1>1, <1>2, SetInduction
<1>4. \A i \in 0..n : h[i] \in S
  BY <1>3
<1>5. h \in [0..n -> S]
  BY <1>4
<1>6. ASSUME NEW i \in 1..n PROVE h[i] = G[<<h[i - 1], i>>]
  <2>1. i - 1 \in 0..n
    OBVIOUS
  <2>2. h[i - 1] \in S
    BY <1>4, <2>1
  <2> QED
    BY <2>2
<1> QED
  BY <1>5, <1>6 DEF Made

(* The sums of numbers from the first on. *)
Amounts(f, s, n) == f \in [0..n -> Nat] /\ f[0] = 0 /\ \A i \in 1..n : f[i] = f[i - 1] + s[i]

LEMMA AmountsExist ==
  ASSUME NEW n \in Nat, NEW s, \A i \in 1..n : s[i] \in Nat
  PROVE  \E f : Amounts(f, s, n)
<1> DEFINE G == [x \in Nat \X (1..n) |-> x[1] + s[x[2]]]
<1>1. G \in [Nat \X (1..n) -> Nat]
  OBVIOUS
<1>2. \A x \in Nat, i \in 1..n : G[<<x, i>>] = x + s[i]
  OBVIOUS
<1> HIDE DEF G
<1>3. Makes(G, Nat, 0, n)
  BY <1>1 DEF Makes
<1>6. PICK f : Made(f, G, Nat, 0, n)
  BY <1>3, Recursion
<1>7. f \in [0..n -> Nat] /\ f[0] = 0 /\ \A i \in 1..n : f[i] = G[<<f[i - 1], i>>]
  BY <1>6 DEF Made
<1>4. \A i \in 1..n : f[i - 1] \in Nat
  BY <1>7
<1>5. Amounts(f, s, n)
  BY <1>2, <1>7, <1>4 DEF Amounts
<1> QED
  BY <1>5

LEMMA AmountsAre ==
  ASSUME NEW n \in Nat, NEW s, \A i \in 1..n : s[i] \in Nat,
         NEW f, f = [i \in 0..n |-> IF i = 0 THEN 0 ELSE f[i - 1] + s[i]]
  PROVE  Amounts(f, s, n)
<1>1. \A i \in 0..n : f[i] = IF i = 0 THEN 0 ELSE f[i - 1] + s[i]
  OBVIOUS
<1>2. \A i \in 1..n : f[i] = f[i - 1] + s[i]
  BY <1>1
<1> DEFINE Good == {m \in Nat : m <= n => f[m] \in Nat}
<1>3. 0 \in Good
  BY <1>1
<1>4. ASSUME NEW m \in Nat, m \in Good PROVE m + 1 \in Good
  <2> SUFFICES ASSUME m + 1 <= n PROVE f[m + 1] \in Nat
    OBVIOUS
  <2>1. f[m] \in Nat /\ s[m + 1] \in Nat /\ f[m + 1] = f[m] + s[m + 1]
    BY <1>2, <1>4
  <2> QED
    BY <2>1
<1>5. Nat \subseteq Good
  <2> HIDE DEF Good
  <2> QED
    BY <1>3, <1>4, SetInduction
<1>6. \A i \in 0..n : f[i] \in Nat
  BY <1>5, SMTT(60)
<1>7. f \in [0..n -> Nat]
  <2>1. f = [i \in 0..n |-> f[i]]
    OBVIOUS
  <2> QED
    BY <1>6, <2>1
<1> QED
  BY <1>1, <1>2, <1>7 DEF Amounts

LEMMA AmountsFunction ==
  ASSUME NEW n \in Nat, NEW s, NEW f, Amounts(f, s, n)
  PROVE  f = [i \in 0..n |-> IF i = 0 THEN 0 ELSE f[i - 1] + s[i]]
<1>1. \A i \in 0..n : f[i] = IF i = 0 THEN 0 ELSE f[i - 1] + s[i]
  BY DEF Amounts
<1>2. f = [i \in 0..n |-> f[i]]
  BY DEF Amounts
<1> QED
  BY <1>1, <1>2

(* Sums of pointwise larger numbers are larger. *)
LEMMA AmountsOrdered ==
  ASSUME NEW n \in Nat, NEW s, NEW t, NEW f, NEW g, Amounts(f, s, n), Amounts(g, t, n),
         \A i \in 1..n : s[i] \in Nat /\ t[i] \in Nat /\ s[i] <= t[i]
  PROVE  f[n] <= g[n]
<1> DEFINE Good == {m \in Nat : m <= n => f[m] <= g[m]}
<1>1. 0 \in Good
  BY DEF Amounts
<1>2. ASSUME NEW m \in Nat, m \in Good PROVE m + 1 \in Good
  <2> SUFFICES ASSUME m + 1 <= n PROVE f[m + 1] <= g[m + 1]
    OBVIOUS
  <2>1. f[m] <= g[m] /\ f[m] \in Nat /\ g[m] \in Nat /\ m + 1 \in 1..n /\ (m + 1) - 1 = m
    BY <1>2 DEF Amounts
  <2>2. f[m + 1] = f[m] + s[m + 1] /\ g[m + 1] = g[m] + t[m + 1]
    BY <2>1 DEF Amounts
  <2>3. s[m + 1] \in Nat /\ t[m + 1] \in Nat /\ s[m + 1] <= t[m + 1]
    BY <2>1
  <2> QED
    BY <2>1, <2>2, <2>3
<1>3. Nat \subseteq Good
  <2> HIDE DEF Good
  <2> QED
    BY <1>1, <1>2, SetInduction
<1> QED
  BY <1>3

(* One number more at c. *)
LEMMA AmountsMore ==
  ASSUME NEW n \in Nat, NEW s, NEW t, NEW f, NEW g, Amounts(f, s, n), Amounts(g, t, n), NEW c \in 1..n,
         \A i \in 1..n : s[i] \in Nat /\ (i # c => t[i] = s[i]), s[c] = 0, t[c] \in Nat
  PROVE  g[n] = f[n] + t[c]
<1> DEFINE Good == {m \in Nat : m <= n => g[m] = f[m] + (IF m >= c THEN t[c] ELSE 0)}
<1>1. 0 \in Good
  BY DEF Amounts
<1>2. ASSUME NEW m \in Nat, m \in Good PROVE m + 1 \in Good
  <2> SUFFICES ASSUME m + 1 <= n PROVE g[m + 1] = f[m + 1] + (IF m + 1 >= c THEN t[c] ELSE 0)
    OBVIOUS
  <2>1. g[m] = f[m] + (IF m >= c THEN t[c] ELSE 0) /\ f[m] \in Nat /\ g[m] \in Nat /\ m + 1 \in 1..n /\ (m + 1) - 1 = m
    BY <1>2 DEF Amounts
  <2>2. f[m + 1] = f[m] + s[m + 1] /\ g[m + 1] = g[m] + t[m + 1]
    BY <2>1, ZenonT(60) DEF Amounts
  <2>3. s[m + 1] \in Nat
    BY <2>1
  <2>4. CASE m + 1 = c
    BY <2>1, <2>2, <2>4
  <2>5. CASE m + 1 # c
    <3>1. t[m + 1] = s[m + 1] /\ (m + 1 >= c <=> m >= c)
      BY <2>1, <2>5
    <3> QED
      BY <2>1, <2>2, <2>3, <3>1
  <2> QED
    BY <2>4, <2>5
<1>3. Nat \subseteq Good
  <2> HIDE DEF Good
  <2> QED
    BY <1>1, <1>2, SetInduction
<1>4. g[n] = f[n] + (IF n >= c THEN t[c] ELSE 0)
  BY <1>3
<1> QED
  BY <1>4

(* What a number in front adds. *)
LEMMA AmountsFront ==
  ASSUME NEW n \in Nat, NEW s, NEW t, NEW f, NEW g, Amounts(f, s, n), Amounts(g, t, n + 1), t[1] \in Nat,
         \A i \in 1..n : s[i] \in Nat /\ t[i + 1] = s[i]
  PROVE  g[n + 1] = t[1] + f[n]
<1> DEFINE Good == {m \in Nat : m <= n => g[m + 1] = t[1] + f[m]}
<1>1. 0 \in Good
  <2>1. 1 \in 1..(n + 1) /\ 1 - 1 = 0
    OBVIOUS
  <2>2. g[1] = g[0] + t[1] /\ g[0] = 0 /\ f[0] = 0
    BY <2>1 DEF Amounts
  <2> QED
    BY <2>2
<1>2. ASSUME NEW m \in Nat, m \in Good PROVE m + 1 \in Good
  <2> SUFFICES ASSUME m + 1 <= n PROVE g[(m + 1) + 1] = t[1] + f[m + 1]
    OBVIOUS
  <2>1. g[m + 1] = t[1] + f[m] /\ f[m] \in Nat /\ g[m + 1] \in Nat /\ m + 1 \in 1..n /\ (m + 1) - 1 = m
    BY <1>2 DEF Amounts
  <2>2. f[m + 1] = f[m] + s[m + 1]
    BY <2>1 DEF Amounts
  <2>3. g[(m + 1) + 1] = g[m + 1] + t[(m + 1) + 1]
    <3>1. (m + 1) + 1 \in 1..(n + 1) /\ ((m + 1) + 1) - 1 = m + 1
      OBVIOUS
    <3> QED
      BY <3>1 DEF Amounts
  <2>4. s[m + 1] \in Nat /\ t[(m + 1) + 1] = s[m + 1]
    BY <2>1
  <2> QED
    BY <2>1, <2>2, <2>3, <2>4
<1>3. Nat \subseteq Good
  <2> HIDE DEF Good
  <2> QED
    BY <1>1, <1>2, SetInduction
<1> QED
  BY <1>3

(* The chunks of a document, and what each of them counts when some are picked. *)
CountedChunks(chunks) == /\ Len(chunks) \in Nat /\ DOMAIN chunks = 1..Len(chunks)
                   /\ \A i \in 1..Len(chunks) : chunks[i].tokens \in Nat
Shares(chunks, picked) == [i \in 1..Len(chunks) |-> IF i \in picked THEN chunks[i].tokens ELSE 0]

(* SumOver is the last of the sums. *)
LEMMA SumIs ==
  ASSUME NEW s, NEW n \in Nat, Len(s) = n, \A i \in 1..n : s[i] \in Nat
  PROVE  \E f : Amounts(f, s, n) /\ SumOver(s) = f[n]
<1> DEFINE Body(f) == [i \in 0..n |-> IF i = 0 THEN 0 ELSE f[i - 1] + s[i]]
           sum == CHOOSE f : f = Body(f)
<1>1. SumOver(s) = sum[n]
  BY DEF SumOver
<1>2. PICK f : Amounts(f, s, n)
  BY AmountsExist
<1>3. f = Body(f)
  BY <1>2, AmountsFunction
<1> HIDE DEF Body
<1>4. sum = Body(sum)
  BY <1>3
<1> HIDE DEF sum
<1>5. sum = [i \in 0..n |-> IF i = 0 THEN 0 ELSE sum[i - 1] + s[i]]
  BY <1>4 DEF Body
<1>6. Amounts(sum, s, n)
  BY <1>5, AmountsAre
<1> QED
  BY <1>1, <1>6

LEMMA TokensAre ==
  ASSUME NEW chunks, NEW picked, CountedChunks(chunks)
  PROVE  \E f : Amounts(f, Shares(chunks, picked), Len(chunks)) /\ TokensOf(chunks, picked) = f[Len(chunks)]
<1> DEFINE n == Len(chunks)
           s == Shares(chunks, picked)
<1>1. n \in Nat /\ s \in [1..n -> Nat] /\ TokensOf(chunks, picked) = SumOver(s)
  BY DEF CountedChunks, Shares, TokensOf
<1> HIDE DEF n, s
<1>2. Len(s) = n /\ \A i \in 1..n : s[i] \in Nat
  BY <1>1
<1>3. \E f : Amounts(f, s, n) /\ SumOver(s) = f[n]
  BY <1>1, <1>2, SumIs
<1> QED
  BY <1>1, <1>3 DEF n, s

(* What picking adds: nothing by none, its tokens by each, never less by more. *)
LEMMA TokensNone ==
  ASSUME NEW chunks, CountedChunks(chunks)
  PROVE  TokensOf(chunks, {}) = 0
<1> DEFINE n == Len(chunks)
           s == Shares(chunks, {})
           z == [i \in 0..n |-> 0]
<1>1. n \in Nat /\ \A i \in 1..n : s[i] = 0
  BY DEF CountedChunks, Shares
<1>2. PICK f : Amounts(f, s, n) /\ TokensOf(chunks, {}) = f[n]
  BY TokensAre
<1>3. Amounts(z, s, n)
  BY <1>1 DEF Amounts
<1>4. z[n] = 0 /\ f[n] \in Nat
  BY <1>1, <1>2 DEF Amounts
<1> HIDE DEF z, s
<1>5. f[n] <= z[n]
  BY <1>1, <1>2, <1>3, AmountsOrdered
<1> QED
  BY <1>2, <1>4, <1>5

LEMMA TokensMore ==
  ASSUME NEW chunks, NEW picked, CountedChunks(chunks), NEW c \in DOMAIN chunks, c \notin picked
  PROVE  TokensOf(chunks, picked \cup {c}) = TokensOf(chunks, picked) + chunks[c].tokens
<1> DEFINE n == Len(chunks)
           s == Shares(chunks, picked)
           t == Shares(chunks, picked \cup {c})
<1>1. n \in Nat /\ c \in 1..n /\ \A i \in 1..n : s[i] \in Nat /\ (i # c => t[i] = s[i])
  BY DEF CountedChunks, Shares
<1>2. s[c] = 0 /\ t[c] = chunks[c].tokens /\ t[c] \in Nat
  BY DEF CountedChunks, Shares
<1>3. PICK f : Amounts(f, s, n) /\ TokensOf(chunks, picked) = f[n]
  BY TokensAre
<1>4. PICK g : Amounts(g, t, n) /\ TokensOf(chunks, picked \cup {c}) = g[n]
  BY TokensAre
<1> HIDE DEF n, s, t
<1>5. g[n] = f[n] + t[c]
  BY ONLY <1>1, <1>2, <1>3, <1>4, AmountsMore
<1> QED
  BY <1>2, <1>3, <1>4, <1>5

LEMMA TokensGrow ==
  ASSUME NEW chunks, NEW fewer, NEW more, CountedChunks(chunks), fewer \subseteq more
  PROVE  /\ TokensOf(chunks, fewer) \in Nat /\ TokensOf(chunks, more) \in Nat
         /\ TokensOf(chunks, fewer) <= TokensOf(chunks, more)
<1> DEFINE n == Len(chunks)
           s == Shares(chunks, fewer)
           t == Shares(chunks, more)
<1>1. n \in Nat /\ \A i \in 1..n : s[i] \in Nat /\ t[i] \in Nat /\ s[i] <= t[i]
  BY DEF CountedChunks, Shares
<1>3. PICK f : Amounts(f, s, n) /\ TokensOf(chunks, fewer) = f[n]
  BY TokensAre
<1>4. PICK g : Amounts(g, t, n) /\ TokensOf(chunks, more) = g[n]
  BY TokensAre
<1>6. f[n] \in Nat /\ g[n] \in Nat
  BY <1>1, <1>3, <1>4 DEF Amounts
<1> HIDE DEF n, s, t
<1>5. f[n] <= g[n]
  BY <1>1, <1>3, <1>4, AmountsOrdered
<1> QED
  BY <1>3, <1>4, <1>5, <1>6

(* selectSources as a row of choices, one for each candidate. *)
Skips(chunks, p, rank, i, enough) ==
  \/ Cardinality(p) >= MaxSources \/ i > enough
  \/ Repeats(chunks, p, rank[i]) \/ ~FitsBeside(chunks, p, rank[i])
Choices(f, chunks, rank, enough) ==
  /\ f \in [0..Len(rank) -> SUBSET {rank[i] : i \in 1..Len(rank)}]
  /\ f[0] = {}
  /\ \A i \in 1..Len(rank) :
       f[i] = IF Skips(chunks, f[i - 1], rank, i, enough) THEN f[i - 1] ELSE f[i - 1] \cup {rank[i]}

LEMMA PickedIs ==
  ASSUME NEW chunks, NEW rank, NEW enough, Len(rank) \in Nat
  PROVE  \E f : Choices(f, chunks, rank, enough) /\ Picked(chunks, rank, enough) = f[Len(rank)]
<1> DEFINE n == Len(rank)
           S == SUBSET {rank[i] : i \in 1..n}
           Step(p, i) == IF Skips(chunks, p, rank, i, enough) THEN p ELSE p \cup {rank[i]}
           G == [x \in S \X (1..n) |-> Step(x[1], x[2])]
           Body(f) == [i \in 0..n |-> IF i = 0 THEN {} ELSE Step(f[i - 1], i)]
           pick == CHOOSE f : f = Body(f)
<1>1. Picked(chunks, rank, enough) = pick[n]
  BY DEF Picked, Skips
<1>2. \A p \in S, i \in 1..n : Step(p, i) \in S
  OBVIOUS
<1> HIDE DEF Step
<1>3. Makes(G, S, {}, n) /\ \A p \in S, i \in 1..n : G[<<p, i>>] = Step(p, i)
  BY <1>2 DEF Makes
<1> HIDE DEF G
<1>4. PICK f : Made(f, G, S, {}, n)
  BY <1>3, Recursion
<1>5. f = Body(f)
  <2>1. f \in [0..n -> S] /\ f[0] = {} /\ \A i \in 1..n : f[i] = G[<<f[i - 1], i>>]
    BY <1>4 DEF Made
  <2> HIDE DEF S
  <2>2. ASSUME NEW i \in 0..n PROVE f[i] = IF i = 0 THEN {} ELSE Step(f[i - 1], i)
    <3>1. CASE i = 0
      BY <2>1, <3>1
    <3>2. CASE i # 0
      <4>1. i \in 1..n /\ i - 1 \in 0..n
        BY <3>2
      <4>2. f[i - 1] \in S
        BY <2>1, <4>1
      <4> QED
        BY <1>3, <2>1, <3>2, <4>1, <4>2
    <3> QED
      BY <3>1, <3>2
  <2>3. f = [i \in 0..n |-> f[i]]
    BY <2>1
  <2> QED
    BY <2>2, <2>3
<1> HIDE DEF Body
<1>6. pick = Body(pick)
  BY <1>5
<1> HIDE DEF pick
<1>7. \A i \in 0..n : pick[i] = IF i = 0 THEN {} ELSE Step(pick[i - 1], i)
  BY <1>6 DEF Body
<1>8. pick = [i \in 0..n |-> pick[i]]
  BY <1>6 DEF Body
<1>9. \A i \in 1..n : pick[i - 1] \in S => pick[i] = G[<<pick[i - 1], i>>]
  BY <1>3, <1>7
<1>10. pick[0] = {}
  BY <1>7
<1>11. Made(pick, G, S, {}, n)
  BY ONLY <1>3, <1>8, <1>9, <1>10, RowStays
<1>12. pick \in [0..n -> S]
  BY <1>11 DEF Made
<1>13. Choices(pick, chunks, rank, enough)
  <2>1. pick[0] = {}
    BY <1>7
  <2>2. \A i \in 1..n : pick[i] = Step(pick[i - 1], i)
    BY <1>7
  <2> QED
    BY <1>12, <2>1, <2>2 DEF Choices, Step
<1> QED
  BY <1>1, <1>13

(* What holds of the choice after i candidates. *)
WellChosen(chunks, rank, enough, p, i) ==
  /\ p \subseteq {rank[j] : j \in 1..(IF i <= enough THEN i ELSE enough)}
  /\ IsFiniteSet(p) /\ Cardinality(p) <= MaxSources
  /\ TokensOf(chunks, p) <= ContextBudget
  /\ \A x, y \in p : chunks[x].hash = chunks[y].hash => x = y
  /\ \A j \in 1..i : j <= enough =>
       /\ rank[j] \notin p => \/ Cardinality(p) = MaxSources \/ Repeats(chunks, p, rank[j])
                              \/ ~FitsBeside(chunks, p, rank[j])
       /\ chunks[rank[j]].tokens <= ContextBudget => p # {}

LEMMA OneMoreChosen ==
  ASSUME NEW chunks, CountedChunks(chunks), NEW rank, NEW n \in Nat, rank \in [1..n -> DOMAIN chunks],
         NEW enough \in 0..n, NEW i \in 0..n, i + 1 <= n, NEW p, WellChosen(chunks, rank, enough, p, i),
         MaxSources \in Nat \ {0}, ContextBudget \in Nat
  PROVE  WellChosen(chunks, rank, enough,
                    IF Skips(chunks, p, rank, i + 1, enough) THEN p ELSE p \cup {rank[i + 1]}, i + 1)
<1> DEFINE c == rank[i + 1]
           q == p \cup {c}
<1>1. c \in DOMAIN chunks /\ chunks[c].tokens \in Nat /\ Cardinality(p) \in Nat
  BY FS_CardinalityType DEF CountedChunks, WellChosen
<1>2. TokensOf(chunks, p) \in Nat
  BY TokensGrow
<1>3. CASE Skips(chunks, p, rank, i + 1, enough)
  <2>1. p \subseteq {rank[j] : j \in 1..(IF i + 1 <= enough THEN i + 1 ELSE enough)}
    BY DEF WellChosen
  <2>2. ASSUME NEW j \in 1..(i + 1), j <= enough
        PROVE  /\ rank[j] \notin p => \/ Cardinality(p) = MaxSources \/ Repeats(chunks, p, rank[j])
                                      \/ ~FitsBeside(chunks, p, rank[j])
               /\ chunks[rank[j]].tokens <= ContextBudget => p # {}
    <3>1. CASE j \in 1..i
      BY <2>2, <3>1 DEF WellChosen
    <3>2. CASE j = i + 1
      <4>1. Cardinality(p) = MaxSources \/ Repeats(chunks, p, c) \/ ~FitsBeside(chunks, p, c)
        BY <1>1, <1>3, <2>2, <3>2 DEF Skips, WellChosen
      <4>2. ASSUME p = {}, chunks[c].tokens <= ContextBudget PROVE FALSE
        <5>1. Cardinality(p) = 0 /\ TokensOf(chunks, p) = 0
          BY <4>2, FS_EmptySet, TokensNone
        <5>2. ~Repeats(chunks, p, c)
          BY <4>2 DEF Repeats
        <5>3. FitsBeside(chunks, p, c)
          BY <1>1, <4>2, <5>1 DEF FitsBeside
        <5> QED
          BY <4>1, <5>1, <5>2, <5>3
      <4> QED
        BY <3>2, <4>1, <4>2
    <3> QED
      BY <3>1, <3>2
  <2> QED
    BY <1>3, <2>1, <2>2 DEF WellChosen
<1>4. CASE ~Skips(chunks, p, rank, i + 1, enough)
  <2>1. Cardinality(p) < MaxSources /\ i + 1 <= enough /\ ~Repeats(chunks, p, c) /\ FitsBeside(chunks, p, c)
    BY <1>1, <1>4 DEF Skips
  <2>2. c \notin p
    BY <2>1 DEF Repeats
  <2>3. IsFiniteSet(q) /\ Cardinality(q) = Cardinality(p) + 1
    BY <2>2, FS_AddElement DEF WellChosen
  <2>4. TokensOf(chunks, q) = TokensOf(chunks, p) + chunks[c].tokens
    BY <1>1, <2>2, TokensMore
  <2>5. TokensOf(chunks, q) <= ContextBudget
    BY <2>1, <2>4 DEF FitsBeside
  <2>6. q \subseteq {rank[j] : j \in 1..(IF i + 1 <= enough THEN i + 1 ELSE enough)}
    <3>1. p \subseteq {rank[j] : j \in 1..i}
      BY <2>1 DEF WellChosen
    <3> QED
      BY <2>1, <3>1
  <2>7. \A x, y \in q : chunks[x].hash = chunks[y].hash => x = y
    BY <2>1 DEF WellChosen, Repeats
  <2>8. ASSUME NEW j \in 1..(i + 1), j <= enough, rank[j] \notin q
        PROVE  Cardinality(q) = MaxSources \/ Repeats(chunks, q, rank[j]) \/ ~FitsBeside(chunks, q, rank[j])
    <3>1. j \in 1..i /\ rank[j] \notin p
      BY <2>8
    <3>2. Cardinality(p) = MaxSources \/ Repeats(chunks, p, rank[j]) \/ ~FitsBeside(chunks, p, rank[j])
      BY <2>8, <3>1 DEF WellChosen
    <3>3. Repeats(chunks, p, rank[j]) => Repeats(chunks, q, rank[j])
      BY DEF Repeats
    <3>4. ~FitsBeside(chunks, p, rank[j]) => ~FitsBeside(chunks, q, rank[j])
      <4>1. rank[j] \in DOMAIN chunks /\ chunks[rank[j]].tokens \in Nat
        BY <3>1 DEF CountedChunks
      <4> QED
        BY <1>1, <1>2, <2>4, <4>1, SMTT(60) DEF FitsBeside
    <3>5. Cardinality(p) # MaxSources
      BY <1>1, <2>1
    <3> QED
      BY <3>2, <3>3, <3>4, <3>5
  <2>9. Cardinality(q) <= MaxSources /\ q # {}
    BY <1>1, <2>1, <2>3, SMTT(60)
  <2> QED
    BY <1>4, <2>3, <2>5, <2>6, <2>7, <2>8, <2>9 DEF WellChosen
<1> QED
  BY <1>3, <1>4

(* selectSources keeps its limits and leaves out nothing that fits. *)
LEMMA PickedWell ==
  ASSUME NEW chunks, CountedChunks(chunks), NEW rank, NEW n \in Nat, Len(rank) = n, rank \in [1..n -> DOMAIN chunks],
         NEW enough \in 0..n, MaxSources \in Nat \ {0}, ContextBudget \in Nat
  PROVE  WellChosen(chunks, rank, enough, Picked(chunks, rank, enough), n)
<1>1. PICK f : Choices(f, chunks, rank, enough) /\ Picked(chunks, rank, enough) = f[n]
  BY PickedIs
<1> DEFINE Good == {m \in Nat : m <= n => WellChosen(chunks, rank, enough, f[m], m)}
<1>2. 0 \in Good
  <2>1. f[0] = {} /\ Cardinality({}) = 0 /\ IsFiniteSet({}) /\ TokensOf(chunks, {}) = 0
    BY <1>1, FS_EmptySet, TokensNone DEF Choices
  <2>2. 0 <= MaxSources /\ 0 <= ContextBudget /\ \A j \in 1..0 : FALSE
    OBVIOUS
  <2>3. WellChosen(chunks, rank, enough, {}, 0)
    BY <2>1, <2>2 DEF WellChosen
  <2> QED
    BY <2>1, <2>3
<1>3. ASSUME NEW m \in Nat, m \in Good PROVE m + 1 \in Good
  <2> SUFFICES ASSUME m + 1 <= n PROVE WellChosen(chunks, rank, enough, f[m + 1], m + 1)
    OBVIOUS
  <2>1. m \in 0..n /\ m + 1 \in 1..n /\ (m + 1) - 1 = m /\ WellChosen(chunks, rank, enough, f[m], m)
    BY <1>3
  <2>2. f[m + 1] = IF Skips(chunks, f[m], rank, m + 1, enough) THEN f[m] ELSE f[m] \cup {rank[m + 1]}
    BY <1>1, <2>1 DEF Choices
  <2>3. WellChosen(chunks, rank, enough,
                   IF Skips(chunks, f[m], rank, m + 1, enough) THEN f[m] ELSE f[m] \cup {rank[m + 1]}, m + 1)
    BY ONLY <2>1, OneMoreChosen, CountedChunks(chunks), n \in Nat, rank \in [1..n -> DOMAIN chunks], m + 1 <= n,
            enough \in 0..n, MaxSources \in Nat \ {0}, ContextBudget \in Nat
  <2> QED
    BY <2>2, <2>3
<1>4. Nat \subseteq Good
  <2> HIDE DEF Good
  <2> QED
    BY <1>2, <1>3, SetInduction
<1> QED
  BY <1>1, <1>4

(* How many members of a set come before c. *)
Ahead(S, c) == {d \in S : d < c}

LEMMA PositionsKept ==
  ASSUME NEW S, S \subseteq Nat, IsFiniteSet(S)
  PROVE  /\ \A c \in S : Cardinality(Ahead(S, c)) \in 0..(Cardinality(S) - 1)
         /\ \A c, d \in S : c < d => Cardinality(Ahead(S, c)) < Cardinality(Ahead(S, d))
         /\ \A k \in 0..(Cardinality(S) - 1) : \E c \in S : Cardinality(Ahead(S, c)) = k
<1> DEFINE n == Cardinality(S)
           f == [c \in S |-> Cardinality(Ahead(S, c))]
<1>1. n \in Nat
  BY FS_CardinalityType
<1>2. ASSUME NEW c \in S
      PROVE  IsFiniteSet(Ahead(S, c)) /\ Cardinality(Ahead(S, c)) \in 0..(n - 1)
  <2>1. IsFiniteSet(Ahead(S, c))
    BY FS_Subset DEF Ahead
  <2>2. IsFiniteSet(S \ {c}) /\ Cardinality(S \ {c}) = n - 1
    BY FS_RemoveElement
  <2>3. Ahead(S, c) \in SUBSET (S \ {c})
    BY DEF Ahead
  <2>4. Cardinality(Ahead(S, c)) <= n - 1
    BY <2>2, <2>3, FS_Subset
  <2>5. Cardinality(Ahead(S, c)) \in Nat
    BY <2>1, FS_CardinalityType
  <2> QED
    BY <1>1, <2>1, <2>4, <2>5
<1>3. ASSUME NEW c \in S, NEW d \in S, c < d
      PROVE  Cardinality(Ahead(S, c)) < Cardinality(Ahead(S, d))
  <2>1. c \notin Ahead(S, c)
    BY DEF Ahead
  <2>2. Ahead(S, c) \cup {c} \in SUBSET Ahead(S, d)
    <3>1. ASSUME NEW e \in Ahead(S, c) PROVE e \in Ahead(S, d)
      <4>1. e \in Nat /\ c \in Nat /\ d \in Nat /\ e \in S /\ e < c
        BY DEF Ahead
      <4>2. e < d
        BY <1>3, <4>1
      <4> QED
        BY <4>1, <4>2 DEF Ahead
    <3>2. c \in Ahead(S, d)
      BY <1>3 DEF Ahead
    <3> QED
      BY <3>1, <3>2
  <2>3. Cardinality(Ahead(S, c) \cup {c}) = Cardinality(Ahead(S, c)) + 1
    BY <1>2, <2>1, FS_AddElement
  <2>4. Cardinality(Ahead(S, c) \cup {c}) <= Cardinality(Ahead(S, d))
    BY <1>2, <2>2, FS_Subset
  <2>5. Cardinality(Ahead(S, c)) \in Nat /\ Cardinality(Ahead(S, d)) \in Nat
    BY <1>1, <1>2
  <2> QED
    BY <2>3, <2>4, <2>5
<1>4. IsFiniteSet(0..(n - 1)) /\ Cardinality(0..(n - 1)) = n
  <2>1. 0 \in Int /\ n - 1 \in Int
    BY <1>1
  <2> HIDE DEF n
  <2>2. IsFiniteSet(0..(n - 1)) /\ Cardinality(0..(n - 1)) = IF 0 > n - 1 THEN 0 ELSE (n - 1) - 0 + 1
    BY ONLY <2>1, FS_Interval
  <2> QED
    BY <1>1, <2>2
<1>5. f \in Injection(S, 0..(n - 1))
  <2>1. f \in [S -> 0..(n - 1)]
    BY <1>2
  <2>2. ASSUME NEW c \in S, NEW d \in S, f[c] = f[d] PROVE c = d
    <3>1. Cardinality(Ahead(S, c)) = Cardinality(Ahead(S, d)) /\ Cardinality(Ahead(S, c)) \in Nat
      BY <1>1, <1>2, <2>2
    <3>2. ~(c < d) /\ ~(d < c)
      BY <1>3, <3>1
    <3> QED
      BY <3>2
  <2> QED
    BY <2>1, <2>2 DEF Injection, IsInjective
<1>6. f \in Surjection(S, 0..(n - 1))
  BY <1>4, <1>5, FS_Injection
<1>7. \A k \in 0..(n - 1) : \E c \in S : f[c] = k
  BY <1>6 DEF Surjection
<1> QED
  BY <1>2, <1>3, <1>7

(* InOrder numbers the members of a set upwards. *)
LEMMA InOrderIs ==
  ASSUME NEW S, S \subseteq Nat, IsFiniteSet(S)
  PROVE  /\ InOrder(S) \in [1..Cardinality(S) -> S] /\ Len(InOrder(S)) = Cardinality(S)
         /\ Cardinality(S) \in Nat
         /\ \A i, j \in 1..Cardinality(S) : i < j => InOrder(S)[i] < InOrder(S)[j]
         /\ \A c \in S : \E i \in 1..Cardinality(S) : InOrder(S)[i] = c
<1> DEFINE n == Cardinality(S)
<1>1. n \in Nat
  BY FS_CardinalityType
<1>2. ASSUME NEW i \in 1..n
      PROVE  InOrder(S)[i] \in S /\ Cardinality(Ahead(S, InOrder(S)[i])) = i - 1
  <2>1. i - 1 \in 0..(n - 1)
    BY <1>1
  <2>2. \E c \in S : Cardinality(Ahead(S, c)) = i - 1
    BY <2>1, PositionsKept
  <2>3. InOrder(S)[i] = CHOOSE c \in S : Cardinality(Ahead(S, c)) = i - 1
    BY DEF InOrder, Ahead
  <2> QED
    BY <2>2, <2>3
<1>3. InOrder(S) \in [1..n -> S]
  <2> DEFINE e(i) == CHOOSE c \in S : Cardinality({d \in S : d < c}) = i - 1
  <2>0. InOrder(S) = [i \in 1..n |-> e(i)]
    BY DEF InOrder
  <2> HIDE DEF e
  <2>1. InOrder(S) = [i \in 1..n |-> InOrder(S)[i]]
    BY <2>0
  <2> QED
    BY <1>2, <2>1
<1>4. Len(InOrder(S)) = n
  <2>1. InOrder(S) \in Seq(S) /\ DOMAIN InOrder(S) = 1..n
    BY <1>1, <1>3, IsASeq
  <2> QED
    BY <1>1, <2>1
<1>5. ASSUME NEW i \in 1..n, NEW j \in 1..n, i < j PROVE InOrder(S)[i] < InOrder(S)[j]
  <2>1. ~(InOrder(S)[j] < InOrder(S)[i])
    <3>1. InOrder(S)[j] < InOrder(S)[i] => Cardinality(Ahead(S, InOrder(S)[j])) < Cardinality(Ahead(S, InOrder(S)[i]))
      BY <1>2, PositionsKept
    <3> QED
      BY <1>1, <1>2, <1>5, <3>1
  <2>2. InOrder(S)[j] # InOrder(S)[i]
    BY <1>2, <1>5
  <2>3. InOrder(S)[i] \in Nat /\ InOrder(S)[j] \in Nat
    BY <1>2
  <2> QED
    BY <2>1, <2>2, <2>3
<1>6. ASSUME NEW c \in S PROVE \E i \in 1..n : InOrder(S)[i] = c
  <2> DEFINE i == Cardinality(Ahead(S, c)) + 1
  <2>1. i \in 1..n /\ i - 1 = Cardinality(Ahead(S, c))
    <3>1. Cardinality(Ahead(S, c)) \in 0..(n - 1)
      BY PositionsKept
    <3> QED
      BY <1>1, <3>1
  <2>2. InOrder(S)[i] \in S /\ Cardinality(Ahead(S, InOrder(S)[i])) = Cardinality(Ahead(S, c))
    BY <1>2, <2>1
  <2> HIDE DEF i
  <2>3. Cardinality(Ahead(S, c)) \in Nat
    <3>1. Cardinality(Ahead(S, c)) \in 0..(n - 1)
      BY PositionsKept
    <3> QED
      BY <1>1, <3>1
  <2>4. ~(InOrder(S)[i] < c) /\ ~(c < InOrder(S)[i])
    <3> DEFINE d == InOrder(S)[i]
    <3>1. d \in S /\ c \in S
      BY <2>2
    <3>2. Cardinality(Ahead(S, d)) = Cardinality(Ahead(S, c))
      BY <2>2
    <3> HIDE DEF d
    <3>3. /\ c < d => Cardinality(Ahead(S, c)) < Cardinality(Ahead(S, d))
          /\ d < c => Cardinality(Ahead(S, d)) < Cardinality(Ahead(S, c))
      BY <3>1, PositionsKept
    <3> QED
      BY <2>3, <3>2, <3>3 DEF d
  <2>5. c \in Nat /\ InOrder(S)[i] \in Nat
    BY <2>2
  <2> QED
    BY <2>1, <2>4, <2>5
<1> QED
  BY <1>1, <1>2, <1>3, <1>4, <1>5, <1>6

(* The tokens of the last i messages. *)
EndSum(row, i) == SumOver(SubSeq(row, Len(row) - i + 1, Len(row)))

LEMMA EndSums ==
  ASSUME NEW row \in Seq(Nat)
  PROVE  /\ EndSum(row, 0) = 0
         /\ \A i \in 0..Len(row) : EndSum(row, i) \in Nat
         /\ \A i \in 0..(Len(row) - 1) : EndSum(row, i + 1) = row[Len(row) - i] + EndSum(row, i)
<1> DEFINE n == Len(row)
           E(i) == SubSeq(row, n - i + 1, n)
<1>1. n \in Nat /\ \A i \in 1..n : row[i] \in Nat
  OBVIOUS
<1>2. ASSUME NEW i \in 0..n
      PROVE  Len(E(i)) = i /\ \A j \in 1..i : E(i)[j] = row[n - i + j] /\ E(i)[j] \in Nat
  BY <1>1
<1>3. ASSUME NEW i \in 0..n
      PROVE  \E f : Amounts(f, E(i), i) /\ EndSum(row, i) = f[i]
  <2>1. i \in Nat /\ \A j \in 1..i : E(i)[j] \in Nat
    BY <1>1, <1>2
  <2>2. Len(E(i)) = i
    BY <1>2
  <2>3. EndSum(row, i) = SumOver(E(i))
    BY DEF EndSum
  <2> HIDE DEF E
  <2> QED
    BY <2>1, <2>2, <2>3, SumIs
<1> HIDE DEF E
<1>4. ASSUME NEW i \in 0..n PROVE EndSum(row, i) \in Nat
  BY <1>1, <1>3, SMTT(60) DEF Amounts
<1>5. EndSum(row, 0) = 0
  <2>1. PICK f : Amounts(f, E(0), 0) /\ EndSum(row, 0) = f[0]
    BY <1>1, <1>3
  <2> QED
    BY <2>1 DEF Amounts
<1>6. ASSUME NEW i \in 0..(n - 1) PROVE EndSum(row, i + 1) = row[n - i] + EndSum(row, i)
  <2>1. i \in 0..n /\ i + 1 \in 0..n /\ i \in Nat
    BY <1>1
  <2>2. PICK f : Amounts(f, E(i), i) /\ EndSum(row, i) = f[i]
    BY <1>3, <2>1
  <2>3. PICK g : Amounts(g, E(i + 1), i + 1) /\ EndSum(row, i + 1) = g[i + 1]
    BY <1>3, <2>1
  <2>4. E(i + 1)[1] = row[n - i] /\ E(i + 1)[1] \in Nat
    <3>1. 1 \in 1..(i + 1) /\ n - (i + 1) + 1 = n - i
      BY <1>1, <2>1
    <3> QED
      BY <1>2, <2>1, <3>1
  <2>5. \A j \in 1..i : E(i)[j] \in Nat /\ E(i + 1)[j + 1] = E(i)[j]
    <3> TAKE j \in 1..i
    <3>1. j + 1 \in 1..(i + 1) /\ n - (i + 1) + (j + 1) = n - i + j
      BY <1>1, <2>1
    <3> QED
      BY <1>2, <2>1, <3>1
  <2>6. g[i + 1] = E(i + 1)[1] + f[i]
    <3> DEFINE s == E(i)
               t == E(i + 1)
    <3>1. Amounts(f, s, i) /\ Amounts(g, t, i + 1) /\ t[1] \in Nat /\ \A j \in 1..i : s[j] \in Nat /\ t[j + 1] = s[j]
      BY <2>2, <2>3, <2>4, <2>5
    <3> HIDE DEF s, t
    <3>2. g[i + 1] = t[1] + f[i]
      BY ONLY <2>1, <3>1, AmountsFront, SMTT(60)
    <3> QED
      BY <3>2 DEF t
  <2> QED
    BY <2>2, <2>3, <2>4, <2>6
<1> QED
  BY <1>4, <1>5, <1>6

(* pickHistory takes the longest end of the messages that the budget holds. *)
EndTaken(row, t, i) ==
  /\ t.count <= i /\ t.used = EndSum(row, t.count) /\ t.used <= HistoryBudget
  /\ t.more => t.count = i
  /\ ~t.more => t.count < i /\ EndSum(row, t.count + 1) > HistoryBudget

LEMMA HistoryIs ==
  ASSUME NEW row \in Seq(Nat), HistoryBudget \in Nat
  PROVE  \E c \in 0..Len(row) :
           /\ PickHistory(row) = SubSeq(row, Len(row) - c + 1, Len(row))
           /\ EndSum(row, c) <= HistoryBudget
           /\ c < Len(row) => EndSum(row, c + 1) > HistoryBudget
<1> DEFINE n == Len(row)
           S == [used : Nat, count : 0..n, more : BOOLEAN]
           a == [used |-> 0, count |-> 0, more |-> TRUE]
           Step(t, i) == LET tokens == row[n - i + 1]
                         IN  IF t.more /\ t.used + tokens <= HistoryBudget
                             THEN [used |-> t.used + tokens, count |-> i, more |-> TRUE]
                             ELSE [t EXCEPT !.more = FALSE]
           G == [x \in S \X (1..n) |-> Step(x[1], x[2])]
           Body(f) == [i \in 0..n |-> IF i = 0 THEN a ELSE Step(f[i - 1], i)]
           taken == CHOOSE f : f = Body(f)
<1>0. n \in Nat /\ \A i \in 1..n : row[n - i + 1] \in Nat
  <2>1. \A i \in 1..n : n - i + 1 \in 1..n
    OBVIOUS
  <2> QED
    BY <2>1
<1>1. PickHistory(row) = SubSeq(row, n - taken[n].count + 1, n)
  BY DEF PickHistory
<1> HIDE DEF n
<1>2. ASSUME NEW t \in S, NEW i \in 1..n PROVE Step(t, i) \in S
  <2>1. row[n - i + 1] \in Nat /\ t.used \in Nat /\ t.count \in 0..n
    BY <1>0
  <2>2. CASE t.more /\ t.used + row[n - i + 1] <= HistoryBudget
    <3>1. Step(t, i) = [used |-> t.used + row[n - i + 1], count |-> i, more |-> TRUE]
      BY <2>2
    <3> QED
      BY <1>0, <2>1, <3>1, SMTT(60)
  <2>3. CASE ~(t.more /\ t.used + row[n - i + 1] <= HistoryBudget)
    <3>1. Step(t, i) = [t EXCEPT !.more = FALSE]
      BY <2>3
    <3> QED
      BY <3>1
  <2> QED
    BY <2>2, <2>3
<1>3. a \in S
  BY <1>0
<1>4. ASSUME NEW t \in S, NEW i \in 0..n, i + 1 <= n, EndTaken(row, t, i) PROVE EndTaken(row, Step(t, i + 1), i + 1)
  <2> DEFINE tokens == row[n - (i + 1) + 1]
  <2>1. tokens \in Nat /\ i + 1 \in 1..n /\ tokens = row[n - i]
    <3>1. i + 1 \in 1..n /\ n - (i + 1) + 1 = n - i
      BY <1>0, <1>4
    <3> QED
      BY <1>0, <3>1
  <2>2. t.used \in Nat /\ t.count \in 0..n /\ t.more \in BOOLEAN
    OBVIOUS
  <2>3. CASE t.more
    <3>1. t.count = i /\ t.used = EndSum(row, i)
      BY <1>4, <2>3 DEF EndTaken
    <3>2. i \in 0..(n - 1)
      BY <1>0, <1>4
    <3>3. EndSum(row, i + 1) = tokens + t.used
      BY <2>1, <3>1, <3>2, EndSums DEF n
    <3>4. CASE t.used + tokens <= HistoryBudget
      <4>1. Step(t, i + 1) = [used |-> t.used + tokens, count |-> i + 1, more |-> TRUE]
        BY <2>3, <3>4
      <4> QED
        BY <2>1, <2>2, <3>3, <3>4, <4>1, SMTT(60) DEF EndTaken
    <3>5. CASE ~(t.used + tokens <= HistoryBudget)
      <4>1. Step(t, i + 1) = [t EXCEPT !.more = FALSE]
        BY <3>5
      <4>2. Step(t, i + 1) = [used |-> t.used, count |-> t.count, more |-> FALSE]
        BY <4>1
      <4> HIDE DEF Step
      <4> QED
        BY <1>4, <2>1, <2>2, <3>1, <3>3, <3>5, <4>2, SMTT(60) DEF EndTaken
    <3> QED
      BY <3>4, <3>5
  <2>4. CASE ~t.more
    <3>1. Step(t, i + 1) = [t EXCEPT !.more = FALSE]
      BY <2>4
    <3>2. Step(t, i + 1) = [used |-> t.used, count |-> t.count, more |-> FALSE]
      BY <3>1
    <3> HIDE DEF Step
    <3>3. t.count < i /\ EndSum(row, t.count + 1) > HistoryBudget /\ t.used = EndSum(row, t.count) /\ t.used <= HistoryBudget
      BY <1>4, <2>4 DEF EndTaken
    <3> QED
      BY <2>2, <3>2, <3>3 DEF EndTaken
  <2> QED
    BY <2>2, <2>3, <2>4
<1> HIDE DEF Step
<1>5. Makes(G, S, a, n) /\ \A t \in S, i \in 1..n : G[<<t, i>>] = Step(t, i)
  BY <1>0, <1>2, <1>3 DEF Makes
<1> HIDE DEF G, a, S
<1>6. PICK f : Made(f, G, S, a, n)
  BY <1>5, Recursion
<1>7. f = Body(f)
  <2>1. f = [i \in 0..n |-> f[i]] /\ f[0] = a /\ \A i \in 1..n : i - 1 \in 0..n /\ f[i - 1] \in S
    BY <1>0, <1>6 DEF Made
  <2>2. \A i \in 1..n : f[i] = G[<<f[i - 1], i>>]
    BY <1>6 DEF Made
  <2>3. ASSUME NEW i \in 0..n PROVE f[i] = IF i = 0 THEN a ELSE Step(f[i - 1], i)
    <3>1. CASE i = 0
      BY <2>1, <3>1
    <3>2. CASE i # 0
      <4>1. i \in 1..n
        BY <1>0, <3>2
      <4>2. f[i - 1] \in S /\ f[i] = G[<<f[i - 1], i>>]
        BY <2>1, <2>2, <4>1
      <4>3. f[i] = Step(f[i - 1], i)
        BY <1>5, <4>1, <4>2
      <4> QED
        BY <3>2, <4>3
    <3> QED
      BY <3>1, <3>2
  <2> QED
    BY <2>1, <2>3
<1> HIDE DEF Body
<1>8. taken = Body(taken)
  BY <1>7
<1> HIDE DEF taken
<1>9. taken = [i \in 0..n |-> taken[i]] /\ taken[0] = a /\ \A i \in 1..n : taken[i] = Step(taken[i - 1], i)
  <2>1. taken = [i \in 0..n |-> IF i = 0 THEN a ELSE Step(taken[i - 1], i)]
    BY ONLY <1>8 DEF Body
  <2>2. taken = [i \in 0..n |-> taken[i]]
    BY ONLY <2>1
  <2>3. \A i \in 0..n : taken[i] = IF i = 0 THEN a ELSE Step(taken[i - 1], i)
    BY ONLY <2>1
  <2>4. taken[0] = a
    BY <1>0, <2>3
  <2>5. ASSUME NEW i \in 1..n PROVE taken[i] = Step(taken[i - 1], i)
    <3>1. i \in 0..n /\ i # 0
      BY <1>0
    <3> QED
      BY <2>3, <3>1
  <2> QED
    BY <2>2, <2>4, <2>5
<1>10. Made(taken, G, S, a, n)
  <2>1. \A i \in 1..n : taken[i - 1] \in S => taken[i] = G[<<taken[i - 1], i>>]
    BY <1>5, <1>9
  <2> QED
    BY ONLY <1>5, <1>9, <2>1, RowStays
<1>11. taken \in [0..n -> S]
  BY <1>10 DEF Made
<1> DEFINE Good == {m \in Nat : m <= n => EndTaken(row, taken[m], m)}
<1>12. 0 \in Good
  <2>1. EndTaken(row, a, 0)
    BY EndSums DEF EndTaken, a
  <2> QED
    BY <1>9, <2>1
<1>13. ASSUME NEW m \in Nat, m \in Good PROVE m + 1 \in Good
  <2> SUFFICES ASSUME m + 1 <= n PROVE EndTaken(row, taken[m + 1], m + 1)
    OBVIOUS
  <2>1. m \in 0..n /\ m + 1 \in 1..n /\ (m + 1) - 1 = m
    BY <1>0
  <2>2. taken[m] \in S /\ EndTaken(row, taken[m], m) /\ taken[m + 1] = Step(taken[m], m + 1)
    <3>1. taken[m + 1] = Step(taken[(m + 1) - 1], m + 1)
      BY <1>9, <2>1
    <3>2. taken[m] \in S
      BY <1>11, <2>1
    <3>3. EndTaken(row, taken[m], m)
      BY <1>13, <2>1
    <3> QED
      BY <2>1, <3>1, <3>2, <3>3
  <2> QED
    BY <1>4, <2>1, <2>2
<1>14. Nat \subseteq Good
  <2> HIDE DEF Good
  <2> QED
    BY <1>12, <1>13, SetInduction
<1>15. EndTaken(row, taken[n], n)
  BY <1>0, <1>14
<1>16. taken[n].count \in 0..n /\ taken[n].more \in BOOLEAN
  <2>1. taken[n] \in S
    BY <1>0, <1>11
  <2> QED
    BY <2>1 DEF S
<1> DEFINE c == taken[n].count
<1>17. c \in 0..n /\ EndSum(row, c) <= HistoryBudget
  BY <1>15, <1>16 DEF EndTaken
<1>18. c < n => EndSum(row, c + 1) > HistoryBudget
  BY <1>0, <1>15, <1>16 DEF EndTaken
<1> QED
  BY <1>1, <1>17, <1>18 DEF n

Words(val, n) == Seq({val[i] : i \in 1..n})

(* A row of texts, each the one before it with the next value, unless that is dropped. *)
Reads(f, n, drop, val) ==
  /\ f \in [0..n -> Words(val, n)] /\ f[0] = <<>>
  /\ \A i \in 1..n : f[i] = IF i \in drop THEN f[i - 1] ELSE Append(f[i - 1], val[i])

ReadStep(G, n, drop, val) ==
  /\ Makes(G, Words(val, n), <<>>, n)
  /\ \A t \in Words(val, n), i \in 1..n : G[<<t, i>>] = IF i \in drop THEN t ELSE Append(t, val[i])

LEMMA ReadsMake ==
  ASSUME NEW n \in Nat, NEW drop, NEW val
  PROVE  \E G : ReadStep(G, n, drop, val)
<1> DEFINE S == Words(val, n)
           Step(t, i) == IF i \in drop THEN t ELSE Append(t, val[i])
           G == [x \in S \X (1..n) |-> Step(x[1], x[2])]
<1>1. ASSUME NEW t \in S, NEW i \in 1..n PROVE Step(t, i) \in S
  <2>1. val[i] \in {val[j] : j \in 1..n}
    OBVIOUS
  <2> HIDE DEF S
  <2>2. Append(t, val[i]) \in S
    BY <2>1, AppendProperties DEF S, Words
  <2> QED
    BY <2>2
<1>2. <<>> \in S
  BY DEF Words
<1> HIDE DEF Step, S
<1>3. Makes(G, S, <<>>, n) /\ \A t \in S, i \in 1..n : G[<<t, i>>] = Step(t, i)
  BY <1>1, <1>2 DEF Makes
<1>4. ReadStep(G, n, drop, val)
  BY <1>3 DEF Step, S, ReadStep
<1> QED
  BY <1>4

ReadRow(f, n, drop, val) ==
  [i \in 0..n |-> IF i = 0 THEN <<>> ELSE IF i \in drop THEN f[i - 1] ELSE Append(f[i - 1], val[i])]

LEMMA ReadsExist ==
  ASSUME NEW n \in Nat, NEW drop, NEW val
  PROVE  \E f : Reads(f, n, drop, val) /\ f = ReadRow(f, n, drop, val)
<1> DEFINE S == Words(val, n)
<1>0. PICK G : ReadStep(G, n, drop, val)
  BY ReadsMake
<1>1. /\ Makes(G, S, <<>>, n)
      /\ \A t \in S, i \in 1..n : G[<<t, i>>] = IF i \in drop THEN t ELSE Append(t, val[i])
  BY <1>0 DEF ReadStep
<1> HIDE DEF S
<1>2. PICK f : Made(f, G, S, <<>>, n)
  BY <1>1, Recursion
<1>3. f \in [0..n -> S] /\ f[0] = <<>> /\ \A i \in 1..n : f[i - 1] \in S /\ f[i] = G[<<f[i - 1], i>>]
  BY <1>2 DEF Made
<1>4. \A i \in 1..n : f[i] = IF i \in drop THEN f[i - 1] ELSE Append(f[i - 1], val[i])
  BY <1>1, <1>3
<1>5. \A i \in 0..n : f[i] = IF i = 0 THEN <<>> ELSE IF i \in drop THEN f[i - 1] ELSE Append(f[i - 1], val[i])
  <2> TAKE i \in 0..n
  <2>1. CASE i = 0
    BY <1>3, <2>1
  <2>2. CASE i # 0
    <3>1. i \in 1..n
      BY <2>2
    <3> QED
      BY <1>4, <2>2, <3>1
  <2> QED
    BY <2>1, <2>2
<1>6. f = [i \in 0..n |-> f[i]]
  BY <1>3
<1>7. f = ReadRow(f, n, drop, val)
  BY <1>5, <1>6 DEF ReadRow
<1>8. Reads(f, n, drop, val)
  BY <1>3, <1>4 DEF Reads, S
<1> QED
  BY <1>7, <1>8

LEMMA ReadsAre ==
  ASSUME NEW n \in Nat, NEW drop, NEW val, NEW f,
         f = ReadRow(f, n, drop, val)
  PROVE  Reads(f, n, drop, val)
<1> DEFINE S == Words(val, n)
<1>0. PICK G : ReadStep(G, n, drop, val)
  BY ReadsMake
<1>1. /\ Makes(G, S, <<>>, n)
      /\ \A t \in S, i \in 1..n : G[<<t, i>>] = IF i \in drop THEN t ELSE Append(t, val[i])
  BY <1>0 DEF ReadStep
<1> HIDE DEF S
<1>2. f = [i \in 0..n |-> f[i]] /\ f[0] = <<>>
  BY DEF ReadRow
<1>3. ASSUME NEW i \in 1..n PROVE f[i] = IF i \in drop THEN f[i - 1] ELSE Append(f[i - 1], val[i])
  <2>1. i \in 0..n /\ i # 0
    OBVIOUS
  <2> QED
    BY <2>1 DEF ReadRow
<1>4. \A i \in 1..n : f[i - 1] \in S => f[i] = G[<<f[i - 1], i>>]
  BY <1>1, <1>3
<1>5. Made(f, G, S, <<>>, n)
  BY ONLY <1>1, <1>2, <1>4, RowStays
<1> QED
  BY <1>3, <1>5 DEF Made, Reads, S

(* What is read of a part stands where it stands in what is read of the whole. *)
GluedAt(f, g, k, j) == f[k + j] = f[k] \o g[j]

Part(f, n, d, v, g, m, e, w, k) ==
  /\ n \in Nat /\ m \in Nat /\ k \in Nat /\ k + m <= n
  /\ Reads(f, n, d, v) /\ Reads(g, m, e, w)
  /\ \A i \in 1..m : (i \in e <=> k + i \in d) /\ w[i] = v[k + i]

Glued(f, n, v, g, m, k) ==
  f[k] \in Words(v, n) /\ g[m] \in Words(v, n) /\ f[k + m] = f[k] \o g[m]

LEMMA ReadsJoin ==
  ASSUME NEW f, NEW n, NEW d, NEW v, NEW g, NEW m, NEW e, NEW w, NEW k, Part(f, n, d, v, g, m, e, w, k)
  PROVE  Glued(f, n, v, g, m, k)
<1> USE DEF Part
<1>0. \A j \in 0..m : g[j] \in Words(v, n)
  <2>1. {w[i] : i \in 1..m} \subseteq {v[i] : i \in 1..n}
    <3>1. \A i \in 1..m : k + i \in 1..n /\ w[i] = v[k + i]
      OBVIOUS
    <3> QED
      BY <3>1
  <2> DEFINE W == {w[i] : i \in 1..m}
             V == {v[i] : i \in 1..n}
  <2>2. \A j \in 0..m : g[j] \in Seq(W)
    BY DEF Reads, Words
  <2>3. W \subseteq V
    BY <2>1
  <2> HIDE DEF W, V
  <2>4. \A j \in 0..m : g[j] \in Seq(V)
    BY <2>2, <2>3, SeqMonotonic
  <2> QED
    BY <2>4 DEF Words, V
<1>1. \A i \in 0..n : f[i] \in Words(v, n)
  BY DEF Reads
<1> DEFINE Good == {j \in Nat : j <= m => GluedAt(f, g, k, j)}
<1>2. 0 \in Good
  <2>1. g[0] = <<>> /\ k + 0 = k /\ f[k] \in Words(v, n)
    BY <1>1 DEF Reads
  <2>2. f[k] \o <<>> = f[k]
    BY <2>1, ConcatEmptySeq DEF Words
  <2> QED
    BY <2>1, <2>2 DEF GluedAt
<1>3. ASSUME NEW j \in Nat, j \in Good PROVE j + 1 \in Good
  <2> SUFFICES ASSUME j + 1 <= m PROVE GluedAt(f, g, k, j + 1)
    OBVIOUS
  <2>1. j + 1 \in 1..m /\ k + (j + 1) \in 1..n /\ (k + (j + 1)) - 1 = k + j /\ (j + 1) - 1 = j
    OBVIOUS
  <2>2. f[k + (j + 1)] = IF k + (j + 1) \in d THEN f[k + j] ELSE Append(f[k + j], v[k + (j + 1)])
    BY <2>1 DEF Reads
  <2>3. g[j + 1] = IF j + 1 \in e THEN g[j] ELSE Append(g[j], w[j + 1])
    BY <2>1 DEF Reads
  <2>4. f[k + j] = f[k] \o g[j]
    <3>1. GluedAt(f, g, k, j)
      BY <1>3
    <3> QED
      BY ONLY <3>1 DEF GluedAt
  <2>5. (j + 1 \in e <=> k + (j + 1) \in d) /\ w[j + 1] = v[k + (j + 1)]
    BY <2>1
  <2>6. Append(f[k] \o g[j], v[k + (j + 1)]) = f[k] \o Append(g[j], v[k + (j + 1)])
    <3> DEFINE V == {v[i] : i \in 1..n}
               x == v[k + (j + 1)]
               a == f[k]
               b == g[j]
    <3>1. x \in V
      BY <2>1
    <3>2. a \in Seq(V) /\ b \in Seq(V)
      <4>1. k \in 0..n /\ j \in 0..m
        OBVIOUS
      <4> QED
        BY <1>0, <1>1, <4>1 DEF Words
    <3> HIDE DEF V, x, a, b
    <3>3. a \o b \in Seq(V) /\ <<x>> \in Seq(V)
      BY <3>1, <3>2, ConcatProperties
    <3>4. Append(a \o b, x) = (a \o b) \o <<x>> /\ Append(b, x) = b \o <<x>>
      BY <3>1, <3>2, <3>3, AppendIsConcat
    <3>5. (a \o b) \o <<x>> = a \o (b \o <<x>>)
      BY <3>2, <3>3, ConcatAssociative, SMTT(60)
    <3> QED
      BY <3>4, <3>5 DEF x, a, b
  <2> QED
    BY <2>2, <2>3, <2>4, <2>5, <2>6 DEF GluedAt
<1>4. Nat \subseteq Good
  <2> HIDE DEF Good
  <2> QED
    BY <1>2, <1>3, SetInduction
<1>5. GluedAt(f, g, k, m)
  BY <1>4
<1>6. k \in 0..n /\ m \in 0..m
  OBVIOUS
<1>7. f[k] \in Words(v, n) /\ g[m] \in Words(v, n)
  BY <1>0, <1>1, <1>6
<1> QED
  BY <1>5, <1>7 DEF GluedAt, Glued

(* normalize reads a text from the first character to the last. *)
Dropped(text) == {i \in 1..Len(text) : text[i] \in Blanks}
Read(text) == [i \in 1..Len(text) |-> Folded[text[i]]]

LEMMA NormalizeReads ==
  ASSUME NEW text, Len(text) \in Nat
  PROVE  \E f : Reads(f, Len(text), Dropped(text), Read(text)) /\ Normalize(text) = f[Len(text)]
<1> DEFINE n == Len(text)
           d == Dropped(text)
           v == Read(text)
           Body(f) == [i \in 0..n |-> IF i = 0 THEN <<>>
                                      ELSE IF text[i] \in Blanks THEN f[i - 1] ELSE Append(f[i - 1], Folded[text[i]])]
           read == CHOOSE f : f = Body(f)
<1>1. Normalize(text) = read[n]
  BY DEF Normalize
<1>2. \A f : Body(f) = ReadRow(f, n, d, v)
  <2> TAKE f
  <2>1. \A i \in 1..n : (text[i] \in Blanks <=> i \in d) /\ Folded[text[i]] = v[i]
    BY DEF Dropped, Read
  <2> HIDE DEF d, v
  <2>2. \A i \in 0..n : (IF i = 0 THEN <<>> ELSE IF text[i] \in Blanks THEN f[i - 1] ELSE Append(f[i - 1], Folded[text[i]]))
                       = (IF i = 0 THEN <<>> ELSE IF i \in d THEN f[i - 1] ELSE Append(f[i - 1], v[i]))
    BY <2>1
  <2> QED
    BY <2>2 DEF ReadRow
<1> HIDE DEF Body
<1> HIDE DEF d, v
<1>3. PICK f : f = ReadRow(f, n, d, v)
  <2>1. n \in Nat
    OBVIOUS
  <2> QED
    BY <2>1, ReadsExist
<1>4. f = Body(f)
  BY <1>2, <1>3
<1>5. read = Body(read)
  BY <1>4
<1> HIDE DEF read
<1>6. read = ReadRow(read, n, d, v)
  BY <1>2, <1>5
<1>7. Reads(read, n, d, v)
  BY <1>6, ReadsAre
<1> QED
  BY <1>1, <1>7 DEF d, v

LEMMA NormalizeIsText ==
  ASSUME NEW text, Len(text) \in Nat
  PROVE  \E C : Normalize(text) \in Seq(C)
<1>1. PICK f : Reads(f, Len(text), Dropped(text), Read(text)) /\ Normalize(text) = f[Len(text)]
  BY NormalizeReads
<1>2. f[Len(text)] \in Words(Read(text), Len(text))
  BY <1>1 DEF Reads
<1> QED
  BY <1>1, <1>2 DEF Words

(* What is in the text is, normalized, in the normalized text. *)
LEMMA NormalizePart ==
  ASSUME NEW C, NEW text \in Seq(C), NEW q \in Seq(C), Includes(text, q)
  PROVE  Includes(Normalize(text), Normalize(q))
<1> DEFINE n == Len(text)
           m == Len(q)
<1>1. PICK k \in 0..n : k + m <= n /\ SubSeq(text, k + 1, k + m) = q
  BY DEF Includes
<1> DEFINE r == n - (k + m)
           z == SubSeq(text, k + m + 1, n)
<1>2. n \in Nat /\ m \in Nat /\ k \in Nat /\ r \in Nat /\ k + m \in Nat /\ (k + m) + r = n /\ k + m \in 0..n
  BY <1>1
<1>3. \A i \in 1..m : q[i] = text[k + i] /\ k + i \in 1..n
  BY <1>1, <1>2
<1>4. Len(z) = r /\ \A i \in 1..r : z[i] = text[(k + m) + i] /\ (k + m) + i \in 1..n
  BY <1>2
<1> HIDE DEF z
<1>5. PICK f : Reads(f, n, Dropped(text), Read(text)) /\ Normalize(text) = f[n]
  BY NormalizeReads
<1>6. PICK g : Reads(g, m, Dropped(q), Read(q)) /\ Normalize(q) = g[m]
  BY NormalizeReads
<1>7. PICK h : Reads(h, r, Dropped(z), Read(z)) /\ Normalize(z) = h[r]
  BY <1>2, <1>4, NormalizeReads
<1>8. \A i \in 1..m : (i \in Dropped(q) <=> k + i \in Dropped(text)) /\ Read(q)[i] = Read(text)[k + i]
  BY <1>3 DEF Dropped, Read
<1>9. \A i \in 1..r : (i \in Dropped(z) <=> (k + m) + i \in Dropped(text)) /\ Read(z)[i] = Read(text)[(k + m) + i]
  BY <1>4 DEF Dropped, Read
<1> DEFINE d == Dropped(text)
           v == Read(text)
           W == Words(v, n)
<1>10. f[k] \in W /\ g[m] \in W /\ f[k + m] = f[k] \o g[m]
  <2> DEFINE e == Dropped(q)
             w == Read(q)
  <2>1. Part(f, n, d, v, g, m, e, w, k)
    BY <1>1, <1>2, <1>5, <1>6, <1>8 DEF Part
  <2> HIDE DEF n, m, d, v, e, w
  <2>2. Glued(f, n, v, g, m, k)
    BY ONLY <2>1, ReadsJoin
  <2> QED
    BY ONLY <2>2 DEF Glued
<1>11. h[r] \in W /\ f[(k + m) + r] = f[k + m] \o h[r]
  <2> DEFINE e == Dropped(z)
             w == Read(z)
             l == k + m
  <2>1. Part(f, n, d, v, h, r, e, w, l)
    BY <1>2, <1>5, <1>7, <1>9 DEF Part
  <2> HIDE DEF n, r, d, v, e, w, l
  <2>2. Glued(f, n, v, h, r, l)
    BY ONLY <2>1, ReadsJoin
  <2>3. h[r] \in W /\ f[l + r] = f[l] \o h[r]
    BY ONLY <2>2 DEF Glued
  <2> QED
    BY <2>3 DEF l
<1> DEFINE a == f[k]
           b == g[m]
           c == h[r]
           s == (a \o b) \o c
<1>12. Normalize(text) = s /\ Normalize(q) = b
  BY <1>2, <1>5, <1>6, <1>10, <1>11
<1>13. PICK X : a \in Seq(X) /\ b \in Seq(X) /\ c \in Seq(X)
  BY <1>10, <1>11 DEF Words
<1> HIDE DEF a, b, c
<1>14. Includes(s, b)
  <2>1. /\ Len(a) \in Nat /\ Len(b) \in Nat /\ Len(c) \in Nat
        /\ a \o b \in Seq(X) /\ Len(a \o b) = Len(a) + Len(b)
    BY <1>13, ConcatProperties, LenProperties
  <2>2. s \in Seq(X) /\ Len(s) = Len(a) + Len(b) + Len(c)
    BY <1>13, <2>1, ConcatProperties
  <2>3. \A i \in 1..Len(b) : s[Len(a) + i] = b[i]
    <3> TAKE i \in 1..Len(b)
    <3>1. Len(a) + i \in 1..(Len(a) + Len(b)) /\ ~(Len(a) + i <= Len(a)) /\ (Len(a) + i) - Len(a) = i
      BY <2>1
    <3>2. (a \o b)[Len(a) + i] = b[i]
      BY <1>13, <2>1, <3>1, ConcatProperties
    <3>3. Len(a) + i \in 1..(Len(a \o b) + Len(c)) /\ Len(a) + i <= Len(a \o b)
      BY <2>1
    <3>4. s[Len(a) + i] = (a \o b)[Len(a) + i]
      BY <1>13, <2>1, <3>3, ConcatProperties
    <3> QED
      BY <3>2, <3>4
  <2> HIDE DEF s
  <2> DEFINE u == SubSeq(s, Len(a) + 1, Len(a) + Len(b))
  <2>4. \A i \in (Len(a) + 1)..(Len(a) + Len(b)) : s[i] \in X
    <3> TAKE i \in (Len(a) + 1)..(Len(a) + Len(b))
    <3>1. i \in 1..Len(s)
      BY <2>1, <2>2
    <3> QED
      BY <2>2, <3>1, ElementOfSeq
  <2>5. u \in Seq(X) /\ Len(u) = Len(b) /\ \A i \in 1..Len(b) : u[i] = s[(Len(a) + 1) + i - 1]
    <3> DEFINE lo == Len(a) + 1
               hi == Len(a) + Len(b)
    <3>1. lo \in Int /\ hi \in Int /\ \A i \in lo..hi : s[i] \in X
      BY <2>1, <2>4
    <3>2. hi - lo + 1 = Len(b) /\ (lo <= hi <=> Len(b) # 0)
      BY <2>1
    <3> HIDE DEF lo, hi
    <3>3. /\ SubSeq(s, lo, hi) \in Seq(X) /\ Len(SubSeq(s, lo, hi)) = (IF lo <= hi THEN hi - lo + 1 ELSE 0)
          /\ \A i \in 1..(hi - lo + 1) : SubSeq(s, lo, hi)[i] = s[lo + i - 1]
      BY ONLY <3>1, SubSeqProperties
    <3> QED
      BY <3>2, <3>3 DEF lo, hi
  <2>6. \A i \in 1..Len(u) : u[i] = b[i]
    <3> TAKE i \in 1..Len(u)
    <3>1. i \in 1..Len(b) /\ (Len(a) + 1) + i - 1 = Len(a) + i
      BY <2>1, <2>5
    <3> QED
      BY <2>3, <2>5, <3>1
  <2> HIDE DEF u
  <2>7. u = b
    BY <1>13, <2>5, <2>6, SeqEqual, SMTT(60)
  <2>8. Len(a) \in 0..Len(s) /\ Len(a) + Len(b) <= Len(s)
    BY <2>1, <2>2
  <2> QED
    BY <2>7, <2>8 DEF Includes, u
<1> QED
  BY <1>12, <1>14

(* A quotation copied from the text is accepted, and an accepted one that is  *)
(* short has no pair of characters that the text has not.                     *)
LEMMA QuoteChecked ==
  ASSUME NEW C, NEW text \in Seq(C), NEW quote \in Seq(C)
  PROVE  /\ Includes(text, quote) /\ Normalize(quote) # <<>> => QuoteMatches(quote, text)
         /\ QuoteMatches(quote, text) /\ Len(Normalize(quote)) < 6
              => Pairs(Normalize(quote)) \subseteq Pairs(Normalize(text))
<1> DEFINE q == Normalize(quote)
           s == Normalize(text)
           ok == {i \in 1..(Len(q) - 1) : <<q[i], q[i + 1]>> \in Pairs(s)}
<1>7. PICK X : q \in Seq(X)
  BY NormalizeIsText
<1>8. PICK Y : s \in Seq(Y)
  BY NormalizeIsText
<1>1. Len(q) \in Nat /\ Len(s) \in Nat
  BY <1>7, <1>8
<1>2. QuoteMatches(quote, text) <=>
        q # <<>> /\ (Includes(s, q) \/ (Len(q) >= 2 /\ 10 * Cardinality(ok) >= 8 * (Len(q) - 1)))
  BY DEF QuoteMatches
<1>3. Includes(text, quote) /\ q # <<>> => QuoteMatches(quote, text)
  BY <1>2, NormalizePart
<1> HIDE DEF q, s
<1>4. ASSUME Includes(s, q) PROVE Pairs(q) \subseteq Pairs(s)
  <2>1. PICK k \in 0..Len(s) : k + Len(q) <= Len(s) /\ SubSeq(s, k + 1, k + Len(q)) = q
    BY <1>4 DEF Includes
  <2>2. \A i \in 1..Len(q) : q[i] = s[k + i]
    BY <1>1, <1>8, <2>1
  <2> SUFFICES ASSUME NEW i \in 1..(Len(q) - 1) PROVE <<q[i], q[i + 1]>> \in Pairs(s)
    BY DEF Pairs
  <2>3. i \in 1..Len(q) /\ i + 1 \in 1..Len(q) /\ k + i \in 1..(Len(s) - 1) /\ k + (i + 1) = (k + i) + 1
    BY <1>1, <2>1
  <2>4. q[i] = s[k + i] /\ q[i + 1] = s[(k + i) + 1]
    BY <2>2, <2>3
  <2> QED
    BY <2>3, <2>4 DEF Pairs
<1>5. ASSUME Len(q) >= 2, 10 * Cardinality(ok) >= 8 * (Len(q) - 1), Len(q) < 6, NEW i \in 1..(Len(q) - 1)
      PROVE  <<q[i], q[i + 1]>> \in Pairs(s)
  <2> SUFFICES ASSUME i \notin ok PROVE FALSE
    OBVIOUS
  <2> DEFINE all == 1..(Len(q) - 1)
  <2>1. IsFiniteSet(all) /\ Cardinality(all) = Len(q) - 1
    <3>1. 1 \in Int /\ Len(q) - 1 \in Int /\ ~(1 > Len(q) - 1) /\ (Len(q) - 1) - 1 + 1 = Len(q) - 1
      BY <1>1, <1>5
    <3>2. IsFiniteSet(all) /\ Cardinality(all) = IF 1 > Len(q) - 1 THEN 0 ELSE (Len(q) - 1) - 1 + 1
      BY <3>1, FS_Interval
    <3> QED
      BY <3>1, <3>2
  <2>2. IsFiniteSet(all \ {i}) /\ Cardinality(all \ {i}) = Len(q) - 2
    <3>1. IsFiniteSet(all \ {i}) /\ Cardinality(all \ {i}) = Cardinality(all) - 1
      BY <2>1, FS_RemoveElement
    <3> QED
      BY <1>1, <2>1, <3>1
  <2>3. ok \in SUBSET (all \ {i})
    OBVIOUS
  <2> HIDE DEF ok, all
  <2>4. Cardinality(ok) <= Len(q) - 2 /\ Cardinality(ok) \in Nat
    BY <2>2, <2>3, FS_Subset, FS_CardinalityType
  <2> DEFINE h == Cardinality(ok)
             l == Len(q)
  <2>5. h \in Nat /\ l \in Nat /\ h <= l - 2 /\ 10 * h >= 8 * (l - 1) /\ l < 6
    BY <1>1, <1>5, <2>4
  <2> HIDE DEF h, l
  <2> QED
    BY ONLY <2>5
<1>6. ASSUME QuoteMatches(quote, text), Len(q) < 6 PROVE Pairs(q) \subseteq Pairs(s)
  <2>1. CASE Includes(s, q)
    BY <1>4, <2>1
  <2>2. CASE Len(q) >= 2 /\ 10 * Cardinality(ok) >= 8 * (Len(q) - 1)
    <3>1. \A i \in 1..(Len(q) - 1) : <<q[i], q[i + 1]>> \in Pairs(s)
      BY <1>5, <1>6, <2>2
    <3> QED
      BY <3>1 DEF Pairs
  <2> QED
    BY <1>2, <1>6, <2>1, <2>2
<1> QED
  BY <1>3, <1>6 DEF q, s

-----------------------------------------------------------------------------
\* Grounding

Hits == Picked(Passages, ranking, similar)

GroundInv ==
  /\ Len(ranking) \in Nat /\ ranking \in [1..Len(ranking) -> DOMAIN Passages]
  /\ similar \in 0..Len(ranking)
  /\ sources = InOrder(Hits)
  /\ before \in Seq(Nat) /\ history = PickHistory(before)
  /\ groundAt = "retrieve" => citation = NoCitation
  /\ \/ citation = NoCitation
     \/ /\ citation.quote \in Quotes
        /\ citation.accepted = Accepted(Passages, sources, citation.source, citation.quote)

LEMMA PassagesCounted == CountedChunks(Passages) /\ DOMAIN Passages \subseteq Nat
BY GroundingAssumption DEF CountedChunks

LEMMA HitsAre ==
  ASSUME GroundInv
  PROVE  /\ WellChosen(Passages, ranking, similar, Hits, Len(ranking))
         /\ Hits \subseteq {ranking[i] : i \in 1..similar} /\ Hits \subseteq DOMAIN Passages
         /\ Hits \subseteq Nat /\ IsFiniteSet(Hits)
<1> DEFINE n == Len(ranking)
<1>1. n \in Nat /\ ranking \in [1..n -> DOMAIN Passages] /\ similar \in 0..n
  BY DEF GroundInv
<1>2. WellChosen(Passages, ranking, similar, Hits, n)
  BY <1>1, PassagesCounted, GroundingAssumption, PickedWell DEF Hits
<1>3. Hits \subseteq {ranking[i] : i \in 1..similar} /\ IsFiniteSet(Hits)
  BY <1>1, <1>2 DEF WellChosen
<1> QED
  BY <1>1, <1>2, <1>3, PassagesCounted

LEMMA GroundInitHolds == GroundInit => GroundInv
<1> SUFFICES ASSUME GroundInit PROVE GroundInv
  OBVIOUS
<1>1. /\ ranking = <<>> /\ Len(ranking) = 0 /\ ranking \in [1..0 -> DOMAIN Passages] /\ similar = 0
      /\ sources = <<>> /\ before = <<>> /\ history = <<>> /\ citation = NoCitation
  BY DEF GroundInit
<1>2. Hits = {}
  <2>1. WellChosen(Passages, ranking, 0, Picked(Passages, ranking, 0), 0)
    <3> DEFINE n == 0
               rank == ranking
    <3>1. /\ n \in Nat /\ n \in 0..n /\ CountedChunks(Passages) /\ Len(rank) = n /\ rank \in [1..n -> DOMAIN Passages]
          /\ MaxSources \in Nat \ {0} /\ ContextBudget \in Nat
      BY <1>1, PassagesCounted, GroundingAssumption
    <3> HIDE DEF n, rank
    <3>2. WellChosen(Passages, rank, n, Picked(Passages, rank, n), n)
      BY ONLY <3>1, PickedWell
    <3> QED
      BY <3>2 DEF n, rank
  <2> QED
    BY <1>1, <2>1 DEF WellChosen, Hits
<1>3. InOrder({}) = <<>>
  <2>1. InOrder({}) \in [1..Cardinality({}) -> {}] /\ Cardinality({}) = 0
    BY FS_EmptySet, InOrderIs
  <2> QED
    BY <2>1
<1>4. PickHistory(<<>>) = <<>>
  <2>1. <<>> \in Seq(Nat) /\ Len(<<>>) = 0
    OBVIOUS
  <2>2. PICK c \in 0..0 : PickHistory(<<>>) = SubSeq(<<>>, 0 - c + 1, 0)
    BY <2>1, HistoryIs, GroundingAssumption
  <2>3. 0 - c + 1 = 1 /\ 1 \in Int /\ 0 \in Int /\ 0 < 1
    OBVIOUS
  <2>4. PickHistory(<<>>) = SubSeq(<<>>, 1, 0)
    BY <2>2, <2>3
  <2> QED
    BY <2>3, <2>4, SubSeqEmpty
<1> QED
  BY <1>1, <1>2, <1>3, <1>4 DEF GroundInv

LEMMA GroundStep == GroundInv /\ [GroundNext]_groundVars => GroundInv'
<1> SUFFICES ASSUME GroundInv, [GroundNext]_groundVars PROVE GroundInv'
  OBVIOUS
<1>1. CASE Retrieve
  <2>1. PICK n \in Nat : ranking' \in [1..n -> DOMAIN Passages]
    <3> DEFINE of == DOMAIN Passages
               n == IF Cardinality(of) < CandidateLimit THEN Cardinality(of) ELSE CandidateLimit
    <3>1. Cardinality(of) \in Nat
      <4>1. of = 1..Len(Passages) /\ Len(Passages) \in Int /\ 1 \in Int
        BY GroundingAssumption
      <4> HIDE DEF of
      <4>2. IsFiniteSet(of)
        BY <4>1, FS_Interval
      <4> QED
        BY <4>2, FS_CardinalityType
    <3>2. n \in Nat
      BY <3>1, GroundingAssumption
    <3>3. ranking' \in [1..n -> of]
      BY <1>1 DEF Retrieve, Rankings
    <3> QED
      BY <3>2, <3>3
  <2>2. Len(ranking') = n
    BY <2>1
  <2>3. /\ similar' \in 0..Len(ranking') /\ sources' = InOrder(Picked(Passages, ranking', similar'))
        /\ before' = before /\ history' = history /\ citation' = citation /\ groundAt' # "retrieve"
        /\ citation = NoCitation
    BY <1>1 DEF Retrieve, GroundInv
  <2> QED
    BY <2>1, <2>2, <2>3 DEF GroundInv, Hits
<1>2. CASE TakeHistory
  <2>1. before' \in Seq(Nat) /\ history' = PickHistory(before') /\ groundAt' # "retrieve"
    <3>1. before' \in Histories
      BY <1>2 DEF TakeHistory
    <3>2. before' \in Seq(Nat \ {0})
      BY <3>1, GroundingAssumption
    <3> QED
      BY <1>2, <3>2 DEF TakeHistory
  <2>2. ranking' = ranking /\ similar' = similar /\ sources' = sources /\ citation' = citation
    BY <1>2 DEF TakeHistory
  <2> QED
    BY <2>1, <2>2 DEF GroundInv, Hits
<1>3. CASE Cite
  <2>1. PICK s \in 1..(MaxSources + 1), q \in Quotes :
          citation' = [source |-> s, quote |-> q, accepted |-> Accepted(Passages, sources, s, q)]
    BY <1>3 DEF Cite
  <2>2. /\ ranking' = ranking /\ similar' = similar /\ sources' = sources
        /\ before' = before /\ history' = history /\ groundAt' # "retrieve"
    BY <1>3 DEF Cite
  <2>3. citation'.quote \in Quotes /\ citation'.accepted = Accepted(Passages, sources', citation'.source, citation'.quote)
    BY <2>1, <2>2
  <2> QED
    BY <2>2, <2>3 DEF GroundInv, Hits
<1>4. CASE UNCHANGED groundVars
  BY <1>4 DEF GroundInv, Hits, groundVars
<1> QED
  BY <1>1, <1>2, <1>3, <1>4 DEF GroundNext

LEMMA SourcesAreHits ==
  ASSUME GroundInv
  PROVE  /\ Chosen = Hits /\ Len(sources) \in Nat /\ Len(sources) = Cardinality(Hits)
         /\ DOMAIN sources = 1..Len(sources)
         /\ \A i \in DOMAIN sources : sources[i] \in Hits
         /\ \A i, j \in DOMAIN sources : i < j => sources[i] < sources[j]
<1>1. sources = InOrder(Hits) /\ Hits \subseteq Nat /\ IsFiniteSet(Hits)
  BY HitsAre DEF GroundInv
<1>2. /\ sources \in [1..Cardinality(Hits) -> Hits] /\ Len(sources) = Cardinality(Hits) /\ Cardinality(Hits) \in Nat
      /\ \A i, j \in 1..Cardinality(Hits) : i < j => sources[i] < sources[j]
      /\ \A c \in Hits : \E i \in 1..Cardinality(Hits) : sources[i] = c
  <2> DEFINE H == Hits
  <2>1. sources = InOrder(H) /\ H \subseteq Nat /\ IsFiniteSet(H)
    BY <1>1
  <2> HIDE DEF H
  <2>2. /\ sources \in [1..Cardinality(H) -> H] /\ Len(sources) = Cardinality(H) /\ Cardinality(H) \in Nat
        /\ \A i, j \in 1..Cardinality(H) : i < j => sources[i] < sources[j]
        /\ \A c \in H : \E i \in 1..Cardinality(H) : sources[i] = c
    BY <2>1, InOrderIs
  <2> QED
    BY <2>2 DEF H
<1> QED
  BY <1>2 DEF Chosen

LEMMA GroundMeans == GroundInv => GroundingSound
<1> SUFFICES ASSUME GroundInv PROVE GroundingSound
  OBVIOUS
<1>1. /\ Chosen = Hits /\ Len(sources) \in Nat /\ Len(sources) = Cardinality(Hits)
      /\ DOMAIN sources = 1..Len(sources)
      /\ \A i \in DOMAIN sources : sources[i] \in Hits
      /\ \A i, j \in DOMAIN sources : i < j => sources[i] < sources[j]
  BY SourcesAreHits
<1>2. /\ WellChosen(Passages, ranking, similar, Hits, Len(ranking)) /\ IsFiniteSet(Hits)
      /\ Hits \subseteq {ranking[i] : i \in 1..similar} /\ Hits \subseteq DOMAIN Passages
  BY HitsAre
<1>3. similar \in 0..Len(ranking) /\ Len(ranking) \in Nat
  BY DEF GroundInv
<1>4. SourcesFit
  <2>1. Len(sources) <= MaxSources /\ TokensOf(Passages, Chosen) <= ContextBudget
    BY <1>1, <1>2 DEF WellChosen
  <2>2. ASSUME NEW i \in DOMAIN sources, NEW j \in DOMAIN sources, i < j
        PROVE  sources[i] < sources[j] /\ Passages[sources[i]].hash # Passages[sources[j]].hash
    <3>1. sources[i] \in Hits /\ sources[j] \in Hits /\ sources[i] < sources[j]
      BY <1>1, <2>2
    <3>2. sources[i] \in Nat /\ sources[j] \in Nat
      BY <1>2, <3>1, PassagesCounted
    <3>3. sources[i] # sources[j]
      BY <3>1, <3>2
    <3> QED
      BY <1>2, <3>1, <3>3 DEF WellChosen
  <2> QED
    BY <1>1, <1>2, <2>1, <2>2 DEF SourcesFit
<1>5. NothingLeftOut
  <2> SUFFICES ASSUME NEW i \in 1..similar, ranking[i] \notin Chosen
               PROVE  /\ \/ Len(sources) = MaxSources \/ Repeats(Passages, Chosen, ranking[i])
                         \/ ~FitsBeside(Passages, Chosen, ranking[i])
                      /\ Passages[ranking[i]].tokens <= ContextBudget => sources # <<>>
    BY DEF NothingLeftOut
  <2>1. i \in 1..Len(ranking) /\ i <= similar
    BY <1>3
  <2>2. /\ ranking[i] \notin Hits => \/ Cardinality(Hits) = MaxSources \/ Repeats(Passages, Hits, ranking[i])
                                     \/ ~FitsBeside(Passages, Hits, ranking[i])
        /\ Passages[ranking[i]].tokens <= ContextBudget => Hits # {}
    BY <1>2, <2>1 DEF WellChosen
  <2>3. Hits # {} => sources # <<>>
    <3>1. Hits # {} => Cardinality(Hits) # 0
      BY <1>2, FS_EmptySet
    <3> QED
      BY <1>1, <3>1
  <2> QED
    BY <1>1, <2>2, <2>3
<1>6. HistoryIsLongestEnd
  <2>1. before \in Seq(Nat) /\ history = PickHistory(before) /\ HistoryBudget \in Nat
    BY GroundingAssumption DEF GroundInv
  <2>2. PICK c \in 0..Len(before) :
           /\ history = SubSeq(before, Len(before) - c + 1, Len(before))
           /\ EndSum(before, c) <= HistoryBudget
           /\ c < Len(before) => EndSum(before, c + 1) > HistoryBudget
    BY <2>1, HistoryIs
  <2> DEFINE k == Len(before) - c + 1
  <2>3. Len(before) \in Nat /\ k \in 1..(Len(before) + 1) /\ (k > 1 => c < Len(before)) /\ k - 1 = Len(before) - (c + 1) + 1
    BY <2>1
  <2>4. history = SubSeq(before, k, Len(before)) /\ SumOver(history) <= HistoryBudget
    BY <2>2 DEF EndSum
  <2>5. SumOver(SubSeq(before, k - 1, Len(before))) = EndSum(before, c + 1)
    BY <2>3 DEF EndSum
  <2> HIDE DEF k
  <2>6. k > 1 => SumOver(SubSeq(before, k - 1, Len(before))) > HistoryBudget
    BY <2>2, <2>3, <2>5
  <2> QED
    BY <2>3, <2>4, <2>6 DEF HistoryIsLongestEnd
<1>7. QuotesAreChecked
  <2>1. CASE citation = NoCitation
    BY <2>1 DEF QuotesAreChecked, NoCitation
  <2>2. CASE citation # NoCitation
    <3>1. citation.quote \in Quotes /\ citation.accepted = Accepted(Passages, sources, citation.source, citation.quote)
      BY <2>2 DEF GroundInv
    <3> DEFINE s == citation.source
               quote == citation.quote
               text == Passages[sources[s]].text
               q == Normalize(quote)
    <3>2. citation.accepted <=> s \in DOMAIN sources /\ QuoteMatches(quote, text)
      BY <3>1 DEF Accepted
    <3>3. ASSUME s \in DOMAIN sources
          PROVE  /\ Includes(text, quote) /\ q # <<>> => citation.accepted
                 /\ citation.accepted /\ Len(q) < 6 => Pairs(q) \subseteq Pairs(Normalize(text))
      <4>1. sources[s] \in DOMAIN Passages
        BY <1>1, <1>2, <3>3
      <4> DEFINE C == DOMAIN Folded \cup Blanks
      <4>2. text \in Seq(C) /\ quote \in Seq(C)
        BY <3>1, <4>1, GroundingAssumption
      <4> HIDE DEF C, text, quote
      <4>3. /\ Includes(text, quote) /\ q # <<>> => QuoteMatches(quote, text)
            /\ QuoteMatches(quote, text) /\ Len(q) < 6 => Pairs(q) \subseteq Pairs(Normalize(text))
        BY <4>2, QuoteChecked
      <4> QED
        BY <3>2, <3>3, <4>3
    <3> QED
      BY <3>2, <3>3 DEF QuotesAreChecked
  <2> QED
    BY <2>1, <2>2
<1> QED
  BY <1>4, <1>5, <1>6, <1>7 DEF GroundingSound

LEMMA GroundHolds == GroundSpec => []GroundingSound
<1>1. GroundInit => GroundInv
  BY GroundInitHolds
<1>2. GroundInv /\ [GroundNext]_groundVars => GroundInv'
  BY GroundStep
<1>3. GroundInv => GroundingSound
  BY GroundMeans
<1> QED
  BY <1>1, <1>2, <1>3, PTL DEF GroundSpec

-----------------------------------------------------------------------------
\* Evaluation

(* The runner's selection is the service's: its chunks have different texts. *)
LEMMA EvalPicksAre ==
  ASSUME NEW rank, NEW n \in Nat, Len(rank) = n, rank \in [1..n -> DOMAIN Chunks],
         \A i, j \in 1..n : rank[i] = rank[j] => i = j,
         \A i, j \in DOMAIN Chunks : Chunks[i].hash = Chunks[j].hash => i = j
  PROVE  EvalPicked(rank) = Picked(Chunks, rank, Len(rank))
<1> DEFINE Step(p, i) == IF Cardinality(p) >= MaxSources \/ ~FitsBeside(Chunks, p, rank[i])
                         THEN p ELSE p \cup {rank[i]}
           Body(f) == [i \in 0..n |-> IF i = 0 THEN {} ELSE Step(f[i - 1], i)]
           pick == CHOOSE f : f = Body(f)
<1>1. EvalPicked(rank) = pick[n]
  BY DEF EvalPicked
<1>2. PICK f : Choices(f, Chunks, rank, n) /\ Picked(Chunks, rank, n) = f[n]
  BY PickedIs
<1>3. /\ f = [i \in 0..n |-> f[i]] /\ f[0] = {}
      /\ \A i \in 1..n : f[i] = IF Skips(Chunks, f[i - 1], rank, i, n) THEN f[i - 1] ELSE f[i - 1] \cup {rank[i]}
  BY <1>2 DEF Choices
<1> DEFINE Early(m) == f[m] \subseteq {rank[j] : j \in 1..m}
           Good == {m \in Nat : m <= n => Early(m)}
<1>4. 0 \in Good
  BY <1>3
<1>5. ASSUME NEW m \in Nat, m \in Good PROVE m + 1 \in Good
  <2> SUFFICES ASSUME m + 1 <= n PROVE Early(m + 1)
    OBVIOUS
  <2>1. Early(m) /\ m + 1 \in 1..n /\ (m + 1) - 1 = m
    BY <1>5
  <2>2. f[m + 1] \subseteq f[m] \cup {rank[m + 1]}
    <3>1. f[m + 1] = IF Skips(Chunks, f[(m + 1) - 1], rank, m + 1, n)
                     THEN f[(m + 1) - 1] ELSE f[(m + 1) - 1] \cup {rank[m + 1]}
      BY ONLY <1>3, <2>1, Zenon
    <3>2. f[m + 1] = f[m] \/ f[m + 1] = f[m] \cup {rank[m + 1]}
      BY ONLY <2>1, <3>1, Zenon
    <3> QED
      BY ONLY <3>2, Zenon
  <2> QED
    BY <2>1, <2>2
<1>6. Nat \subseteq Good
  <2> HIDE DEF Good
  <2> QED
    BY <1>4, <1>5, SetInduction
<1>7. ASSUME NEW i \in 1..n PROVE f[i] = Step(f[i - 1], i)
  <2>1. i - 1 \in Nat /\ i - 1 <= n
    OBVIOUS
  <2>2. Early(i - 1)
    BY <1>6, <2>1
  <2>3. ~Repeats(Chunks, f[i - 1], rank[i])
    <3>1. SUFFICES ASSUME NEW p \in f[i - 1], Chunks[p].hash = Chunks[rank[i]].hash PROVE FALSE
      BY DEF Repeats
    <3>2. PICK j \in 1..(i - 1) : p = rank[j]
      BY <2>2
    <3>3. j \in 1..n /\ j # i
      BY <3>2
    <3>4. rank[j] \in DOMAIN Chunks /\ rank[i] \in DOMAIN Chunks
      BY <3>3
    <3>5. rank[j] = rank[i]
      BY <3>1, <3>2, <3>4
    <3> QED
      BY <3>3, <3>5
  <2>4. Skips(Chunks, f[i - 1], rank, i, n) <=> Cardinality(f[i - 1]) >= MaxSources \/ ~FitsBeside(Chunks, f[i - 1], rank[i])
    <3>1. ~(i > n)
      OBVIOUS
    <3> QED
      BY <2>3, <3>1 DEF Skips
  <2> QED
    BY <1>3, <2>4
<1> HIDE DEF Step
<1>8. f = Body(f)
  <2>1. \A i \in 0..n : f[i] = IF i = 0 THEN {} ELSE Step(f[i - 1], i)
    <3> TAKE i \in 0..n
    <3>1. i = 0 \/ i \in 1..n
      OBVIOUS
    <3> QED
      BY <1>3, <1>7, <3>1
  <2> QED
    BY <1>3, <2>1
<1> HIDE DEF Body
<1>9. pick = Body(pick)
  BY <1>8
<1> HIDE DEF pick
<1>10. \A i \in 0..n : pick[i] = IF i = 0 THEN {} ELSE Step(pick[i - 1], i)
  BY <1>9 DEF Body
<1> DEFINE Same == {m \in Nat : m <= n => pick[m] = f[m]}
<1>11. 0 \in Same
  <2>1. 0 \in 0..n
    OBVIOUS
  <2>2. pick[0] = {} /\ f[0] = {}
    BY <1>3, <1>10, <2>1
  <2> QED
    BY <2>2
<1>12. ASSUME NEW m \in Nat, m \in Same PROVE m + 1 \in Same
  <2> SUFFICES ASSUME m + 1 <= n PROVE pick[m + 1] = f[m + 1]
    OBVIOUS
  <2>1. pick[m] = f[m] /\ m + 1 \in 1..n /\ m + 1 \in 0..n /\ m + 1 # 0 /\ (m + 1) - 1 = m
    BY <1>12
  <2>2. pick[m + 1] = Step(pick[m], m + 1) /\ f[m + 1] = Step(f[m], m + 1)
    BY <1>7, <1>10, <2>1
  <2> QED
    BY <2>1, <2>2
<1>13. Nat \subseteq Same
  <2> HIDE DEF Same
  <2> QED
    BY <1>11, <1>12, SetInduction
<1> QED
  BY <1>1, <1>2, <1>13

LEMMA RankedPagesAre ==
  ASSUME NEW rank, Len(rank) \in Nat
  PROVE  \E C : RankedPages(rank) \in Seq(C)
<1> DEFINE n == Len(rank)
           d == {i \in 1..n : Chunks[rank[i]].page = 0}
           v == [i \in 1..n |-> Chunks[rank[i]].page]
           Body(f) == [i \in 0..n |-> IF i = 0 THEN <<>>
                                      ELSE IF Chunks[rank[i]].page = 0 THEN f[i - 1]
                                      ELSE Append(f[i - 1], Chunks[rank[i]].page)]
           read == CHOOSE f : f = Body(f)
<1>1. RankedPages(rank) = read[n]
  BY DEF RankedPages
<1>2. \A f : Body(f) = ReadRow(f, n, d, v)
  <2> TAKE f
  <2>1. \A i \in 1..n : (Chunks[rank[i]].page = 0 <=> i \in d) /\ Chunks[rank[i]].page = v[i]
    OBVIOUS
  <2> HIDE DEF d, v
  <2>2. \A i \in 0..n : (IF i = 0 THEN <<>> ELSE IF Chunks[rank[i]].page = 0 THEN f[i - 1] ELSE Append(f[i - 1], Chunks[rank[i]].page))
                       = (IF i = 0 THEN <<>> ELSE IF i \in d THEN f[i - 1] ELSE Append(f[i - 1], v[i]))
    BY <2>1
  <2> QED
    BY <2>2 DEF ReadRow
<1> HIDE DEF Body
<1> HIDE DEF d, v
<1>3. PICK f : f = ReadRow(f, n, d, v)
  <2>1. n \in Nat
    OBVIOUS
  <2> QED
    BY <2>1, ReadsExist
<1>4. f = Body(f)
  BY <1>2, <1>3
<1>5. read = Body(read)
  BY <1>4
<1> HIDE DEF read
<1>6. read = ReadRow(read, n, d, v)
  BY <1>2, <1>5
<1>7. Reads(read, n, d, v)
  BY <1>6, ReadsAre
<1>8. read[n] \in Words(v, n)
  BY <1>7 DEF Reads
<1> QED
  BY <1>1, <1>8 DEF Words

(* The measures of one ranking. *)
LEMMA RecallIs ==
  ASSUME NEW C, NEW pages \in Seq(C), NEW expected, IsFiniteSet(expected), NEW k \in Nat, NEW l \in Nat, k <= l
  PROVE  /\ RecallAtK(pages, expected, k) \in Nat /\ FirstHit(pages, expected) \in Nat
         /\ RecallAtK(pages, expected, k) <= RecallAtK(pages, expected, l)
         /\ RecallAtK(pages, expected, k) > 0 <=> FirstHit(pages, expected) \in 1..k
<1> DEFINE In(c) == {p \in expected : \E i \in DOMAIN pages : i <= c /\ pages[i] = p}
           hits == {i \in DOMAIN pages : pages[i] \in expected}
           first == FirstHit(pages, expected)
<1>1. DOMAIN pages = 1..Len(pages) /\ Len(pages) \in Nat
  OBVIOUS
<1>2. \A c : RecallAtK(pages, expected, c) = Cardinality(In(c))
  BY DEF RecallAtK
<1>3. \A c : IsFiniteSet(In(c))
  <2> TAKE c
  <2>1. In(c) \in SUBSET expected
    OBVIOUS
  <2> QED
    BY <2>1, FS_Subset
<1>4. Cardinality(In(k)) \in Nat /\ Cardinality(In(k)) <= Cardinality(In(l))
  <2>1. In(k) \in SUBSET In(l)
    BY <1>1
  <2> HIDE DEF In
  <2> QED
    BY <1>3, <2>1, FS_Subset, FS_CardinalityType
<1>5. first = IF hits = {} THEN 0 ELSE CHOOSE i \in hits : \A j \in hits : i <= j
  BY DEF FirstHit
<1>6. hits # {} => first \in hits /\ \A j \in hits : first <= j
  <2> SUFFICES ASSUME hits # {} PROVE first \in hits /\ \A j \in hits : first <= j
    OBVIOUS
  <2>1. hits \subseteq Nat
    BY <1>1
  <2> HIDE DEF hits, first
  <2>2. \E i \in hits : \A j \in hits : i <= j
    BY <2>1, FirstExists
  <2> QED
    BY <1>5, <2>2
<1>7. first \in Nat
  BY <1>1, <1>5, <1>6
<1>8. Cardinality(In(k)) > 0 <=> In(k) # {}
  <2> HIDE DEF In
  <2> QED
    BY <1>3, <1>4, FS_EmptySet
<1>9. ASSUME In(k) # {} PROVE first \in 1..k
  <2>1. PICK i \in DOMAIN pages : i <= k /\ pages[i] \in expected
    BY <1>9
  <2>2. i \in hits
    BY <2>1
  <2>3. first \in hits /\ first <= i
    BY <1>6, <2>2
  <2>4. first \in 1..Len(pages) /\ i \in 1..Len(pages)
    BY <1>1, <2>3
  <2> HIDE DEF first, hits
  <2> QED
    BY <1>1, <2>1, <2>3, <2>4
<1>10. ASSUME first \in 1..k PROVE In(k) # {}
  <2>1. first # 0
    BY <1>10
  <2>2. hits # {}
    BY <1>5, <2>1
  <2>3. first \in DOMAIN pages /\ first <= k /\ pages[first] \in expected
    BY <1>6, <1>10, <2>2
  <2> HIDE DEF first, hits
  <2> QED
    BY <2>3
<1> QED
  BY <1>2, <1>4, <1>7, <1>8, <1>9, <1>10, SMTT(60)

LEMMA CasesAre ==
  /\ Len(EvalCases) \in Nat /\ DOMAIN EvalCases = 1..Len(EvalCases)
  /\ EvalCases # <<>> => Len(EvalCases) # 0
<1>1. PICK C : EvalCases \in Seq(C)
  BY EvaluationAssumption
<1> QED
  BY <1>1

(* The cases with an answer among the first n. *)
Asked(n) == {i \in 1..n : EvalCases[i].shouldAnswer}

LEMMA AskedMore ==
  ASSUME NEW n \in Nat
  PROVE  /\ IsFiniteSet(Asked(n)) /\ Cardinality(Asked(n)) \in Nat /\ Cardinality(Asked(0)) = 0
         /\ EvalCases[n + 1].shouldAnswer => Cardinality(Asked(n + 1)) = Cardinality(Asked(n)) + 1
         /\ ~EvalCases[n + 1].shouldAnswer => Cardinality(Asked(n + 1)) = Cardinality(Asked(n))
<1>1. IsFiniteSet(Asked(n))
  <2>1. 1 \in Int /\ n \in Int
    OBVIOUS
  <2>2. IsFiniteSet(1..n)
    BY <2>1, FS_Interval
  <2>3. Asked(n) \in SUBSET (1..n)
    BY DEF Asked
  <2> QED
    BY <2>2, <2>3, FS_Subset
<1>2. Cardinality(Asked(n)) \in Nat
  BY <1>1, FS_CardinalityType
<1>3. Cardinality(Asked(0)) = 0
  <2>1. Asked(0) = {}
    BY DEF Asked
  <2> QED
    BY <2>1, FS_EmptySet
<1>4. ASSUME EvalCases[n + 1].shouldAnswer PROVE Cardinality(Asked(n + 1)) = Cardinality(Asked(n)) + 1
  <2>1. Asked(n + 1) = Asked(n) \cup {n + 1} /\ n + 1 \notin Asked(n)
    BY <1>4 DEF Asked
  <2> QED
    BY <1>1, <2>1, FS_AddElement
<1>5. ASSUME ~EvalCases[n + 1].shouldAnswer PROVE Cardinality(Asked(n + 1)) = Cardinality(Asked(n))
  <2>1. Asked(n + 1) = Asked(n)
    BY <1>5 DEF Asked
  <2> QED
    BY <2>1
<1> QED
  BY <1>1, <1>2, <1>3, <1>4, <1>5

Measures == {m \in [case : Nat, small : Nat, large : Nat, first : Nat] :
               /\ m.small <= m.large
               /\ m.small > 0 <=> m.first \in 1..SmallK
               /\ m.large > 0 <=> m.first \in 1..LargeK}
Verdicts == {a \in [refused : BOOLEAN, claimed : Nat, valid : Nat, judged : BOOLEAN] :
               a.valid <= a.claimed /\ (a.judged <=> ~a.refused)}

(* Of the valid citations there are no more than of the claimed, and what is  *)
(* judged is what does not refuse.                                            *)
LEMMA VerdictsAdd ==
  ASSUME NEW s \in Seq(Verdicts)
  PROVE  /\ SumOver([i \in DOMAIN s |-> s[i].valid]) <= SumOver([i \in DOMAIN s |-> s[i].claimed])
         /\ Cardinality({i \in DOMAIN s : s[i].judged}) = Len(s) - Cardinality({i \in DOMAIN s : s[i].refused})
<1> DEFINE n == Len(s)
           v == [i \in DOMAIN s |-> s[i].valid]
           c == [i \in DOMAIN s |-> s[i].claimed]
<1>1. n \in Nat /\ DOMAIN s = 1..n /\ \A i \in 1..n : s[i] \in Verdicts
  OBVIOUS
<1>2. \A i \in 1..n : v[i] \in Nat /\ c[i] \in Nat /\ v[i] <= c[i] /\ (s[i].judged <=> ~s[i].refused)
  BY <1>1 DEF Verdicts
<1>3. v \in [1..n -> Nat] /\ c \in [1..n -> Nat]
  BY <1>1, <1>2
<1> HIDE DEF v, c
<1>4. Len(v) = n /\ Len(c) = n
  BY <1>1, <1>3
<1> HIDE DEF n
<1>5. SumOver(v) <= SumOver(c)
  <2>1. PICK f : Amounts(f, v, n) /\ SumOver(v) = f[n]
    BY <1>1, <1>2, <1>4, SumIs
  <2>2. PICK g : Amounts(g, c, n) /\ SumOver(c) = g[n]
    BY <1>1, <1>2, <1>4, SumIs
  <2>3. f[n] <= g[n]
    BY ONLY <1>1, <1>2, <2>1, <2>2, AmountsOrdered
  <2> QED
    BY <2>1, <2>2, <2>3
<1>6. Cardinality({i \in DOMAIN s : s[i].judged}) = n - Cardinality({i \in DOMAIN s : s[i].refused})
  <2> DEFINE all == 1..n
             no == {i \in DOMAIN s : s[i].refused}
             yes == {i \in DOMAIN s : s[i].judged}
  <2>1. IsFiniteSet(all) /\ Cardinality(all) = n
    <3>1. 1 \in Int /\ n \in Int
      BY <1>1
    <3>2. IsFiniteSet(1..n) /\ Cardinality(1..n) = IF 1 > n THEN 0 ELSE n - 1 + 1
      BY ONLY <3>1, FS_Interval
    <3> QED
      BY <1>1, <3>2
  <2>2. yes = all \ no /\ all \cap no = no
    BY <1>1, <1>2
  <2> HIDE DEF all, no, yes
  <2>3. Cardinality(all \ no) = Cardinality(all) - Cardinality(all \cap no)
    BY <2>1, FS_Difference
  <2> QED
    BY <2>1, <2>2, <2>3 DEF no, yes
<1> QED
  BY <1>5, <1>6 DEF v, c, n

Ingesting == {"user", "workspace", "document", "chunks"}
Running == {"search", "answer", "judge"}
Over == {"sweep", "sweepUser", "done", "failed"}

\* The cases searched and the cases answered so far.
Searched == IF evalAt = "search" THEN turn - 1 ELSE IF evalAt = "report" THEN Len(EvalCases) ELSE turn
AnsweredTill == IF evalAt = "report" THEN Len(EvalCases) ELSE turn - 1

EvalTyped ==
  /\ evalAt \in Ingesting \cup Running \cup Over \cup {"report", "undo"}
  /\ DOMAIN evalVectors = DOMAIN Corpus
  /\ \A d \in DOMAIN Corpus : evalVectors[d] \subseteq DOMAIN Corpus[d]
  /\ found \in Seq(Measures) /\ answered \in Seq(Verdicts)
  /\ evalAt \in Ingesting => turn \in 1..Len(Corpus)
  /\ evalAt \in Running => turn \in 1..Len(EvalCases)
RowsKept ==
  /\ rows = {} \/ "user" \in rows
  /\ evalAt = "user" => rows = {}
  /\ evalAt \in {"workspace", "document", "chunks"} => "user" \in rows
  /\ evalAt \in {"done", "failed"} /\ ~stranded => rows = {}
CasesCounted ==
  /\ evalAt \in Ingesting => found = <<>> /\ answered = <<>>
  /\ evalAt \in Running \cup {"report"} =>
       /\ Len(found) = Cardinality(Asked(Searched))
       /\ Len(answered) = IF evalMode = "full" THEN AnsweredTill ELSE 0
  /\ evalAt \in {"answer", "judge"} => evalMode = "full"
  /\ evalAt = "judge" => /\ outcome.refused = FALSE /\ outcome.valid <= outcome.claimed
                         /\ outcome \in [refused : BOOLEAN, claimed : Nat, valid : Nat, judged : BOOLEAN]
  /\ report # NoReport => evalAt \in Over
EvalInv == EvalTyped /\ RowsKept /\ CasesCounted /\ SameSources /\ ReportCovers

(* An evaluation that gives up, or is over, counts nothing more. *)
LEMMA EvalLeaves ==
  ASSUME EvalInv, evalAt' \in Over \cup {"undo"}, evalAt \in Over => evalAt' \in Over,
         UNCHANGED <<evalMode, evalVectors, found, answered, report>>
  PROVE  EvalTyped' /\ CasesCounted' /\ SameSources' /\ ReportCovers'
<1>1. EvalTyped'
  <2>1. evalAt' \notin Ingesting /\ evalAt' \notin Running
    BY DEF Over, Ingesting, Running
  <2> QED
    BY <2>1 DEF EvalInv, EvalTyped
<1>2. CasesCounted'
  <2>1. evalAt' \notin Ingesting /\ evalAt' \notin Running \cup {"report"} /\ evalAt' \notin {"answer", "judge"}
    BY DEF Over, Ingesting, Running
  <2>2. report # NoReport => evalAt \in Over
    BY DEF EvalInv, CasesCounted
  <2> QED
    BY <2>1, <2>2 DEF CasesCounted
<1>3. SameSources'
  BY DEF SameSources, Over
<1>4. ReportCovers'
  BY DEF EvalInv, ReportCovers
<1> QED
  BY <1>1, <1>2, <1>3, <1>4

(* NextCase goes on to the next case, or ends. *)
LEMMA CaseDone ==
  ASSUME turn \in 1..Len(EvalCases), NextCase
  PROVE  /\ evalAt' \in {"search", "report"} /\ Searched' = turn /\ AnsweredTill' = turn
         /\ evalAt' = "search" => turn' \in 1..Len(EvalCases)
<1>1. Len(EvalCases) \in Nat
  BY CasesAre
<1>2. CASE turn < Len(EvalCases)
  <2>1. turn' = turn + 1 /\ evalAt' = "search"
    BY <1>2 DEF NextCase
  <2>2. Searched' = turn' - 1 /\ AnsweredTill' = turn' - 1
    BY <2>1 DEF Searched, AnsweredTill
  <2> QED
    BY <1>1, <1>2, <2>1, <2>2
<1>3. CASE ~(turn < Len(EvalCases))
  <2>1. evalAt' = "report" /\ turn' = turn /\ turn = Len(EvalCases)
    BY <1>1, <1>3 DEF NextCase
  <2>2. Searched' = Len(EvalCases) /\ AnsweredTill' = Len(EvalCases)
    BY <2>1 DEF Searched, AnsweredTill
  <2> QED
    BY <2>1, <2>2
<1> QED
  BY <1>2, <1>3

LEMMA EvalInitHolds == EvaluationInit => EvalInv
<1> SUFFICES ASSUME EvaluationInit PROVE EvalInv
  OBVIOUS
<1>1. EvalTyped
  <2>1. turn = 1 /\ 1 \in 1..Len(Corpus)
    BY EvaluationAssumption DEF EvaluationInit
  <2> QED
    BY <2>1 DEF EvaluationInit, EvalTyped, Ingesting, Running
<1>2. RowsKept
  BY DEF EvaluationInit, RowsKept
<1>3. CasesCounted
  BY DEF EvaluationInit, CasesCounted, Ingesting, Running
<1>4. SameSources /\ ReportCovers
  BY DEF EvaluationInit, SameSources, ReportCovers
<1> QED
  BY <1>1, <1>2, <1>3, <1>4 DEF EvalInv

(* While the fixture is put in nothing is counted. *)
LEMMA StillIngesting ==
  ASSUME EvalInv, evalAt \in Ingesting, evalAt' \in Ingesting, UNCHANGED <<found, answered, report>>
  PROVE  CasesCounted' /\ SameSources' /\ ReportCovers'
<1>1. report = NoReport
  BY DEF EvalInv, CasesCounted, Ingesting, Over
<1>2. CasesCounted'
  BY <1>1 DEF EvalInv, CasesCounted, Ingesting, Running
<1>3. SameSources' /\ ReportCovers'
  BY <1>1 DEF SameSources, ReportCovers, Ingesting
<1> QED
  BY <1>2, <1>3

LEMMA IngestSteps ==
  ASSUME EvalInv, InsertOwner \/ InsertDocument \/ InsertChunks
  PROVE  EvalInv'
<1>1. CASE InsertOwner
  <2>1. /\ evalAt \in {"user", "workspace"} /\ evalAt' \in {"workspace", "document"}
        /\ rows' = rows \cup {evalAt}
        /\ UNCHANGED <<evalMode, evalVectors, turn, found, answered, report>>
    BY <1>1 DEF InsertOwner, resultVars, NextRow
  <2>2. EvalTyped'
    BY <2>1 DEF EvalInv, EvalTyped, Ingesting, Running
  <2>3. RowsKept'
    BY <2>1 DEF EvalInv, RowsKept
  <2>4. evalAt \in Ingesting /\ evalAt' \in Ingesting
    BY <2>1 DEF Ingesting
  <2> QED
    BY <2>1, <2>2, <2>3, <2>4, StillIngesting DEF EvalInv
<1>2. CASE InsertDocument
  <2>1. /\ evalAt = "document" /\ evalAt' = "chunks"
        /\ rows' = rows \cup {"documents"}
        /\ UNCHANGED <<evalMode, evalVectors, turn, found, answered, report>>
    BY <1>2 DEF InsertDocument, resultVars, NextRow
  <2>2. EvalTyped'
    BY <2>1 DEF EvalInv, EvalTyped, Ingesting, Running
  <2>3. RowsKept'
    BY <2>1 DEF EvalInv, RowsKept
  <2>4. evalAt \in Ingesting /\ evalAt' \in Ingesting
    BY <2>1 DEF Ingesting
  <2> QED
    BY <2>1, <2>2, <2>3, <2>4, StillIngesting DEF EvalInv
<1>3. CASE InsertChunks
  <2>1. /\ evalAt = "chunks" /\ rows' = rows
        /\ UNCHANGED <<evalMode, found, answered, report>>
    BY <1>3 DEF InsertChunks, resultVars
  <2>2. turn \in 1..Len(Corpus) /\ turn \in DOMAIN Corpus
    BY <2>1, EvaluationAssumption DEF EvalInv, EvalTyped, Ingesting
  <2>3. PICK v \in SUBSET DOMAIN Corpus[turn] : evalVectors' = [evalVectors EXCEPT ![turn] = v]
    BY <1>3 DEF InsertChunks
  <2>4. /\ DOMAIN evalVectors' = DOMAIN Corpus
        /\ \A d \in DOMAIN Corpus : evalVectors'[d] \subseteq DOMAIN Corpus[d]
    BY <2>2, <2>3 DEF EvalInv, EvalTyped
  <2>5. RowsKept'
    <3>1. evalAt' \notin {"user", "done", "failed"}
      BY <1>3 DEF InsertChunks
    <3> QED
      BY <2>1, <3>1 DEF EvalInv, RowsKept
  <2>6. CASE turn < Len(Corpus)
    <3>1. turn' = turn + 1 /\ evalAt' = "document"
      BY <1>3, <2>6 DEF InsertChunks
    <3>2. turn' \in 1..Len(Corpus)
      BY <2>2, <2>6, <3>1, EvaluationAssumption, SMTT(60)
    <3>3. EvalTyped'
      BY <2>1, <2>4, <3>1, <3>2 DEF EvalInv, EvalTyped, Ingesting, Running
    <3>4. evalAt \in Ingesting /\ evalAt' \in Ingesting
      BY <2>1, <3>1 DEF Ingesting
    <3> QED
      BY <2>1, <2>5, <3>3, <3>4, StillIngesting DEF EvalInv
  <2>7. CASE ~(turn < Len(Corpus))
    <3>1. turn' = 1 /\ evalAt' = IF EvalCases = <<>> THEN "report" ELSE "search"
      BY <1>3, <2>7 DEF InsertChunks
    <3>2. /\ Len(EvalCases) \in Nat /\ (EvalCases = <<>> => Len(EvalCases) = 0)
          /\ (EvalCases # <<>> => Len(EvalCases) >= 1)
      <4>1. Len(EvalCases) \in Nat /\ (EvalCases # <<>> => Len(EvalCases) # 0)
        BY CasesAre
      <4>2. EvalCases = <<>> => Len(EvalCases) = 0
        OBVIOUS
      <4> QED
        BY <4>1, <4>2
    <3>3. evalAt' = "search" => turn' \in 1..Len(EvalCases)
      BY <3>1, <3>2
    <3>4. evalAt' \in {"search", "report"}
      BY <3>1
    <3>5. EvalTyped'
      BY <2>1, <2>4, <3>3, <3>4 DEF EvalInv, EvalTyped, Ingesting, Running
    <3>6. found = <<>> /\ answered = <<>> /\ report = NoReport
      BY <2>1 DEF EvalInv, CasesCounted, Ingesting, Over
    <3>7. Searched' = 0 /\ AnsweredTill' = 0
      BY <3>1, <3>2 DEF Searched, AnsweredTill
    <3>8. Cardinality(Asked(Searched')) = 0
      BY <3>7, AskedMore
    <3>9. CasesCounted'
      BY <2>1, <3>4, <3>6, <3>7, <3>8 DEF CasesCounted, Ingesting, Running
    <3>10. SameSources' /\ ReportCovers'
      BY <2>1, <3>4, <3>6 DEF SameSources, ReportCovers
    <3> QED
      BY <2>5, <3>5, <3>9, <3>10 DEF EvalInv
  <2> QED
    BY <2>6, <2>7
<1> QED
  BY <1>1, <1>2, <1>3

(* Whatever fails, and what is removed then. *)
LEMMA EndSteps ==
  ASSUME EvalInv, IngestFails \/ Undo \/ RunFails \/ Sweep \/ Kill
  PROVE  EvalInv'
<1>1. CASE IngestFails
  <2>1. /\ evalAt \in {"user", "workspace", "document", "chunks"}
        /\ rows' \in {rows, rows \cup {NextRow}} /\ evalAt' = IF evalAt = "user" THEN "failed" ELSE "undo"
        /\ stranded' = (evalAt = "user" /\ rows' # {})
        /\ UNCHANGED <<evalMode, evalVectors, found, answered, report>>
    BY <1>1 DEF IngestFails, resultVars
  <2>2. RowsKept'
    BY <2>1 DEF EvalInv, RowsKept, NextRow
  <2>3. evalAt' \in Over \cup {"undo"} /\ evalAt \notin Over
    BY <2>1 DEF Over
  <2> QED
    BY <2>1, <2>2, <2>3, EvalLeaves DEF EvalInv
<1>2. CASE Undo
  <2>1. /\ evalAt = "undo" /\ evalAt' = "failed" /\ (rows' = {} \/ (rows' \in {rows, {}} /\ stranded' = TRUE))
        /\ UNCHANGED <<evalMode, evalVectors, found, answered, report>>
    BY <1>2 DEF Undo, resultVars
  <2>2. RowsKept'
    BY <2>1 DEF EvalInv, RowsKept
  <2>3. evalAt' \in Over \cup {"undo"} /\ evalAt \notin Over
    BY <2>1 DEF Over
  <2> QED
    BY <2>1, <2>2, <2>3, EvalLeaves DEF EvalInv
<1>3. CASE RunFails
  <2>1. /\ evalAt \in {"search", "answer", "judge", "report"} /\ evalAt' = "sweep" /\ rows' = rows
        /\ UNCHANGED <<evalMode, evalVectors, found, answered, report>>
    BY <1>3 DEF RunFails, resultVars, fixtureVars
  <2>2. RowsKept'
    BY <2>1 DEF EvalInv, RowsKept
  <2>3. evalAt' \in Over \cup {"undo"} /\ evalAt \notin Over
    BY <2>1 DEF Over
  <2> QED
    BY <2>1, <2>2, <2>3, EvalLeaves DEF EvalInv
<1>4. CASE Sweep
  <2>1. /\ evalAt \in {"sweep", "sweepUser"} /\ evalAt' \in {"sweepUser", "done", "failed"}
        /\ UNCHANGED <<evalMode, evalVectors, found, answered, report>>
    BY <1>4 DEF Sweep, resultVars
  <2>2. RowsKept'
    <3>1. \/ evalAt = "sweep" /\ rows' = {"user"} /\ evalAt' = "sweepUser"
          \/ evalAt = "sweepUser" /\ rows' = {} /\ evalAt' \in {"done", "failed"}
          \/ rows' \in {rows, {"user"}, {}} /\ evalAt' = "failed" /\ stranded' = TRUE
      BY <1>4 DEF Sweep
    <3> QED
      BY <3>1 DEF EvalInv, RowsKept
  <2>3. evalAt' \in Over \cup {"undo"} /\ evalAt' \in Over
    BY <2>1 DEF Over
  <2> QED
    BY <2>1, <2>2, <2>3, EvalLeaves DEF EvalInv
<1>5. CASE Kill
  <2>1. /\ evalAt' = "failed" /\ stranded' = TRUE /\ rows' = rows
        /\ UNCHANGED <<evalMode, evalVectors, found, answered, report>>
    BY <1>5 DEF Kill, resultVars, fixtureVars
  <2>2. RowsKept'
    BY <2>1 DEF EvalInv, RowsKept
  <2>3. evalAt' \in Over \cup {"undo"} /\ evalAt' \in Over
    BY <2>1 DEF Over
  <2> QED
    BY <2>1, <2>2, <2>3, EvalLeaves DEF EvalInv
<1> QED
  BY <1>1, <1>2, <1>3, <1>4, <1>5

(* What the current case stands on. *)
LEMMA CaseFacts ==
  ASSUME turn \in 1..Len(EvalCases)
  PROVE  /\ turn \in Nat \ {0} /\ ThisCase.document \in DOMAIN Corpus /\ ThisCase.shouldAnswer \in BOOLEAN
         /\ IsFiniteSet(ThisCase.pages) /\ CountedChunks(Chunks)
         /\ \A i, j \in DOMAIN Chunks : Chunks[i].hash = Chunks[j].hash => i = j
         /\ SmallK \in Nat /\ LargeK \in Nat /\ SmallK <= LargeK
<1>1. turn \in DOMAIN EvalCases
  BY CasesAre
<1>2. ThisCase.document \in DOMAIN Corpus /\ ThisCase.shouldAnswer \in BOOLEAN /\ IsFiniteSet(ThisCase.pages)
  BY <1>1, EvaluationAssumption DEF ThisCase
<1>3. /\ Len(Chunks) \in Nat /\ DOMAIN Chunks = 1..Len(Chunks)
      /\ \A i \in DOMAIN Chunks : Chunks[i].tokens \in Nat
      /\ \A i, j \in DOMAIN Chunks : Chunks[i].hash = Chunks[j].hash => i = j
  BY <1>2, EvaluationAssumption DEF Chunks
<1>4. CountedChunks(Chunks)
  BY <1>3 DEF CountedChunks
<1> QED
  BY <1>1, <1>2, <1>3, <1>4, EvaluationAssumption

LEMMA SearchStep ==
  ASSUME EvalInv, Search
  PROVE  EvalInv'
<1>1. /\ evalAt = "search" /\ rows' = rows /\ evalAt' \in {"search", "report", "answer"}
      /\ UNCHANGED <<evalMode, evalVectors, answered, report>>
  BY DEF Search, fixtureVars, NextCase
<1>2. turn \in 1..Len(EvalCases)
  BY <1>1 DEF EvalInv, EvalTyped, Running
<1> DEFINE of == evalVectors[ThisCase.document]
<1>3. of \subseteq DOMAIN Chunks
  BY <1>2, CaseFacts DEF EvalInv, EvalTyped, Chunks
<1>4. PICK n \in Nat : evalRank' \in [1..n -> of] /\ \A i, j \in 1..n : evalRank'[i] = evalRank'[j] => i = j
  <2> DEFINE n == IF Cardinality(of) < CandidateLimit THEN Cardinality(of) ELSE CandidateLimit
  <2>1. Cardinality(of) \in Nat
    <3>1. DOMAIN Chunks = 1..Len(Chunks) /\ Len(Chunks) \in Int /\ 1 \in Int
      BY <1>2, CaseFacts DEF CountedChunks
    <3>2. IsFiniteSet(DOMAIN Chunks)
      BY <3>1, FS_Interval
    <3> QED
      BY <1>3, <3>2, FS_Subset, FS_CardinalityType
  <2>2. n \in Nat
    BY <2>1, GroundingAssumption
  <2>3. evalRank' \in Rankings(of)
    BY DEF Search
  <2>4. evalRank' \in [1..n -> of] /\ \A i, j \in 1..n : evalRank'[i] = evalRank'[j] => i = j
    BY <2>3 DEF Rankings
  <2> QED
    BY <2>2, <2>4
<1>5. Len(evalRank') = n /\ evalRank' \in [1..n -> DOMAIN Chunks]
  BY <1>3, <1>4
<1> DEFINE pages == RankedPages(evalRank')
           m == [case |-> turn,
                 small |-> RecallAtK(pages, ThisCase.pages, SmallK),
                 large |-> RecallAtK(pages, ThisCase.pages, LargeK),
                 first |-> FirstHit(pages, ThisCase.pages)]
<1>6. m \in Measures
  <2>1. PICK C : pages \in Seq(C)
    BY <1>5, RankedPagesAre
  <2> DEFINE small == RecallAtK(pages, ThisCase.pages, SmallK)
             large == RecallAtK(pages, ThisCase.pages, LargeK)
             first == FirstHit(pages, ThisCase.pages)
  <2> HIDE DEF pages
  <2>2. IsFiniteSet(ThisCase.pages) /\ SmallK \in Nat /\ LargeK \in Nat /\ SmallK <= LargeK /\ LargeK <= LargeK /\ turn \in Nat
    BY <1>2, CaseFacts
  <2>3. small \in Nat /\ first \in Nat /\ small <= large /\ (small > 0 <=> first \in 1..SmallK)
    BY <2>1, <2>2, RecallIs
  <2>4. large \in Nat /\ (large > 0 <=> first \in 1..LargeK)
    BY <2>1, <2>2, RecallIs
  <2> HIDE DEF small, large, first
  <2>5. m = [case |-> turn, small |-> small, large |-> large, first |-> first]
    BY DEF small, large, first
  <2> QED
    BY <2>2, <2>3, <2>4, <2>5 DEF Measures
<1>7. found' = IF ~ThisCase.shouldAnswer THEN found ELSE Append(found, m)
  BY DEF Search
<1> HIDE DEF m, pages
<1>8. found \in Seq(Measures) /\ Len(found) = Cardinality(Asked(turn - 1)) /\ Len(answered) = IF evalMode = "full" THEN turn - 1 ELSE 0
  BY <1>1 DEF EvalInv, EvalTyped, CasesCounted, Running, Searched, AnsweredTill
<1>9. found' \in Seq(Measures) /\ Len(found') = Cardinality(Asked(turn))
  <2>1. turn - 1 \in Nat /\ (turn - 1) + 1 = turn /\ ThisCase.shouldAnswer \in BOOLEAN
    BY <1>2, CaseFacts
  <2>2. /\ ThisCase.shouldAnswer => Cardinality(Asked(turn)) = Cardinality(Asked(turn - 1)) + 1
        /\ ~ThisCase.shouldAnswer => Cardinality(Asked(turn)) = Cardinality(Asked(turn - 1))
    BY <2>1, AskedMore DEF ThisCase
  <2>3. CASE ThisCase.shouldAnswer
    <3>1. found' = Append(found, m)
      BY <1>7, <2>3
    <3>2. found' \in Seq(Measures) /\ Len(found') = Len(found) + 1
      BY <1>6, <1>8, <3>1, AppendProperties, SMTT(60)
    <3> QED
      BY <1>8, <2>2, <2>3, <3>2, SMTT(60)
  <2>4. CASE ~ThisCase.shouldAnswer
    BY <1>7, <1>8, <2>2, <2>4, SMTT(60)
  <2> QED
    BY <2>1, <2>3, <2>4
<1>10. RowsKept'
  BY <1>1 DEF EvalInv, RowsKept
<1>11. report = NoReport
  BY <1>1, SMTT(60) DEF EvalInv, CasesCounted, Over
<1>12. ReportCovers'
  BY <1>1, <1>11 DEF ReportCovers
<1>13. CASE evalMode = "full"
  <2>1. evalPicks' = InOrder(EvalPicked(evalRank')) /\ evalAt' = "answer" /\ turn' = turn
    BY <1>13 DEF Search
  <2>2. EvalTyped'
    BY <1>1, <1>2, <1>9, <2>1, SMTT(60) DEF EvalInv, EvalTyped, Ingesting, Running
  <2>3. Searched' = turn /\ AnsweredTill' = turn - 1
    BY <2>1 DEF Searched, AnsweredTill
  <2>4. CasesCounted'
    BY <1>1, <1>8, <1>9, <1>11, <1>13, <2>1, <2>3 DEF CasesCounted, Ingesting, Running
  <2>5. EvalPicked(evalRank') = Picked(Chunks, evalRank', Len(evalRank'))
    <3> DEFINE rank == evalRank'
    <3>1. /\ n \in Nat /\ Len(rank) = n /\ rank \in [1..n -> DOMAIN Chunks]
          /\ \A i, j \in 1..n : rank[i] = rank[j] => i = j
          /\ \A i, j \in DOMAIN Chunks : Chunks[i].hash = Chunks[j].hash => i = j
      BY <1>2, <1>4, <1>5, CaseFacts, SMTT(60)
    <3> HIDE DEF rank
    <3>2. EvalPicked(rank) = Picked(Chunks, rank, Len(rank))
      BY <3>1, EvalPicksAre, SMTT(60)
    <3> QED
      BY <3>2 DEF rank
  <2>6. Chunks' = Chunks
    BY <2>1 DEF Chunks, ThisCase
  <2>7. SameSources'
    BY <2>1, <2>5, <2>6 DEF SameSources
  <2> QED
    BY <1>10, <1>12, <2>2, <2>4, <2>7, SMTT(60) DEF EvalInv
<1>14. CASE evalMode # "full"
  <2>1. NextCase
    BY <1>14 DEF Search
  <2>2. /\ evalAt' \in {"search", "report"} /\ Searched' = turn /\ AnsweredTill' = turn
        /\ evalAt' = "search" => turn' \in 1..Len(EvalCases)
    BY <1>2, <2>1, CaseDone, SMTT(60)
  <2>3. EvalTyped'
    BY <1>1, <1>9, <2>2, SMTT(60) DEF EvalInv, EvalTyped, Ingesting, Running
  <2>4. CasesCounted'
    BY <1>1, <1>8, <1>9, <1>11, <1>14, <2>2, SMTT(60) DEF CasesCounted, Ingesting, Running
  <2>5. SameSources'
    BY <2>2 DEF SameSources
  <2> QED
    BY <1>10, <1>12, <2>3, <2>4, <2>5 DEF EvalInv
<1> QED
  BY <1>13, <1>14

(* A verdict that ends a case. *)
LEMMA VerdictStep ==
  ASSUME EvalInv, evalAt \in {"answer", "judge"}, NextCase, NEW a \in Verdicts, answered' = Append(answered, a),
         UNCHANGED <<evalMode, evalVectors, rows, found, report>>
  PROVE  EvalInv'
<1>1. /\ turn \in 1..Len(EvalCases) /\ evalMode = "full" /\ report = NoReport /\ turn \in Nat \ {0}
      /\ Searched = turn /\ AnsweredTill = turn - 1
  <2>1. turn \in 1..Len(EvalCases) /\ evalMode = "full" /\ report = NoReport
    BY DEF EvalInv, EvalTyped, CasesCounted, Running, Over
  <2> QED
    BY <2>1 DEF Searched, AnsweredTill
<1>2. /\ evalAt' \in {"search", "report"} /\ Searched' = turn /\ AnsweredTill' = turn
      /\ evalAt' = "search" => turn' \in 1..Len(EvalCases)
  BY <1>1, CaseDone, SMTT(60)
<1>3. Len(found) = Cardinality(Asked(turn)) /\ Len(answered) = turn - 1
  BY <1>1 DEF EvalInv, CasesCounted, Running
<1>4. answered' \in Seq(Verdicts) /\ Len(answered') = turn
  <2>1. answered \in Seq(Verdicts)
    BY DEF EvalInv, EvalTyped
  <2>2. answered' \in Seq(Verdicts) /\ Len(answered') = Len(answered) + 1
    BY <2>1, AppendProperties, SMTT(60)
  <2> QED
    BY <1>1, <1>3, <2>2, SMTT(60)
<1>5. EvalTyped'
  BY <1>2, <1>4, SMTT(60) DEF EvalInv, EvalTyped, Ingesting, Running
<1>6. RowsKept'
  BY <1>2 DEF EvalInv, RowsKept
<1>7. CasesCounted'
  BY <1>1, <1>2, <1>3, <1>4, SMTT(60) DEF CasesCounted, Ingesting, Running
<1>8. SameSources' /\ ReportCovers'
  BY <1>1, <1>2 DEF SameSources, ReportCovers
<1> QED
  BY <1>5, <1>6, <1>7, <1>8, SMTT(60) DEF EvalInv

LEMMA AnswerStep ==
  ASSUME EvalInv, AnswerCase
  PROVE  EvalInv'
<1>1. /\ evalAt = "answer" /\ UNCHANGED <<evalMode, evalVectors, rows, found, report>>
  BY DEF AnswerCase, fixtureVars
<1>2. PICK refused \in BOOLEAN, claims \in ClaimSets : outcome' = VerdictOn(refused, claims)
  BY ZenonT(60) DEF AnswerCase
<1> DEFINE valid == {c \in claims : Accepted(Chunks, evalPicks, c[1], c[2])}
<1>3. /\ Cardinality(claims) \in Nat /\ Cardinality(valid) \in Nat
      /\ Cardinality(valid) <= Cardinality(claims)
  <2>1. IsFiniteSet(claims)
    <3>1. CASE claims \in {{}}
      BY <3>1, FS_EmptySet
    <3>2. CASE claims \in {{<<s, q>>} : s \in 1..(MaxSources + 1), q \in Quotes}
      <4>1. PICK s \in 1..(MaxSources + 1), q \in Quotes : claims = {<<s, q>>}
        BY <3>2
      <4> QED
        BY <4>1, FS_Singleton
    <3> QED
      BY <3>1, <3>2 DEF ClaimSets
  <2>2. valid \in SUBSET claims
    OBVIOUS
  <2> HIDE DEF valid
  <2> QED
    BY <2>1, <2>2, FS_Subset, FS_CardinalityType, SMTT(60)
<1>4. /\ outcome' \in [refused : BOOLEAN, claimed : Nat, valid : Nat, judged : BOOLEAN]
      /\ outcome'.refused = refused /\ outcome'.judged = FALSE /\ outcome'.valid <= outcome'.claimed
  <2>1. outcome' = [refused |-> refused, claimed |-> Cardinality(claims), judged |-> FALSE, valid |-> Cardinality(valid)]
    BY <1>2 DEF VerdictOn
  <2> HIDE DEF valid
  <2> QED
    BY <1>3, <2>1, SMTT(60)
<1> HIDE DEF valid
<1>5. CASE refused = TRUE
  <2>1. answered' = Append(answered, outcome') /\ NextCase
    BY <1>4, <1>5 DEF AnswerCase
  <2>2. PICK a : a = outcome'
    OBVIOUS
  <2>3. /\ a \in [refused : BOOLEAN, claimed : Nat, valid : Nat, judged : BOOLEAN]
        /\ a.valid <= a.claimed /\ a.refused = TRUE /\ a.judged = FALSE
    BY ONLY <1>4, <1>5, <2>2
  <2>4. a.judged <=> ~a.refused
    BY ONLY <2>3, Zenon
  <2>5. a \in Verdicts
    BY <2>3, <2>4, SMTT(60) DEF Verdicts
  <2> QED
    BY <1>1, <2>1, <2>2, <2>5, VerdictStep, SMTT(60)
<1>6. CASE refused = FALSE
  <2>1. evalAt' = "judge" /\ answered' = answered /\ turn' = turn
    BY <1>4, <1>6, SMTT(60) DEF AnswerCase
  <2>2. EvalTyped'
    BY <1>1, <2>1, SMTT(60) DEF EvalInv, EvalTyped, Ingesting, Running
  <2>3. RowsKept'
    BY <1>1, <2>1 DEF EvalInv, RowsKept
  <2>4. Searched' = Searched /\ AnsweredTill' = AnsweredTill
    BY <1>1, <2>1, SMTT(60) DEF Searched, AnsweredTill
  <2>5. report = NoReport
    BY <1>1, SMTT(60) DEF EvalInv, CasesCounted, Over
  <2>6. CasesCounted'
    BY <1>1, <1>4, <1>6, <2>1, <2>4, <2>5, SMTT(60) DEF EvalInv, CasesCounted, Ingesting, Running
  <2>7. SameSources' /\ ReportCovers'
    BY <1>1, <2>1, <2>5, SMTT(60) DEF SameSources, ReportCovers
  <2> QED
    BY <2>2, <2>3, <2>6, <2>7, SMTT(60) DEF EvalInv
<1>7. refused = TRUE \/ refused = FALSE
  BY Zenon
<1> QED
  BY <1>5, <1>6, <1>7

LEMMA JudgeStep ==
  ASSUME EvalInv, Judge
  PROVE  EvalInv'
<1>1. /\ evalAt = "judge" /\ NextCase /\ UNCHANGED <<evalMode, evalVectors, rows, found, report>>
      /\ answered' = Append(answered, [outcome EXCEPT !.judged = TRUE])
  BY DEF Judge, fixtureVars
<1>2. /\ outcome.refused = FALSE /\ outcome.valid <= outcome.claimed
      /\ outcome \in [refused : BOOLEAN, claimed : Nat, valid : Nat, judged : BOOLEAN]
  BY <1>1 DEF EvalInv, CasesCounted
<1>3. PICK a : a = [outcome EXCEPT !.judged = TRUE]
  OBVIOUS
<1>4. a \in Verdicts
  BY <1>2, <1>3 DEF Verdicts
<1> QED
  BY <1>1, <1>3, <1>4, VerdictStep, SMTT(60)

LEMMA ReportStep ==
  ASSUME EvalInv, WriteReport
  PROVE  EvalInv'
<1>1. /\ evalAt = "report" /\ evalAt' = "sweep"
      /\ UNCHANGED <<evalMode, evalVectors, rows, turn, found, answered>>
  BY DEF WriteReport, fixtureVars
<1>2. /\ report'.cases = Len(found) /\ report'.answers = Len(answered)
      /\ report'.valid = SumOver([i \in DOMAIN answered |-> answered[i].valid])
      /\ report'.claimed = SumOver([i \in DOMAIN answered |-> answered[i].claimed])
      /\ report'.judged = Cardinality({i \in DOMAIN answered : answered[i].judged})
  BY DEF WriteReport
<1>3. EvalTyped'
  BY <1>1 DEF EvalInv, EvalTyped, Ingesting, Running, Over
<1>4. RowsKept'
  BY <1>1 DEF EvalInv, RowsKept
<1>5. CasesCounted'
  BY <1>1 DEF CasesCounted, Ingesting, Running, Over
<1>6. SameSources'
  BY <1>1 DEF SameSources
<1>7. ReportCovers'
  <2>1. /\ Len(found) = Cardinality(Asked(Len(EvalCases)))
        /\ Len(answered) = IF evalMode = "full" THEN Len(EvalCases) ELSE 0
    BY <1>1 DEF EvalInv, CasesCounted, Running, Searched, AnsweredTill
  <2>2. Asked(Len(EvalCases)) = {i \in DOMAIN EvalCases : EvalCases[i].shouldAnswer}
    BY CasesAre DEF Asked
  <2>3. answered \in Seq(Verdicts)
    BY DEF EvalInv, EvalTyped
  <2>4. /\ SumOver([i \in DOMAIN answered |-> answered[i].valid]) <= SumOver([i \in DOMAIN answered |-> answered[i].claimed])
        /\ Cardinality({i \in DOMAIN answered : answered[i].judged})
             = Len(answered) - Cardinality({i \in DOMAIN answered : answered[i].refused})
    BY <2>3, VerdictsAdd
  <2>5. report'.valid <= report'.claimed
    BY ONLY <1>2, <2>4
  <2>6. report'.judged = report'.answers - Cardinality({i \in DOMAIN answered : answered[i].refused})
    BY ONLY <1>2, <2>4, SMTT(60)
  <2>7. report'.cases = Cardinality({i \in DOMAIN EvalCases : EvalCases[i].shouldAnswer})
    BY ONLY <1>2, <2>1, <2>2, SMTT(60)
  <2>8. report'.answers = IF evalMode' = "full" THEN Len(EvalCases) ELSE 0
    BY <1>1, <1>2, <2>1, SMTT(60)
  <2> QED
    BY <1>1, <2>5, <2>6, <2>7, <2>8 DEF ReportCovers
<1> QED
  BY <1>3, <1>4, <1>5, <1>6, <1>7, SMTT(60) DEF EvalInv

LEMMA EvalStep == EvalInv /\ [EvaluationNext]_evalVars => EvalInv'
<1> SUFFICES ASSUME EvalInv, [EvaluationNext]_evalVars PROVE EvalInv'
  OBVIOUS
<1>1. CASE InsertOwner \/ InsertDocument \/ InsertChunks
  BY <1>1, IngestSteps
<1>2. CASE IngestFails \/ Undo \/ RunFails \/ Sweep \/ Kill
  BY <1>2, EndSteps
<1>3. CASE Search
  BY <1>3, SearchStep
<1>4. CASE AnswerCase
  BY <1>4, AnswerStep
<1>5. CASE Judge
  BY <1>5, JudgeStep
<1>6. CASE WriteReport
  BY <1>6, ReportStep
<1>7. CASE UNCHANGED evalVars
  <2> USE <1>7 DEF evalVars
  <2>1. EvalTyped' /\ RowsKept'
    BY DEF EvalInv, EvalTyped, RowsKept
  <2>2. CasesCounted'
    BY DEF EvalInv, CasesCounted, Searched, AnsweredTill
  <2>3. SameSources'
    BY DEF EvalInv, SameSources, Chunks, ThisCase
  <2>4. ReportCovers'
    BY DEF EvalInv, ReportCovers
  <2> QED
    BY <2>1, <2>2, <2>3, <2>4 DEF EvalInv
<1> QED
  BY <1>1, <1>2, <1>3, <1>4, <1>5, <1>6, <1>7, SMTT(60) DEF EvaluationNext

LEMMA EvalMeans == EvalInv => EvaluationSound
<1> SUFFICES ASSUME EvalInv PROVE EvaluationSound
  OBVIOUS
<1>1. FixtureRemoved
  BY DEF EvalInv, RowsKept, FixtureRemoved
<1>2. MetricsAgree
  <2>1. \A i \in DOMAIN found : found[i] \in Measures
    BY DEF EvalInv, EvalTyped
  <2> QED
    BY <2>1 DEF MetricsAgree, Measures
<1> QED
  BY <1>1, <1>2, SMTT(60) DEF EvalInv, EvaluationSound

(* For every document, ranking, conversation and quotation, and for every     *)
(* dataset, failure and kill: the sources of an answer keep the limits of     *)
(* number, tokens and similarity with no text twice and leave out nothing     *)
(* that fits, the history is the longest end the budget holds, quotations are *)
(* checked against the text they name; the evaluation measures these very     *)
(* sources, its measures agree, its report covers all cases, and no row of it *)
(* stays behind unless a deletion failed or the process was killed            *)
(* (retrieval.ts, citations.ts, packages/eval).                               *)
THEOREM EvidenceAlwaysSound == GroundSpec /\ EvaluationSpec => []EvidenceSound
<1>1. GroundSpec => []GroundingSound
  BY GroundHolds, SMTT(60)
<1>2. EvaluationInit => EvalInv
  BY EvalInitHolds
<1>3. EvalInv /\ [EvaluationNext]_evalVars => EvalInv'
  BY EvalStep
<1>4. EvalInv => EvaluationSound
  BY EvalMeans
<1>5. EvaluationSpec => []EvaluationSound
  BY <1>2, <1>3, <1>4, PTL DEF EvaluationSpec
<1>6. GroundingSound /\ EvaluationSound => EvidenceSound
  BY DEF EvidenceSound
<1> QED
  BY <1>1, <1>5, <1>6, PTL
=============================================================================

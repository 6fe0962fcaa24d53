---------------------------- MODULE RateLimiter ----------------------------
(***************************************************************************)
(* internal/server/ratelimit.go: buckets are made on first use, refilled   *)
(* when they are used, and evicted when a sweep finds them idle. Shown to  *)
(* implement TokenBucket, where every bucket exists for ever and fills     *)
(* with every second. Tokens are counted exactly, in 1/Minute, where the   *)
(* code has float64.                                                       *)
(***************************************************************************)
EXTENDS Integers

CONSTANTS
    Clients, Budget, Minute,
    BucketIdleTTL,          \* bucketIdleTTL
    BucketSweepInterval,    \* bucketSweepInterval
    MaxClock                \* bound on the clock

ASSUME RateLimiterAssumption ==
    /\ Budget \in [{"r", "w"} -> Int]
    /\ Minute \in Nat \ {0}
    /\ BucketIdleTTL \in Nat /\ BucketIdleTTL >= Minute
    /\ BucketSweepInterval \in Nat
    /\ MaxClock \in Nat

VARIABLES
    buckets,        \* [tokens, lastRefill] of a key, or Evicted
    lastSweep,
    seconds,        \* the clock
    answer          \* the last answer of allow

rateVars == <<buckets, lastSweep, seconds, answer>>

RateKeys == Clients \X {"r", "w"}
Evicted == [tokens |-> 0, lastRefill |-> 0 - 1]
Present(k) == buckets[k] # Evicted

Limit(k) == Budget[k[2]]

\* (mutant) The sweep forgets every bucket that was not used this second.
BucketIdleAtOnce(b) == seconds > b.lastRefill

BucketIdle(b) == seconds - b.lastRefill > BucketIdleTTL

\* The buckets once sweep has run.
sweep == IF seconds - lastSweep < BucketSweepInterval THEN buckets
         ELSE [k \in RateKeys |-> IF Present(k) /\ BucketIdle(buckets[k]) THEN Evicted ELSE buckets[k]]

\* (mutant) A bucket that is left alone fills beyond a minute's budget.
RefillUncapped(k, b) ==
    [tokens |-> b.tokens + (seconds - b.lastRefill) * Limit(k), lastRefill |-> seconds]

refilled(k, b) ==
    LET sum == b.tokens + (seconds - b.lastRefill) * Limit(k)
        cap == Limit(k) * Minute
    IN  [tokens |-> IF sum > cap THEN cap ELSE sum, lastRefill |-> seconds]

\* The bucket allow works on: swept, created when missing, refilled.
CurrentBucket(k) ==
    IF sweep[k] = Evicted THEN [tokens |-> Limit(k) * Minute, lastRefill |-> seconds]
    ELSE refilled(k, sweep[k])

allow(k) ==
    LET b == CurrentBucket(k)
        ok == b.tokens >= Minute
        left == IF ok THEN b.tokens - Minute ELSE b.tokens
    IN  /\ Limit(k) > 0
        /\ buckets' = [sweep EXCEPT ![k] = [b EXCEPT !.tokens = left]]
        /\ lastSweep' = IF seconds - lastSweep < BucketSweepInterval THEN lastSweep ELSE seconds
        /\ answer' = [key |-> k, ok |-> ok, left |-> left]
        /\ UNCHANGED seconds

\* A budget of zero or less: no bucket, no sweep.
allowUnlimited(k) ==
    /\ Limit(k) <= 0
    /\ answer' = [key |-> k, ok |-> TRUE, left |-> 0 - 1]
    /\ UNCHANGED <<buckets, lastSweep, seconds>>

RateTick ==
    /\ seconds < MaxClock
    /\ seconds' = seconds + 1
    /\ UNCHANGED <<buckets, lastSweep, answer>>

\* newRateLimiter. lastSweep is the zero time, long ago.
RateInit ==
    /\ buckets = [k \in RateKeys |-> Evicted]
    /\ lastSweep = 0 - BucketSweepInterval
    /\ seconds = 0
    /\ answer = [key |-> <<>>, ok |-> TRUE, left |-> 0 - 1]

RateNext == RateTick \/ \E k \in RateKeys : allow(k) \/ allowUnlimited(k)

RateSpec == RateInit /\ [][RateNext]_rateVars

-----------------------------------------------------------------------------
RateTypeOK ==
    /\ seconds \in 0..MaxClock
    /\ lastSweep \in (0 - BucketSweepInterval)..seconds
    /\ buckets \in [RateKeys -> [tokens : Nat, lastRefill : Nat \cup {0 - 1}]]
    /\ \A k \in RateKeys : Present(k) =>
        /\ Limit(k) > 0
        /\ buckets[k].tokens \in 0..(Limit(k) * Minute)
        /\ buckets[k].lastRefill \in 0..seconds

\* What a bucket would hold if it were refilled now. A bucket that is not there is
\* full, or empty where there is no limit.
levelNow == [k \in RateKeys |->
    IF Limit(k) <= 0 THEN 0
    ELSE IF Present(k) THEN refilled(k, buckets[k]).tokens ELSE Limit(k) * Minute]

TB == INSTANCE TokenBucket WITH level <- levelNow

\* Refilling on use, and evicting an idle bucket, cannot be told from buckets that
\* exist for ever: "An evicted key starts again with a full bucket, which is what
\* it would have refilled to anyway". Every answer of allow is the promised one.
ImplementsTokenBucket == TB!BucketSpec
=============================================================================

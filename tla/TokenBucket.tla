---------------------------- MODULE TokenBucket ----------------------------
(***************************************************************************)
(* What the rate limiter promises (comments of                             *)
(* internal/server/ratelimit.go): every client address has two buckets,    *)
(* one for reads and one for writes, "each holding one minute of its own   *)
(* budget", that fill steadily and are never lost.                         *)
(***************************************************************************)
EXTENDS Integers

CONSTANTS
    Clients,        \* client addresses
    Budget,         \* requests a minute, for "r" and "w"; none when <= 0
    Minute          \* seconds in a minute: 60

Classes == {"r", "w"}
BucketKeys == Clients \X Classes

Capped(x, limit) == IF x > limit THEN limit ELSE x

\* Levels are counted in 1/Minute of a token: a second adds Budget, a request
\* takes Minute, a full bucket holds Budget * Minute. A class that is not limited
\* has no bucket, which is one that neither holds nor gets anything.
Limited(k) == Budget[k[2]] > 0
Rate(k) == IF Limited(k) THEN Budget[k[2]] ELSE 0
Full(k) == Rate(k) * Minute

VARIABLES
    level,      \* level of every bucket
    answer      \* the last answer of allow: to whom, whether it was let through, what remains

bucketVars == <<level, answer>>

Answer(k, ok, left) == [key |-> k, ok |-> ok, left |-> left]

BucketInit ==
    /\ level = [k \in BucketKeys |-> Full(k)]
    /\ answer = Answer(<<>>, TRUE, 0 - 1)

\* A second passes.
Refill ==
    /\ level' = [k \in BucketKeys |-> Capped(level[k] + Rate(k), Full(k))]
    /\ UNCHANGED answer

\* A request is let through exactly when a whole token is there.
Request(k) ==
    /\ Limited(k)
    /\ IF level[k] >= Minute
       THEN /\ level' = [level EXCEPT ![k] = @ - Minute]
            /\ answer' = Answer(k, TRUE, level[k] - Minute)
       ELSE /\ UNCHANGED level
            /\ answer' = Answer(k, FALSE, level[k])

Unlimited(k) ==
    /\ ~Limited(k)
    /\ answer' = Answer(k, TRUE, 0 - 1)
    /\ UNCHANGED level

BucketNext == Refill \/ \E k \in BucketKeys : Request(k) \/ Unlimited(k)

BucketSpec == BucketInit /\ [][BucketNext]_bucketVars
=============================================================================

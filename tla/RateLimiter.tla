----------------------------- MODULE RateLimiter -----------------------------
(***************************************************************************)
(* sentinel_os/lua/rate_limit.lua behind rate_limiter_v2.py: one token      *)
(* bucket per caller in Redis, shared by every ingress process and refilled *)
(* only when it is next used.                                              *)
(*                                                                         *)
(* Tokens are counted in the units one tick refills, so that the fractions  *)
(* of the code are whole numbers here (floats and their text form in the    *)
(* Redis hash are taken as exact).  A stored bucket is its tokens and the   *)
(* ticks since updated_at_ms; its key expires TTL ticks after the last hit. *)
(*                                                                         *)
(* `ideal` and `wait` are observers: the bucket as it would be if it were   *)
(* refilled on every tick and never expired, and the ticks left of the last *)
(* retry_after_ms a caller was given.                                      *)
(***************************************************************************)
EXTENDS Naturals

CONSTANTS
  Principals,  \* validated API keys
  Capacity,    \* burst_capacity, in units
  Rate,        \* refill_rate_per_ms: units per tick
  Cost,        \* units one request consumes
  TTL          \* bucket_ttl_ms, in ticks

(* The code does not compare the time to live with the time a bucket needs  *)
(* to fill; its defaults (300 s, 20 tokens, 100 per minute) satisfy this.   *)
ASSUME RateAssumption ==
  /\ Capacity \in Nat /\ Rate \in Nat \ {0} /\ Cost \in Nat \ {0} /\ TTL \in Nat
  /\ Cost <= Capacity
  /\ Rate * TTL >= Capacity

VARIABLES
  bucket,  \* 'tokens' of each stored bucket
  age,     \* ticks since its 'updated_at_ms'; TTL when the key is gone
  ideal,   \* observer: the eagerly refilled bucket
  wait     \* observer: [left, live], what is left of the last retry-after

bucketVars == <<bucket, age, ideal, wait>>

BucketInit ==
  /\ bucket = [p \in Principals |-> Capacity]
  /\ age = [p \in Principals |-> TTL]
  /\ ideal = [p \in Principals |-> Capacity]
  /\ wait = [p \in Principals |-> [left |-> 0, live |-> FALSE]]

AtMost(n, max) == IF n < max THEN n ELSE max

\* HMGET and the refill: a missing bucket starts full.
Refilled(p) ==
  IF age[p] = TTL THEN Capacity
  ELSE AtMost(Capacity, bucket[p] + age[p] * Rate)

Allowed(p) == Refilled(p) >= Cost

\* Seeded fault: the wait is rounded down.
RetryAfterFloor(p) == (Cost - Refilled(p)) \div Rate

\* retry_after_ms of a denied request: math.ceil(deficit / refill_rate).
RetryAfter(p) == (Cost - Refilled(p) + Rate - 1) \div Rate

\* Seeded fault: a denied request stores the refilled tokens but leaves
\* updated_at_ms alone.
CheckStale(p) ==
  /\ bucket' = [bucket EXCEPT ![p] = IF Allowed(p) THEN Refilled(p) - Cost
                                     ELSE Refilled(p)]
  /\ age' = [age EXCEPT ![p] = IF Allowed(p) \/ @ = TTL THEN 0 ELSE @]
  /\ ideal' = [ideal EXCEPT ![p] = IF Allowed(p) /\ @ >= Cost THEN @ - Cost
                                   ELSE @]
  /\ wait' = [wait EXCEPT ![p] =
                IF Allowed(p) THEN [left |-> 0, live |-> FALSE]
                ELSE [left |-> RetryAfter(p), live |-> TRUE]]

\* The whole script: refill, consume or deny, store, restart the expiry.
Check(p) ==
  /\ bucket' = [bucket EXCEPT ![p] = IF Allowed(p) THEN Refilled(p) - Cost
                                     ELSE Refilled(p)]
  /\ age' = [age EXCEPT ![p] = 0]
  /\ ideal' = [ideal EXCEPT ![p] = IF Allowed(p) /\ @ >= Cost THEN @ - Cost
                                   ELSE @]
  /\ wait' = [wait EXCEPT ![p] =
                IF Allowed(p) THEN [left |-> 0, live |-> FALSE]
                ELSE [left |-> RetryAfter(p), live |-> TRUE]]

\* The Redis clock, the key expiry, and the ideal bucket's own refill.
BucketTick ==
  /\ age' = [p \in Principals |-> AtMost(age[p] + 1, TTL)]
  /\ ideal' = [p \in Principals |-> AtMost(Capacity, ideal[p] + Rate)]
  /\ wait' = [p \in Principals |->
                [wait[p] EXCEPT !.left = IF @ = 0 THEN 0 ELSE @ - 1]]
  /\ UNCHANGED bucket

\* Redis starts again without its data: every bucket is full, the ideal one
\* too, and nobody is waiting for a token any more.
BucketsLost ==
  /\ age' = [p \in Principals |-> TTL]
  /\ ideal' = [p \in Principals |-> Capacity]
  /\ wait' = [p \in Principals |-> [left |-> 0, live |-> FALSE]]
  /\ UNCHANGED bucket

-----------------------------------------------------------------------------
BucketTypeOK ==
  /\ bucket \in [Principals -> 0..Capacity]
  /\ age \in [Principals -> 0..TTL]
  /\ ideal \in [Principals -> 0..Capacity]
  /\ wait \in [Principals -> [left : 0..Cost, live : BOOLEAN]]

(* The lazy, expiring bucket of rate_limit.lua grants exactly what a bucket *)
(* refilled on every tick would: neither denials by several ingress         *)
(* processes in a row, nor refills split over many hits, nor an expiry      *)
(* after a pause give a caller a token more or a token less.  A Redis that  *)
(* lost its data starts both with a full bucket.                            *)
LazyEqualsEager == \A p \in Principals : Refilled(p) = ideal[p]

(* "real time until 1 token is available" (rate_limit.lua line 16): once    *)
(* the retry_after_ms a caller was given has passed and nothing else spent  *)
(* from its bucket, a token is there; before, none is.                      *)
RetryAfterHonest ==
  \A p \in Principals : wait[p].live => (wait[p].left = 0 <=> Allowed(p))
=============================================================================

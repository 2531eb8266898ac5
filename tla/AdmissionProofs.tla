-------------------------- MODULE AdmissionProofs --------------------------
(* Proofs about what is let through, for every value of the constants: the  *)
(* circuit breaker, the authorization of an action, the rate limits and the *)
(* answers of the ingress.                                                  *)
EXTENDS Ingress, CircuitBreaker, ActionGate, SequenceTheorems,
        WellFoundedInduction, TLAPS

-----------------------------------------------------------------------------
(* The circuit breaker. *)

\* While it is half open, the breaker still lacks a success.
BreakerInv ==
  /\ BreakerTypeOK /\ ProbeAccounted
  /\ circuit = "half_open" => successes < SuccessThreshold

\* Looking at the breaker settles it: it may become half open, with no success
\* yet and a free slot.
LEMMA StateLockedKeeps ==
  ASSUME BreakerInv, StateLocked
  PROVE  /\ circuit' \in {"closed", "open", "half_open"}
         /\ successes' \in 0..SuccessThreshold
         /\ failures' = failures /\ openFor' = openFor
         /\ circuit' = State
         /\ circuit' = "half_open" => successes' < SuccessThreshold
BY BreakerAssumption DEF BreakerInv, BreakerTypeOK, StateLocked, State, SettledSuccesses, HalfOpens

\* The slot a look finds taken is accounted for.
LEMMA SlotKeeps ==
  ASSUME BreakerInv, StateLocked, probing' = SlotTaken, UNCHANGED <<inCall, probes, latest, fate>>
  PROVE  BreakerInv'
<1>1. probing' \in BOOLEAN /\ (probing' => probing /\ ~HalfOpens)
  BY DEF BreakerInv, BreakerTypeOK, SlotTaken
<1>2. ProbeAccounted'
  BY <1>1, StateLockedKeeps DEF BreakerInv, ProbeAccounted, State
<1>3. BreakerTypeOK'
  BY <1>1, StateLockedKeeps DEF BreakerInv, BreakerTypeOK
<1> QED BY <1>2, <1>3, StateLockedKeeps DEF BreakerInv

\* An outcome comes back for a call that is out.
LEMMA BackKeeps ==
  ASSUME BreakerInv, NEW c \in Callers, Back(c)
  PROVE  inCall' \subseteq Callers /\ probes' \subseteq inCall' /\ fate' \in {"out", "back", "lost"} /\ latest' = latest
BY DEF BreakerInv, BreakerTypeOK, Back

\* Every step of the breaker keeps its invariant.
LEMMA BreakerStep == BreakerInv /\ [BreakerNext]_breakerVars => BreakerInv'
<1> SUFFICES ASSUME BreakerInv, [BreakerNext]_breakerVars PROVE BreakerInv'
  OBVIOUS
<1> USE BreakerAssumption
<1>0. BreakerTypeOK /\ ProbeAccounted
  BY DEF BreakerInv
<1>1. CASE Look
  BY <1>1, SlotKeeps DEF Look
<1>2. CASE ResetBreaker
  <2>1. probing' \in BOOLEAN /\ ~probing'
    BY <1>2, Zenon DEF ResetBreaker
  <2>2. /\ circuit' = "closed" /\ failures' = 0 /\ successes' = 0 /\ openFor' = 0
        /\ UNCHANGED <<inCall, probes, latest, fate>>
    BY <1>2 DEF ResetBreaker
  <2>3. BreakerTypeOK' /\ ProbeAccounted'
    BY <1>0, <2>1, <2>2 DEF BreakerTypeOK, ProbeAccounted
  <2> QED BY <2>2, <2>3 DEF BreakerInv
<1>3. CASE BreakerTick
  BY <1>3 DEF BreakerTick, Capped, BreakerInv, BreakerTypeOK, ProbeAccounted
<1>4. ASSUME NEW c \in Callers, RejectCall(c) PROVE BreakerInv'
  BY <1>4, SlotKeeps DEF RejectCall
<1>5. ASSUME NEW c \in Callers, AdmitCall(c) PROVE BreakerInv'
  <2>1. CASE State = "half_open"
    <3>1. /\ StateLocked /\ probing' = TRUE /\ latest' = c /\ fate' = "out"
          /\ inCall' = inCall \cup {c} /\ probes' = probes \cup {c}
      BY <1>5, <2>1 DEF AdmitCall
    <3>2. ProbeAccounted'
      BY <2>1, <3>1, StateLockedKeeps DEF ProbeAccounted
    <3>3. BreakerTypeOK'
      BY <1>0, <3>1, StateLockedKeeps DEF BreakerTypeOK
    <3> QED BY <3>1, <3>2, <3>3, StateLockedKeeps DEF BreakerInv
  <2>2. CASE State # "half_open"
    <3>1. /\ StateLocked /\ State = "closed" /\ inCall' = inCall \cup {c}
          /\ UNCHANGED <<probing, probes, latest, fate>>
      BY <1>5, <2>2 DEF AdmitCall
    <3>2. circuit = "closed" /\ ~probing'
      BY <1>0, <3>1 DEF State, ProbeAccounted
    <3>3. BreakerTypeOK' /\ ProbeAccounted'
      BY <1>0, <3>1, <3>2, StateLockedKeeps DEF BreakerTypeOK, ProbeAccounted
    <3> QED BY <3>1, <3>3, StateLockedKeeps DEF BreakerInv
  <2> QED BY <2>1, <2>2
<1>6. ASSUME NEW c \in Callers, OnSuccess(c) PROVE BreakerInv'
  <2>1. probing' \in BOOLEAN /\ ~probing'
    <3>1. probing' = FALSE \/ (circuit # "half_open" /\ probing' = probing)
      BY <1>6 DEF OnSuccess
    <3>2. probing \in BOOLEAN /\ (circuit # "half_open" => ~probing)
      BY <1>0 DEF ProbeAccounted, BreakerTypeOK
    <3>3. CASE probing' = FALSE
      BY <3>3, Zenon
    <3>4. CASE circuit # "half_open" /\ probing' = probing
      BY <3>2, <3>4
    <3> QED BY <3>1, <3>3, <3>4
  <2>2. /\ Back(c) /\ circuit' \in {circuit, "closed"}
        /\ \/ successes' = successes
           \/ circuit = "half_open" /\ successes' = successes + 1
        /\ circuit' = "half_open" => successes' < SuccessThreshold
        /\ failures' \in {failures, 0} /\ openFor' \in {openFor, 0}
    BY <1>6 DEF OnSuccess, BreakerInv
  <2>3. successes' \in 0..SuccessThreshold
    BY <2>2 DEF BreakerInv, BreakerTypeOK
  <2>4. BreakerTypeOK' /\ ProbeAccounted'
    BY <1>0, <2>1, <2>2, <2>3, BackKeeps DEF BreakerTypeOK, ProbeAccounted
  <2> QED BY <2>2, <2>4 DEF BreakerInv
<1>7. ASSUME NEW c \in Callers, OnFailure(c) PROVE BreakerInv'
  <2>1. probing' \in BOOLEAN /\ ~probing'
    <3>1. probing' = FALSE \/ (circuit # "half_open" /\ probing' = probing)
      BY <1>7 DEF OnFailure
    <3>2. probing \in BOOLEAN /\ (circuit # "half_open" => ~probing)
      BY <1>0 DEF ProbeAccounted, BreakerTypeOK
    <3>3. CASE probing' = FALSE
      BY <3>3, Zenon
    <3>4. CASE circuit # "half_open" /\ probing' = probing
      BY <3>2, <3>4
    <3> QED BY <3>1, <3>3, <3>4
  <2>2. /\ Back(c) /\ circuit' \in {circuit, "open"}
        /\ circuit' # "half_open"
        /\ successes' \in {successes, 0} /\ openFor' \in {openFor, 0}
    BY <1>7 DEF OnFailure, Reopen
  <2>3. failures' \in 0..FailureThreshold
    BY <1>0, <1>7 DEF OnFailure, Capped, BreakerTypeOK
  <2>4. BreakerTypeOK' /\ ProbeAccounted'
    BY <1>0, <2>1, <2>2, <2>3, BackKeeps DEF BreakerTypeOK, ProbeAccounted
  <2> QED BY <2>2, <2>4 DEF BreakerInv
<1>8. ASSUME NEW c \in Callers, Escape(c) PROVE BreakerInv'
  BY <1>8 DEF Escape, BreakerInv, BreakerTypeOK, ProbeAccounted
<1>9. CASE UNCHANGED breakerVars
  BY <1>9 DEF breakerVars, BreakerInv, BreakerTypeOK, ProbeAccounted
<1> QED BY <1>1, <1>2, <1>3, <1>4, <1>5, <1>6, <1>7, <1>8, <1>9 DEF BreakerNext

\* A half-open breaker that refuses callers because "a probe is already in
\* flight" has such a probe, or one that an uncaught exception lost
\* (circuit_breaker.py, call), whichever late outcomes arrived in between.
THEOREM ProbesAccounted == BreakerSpec => []ProbeAccounted
<1>1. BreakerInit => BreakerInv
  <2> SUFFICES ASSUME BreakerInit PROVE BreakerInv
    OBVIOUS
  <2>1. probing \in BOOLEAN /\ ~probing
    BY Zenon DEF BreakerInit
  <2>2. /\ circuit = "closed" /\ failures = 0 /\ successes = 0 /\ openFor = 0
        /\ inCall = {} /\ probes = {} /\ latest = NoCaller /\ fate = "back"
    BY DEF BreakerInit
  <2>3. BreakerTypeOK /\ ProbeAccounted
    BY <2>1, <2>2, BreakerAssumption DEF BreakerTypeOK, ProbeAccounted
  <2> QED BY <2>2, <2>3 DEF BreakerInv
<1>2. BreakerInv => ProbeAccounted
  BY DEF BreakerInv
<1> QED BY <1>1, <1>2, BreakerStep, PTL DEF BreakerSpec

-----------------------------------------------------------------------------
(* The authorization of an action. *)

\* What a call has learnt at each of its steps: once the review is looked at it
\* is one of the call's own target, and an override when the decision the call
\* loaded was blocked.
CallShape ==
  \/ call = Resting
  \/ call \in [at : {"decision", "policy"}, target : Targets, block : BOOLEAN,
               review : {NoAnswer}]
  \/ call \in [at : {"review"}, target : Targets, block : BOOLEAN,
               review : {NoAnswer}, allowed : SUBSET Selections]
  \/ /\ call \in [at : {"verify"}, target : Targets, block : BOOLEAN,
                  review : HumanReviews, allowed : SUBSET Selections]
     /\ call.review # NoAnswer
     /\ call.review.target = call.target
     /\ call.block => call.review.selection = "override"

GateInv ==
  /\ blocked \in [Targets -> BOOLEAN]
  /\ evidence \in [Targets -> HumanReviews \cup {NoAnswer}]
  /\ CallShape /\ BlockHolds

\* An answer that permits nothing, or one that may.
LEMMA AnswerKeeps ==
  ASSUME GateInv, NEW status, Answer(status),
         status = "PERMITTED" =>
           /\ call.block => call.review # NoAnswer
           /\ call.review # NoAnswer => /\ call.review.target = call.target
                                        /\ call.review.genuine
                                        /\ call.block => call.review.selection = "override"
  PROVE  GateInv'
BY DEF GateInv, Answer, CallShape, BlockHolds

\* Every step of an authorization keeps its invariant.
LEMMA GateStep == GateInv /\ [GateNext]_gateVars => GateInv'
<1> SUFFICES ASSUME GateInv, [GateNext]_gateVars PROVE GateInv'
  OBVIOUS
<1>1. ASSUME NEW t \in Targets, BeginAuthorize(t) PROVE GateInv'
  BY <1>1 DEF BeginAuthorize, GateInv, CallShape, BlockHolds
<1>2. CASE LoadDecision
  <2>1. CASE Answer("INDETERMINATE") \/ Answer("DENIED")
    BY <2>1, AnswerKeeps
  <2>2. CASE /\ call' = [call EXCEPT !.at = "policy", !.block = blocked[call.target]]
             /\ UNCHANGED <<blocked, evidence, result>>
    <3>1. call \in [at : {"decision", "policy"}, target : Targets, block : BOOLEAN,
                    review : {NoAnswer}]
      BY <1>2 DEF LoadDecision, GateInv, CallShape, Resting
    <3>2. call' \in [at : {"decision", "policy"}, target : Targets, block : BOOLEAN,
                     review : {NoAnswer}]
      BY <2>2, <3>1 DEF GateInv
    <3> QED BY <2>2, <3>2 DEF GateInv, CallShape, BlockHolds
  <2> QED BY <1>2, <2>1, <2>2 DEF LoadDecision
<1>3. ASSUME NEW a \in Assessments, AssessPolicy(a) PROVE GateInv'
  <2>1. call \in [at : {"decision", "policy"}, target : Targets, block : BOOLEAN,
                  review : {NoAnswer}]
    BY <1>3 DEF AssessPolicy, GateInv, CallShape, Resting
  <2>2. CASE Answer("INDETERMINATE") \/ Answer("DENIED")
    BY <2>2, AnswerKeeps
  <2>3. CASE ~call.block /\ Answer("PERMITTED")
    BY <2>1, <2>3, AnswerKeeps
  <2>4. CASE /\ call' = [at |-> "review", target |-> call.target, block |-> call.block,
                         review |-> NoAnswer, allowed |-> a.allowed]
             /\ UNCHANGED <<blocked, evidence, result>>
    <3>1. a.allowed \in SUBSET Selections
      BY DEF Assessments
    <3> QED BY <2>1, <2>4, <3>1 DEF GateInv, CallShape, BlockHolds
  <2> QED BY <1>3, <2>2, <2>3, <2>4 DEF AssessPolicy
<1>4. CASE LoadReview
  <2>1. call \in [at : {"review"}, target : Targets, block : BOOLEAN,
                  review : {NoAnswer}, allowed : SUBSET Selections]
    BY <1>4 DEF LoadReview, GateInv, CallShape, Resting
  <2>2. CASE Answer("REVIEW_REQUIRED") \/ Answer("DENIED")
    BY <2>2, AnswerKeeps
  <2>3. ASSUME NEW r, r = evidence[call.target], r # NoAnswer, r.target = call.target,
               Releases(r.selection, call.allowed, call.block),
               call' = [call EXCEPT !.at = "verify", !.review = r],
               UNCHANGED <<blocked, evidence, result>>
        PROVE  GateInv'
    <3>1. r \in HumanReviews
      BY <2>1, <2>3 DEF GateInv
    <3>2. /\ call' \in [at : {"verify"}, target : Targets, block : BOOLEAN,
                        review : HumanReviews, allowed : SUBSET Selections]
          /\ call'.review = r /\ call'.target = call.target /\ call'.block = call.block
      BY <2>1, <2>3, <3>1
    <3>3. CallShape'
      BY <2>3, <3>2 DEF CallShape, Releases
    <3> QED BY <2>3, <3>3 DEF GateInv, BlockHolds
  <2> QED BY <1>4, <2>2, <2>3 DEF LoadReview
<1>5. CASE VerifyReview
  <2>1. CASE Answer("DENIED")
    BY <2>1, AnswerKeeps
  <2>2. CASE call.review.genuine /\ Answer("PERMITTED")
    <3>1. /\ call.review # NoAnswer
          /\ call.review.target = call.target
          /\ call.block => call.review.selection = "override"
      BY <1>5 DEF VerifyReview, GateInv, CallShape, Resting
    <3> QED BY <2>2, <3>1, AnswerKeeps
  <2> QED BY <1>5, <2>1, <2>2 DEF VerifyReview
<1>6. CASE ProviderFails
  BY <1>6, AnswerKeeps DEF ProviderFails
<1>7. ASSUME NEW t \in Targets, RaiseBlock(t) PROVE GateInv'
  BY <1>7 DEF RaiseBlock, GateInv, CallShape, BlockHolds
<1>8. ASSUME NEW t \in Targets, NEW r \in HumanReviews, RecordSelection(t, r) PROVE GateInv'
  BY <1>8 DEF RecordSelection, GateInv, CallShape, BlockHolds
<1>9. CASE UNCHANGED gateVars
  BY <1>9 DEF gateVars, GateInv, CallShape, BlockHolds
<1> QED BY <1>1, <1>2, <1>3, <1>4, <1>5, <1>6, <1>7, <1>8, <1>9 DEF GateNext

\* authorize releases a decision it loaded as blocked only on a genuine
\* override of that decision, whatever changes between two provider answers.
THEOREM BlocksHold == GateSpec => []BlockHolds
<1>1. GateInit => GateInv
  BY DEF GateInit, GateInv, CallShape, BlockHolds
<1>2. GateInv => BlockHolds
  BY DEF GateInv
<1> QED BY <1>1, <1>2, GateStep, PTL DEF GateSpec

-----------------------------------------------------------------------------
(* The token buckets. *)

\* A time to live that covers a refill is not zero.
LEMMA PositiveTTL == TTL > 0
<1>1. TTL = 0 => Rate * TTL = 0
  BY RateAssumption
<1> QED BY <1>1, RateAssumption

\* Whole-number division.
LEMMA DivBounds ==
  ASSUME NEW a \in Nat, NEW n \in Nat \ {0}
  PROVE  a \div n \in Nat /\ (a \div n) * n <= a /\ a < (a \div n) * n + n
OBVIOUS

\* What a stored bucket of t units and age a is worth.
Worth(t, a) == IF a = TTL THEN Capacity ELSE AtMost(Capacity, t + a * Rate)

\* The eager bucket i holds what the stored one is worth.
Faithful(t, a, i) ==
  /\ t \in 0..Capacity /\ a \in 0..TTL /\ i \in 0..Capacity
  /\ i = Worth(t, a)

\* n more ticks, and no fewer, refill an eager bucket of i units to one request.
Honest(i, n) ==
  /\ n \in Nat
  /\ i + n * Rate >= Cost
  /\ n > 0 => i + (n - 1) * Rate < Cost

\* A tick refills both by the same amount, also when the key expires.
LEMMA TickFaithful ==
  ASSUME NEW t, NEW a, NEW i, Faithful(t, a, i)
  PROVE  Faithful(t, AtMost(a + 1, TTL), AtMost(Capacity, i + Rate))
<1> USE RateAssumption, PositiveTTL
<1>1. t \in Nat /\ t <= Capacity /\ a \in Nat /\ a <= TTL /\ i \in Nat /\ i <= Capacity
  BY DEF Faithful
<1>2. a * Rate \in Nat /\ (a + 1) * Rate = a * Rate + Rate
  BY <1>1
<1>3. CASE a = TTL
  BY <1>1, <1>3 DEF Faithful, Worth, AtMost
<1>4. CASE a + 1 = TTL
  <2>1. t + a * Rate + Rate >= Capacity
    BY <1>1, <1>2, <1>4
  <2> QED BY <1>1, <1>2, <1>4, <2>1 DEF Faithful, Worth, AtMost
<1>5. CASE a + 1 < TTL
  BY <1>1, <1>2, <1>5 DEF Faithful, Worth, AtMost
<1> QED BY <1>1, <1>3, <1>4, <1>5

\* A hit stores what the bucket is worth, less the cost of an allowed request.
LEMMA HitFaithful ==
  ASSUME NEW i \in 0..Capacity
  PROVE  /\ Faithful(i, 0, i)
         /\ i >= Cost => Faithful(i - Cost, 0, i - Cost)
<1>1. 0 * Rate = 0 /\ 0 # TTL /\ 0 \in 0..TTL
  BY RateAssumption, PositiveTTL
<1> QED BY <1>1, RateAssumption DEF Faithful, Worth, AtMost

\* The announced wait shrinks with the ticks.
LEMMA TickHonest ==
  ASSUME NEW i \in 0..Capacity, NEW n, Honest(i, n)
  PROVE  Honest(AtMost(Capacity, i + Rate), IF n = 0 THEN 0 ELSE n - 1)
<1> USE RateAssumption
<1>1. n \in Nat /\ i + n * Rate >= Cost /\ (n > 0 => i + (n - 1) * Rate < Cost)
  BY DEF Honest
<1>2. CASE n = 0
  BY <1>1, <1>2 DEF Honest, AtMost
<1>3. CASE n = 1
  BY <1>1, <1>3 DEF Honest, AtMost
<1>4. CASE n > 1
  <2>1. /\ n * Rate = (n - 1) * Rate + Rate /\ (n - 1) * Rate = (n - 2) * Rate + Rate
        /\ (n - 2) * Rate \in Nat /\ (n - 1) * Rate \in Nat
    BY <1>1, <1>4
  <2>2. i + Rate < Capacity
    BY <1>1, <1>4, <2>1
  <2>3. /\ (i + Rate) + (n - 1) * Rate >= Cost
        /\ (i + Rate) + ((n - 1) - 1) * Rate < Cost
    BY <1>1, <1>4, <2>1
  <2> QED BY <1>1, <1>4, <2>2, <2>3 DEF Honest, AtMost
<1> QED BY <1>1, <1>2, <1>3, <1>4

\* The announced wait is the deficit over the refill rate, rounded up.
LEMMA DeniedHonest ==
  ASSUME NEW i \in 0..Capacity, i < Cost
  PROVE  Honest(i, (Cost - i + Rate - 1) \div Rate)
<1> USE RateAssumption
<1> DEFINE a == Cost - i + Rate - 1
           n == a \div Rate
<1>1. a \in Nat /\ a >= Rate
  OBVIOUS
<1>2. n \in Nat /\ n * Rate <= a /\ a < n * Rate + Rate
  BY <1>1, DivBounds
<1> HIDE DEF n
<1>3. (n - 1) * Rate = n * Rate - Rate
  BY <1>2
<1>4. n * Rate \in Nat
  BY <1>2
<1> QED BY <1>2, <1>3, <1>4 DEF n, Honest

\* Every caller's bucket and the wait it was told.
BucketFits ==
  /\ DOMAIN bucket = Principals /\ DOMAIN age = Principals
  /\ DOMAIN ideal = Principals /\ DOMAIN wait = Principals
  /\ \A p \in Principals :
       /\ Faithful(bucket[p], age[p], ideal[p])
       /\ DOMAIN wait[p] = {"left", "live"}
       /\ wait[p].live => Honest(ideal[p], wait[p].left)

\* It is what the two properties of the buckets need.
LEMMA BucketHonest ==
  ASSUME BucketFits
  PROVE  LazyEqualsEager /\ RetryAfterHonest
<1>1. LazyEqualsEager
  BY DEF BucketFits, LazyEqualsEager, Refilled, Faithful, Worth
<1>2. ASSUME NEW p \in Principals, wait[p].live
      PROVE  wait[p].left = 0 <=> Allowed(p)
  <2>1. Refilled(p) = ideal[p]
    BY <1>1 DEF LazyEqualsEager
  <2>2. ideal[p] \in Nat /\ Honest(ideal[p], wait[p].left)
    BY <1>2, RateAssumption DEF BucketFits, Faithful
  <2> SUFFICES ASSUME NEW n, n = wait[p].left PROVE n = 0 <=> ideal[p] >= Cost
    BY <2>1 DEF Allowed
  <2>3. CASE n = 0
    BY <2>2, <2>3, RateAssumption DEF Honest
  <2>4. CASE n # 0
    <3>1. n \in Nat /\ (n - 1) * Rate \in Nat
      BY <2>2, <2>4, RateAssumption DEF Honest
    <3> QED BY <2>2, <2>4, <3>1, RateAssumption DEF Honest
  <2> QED BY <2>3, <2>4
<1> QED BY <1>1, <1>2 DEF RetryAfterHonest

\* One run of rate_limit.lua.
LEMMA CheckFits ==
  ASSUME BucketFits, NEW p \in Principals, Check(p)
  PROVE  BucketFits'
<1>1. Refilled(p) = ideal[p] /\ ideal[p] \in 0..Capacity
  BY BucketHonest DEF LazyEqualsEager, BucketFits, Faithful
<1>2. /\ DOMAIN bucket' = Principals /\ DOMAIN age' = Principals
      /\ DOMAIN ideal' = Principals /\ DOMAIN wait' = Principals
  BY DEF Check, BucketFits
<1>3. ASSUME NEW q \in Principals, q # p
      PROVE  /\ bucket'[q] = bucket[q] /\ age'[q] = age[q]
             /\ ideal'[q] = ideal[q] /\ wait'[q] = wait[q]
  BY <1>3 DEF Check, BucketFits
<1>4. CASE Allowed(p)
  <2>1. ideal[p] >= Cost
    BY <1>1, <1>4 DEF Allowed
  <2>2. /\ bucket'[p] = ideal[p] - Cost /\ ideal'[p] = ideal[p] - Cost /\ age'[p] = 0
    BY <1>1, <1>4, <2>1 DEF Check, BucketFits
  <2>3. wait'[p] = [left |-> 0, live |-> FALSE]
    BY <1>4 DEF Check, BucketFits
  <2>4. DOMAIN wait'[p] = {"left", "live"} /\ ~wait'[p].live
    BY <2>3
  <2>5. Faithful(bucket'[p], age'[p], ideal'[p])
    BY <1>1, <2>1, <2>2, HitFaithful
  <2> QED BY <1>2, <1>3, <2>4, <2>5 DEF BucketFits
<1>5. CASE ~Allowed(p)
  <2>1. ideal[p] < Cost
    BY <1>1, <1>5, RateAssumption DEF Allowed
  <2>2. /\ bucket'[p] = ideal[p] /\ ideal'[p] = ideal[p] /\ age'[p] = 0
    BY <1>1, <1>5 DEF Check, BucketFits
  <2>3. wait'[p] = [left |-> (Cost - ideal[p] + Rate - 1) \div Rate, live |-> TRUE]
    BY <1>1, <1>5 DEF Check, BucketFits, RetryAfter
  <2>4. /\ DOMAIN wait'[p] = {"left", "live"}
        /\ wait'[p].left = (Cost - ideal[p] + Rate - 1) \div Rate
    BY <2>3
  <2>5. Faithful(bucket'[p], age'[p], ideal'[p])
    BY <1>1, <2>2, HitFaithful
  <2>6. Honest(ideal'[p], wait'[p].left)
    BY <1>1, <2>1, <2>2, <2>4, DeniedHonest
  <2> QED BY <1>2, <1>3, <2>4, <2>5, <2>6 DEF BucketFits
<1> QED BY <1>4, <1>5

\* A tick of the Redis clock.
LEMMA TickFits ==
  ASSUME BucketFits, BucketTick
  PROVE  BucketFits'
<1>1. ASSUME NEW p \in Principals
      PROVE  /\ Faithful(bucket'[p], age'[p], ideal'[p])
             /\ DOMAIN wait'[p] = {"left", "live"}
             /\ wait'[p].live => Honest(ideal'[p], wait'[p].left)
  <2>1. Faithful(bucket[p], age[p], ideal[p]) /\ ideal[p] \in 0..Capacity
    BY DEF BucketFits, Faithful
  <2>2. /\ bucket'[p] = bucket[p] /\ age'[p] = AtMost(age[p] + 1, TTL)
        /\ ideal'[p] = AtMost(Capacity, ideal[p] + Rate)
    BY DEF BucketTick
  <2>3. /\ DOMAIN wait'[p] = {"left", "live"} /\ wait'[p].live = wait[p].live
        /\ wait'[p].left = IF wait[p].left = 0 THEN 0 ELSE wait[p].left - 1
    BY DEF BucketTick, BucketFits
  <2>4. wait[p].live => Honest(ideal[p], wait[p].left)
    BY DEF BucketFits
  <2> QED BY <2>1, <2>2, <2>3, <2>4, TickFaithful, TickHonest
<1>2. /\ DOMAIN bucket' = Principals /\ DOMAIN age' = Principals
      /\ DOMAIN ideal' = Principals /\ DOMAIN wait' = Principals
  BY DEF BucketTick, BucketFits
<1> QED BY <1>1, <1>2 DEF BucketFits

\* Redis starts again: both buckets are full.
LEMMA LossFits ==
  ASSUME BucketFits, BucketsLost
  PROVE  BucketFits'
<1>1. ASSUME NEW p \in Principals
      PROVE  /\ Faithful(bucket'[p], age'[p], ideal'[p])
             /\ DOMAIN wait'[p] = {"left", "live"} /\ ~wait'[p].live
  <2>1. bucket'[p] = bucket[p] /\ age'[p] = TTL /\ ideal'[p] = Capacity
    BY DEF BucketsLost
  <2>2. wait'[p] = [left |-> 0, live |-> FALSE]
    BY DEF BucketsLost
  <2>3. bucket[p] \in 0..Capacity
    BY DEF BucketFits, Faithful
  <2>4. Faithful(bucket'[p], age'[p], ideal'[p])
    BY <2>1, <2>3, RateAssumption DEF Faithful, Worth
  <2> QED BY <2>2, <2>4
<1>2. /\ DOMAIN bucket' = Principals /\ DOMAIN age' = Principals
      /\ DOMAIN ideal' = Principals /\ DOMAIN wait' = Principals
  BY DEF BucketsLost, BucketFits
<1> QED BY <1>1, <1>2 DEF BucketFits

-----------------------------------------------------------------------------
(* The attempts a process counts. *)

\* A set of numbers that is not empty has a least one.
LEMMA LeastNumber ==
  ASSUME NEW S \in SUBSET Nat, S # {}
  PROVE  \E k \in S : \A m \in S : k <= m
<1> DEFINE Below == {ss \in Nat \X Nat : ss[1] < ss[2]}
<1>1. IsWellFoundedOn(Below, Nat)
  BY NatLessThanWellFounded, Zenon DEF OpToRel
<1>2. PICK k \in S : \A m \in S : ~(<<m, k>> \in Below)
  BY <1>1, WFMin
<1>3. \A m \in S : ~(m < k)
  BY <1>2
<1> QED BY <1>3

\* Dropping the attempts past the limit: a prefix goes, and what is left starts
\* with one within it.
LEMMA YoungerSuffix ==
  ASSUME NEW ages \in Seq(Nat), NEW limit \in Int
  PROVE  \E k \in 1..(Len(ages) + 1) :
           /\ Younger(ages, limit) = SubSeq(ages, k, Len(ages))
           /\ \A i \in 1..(k - 1) : ages[i] > limit
           /\ k <= Len(ages) => ages[k] <= limit
<1> DEFINE kept == {k \in 1..(Len(ages) + 1) : k = Len(ages) + 1 \/ ages[k] <= limit}
           first == CHOOSE k \in kept : \A m \in kept : k <= m
<1>1. kept \in SUBSET Nat /\ Len(ages) + 1 \in kept
  OBVIOUS
<1>2. \E k \in kept : \A m \in kept : k <= m
  BY <1>1, LeastNumber
<1>3. first \in kept /\ \A m \in kept : first <= m
  BY <1>2
<1>4. Younger(ages, limit) = SubSeq(ages, first, Len(ages))
  BY DEF Younger
<1> HIDE DEF first
<1>5. \A i \in 1..(first - 1) : ages[i] > limit
  <2> SUFFICES ASSUME NEW i \in 1..(first - 1), ages[i] <= limit PROVE FALSE
    <3>1. \A i \in 1..(first - 1) : ages[i] \in Nat
      BY <1>3
    <3> QED BY <3>1
  <2>1. i \in kept
    BY <1>3
  <2> QED BY <1>3, <2>1
<1> QED BY <1>3, <1>4, <1>5

\* A suffix has the entries of its sequence, counted from the end.
LEMMA SuffixFromEnd ==
  ASSUME NEW s \in Seq(Nat), NEW f \in 1..(Len(s) + 1)
  PROVE  LET y == SubSeq(s, f, Len(s))
         IN /\ y \in Seq(Nat) /\ Len(y) = Len(s) - f + 1
            /\ \A k \in Nat : k < Len(y) => y[Len(y) - k] = s[Len(s) - k]
<1> DEFINE y == SubSeq(s, f, Len(s))
<1>1. Len(s) \in Nat
  OBVIOUS
<1>2. PICK n \in Nat : n = Len(s) - f + 1
  BY <1>1
<1>3. y = [i \in 1..n |-> s[i + f - 1]]
  BY <1>1, <1>2
<1>4. \A i \in 1..n : i + f - 1 \in 1..Len(s)
  BY <1>1, <1>2
<1>5. y \in [1..n -> Nat]
  BY <1>3, <1>4
<1> HIDE DEF y
<1>6. y \in Seq(Nat) /\ Len(y) = n
  BY <1>5
<1>7. ASSUME NEW k \in Nat, k < n PROVE y[n - k] = s[Len(s) - k]
  <2>1. PICK i \in 1..n : i = n - k
    BY <1>7
  <2>2. i + f - 1 = Len(s) - k
    BY <1>1, <1>2, <2>1
  <2> QED BY <1>3, <2>1, <2>2
<1> QED BY <1>2, <1>6, <1>7 DEF y

\* The deque h of a process against its attempts v: an attempt that was counted
\* recently is still there, at the same place from the end, with a stamp that
\* is older by no more than a thread may be held.
Recent(h, v) ==
  \A k \in Nat : k < Len(v) /\ v[Len(v) - k] <= Window - MaxStall =>
    k < Len(h) /\ h[Len(h) - k] <= v[Len(v) - k] + MaxStall

Deque(h, v) ==
  /\ h \in Seq(Nat) /\ v \in Seq(Nat) /\ Len(h) <= MaxAttempts
  /\ Recent(h, v)

\* What a deque is, in numbers.
Counted(h, hn, v, vn) ==
  /\ h \in Seq(Nat) /\ hn = Len(h) /\ v \in Seq(Nat) /\ vn = Len(v)
  /\ hn <= MaxAttempts
  /\ \A i \in 1..hn : h[i] \in Nat
  /\ \A i \in 1..vn : v[i] \in Nat
  /\ \A k \in Nat : k < vn /\ v[vn - k] <= Window - MaxStall =>
       k < hn /\ h[hn - k] <= v[vn - k] + MaxStall

LEMMA DequeParts ==
  ASSUME NEW h, NEW v, Deque(h, v)
  PROVE  \E hn, vn \in Nat : Counted(h, hn, v, vn)
<1>1. h \in Seq(Nat) /\ v \in Seq(Nat) /\ Len(h) \in Nat /\ Len(v) \in Nat
  BY DEF Deque
<1>2. (\A i \in 1..Len(h) : h[i] \in Nat) /\ \A i \in 1..Len(v) : v[i] \in Nat
  BY <1>1
<1>3. Counted(h, Len(h), v, Len(v))
  BY <1>1, <1>2 DEF Deque, Recent, Counted
<1> QED BY <1>1, <1>3

LEMMA DequeMade ==
  ASSUME NEW h \in Seq(Nat), NEW v \in Seq(Nat), NEW hn, hn = Len(h), NEW vn, vn = Len(v),
         hn <= MaxAttempts,
         \A k \in Nat : k < vn /\ v[vn - k] <= Window - MaxStall =>
           k < hn /\ h[hn - k] <= v[vn - k] + MaxStall
  PROVE  Deque(h, v)
BY DEF Deque, Recent

\* The first half of check() drops no recent attempt, whatever the stamp of the
\* thread that runs it.
LEMMA FreshKeepsRecent ==
  ASSUME NEW h, NEW v, Deque(h, v), NEW a \in Nat
  PROVE  Deque(Younger(h, Window + a), v)
<1> USE IngressAssumption
<1>0. PICK hn \in Nat, vn \in Nat : Counted(h, hn, v, vn)
  BY DequeParts
<1>1. /\ h \in Seq(Nat) /\ hn = Len(h) /\ v \in Seq(Nat) /\ vn = Len(v)
      /\ hn <= MaxAttempts
      /\ \A i \in 1..hn : h[i] \in Nat
      /\ \A i \in 1..vn : v[i] \in Nat
      /\ \A k \in Nat : k < vn /\ v[vn - k] <= Window - MaxStall =>
           k < hn /\ h[hn - k] <= v[vn - k] + MaxStall
  BY <1>0 DEF Counted
<1>2. Window + a \in Int
  OBVIOUS
<1>3. PICK f \in 1..(hn + 1) :
        /\ Younger(h, Window + a) = SubSeq(h, f, hn)
        /\ \A i \in 1..(f - 1) : h[i] > Window + a
  BY <1>1, <1>2, YoungerSuffix
<1> DEFINE y == SubSeq(h, f, hn)
           yn == hn - f + 1
<1>4. /\ y \in Seq(Nat) /\ yn = Len(y)
      /\ \A k \in Nat : k < yn => y[yn - k] = h[hn - k]
  BY <1>1, SuffixFromEnd
<1> HIDE DEF y
<1>5. ASSUME NEW k \in Nat, k < vn, v[vn - k] <= Window - MaxStall
      PROVE  k < yn /\ y[yn - k] <= v[vn - k] + MaxStall
  <2>1. k < hn /\ h[hn - k] <= v[vn - k] + MaxStall
    BY <1>1, <1>5
  <2>2. PICK i \in 1..hn : i = hn - k
    BY <2>1
  <2>3. PICK j \in 1..vn : j = vn - k
    BY <1>5
  <2>4. v[j] \in Nat /\ h[i] \in Nat
    BY <1>1
  <2>5. h[i] <= Window
    BY <1>5, <2>1, <2>2, <2>3, <2>4
  <2>6. ~(i < f)
    <3> SUFFICES ASSUME i < f PROVE FALSE
      OBVIOUS
    <3>1. i \in 1..(f - 1)
      OBVIOUS
    <3>2. h[i] > Window + a
      BY <1>3, <3>1
    <3> QED BY <2>4, <2>5, <3>2
  <2>7. k < yn
    BY <2>2, <2>6
  <2> QED BY <1>4, <2>1, <2>7
<1>6. yn <= MaxAttempts
  BY <1>1
<1> HIDE DEF yn
<1>7. Deque(y, v)
  BY <1>1, <1>4, <1>5, <1>6, DequeMade
<1> QED BY <1>3, <1>7 DEF y

\* An attempt that is counted, with a stamp of its own.
LEMMA AttemptDeque ==
  ASSUME NEW h, NEW v, Deque(h, v), Len(h) < MaxAttempts, NEW a \in 0..MaxStall
  PROVE  Deque(Append(h, a), Append(v, 0))
<1> USE IngressAssumption
<1>0. PICK hn \in Nat, vn \in Nat : Counted(h, hn, v, vn)
  BY DequeParts
<1>1. /\ h \in Seq(Nat) /\ hn = Len(h) /\ v \in Seq(Nat) /\ vn = Len(v)
      /\ \A i \in 1..hn : h[i] \in Nat
      /\ \A i \in 1..vn : v[i] \in Nat
      /\ \A k \in Nat : k < vn /\ v[vn - k] <= Window - MaxStall =>
           k < hn /\ h[hn - k] <= v[vn - k] + MaxStall
  BY <1>0 DEF Counted
<1>2. hn < MaxAttempts
  BY <1>1
<1> DEFINE g == Append(h, a)
           u == Append(v, 0)
<1>3. /\ g \in Seq(Nat) /\ hn + 1 = Len(g) /\ g[hn + 1] = a
      /\ \A i \in 1..hn : g[i] = h[i]
  BY <1>1
<1>4. /\ u \in Seq(Nat) /\ vn + 1 = Len(u) /\ u[vn + 1] = 0
      /\ \A i \in 1..vn : u[i] = v[i]
  BY <1>1
<1> HIDE DEF g, u
<1>5. ASSUME NEW k \in Nat, k < vn + 1, u[vn + 1 - k] <= Window - MaxStall
      PROVE  k < hn + 1 /\ g[hn + 1 - k] <= u[vn + 1 - k] + MaxStall
  <2>1. CASE k = 0
    <3>1. hn + 1 - k = hn + 1 /\ vn + 1 - k = vn + 1
      BY <2>1
    <3> QED BY <1>3, <1>4, <2>1, <3>1
  <2>2. CASE k # 0
    <3>1. PICK m \in Nat : k = m + 1
      <4>1. k - 1 \in Nat /\ k = (k - 1) + 1
        BY <2>2
      <4> QED BY <4>1
    <3>2. PICK j \in 1..vn : j = vn - m
      BY <1>5, <3>1
    <3>3. vn + 1 - k = j /\ vn - m = j /\ m < vn
      BY <3>1, <3>2
    <3>4. u[j] = v[j] /\ v[j] <= Window - MaxStall
      BY <1>4, <1>5, <3>3
    <3>5. m < hn /\ h[hn - m] <= v[j] + MaxStall
      BY <1>1, <3>3, <3>4
    <3>6. PICK i \in 1..hn : i = hn - m
      BY <3>5
    <3>7. hn + 1 - k = i /\ hn - m = i /\ k < hn + 1
      BY <3>1, <3>6
    <3>8. g[i] = h[i]
      BY <1>3
    <3> QED BY <3>3, <3>4, <3>5, <3>7, <3>8
  <2> QED BY <2>1, <2>2
<1>6. hn + 1 <= MaxAttempts
  BY <1>2
<1> DEFINE gn == hn + 1
           un == vn + 1
<1>7. /\ g \in Seq(Nat) /\ gn = Len(g) /\ u \in Seq(Nat) /\ un = Len(u) /\ gn <= MaxAttempts
      /\ \A k \in Nat : k < un /\ u[un - k] <= Window - MaxStall =>
           k < gn /\ g[gn - k] <= u[un - k] + MaxStall
  BY <1>3, <1>4, <1>5, <1>6
<1> HIDE DEF gn, un
<1>8. Deque(g, u)
  BY <1>7, DequeMade
<1> QED BY <1>8 DEF g, u

\* A tick: every stamp and every attempt is a tick older, and the observer
\* forgets the attempts that left the window.
LEMMA TickDeque ==
  ASSUME NEW h, NEW v, Deque(h, v)
  PROVE  Deque([i \in 1..Len(h) |-> AtMost(h[i] + 1, Window + MaxStall + 1)],
               Younger([i \in 1..Len(v) |-> v[i] + 1], Window))
<1> USE IngressAssumption
<1>0. PICK hn \in Nat, vn \in Nat : Counted(h, hn, v, vn)
  BY DequeParts
<1>1. /\ h \in Seq(Nat) /\ hn = Len(h) /\ v \in Seq(Nat) /\ vn = Len(v)
      /\ hn <= MaxAttempts
      /\ \A i \in 1..hn : h[i] \in Nat
      /\ \A i \in 1..vn : v[i] \in Nat
      /\ \A k \in Nat : k < vn /\ v[vn - k] <= Window - MaxStall =>
           k < hn /\ h[hn - k] <= v[vn - k] + MaxStall
  BY <1>0 DEF Counted
<1> DEFINE g == [i \in 1..hn |-> AtMost(h[i] + 1, Window + MaxStall + 1)]
           u == [i \in 1..vn |-> v[i] + 1]
           y == Younger(u, Window)
<1>2. u \in Seq(Nat) /\ vn = Len(u) /\ \A i \in 1..vn : u[i] = v[i] + 1
  <2>1. u \in [1..vn -> Nat]
    BY <1>1
  <2> QED BY <2>1
<1>3. \A i \in 1..hn : AtMost(h[i] + 1, Window + MaxStall + 1) \in Nat
                       /\ AtMost(h[i] + 1, Window + MaxStall + 1) <= h[i] + 1
  BY <1>1 DEF AtMost
<1>4. g \in Seq(Nat) /\ hn = Len(g) /\ \A i \in 1..hn : g[i] <= h[i] + 1 /\ g[i] \in Nat
  <2>1. g \in [1..hn -> Nat] /\ \A i \in 1..hn : g[i] <= h[i] + 1
    BY <1>3
  <2> HIDE DEF g
  <2> QED BY <2>1
<1>5. Window \in Int
  OBVIOUS
<1> HIDE DEF u, g
<1>6. PICK f \in 1..(vn + 1) : y = SubSeq(u, f, vn)
  BY <1>2, <1>5, YoungerSuffix
<1> HIDE DEF y
<1> DEFINE yn == vn - f + 1
<1>7. /\ y \in Seq(Nat) /\ yn = Len(y)
      /\ \A k \in Nat : k < yn => y[yn - k] = u[vn - k]
  BY <1>2, <1>6, SuffixFromEnd
<1>8. ASSUME NEW k \in Nat, k < yn, y[yn - k] <= Window - MaxStall
      PROVE  k < hn /\ g[hn - k] <= y[yn - k] + MaxStall
  <2>1. PICK j \in 1..vn : j = vn - k
    BY <1>8
  <2>2. k < vn /\ vn - k = j
    BY <2>1
  <2>3. y[yn - k] = v[j] + 1 /\ v[j] \in Nat
    BY <1>1, <1>2, <1>7, <1>8, <2>2
  <2>4. v[j] <= Window - MaxStall
    BY <1>8, <2>3
  <2>5. k < hn /\ h[hn - k] <= v[j] + MaxStall
    BY <1>1, <2>2, <2>4
  <2>6. PICK i \in 1..hn : i = hn - k
    BY <2>5
  <2>7. g[i] <= h[i] + 1 /\ h[i] \in Nat /\ g[i] \in Nat /\ h[i] <= v[j] + MaxStall
    BY <1>1, <1>4, <2>5, <2>6
  <2>8. g[i] <= y[yn - k] + MaxStall
    BY <2>3, <2>7
  <2> QED BY <2>5, <2>6, <2>8
<1> HIDE DEF yn
<1>9. Deque(g, y)
  BY <1>1, <1>4, <1>7, <1>8, DequeMade
<1> QED BY <1>1, <1>9 DEF g, u, y

\* So the recent attempts fit the deque.
LEMMA RecentFit ==
  ASSUME NEW h, NEW v, Deque(h, v)
  PROVE  Len(Younger(v, Window - MaxStall)) <= MaxAttempts
<1> USE IngressAssumption
<1>0. PICK hn \in Nat, vn \in Nat : Counted(h, hn, v, vn)
  BY DequeParts
<1>1. /\ v \in Seq(Nat) /\ vn = Len(v) /\ hn <= MaxAttempts
      /\ \A k \in Nat : k < vn /\ v[vn - k] <= Window - MaxStall =>
           k < hn /\ h[hn - k] <= v[vn - k] + MaxStall
  BY <1>0 DEF Counted
<1>2. Window - MaxStall \in Int
  OBVIOUS
<1>3. PICK f \in 1..(vn + 1) :
        /\ Younger(v, Window - MaxStall) = SubSeq(v, f, vn)
        /\ f <= vn => v[f] <= Window - MaxStall
  BY <1>1, <1>2, YoungerSuffix
<1>4. Len(SubSeq(v, f, vn)) = vn - f + 1
  BY <1>1, SuffixFromEnd
<1>5. vn - f + 1 <= MaxAttempts
  <2>1. CASE f = vn + 1
    BY <2>1
  <2>2. CASE f # vn + 1
    <3>1. PICK k \in Nat : k = vn - f
      BY <2>2
    <3>2. k < vn /\ vn - k = f /\ f <= vn
      BY <2>2, <3>1
    <3>3. k < hn
      BY <1>1, <1>3, <3>2
    <3> QED BY <1>1, <3>1, <3>3
  <2> QED BY <2>1, <2>2
<1> QED BY <1>3, <1>4, <1>5

-----------------------------------------------------------------------------
(* The ingress. *)

DequesFit ==
  /\ DOMAIN hits = Procs /\ DOMAIN validations = Procs
  /\ \A p \in Procs : Deque(hits[p], validations[p])

\* A request is about one job id; its stamp is as old as it was held.
RequestsFit ==
  /\ DOMAIN req = Requests
  /\ \A r \in Requests :
       /\ req[r].phase \in {"idle", "clocked", "authed", "polling", "pausing", "sleeping"}
       /\ req[r].phase = "clocked" =>
            /\ DOMAIN req[r] = {"phase", "proc", "stamp", "key", "op", "sid"}
            /\ req[r].stamp \in 0..MaxStall /\ req[r].proc \in Procs
            /\ req[r].key \in Principals \cup {BadKey}
       /\ req[r].phase = "authed" => req[r].key \in Principals
       /\ req[r].phase # "idle" => req[r].sid \in Sids

\* A job that neither ended nor was lost is in the queue; what is in the queue
\* was enqueued, and what is recorded as done was completed.
JobsKept ==
  /\ job \in [Sids -> {"absent", "ready", "leased", "done", "dead"}]
  /\ ending \in [Sids -> {"none", "live", "completed", "lost"}]
  /\ accepted \subseteq Sids /\ \A s \in accepted : ending[s] # "none"
  /\ \A s \in Sids : /\ ending[s] = "live" => job[s] # "absent"
                     /\ job[s] # "absent" => ending[s] # "none"
                     /\ job[s] = "done" => ending[s] = "completed"

IngressInv == BucketFits /\ DequesFit /\ RequestsFit /\ JobsKept

\* Parts of the ingress a step leaves alone.
LEMMA UntouchedParts ==
  /\ BucketFits /\ UNCHANGED bucketVars => BucketFits'
  /\ DequesFit /\ UNCHANGED <<hits, validations>> => DequesFit'
  /\ RequestsFit /\ UNCHANGED req => RequestsFit'
  /\ JobsKept /\ UNCHANGED requestVars => JobsKept'
<1>1. BucketFits /\ UNCHANGED bucketVars => BucketFits'
  BY DEF BucketFits, bucketVars
<1>2. DequesFit /\ UNCHANGED <<hits, validations>> => DequesFit'
  BY DEF DequesFit
<1>3. RequestsFit /\ UNCHANGED req => RequestsFit'
  BY DEF RequestsFit
<1>4. JobsKept /\ UNCHANGED requestVars => JobsKept'
  BY DEF JobsKept, requestVars
<1> QED BY <1>1, <1>2, <1>3, <1>4

\* A request is answered, or gets past the guards.
LEMMA RequestMoves ==
  ASSUME RequestsFit, NEW r \in Requests, Answered(r) \/ (req[r].phase # "idle" /\ PastGuards(r))
  PROVE  RequestsFit'
<1>1. ASSUME Answered(r) PROVE RequestsFit'
  BY <1>1 DEF Answered, Idle, RequestsFit
<1>2. ASSUME req[r].phase # "idle", PastGuards(r) PROVE RequestsFit'
  BY <1>2 DEF PastGuards, RequestsFit
<1> QED BY <1>1, <1>2

\* An id that is enqueued is in the queue.
LEMMA EnqueueKeeps ==
  ASSUME JobsKept, NEW s \in Sids, EnqueueEffect(s),
         accepted' \subseteq accepted \cup {s}
  PROVE  JobsKept'
BY DEF JobsKept, EnqueueEffect

\* The deque of a process after an attempt, or a refusal.
LEMMA AttemptFits ==
  ASSUME DequesFit, NEW p \in Procs, NEW a \in 0..MaxStall,
         \/ hits' = [hits EXCEPT ![p] = FreshHits(p, a)] /\ UNCHANGED validations
         \/ /\ Len(FreshHits(p, a)) < MaxAttempts
            /\ hits' = [hits EXCEPT ![p] = Append(FreshHits(p, a), a)]
            /\ validations' = [validations EXCEPT ![p] = Append(@, 0)]
  PROVE  DequesFit'
<1> DEFINE fresh == FreshHits(p, a)
           v == validations[p]
<1>1. Deque(fresh, v)
  <2>1. Deque(hits[p], v) /\ a \in Nat
    BY IngressAssumption DEF DequesFit
  <2> QED BY <2>1, FreshKeepsRecent DEF FreshHits
<1> HIDE DEF fresh
<1>2. CASE hits' = [hits EXCEPT ![p] = fresh] /\ UNCHANGED validations
  BY <1>1, <1>2 DEF DequesFit
<1>3. CASE /\ Len(fresh) < MaxAttempts
           /\ hits' = [hits EXCEPT ![p] = Append(fresh, a)]
           /\ validations' = [validations EXCEPT ![p] = Append(@, 0)]
  <2>1. Deque(Append(fresh, a), Append(v, 0))
    BY <1>1, <1>3, AttemptDeque
  <2> QED BY <1>3, <2>1 DEF DequesFit
<1> QED BY <1>2, <1>3 DEF fresh

\* Every step of the ingress keeps its invariant.
LEMMA IngressStep == IngressInv /\ [IngressNext]_ingressVars => IngressInv'
<1> SUFFICES ASSUME IngressInv, [IngressNext]_ingressVars PROVE IngressInv'
  OBVIOUS
<1>0. BucketFits /\ DequesFit /\ RequestsFit /\ JobsKept
  BY DEF IngressInv
<1>1. ASSUME NEW r \in Requests, Refuse(r) PROVE IngressInv'
  <2>1. req[r].proc \in Procs /\ req[r].stamp \in 0..MaxStall
    BY <1>0, <1>1 DEF Refuse, RequestsFit
  <2>2. DequesFit'
    BY <1>0, <1>1, <2>1, AttemptFits DEF Refuse
  <2> QED BY <1>0, <1>1, <2>2, RequestMoves, UntouchedParts DEF Refuse, IngressInv
<1>2. ASSUME NEW r \in Requests, Authenticate(r) PROVE IngressInv'
  <2>1. /\ req[r].proc \in Procs /\ req[r].stamp \in 0..MaxStall
        /\ req[r].key \in Principals \cup {BadKey} /\ req[r].sid \in Sids
    BY <1>0, <1>2 DEF Authenticate, RequestsFit
  <2>2. DequesFit'
    BY <1>0, <1>2, <2>1, AttemptFits DEF Authenticate
  <2>3. RequestsFit'
    <3>1. CASE req[r].key = BadKey
      <4>1. Answered(r)
        BY <1>2, <3>1 DEF Authenticate, Answered
      <4> QED BY <1>0, <4>1, RequestMoves
    <3>2. CASE req[r].key # BadKey
      <4>1. req' = [req EXCEPT ![r] = [phase |-> "authed", key |-> req[r].key,
                                        op |-> req[r].op, sid |-> req[r].sid]]
        BY <1>2, <3>2 DEF Authenticate
      <4> QED BY <1>0, <2>1, <3>2, <4>1 DEF RequestsFit
    <3> QED BY <3>1, <3>2
  <2> QED BY <1>0, <1>2, <2>2, <2>3, UntouchedParts DEF Authenticate, IngressInv
<1>12. ASSUME NEW r \in Requests, NEW p \in Procs, NEW key \in Principals \cup {BadKey},
              NEW op \in {"submit", "poll"}, NEW s \in Sids, ReadClock(r, p, key, op, s)
       PROVE  IngressInv'
  <2>1. req' = [req EXCEPT ![r] = [phase |-> "clocked", proc |-> p, stamp |-> 0,
                                    key |-> key, op |-> op, sid |-> s]]
    BY <1>12 DEF ReadClock
  <2>2. 0 \in 0..MaxStall
    BY IngressAssumption
  <2>3. RequestsFit'
    BY <1>0, <2>1, <2>2 DEF RequestsFit
  <2> QED BY <1>0, <1>12, <2>3, UntouchedParts DEF ReadClock, IngressInv
<1>3. ASSUME NEW r \in Requests, Throttle(r) PROVE IngressInv'
  <2>1. req[r].key \in Principals /\ req[r].phase # "idle"
    BY <1>0, <1>3 DEF Throttle, RequestsFit
  <2>2. BucketFits'
    BY <1>0, <1>3, <2>1, CheckFits DEF Throttle
  <2>3. RequestsFit'
    BY <1>0, <1>3, <2>1, RequestMoves DEF Throttle
  <2> QED BY <1>0, <1>3, <2>2, <2>3, UntouchedParts DEF Throttle, IngressInv
<1>4. ASSUME NEW r \in Requests, ThrottleFailsOpen(r) PROVE IngressInv'
  <2>1. req[r].key \in Principals /\ req[r].phase # "idle"
    BY <1>0, <1>4 DEF ThrottleFailsOpen, RequestsFit
  <2>2. BucketFits'
    BY <1>0, <1>4, <2>1, CheckFits, UntouchedParts DEF ThrottleFailsOpen
  <2>3. RequestsFit'
    BY <1>0, <1>4, <2>1, RequestMoves DEF ThrottleFailsOpen
  <2> QED BY <1>0, <1>4, <2>2, <2>3, UntouchedParts DEF ThrottleFailsOpen, IngressInv
<1>5. ASSUME NEW r \in Requests, Pause(r) PROVE IngressInv'
  <2>1. PICK n : req' = [req EXCEPT ![r] = [phase |-> "sleeping", sid |-> @.sid, left |-> n]]
    BY <1>5 DEF Pause
  <2>2. req[r].sid \in Sids
    BY <1>0, <1>5 DEF Pause, RequestsFit
  <2>3. RequestsFit'
    BY <1>0, <2>1, <2>2 DEF RequestsFit
  <2> QED BY <1>0, <1>5, <2>3, UntouchedParts DEF Pause, IngressInv
<1>6. ASSUME NEW r \in Requests, Submit(r) PROVE IngressInv'
  <2>1. req[r].sid \in Sids
    BY <1>0, <1>6 DEF Submit, RequestsFit
  <2>2. JobsKept'
    BY <1>0, <1>6, <2>1, EnqueueKeeps DEF Submit
  <2> QED BY <1>0, <1>6, <2>2, RequestMoves, UntouchedParts DEF Submit, IngressInv
<1>7. ASSUME NEW r \in Requests, Unavailable(r) PROVE IngressInv'
  <2>1. req[r].sid \in Sids
    BY <1>0, <1>7 DEF Unavailable, RequestsFit
  <2>2. JobsKept'
    <3>1. CASE UNCHANGED <<job, ending>>
      BY <1>0, <1>7, <3>1 DEF Unavailable, JobsKept
    <3>2. CASE EnqueueEffect(req[r].sid)
      BY <1>0, <1>7, <2>1, <3>2, EnqueueKeeps DEF Unavailable
    <3> QED BY <1>7, <3>1, <3>2 DEF Unavailable
  <2> QED BY <1>0, <1>7, <2>2, RequestMoves, UntouchedParts DEF Unavailable, IngressInv
<1>8. ASSUME NEW r \in Requests, JobStatus(r) PROVE IngressInv'
  <2>1. JobsKept'
    BY <1>0, <1>8 DEF JobStatus, JobsKept
  <2> QED BY <1>0, <1>8, <2>1, RequestMoves, UntouchedParts DEF JobStatus, IngressInv
<1>9. ASSUME NEW s \in Sids, QueueMoves(s) PROVE IngressInv'
  <2>1. PICK m \in LifeMoves :
          /\ m[1] = job[s] /\ job' = [job EXCEPT ![s] = m[2]]
          /\ ending' = IF m \in {<<"leased", "done">>, <<"leased", "absent">>}
                       THEN [ending EXCEPT ![s] = "completed"] ELSE ending
    BY <1>9 DEF QueueMoves
  <2>2. /\ m[1] # "absent" /\ m[2] \in {"absent", "ready", "leased", "done", "dead"}
        /\ m[2] = "done" => ending'[s] = "completed"
        /\ m[2] = "absent" => ending'[s] = "completed"
    BY <1>0, <2>1 DEF LifeMoves, JobsKept
  <2>3. JobsKept'
    BY <1>0, <1>9, <2>1, <2>2 DEF QueueMoves, JobsKept
  <2> QED BY <1>0, <1>9, <2>3, UntouchedParts DEF QueueMoves, IngressInv
<1>13. CASE RedisRestarts
  <2>1. JobsKept'
    BY <1>0, <1>13 DEF RedisRestarts, JobsKept
  <2>2. BucketFits'
    BY <1>0, <1>13, LossFits DEF RedisRestarts
  <2> QED BY <1>0, <1>13, <2>1, <2>2, UntouchedParts DEF RedisRestarts, IngressInv
<1>10. CASE IngressTick
  <2>1. BucketFits' /\ JobsKept'
    BY <1>0, <1>10, TickFits, UntouchedParts DEF IngressTick
  <2>2. DequesFit'
    BY <1>0, <1>10, TickDeque DEF IngressTick, DequesFit
  <2>3. RequestsFit'
    <3>1. DOMAIN req' = Requests
      BY <1>10 DEF IngressTick
    <3>2. ASSUME NEW r \in Requests
          PROVE  /\ req'[r].phase = req[r].phase
                 /\ req[r].phase = "authed" => req'[r] = req[r]
                 /\ req[r].phase # "idle" => req'[r].sid = req[r].sid
                 /\ req[r].phase = "clocked" =>
                      DOMAIN req'[r] = DOMAIN req[r] /\ req'[r].proc = req[r].proc
                      /\ req'[r].key = req[r].key
      BY <1>10 DEF IngressTick
    <3>3. ASSUME NEW r \in Requests, req[r].phase = "clocked"
          PROVE  req'[r].stamp \in 0..MaxStall
      <4>1. req'[r] = [req[r] EXCEPT !.stamp = @ + 1] /\ req[r].stamp < MaxStall
        BY <1>10, <3>3 DEF IngressTick
      <4>2. req'[r].stamp = req[r].stamp + 1 /\ req[r].stamp \in 0..MaxStall
        BY <1>0, <3>3, <4>1 DEF RequestsFit
      <4> QED BY <4>1, <4>2, IngressAssumption
    <3> QED BY <1>0, <3>1, <3>2, <3>3 DEF RequestsFit
  <2> QED BY <2>1, <2>2, <2>3 DEF IngressInv
<1>11. CASE UNCHANGED ingressVars
  BY <1>0, <1>11, UntouchedParts DEF ingressVars, bucketVars, requestVars, IngressInv
<1> QED BY <1>1, <1>2, <1>3, <1>4, <1>5, <1>6, <1>7, <1>8, <1>9, <1>10, <1>11, <1>12, <1>13
        DEF IngressNext

\* The ingress starts with its invariant.
LEMMA IngressInitInv == IngressInit => IngressInv
<1> SUFFICES ASSUME IngressInit PROVE IngressInv
  OBVIOUS
<1> USE RateAssumption, IngressAssumption
<1>1. BucketFits
  <2>1. Faithful(Capacity, TTL, Capacity)
    BY DEF Faithful, Worth
  <2>2. ASSUME NEW p \in Principals
        PROVE  DOMAIN wait[p] = {"left", "live"} /\ ~wait[p].live
    <3>1. wait[p] = [left |-> 0, live |-> FALSE]
      BY DEF IngressInit, BucketInit
    <3> QED BY <3>1
  <2> QED BY <2>1, <2>2 DEF IngressInit, BucketInit, BucketFits
<1>2. DequesFit
  <2>1. Recent(<<>>, <<>>)
    BY DEF Recent
  <2>2. Deque(<<>>, <<>>)
    BY <2>1 DEF Deque
  <2> QED BY <2>2 DEF IngressInit, DequesFit
<1>3. RequestsFit /\ JobsKept
  BY DEF IngressInit, Idle, RequestsFit, JobsKept
<1> QED BY <1>1, <1>2, <1>3 DEF IngressInv

\* The buckets, the deques, the requests and the answers fit together in every
\* reachable state of the ingress.
THEOREM IngressInvariant == IngressSpec => []IngressInv
BY IngressInitInv, IngressStep, PTL DEF IngressSpec

\* The lazily refilled, expiring bucket of rate_limit.lua grants what a bucket
\* refilled on every tick would.
THEOREM BucketsAreExact == IngressSpec => []LazyEqualsEager
<1>1. IngressInv => LazyEqualsEager
  BY BucketHonest DEF IngressInv
<1> QED BY <1>1, IngressInvariant, PTL

\* retry_after_ms is the time until a request is admitted, to the tick.
THEOREM WaitsAreExact == IngressSpec => []RetryAfterHonest
<1>1. IngressInv => RetryAfterHonest
  BY BucketHonest DEF IngressInv
<1> QED BY <1>1, IngressInvariant, PTL

\* RateLimiter.check lets a process look at no more than MaxAttempts keys in a
\* window less what its threads may be held before the lock, in whatever order
\* they get it, although their stamps may then be out of order in the deque.
THEOREM AttemptsAreBounded == IngressSpec => []AttemptsBounded
<1>1. IngressInv => AttemptsBounded
  BY RecentFit DEF IngressInv, DequesFit, AttemptsBounded
<1> QED BY <1>1, IngressInvariant, PTL

\* A 202 is kept: the job is in the queue, or it was completed, or it was lost
\* when Redis started again without its data.
THEOREM AcceptedAreKept == IngressSpec => []AcceptedIsKept
<1>1. IngressInv => AcceptedIsKept
  BY DEF IngressInv, JobsKept, AcceptedIsKept
<1> QED BY <1>1, IngressInvariant, PTL

\* A 404 is given only for an id nothing was enqueued under, or whose job was
\* completed or lost with Redis's data; "unreachable is not nonexistent" (api_server_v2.py).
THEOREM NotFoundIsHonest == IngressSpec => NotFoundHonest
<1> DEFINE Honestly == \A s \in unknown' \ unknown : ending[s] # "live"
<1>1. ASSUME IngressInv, IngressNext PROVE Honestly
  <2>1. ASSUME NEW r \in Requests, JobStatus(r) PROVE Honestly
    <3>1. PICK s \in Sids : s = req[r].sid
      BY <1>1, <2>1 DEF JobStatus, IngressInv, RequestsFit
    <3>2. unknown' = IF job[s] = "absent" THEN unknown \cup {s} ELSE unknown \ {s}
      BY <2>1, <3>1 DEF JobStatus
    <3>3. ending[s] = "live" => job[s] # "absent"
      BY <1>1 DEF IngressInv, JobsKept
    <3> QED BY <3>2, <3>3
  <2>2. ASSUME unknown' \subseteq unknown PROVE Honestly
    BY <2>2
  <2>3. ASSUME NEW r \in Requests,
               \/ Refuse(r) \/ Authenticate(r)
               \/ Throttle(r) \/ ThrottleFailsOpen(r) \/ Pause(r) \/ Submit(r) \/ Unavailable(r)
        PROVE  unknown' \subseteq unknown
    BY <2>3 DEF Refuse, Authenticate, Throttle, ThrottleFailsOpen, Pause, Submit, Unavailable, requestVars
  <2>4. ASSUME NEW r \in Requests, NEW p \in Procs, NEW key \in Principals \cup {BadKey},
               NEW op \in {"submit", "poll"}, NEW s \in Sids, ReadClock(r, p, key, op, s)
        PROVE  unknown' \subseteq unknown
    BY <2>4 DEF ReadClock, requestVars
  <2>5. ASSUME \/ \E s \in Sids : QueueMoves(s)
               \/ RedisRestarts \/ IngressTick
        PROVE  unknown' \subseteq unknown
    BY <2>5 DEF QueueMoves, RedisRestarts, IngressTick, requestVars
  <2> HIDE DEF Honestly
  <2> QED BY <1>1, <2>1, <2>2, <2>3, <2>4, <2>5 DEF IngressNext
<1>2. IngressInv /\ [IngressNext]_ingressVars => [Honestly]_ingressVars
  BY <1>1
<1> QED BY <1>2, IngressInvariant, PTL DEF IngressSpec, NotFoundHonest
=============================================================================

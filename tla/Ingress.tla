------------------------------- MODULE Ingress -------------------------------
(***************************************************************************)
(* sentinel_os/api_server_v2.py: the stateless processes that accept        *)
(* submissions and answer polls, with their guards (api_key_auth.py,        *)
(* rate_limiter_v2.py) and their delay (backpressure.py), over the queue's  *)
(* promise (the lives of JobLifecycle).                                    *)
(*                                                                         *)
(* A request reads the clock, is counted and authenticated in its process,  *)
(* then throttled in Redis, then reads the queue's depth and sleeps, then   *)
(* enqueues: other requests, other processes, the workers and the clock act *)
(* between any two of those.  A Redis call may fail before or after it took *)
(* effect, and a Redis that starts again has lost everything                *)
(* (docker-compose.yml: no volume, deliberately).                           *)
(*                                                                         *)
(* `accepted`, `unknown`, `ending` and `validations` are observers: what      *)
(* callers were told, what really became of the last job under each id, and *)
(* when keys were really looked at.                                         *)
(***************************************************************************)
EXTENDS RateLimiter, Sequences, FiniteSets

CONSTANTS
  Requests,       \* concurrent requests
  Procs,          \* ingress processes
  Sids,           \* job ids callers submit
  BadKey,         \* a key nobody configured
  MaxAttempts,    \* ICEBERG_RATE_LIMIT_MAX, per process and client address
  Window,         \* ICEBERG_RATE_LIMIT_WINDOW_SECONDS, in ticks
  MaxStall,       \* ticks a thread is held before it gets the limiter's lock (bound)
  QueueCapacity,  \* TRANSMISSION_QUEUE_CAPACITY; 0 turns the delay off
  Watermark,      \* high_watermark, in percent
  MaxDelay        \* INGRESS_MAX_DELAY_SECONDS, in ticks

ASSUME IngressAssumption ==
  /\ BadKey \notin Principals
  /\ MaxAttempts \in Nat \ {0} /\ Window \in Nat /\ MaxStall \in Nat
  /\ QueueCapacity \in Nat /\ MaxDelay \in Nat
  /\ Watermark \in 1..99

VARIABLES
  req,           \* what each request is doing
  hits,          \* per process: ages of the stamps in its deque
  validations,   \* observer: ages of all attempts counted in the last Window ticks
  job,           \* the life of each job, as JobLifecycle names it
  accepted,      \* observer: ids some caller holds a 202 for
  unknown,       \* observer: ids the last answered poll got a 404 for
  ending         \* observer: what became of the last job under each id

ingressVars == <<bucket, age, ideal, wait, req, hits, validations, job,
                 accepted, unknown, ending>>

requestVars == <<accepted, unknown, ending, job>>

Idle == [phase |-> "idle"]

IngressInit ==
  /\ BucketInit
  /\ req = [r \in Requests |-> Idle]
  /\ hits = [p \in Procs |-> <<>>] /\ validations = [p \in Procs |-> <<>>]
  /\ job = [s \in Sids |-> "absent"]
  /\ accepted = {} /\ unknown = {} /\ ending = [s \in Sids |-> "none"]

Answered(r) == req' = [req EXCEPT ![r] = Idle]

-----------------------------------------------------------------------------
(* The guards, left to right.  require_api_key counts the attempt against   *)
(* the connecting address, in the memory of this process, before it looks   *)
(* at the key; all callers come through one proxy, hence one address.       *)

\* popleft while the oldest attempt, the first of the deque, is past the limit.
Younger(ages, limit) ==
  LET kept == {k \in 1..(Len(ages) + 1) : k = Len(ages) + 1 \/ ages[k] <= limit}
      first == CHOOSE k \in kept : \A m \in kept : k <= m
  IN SubSeq(ages, first, Len(ages))

\* Seeded fault: an attempt exactly as old as the window is dropped.
FreshHitsStrict(p, stamp) == Younger(hits[p], Window + stamp - 1)

\* RateLimiter.check, first half: attempts before the cutoff leave the deque;
\* the cutoff is a window before the stamp of the thread that looks.
FreshHits(p, stamp) == Younger(hits[p], Window + stamp)

\* time.monotonic(), before the lock is asked for.  A body that is too large
\* was refused with 413 before.
ReadClock(r, p, key, op, s) ==
  /\ req[r].phase = "idle"
  /\ req' = [req EXCEPT ![r] = [phase |-> "clocked", proc |-> p, stamp |-> 0,
                                key |-> key, op |-> op, sid |-> s]]
  /\ UNCHANGED <<hits, validations, bucketVars, requestVars>>

\* Under the lock: too many attempts in the deque are a 429.
Refuse(r) ==
  /\ req[r].phase = "clocked"
  /\ LET p == req[r].proc
         fresh == FreshHits(p, req[r].stamp)
     IN Len(fresh) >= MaxAttempts /\ hits' = [hits EXCEPT ![p] = fresh]
  /\ Answered(r)
  /\ UNCHANGED <<validations, bucketVars, requestVars>>

\* The attempt counts, with the stamp it came with; a missing or unknown key
\* is then a 401 or 403.
Authenticate(r) ==
  /\ req[r].phase = "clocked"
  /\ LET p == req[r].proc
         fresh == FreshHits(p, req[r].stamp)
     IN /\ Len(fresh) < MaxAttempts
        /\ hits' = [hits EXCEPT ![p] = Append(fresh, req[r].stamp)]
        /\ validations' = [validations EXCEPT ![p] = Append(@, 0)]
  /\ req' = [req EXCEPT ![r] =
               IF @.key = BadKey THEN Idle
               ELSE [phase |-> "authed", key |-> @.key, op |-> @.op, sid |-> @.sid]]
  /\ UNCHANGED <<bucketVars, requestVars>>

\* Past the guards: a poll is ready to read, a submission to pause.
PastGuards(r) ==
  req' = [req EXCEPT ![r] = [phase |-> IF @.op = "poll" THEN "polling" ELSE "pausing",
                             sid |-> @.sid]]

\* rate_limit_v2: the bucket decides, 429 when it is empty ...
Throttle(r) ==
  /\ req[r].phase = "authed"
  /\ Check(req[r].key)
  /\ IF Allowed(req[r].key) THEN PastGuards(r) ELSE Answered(r)
  /\ UNCHANGED <<hits, validations, requestVars>>

\* ... and the guard lets everybody through when Redis does not answer; the
\* script may have run all the same.
ThrottleFailsOpen(r) ==
  /\ req[r].phase = "authed"
  /\ Check(req[r].key) \/ UNCHANGED bucketVars
  /\ PastGuards(r)
  /\ UNCHANGED <<hits, validations, requestVars>>

-----------------------------------------------------------------------------
(* backpressure.py: no delay up to the watermark, then linear up to the     *)
(* ceiling at capacity (here in whole ticks, rounded up).                   *)
ReadyDepth == Cardinality({s \in Sids : job[s] = "ready"})

BackpressureDelay(depth) ==
  LET over == 100 * depth - Watermark * QueueCapacity
      full == (100 - Watermark) * QueueCapacity
  IN  IF 100 * depth <= Watermark * QueueCapacity THEN 0
      ELSE AtMost(MaxDelay, (over * MaxDelay + full - 1) \div full)

\* _ingress_pause: the depth is read once, then the request sleeps on it.
Pause(r) ==
  /\ req[r].phase = "pausing"
  /\ req' = [req EXCEPT ![r] =
               [phase |-> "sleeping", sid |-> @.sid,
                left |-> IF QueueCapacity = 0 THEN 0
                         ELSE BackpressureDelay(ReadyDepth)]]
  /\ UNCHANGED <<hits, validations, bucketVars, requestVars>>

\* TransmissionQueue.enqueue: an id the queue knows is left as it is.
EnqueueEffect(s) ==
  /\ job' = IF job[s] = "absent" THEN [job EXCEPT ![s] = "ready"] ELSE job
  /\ ending' = IF job[s] = "absent" THEN [ending EXCEPT ![s] = "live"] ELSE ending

\* Seeded fault: the handler answers 202 although Redis failed.
SubmitAnsweringEarly(r) ==
  /\ req[r].phase = "sleeping" /\ req[r].left = 0
  /\ EnqueueEffect(req[r].sid) \/ UNCHANGED <<job, ending>>
  /\ accepted' = accepted \cup {req[r].sid}
  /\ unknown' = unknown \ {req[r].sid}
  /\ Answered(r)
  /\ UNCHANGED <<hits, validations, bucketVars>>

\* submit_call and submit_mortgage_decision: 202 once the job is queued.
\* The answer may be lost on its way; the caller then knows nothing.
Submit(r) ==
  /\ req[r].phase = "sleeping" /\ req[r].left = 0
  /\ EnqueueEffect(req[r].sid)
  /\ \/ accepted' = accepted \cup {req[r].sid} /\ unknown' = unknown \ {req[r].sid}
     \/ UNCHANGED <<accepted, unknown>>
  /\ Answered(r)
  /\ UNCHANGED <<hits, validations, bucketVars>>

\* _queue_unavailable: Redis failed before the pause, the enqueue or the
\* read, or after an enqueue that took effect.  503, state unknown.
Unavailable(r) ==
  /\ req[r].phase \in {"pausing", "polling", "sleeping"}
  /\ \/ UNCHANGED <<job, ending>>
     \/ /\ req[r].phase = "sleeping" /\ req[r].left = 0
        /\ EnqueueEffect(req[r].sid)
  /\ Answered(r)
  /\ UNCHANGED <<accepted, unknown, hits, validations, bucketVars>>

\* Seeded fault: an unreachable queue is reported like an unknown id.
JobStatusConflated(r) ==
  /\ req[r].phase = "polling"
  /\ \/ unknown' = unknown \cup {req[r].sid}
     \/ /\ job[req[r].sid] # "absent"
        /\ unknown' = unknown \ {req[r].sid}
  /\ Answered(r)
  /\ UNCHANGED <<accepted, ending, job, hits, validations, bucketVars>>

\* job_status and _public_view: 404 for an id the queue does not know.
JobStatus(r) ==
  /\ req[r].phase = "polling"
  /\ unknown' = IF job[req[r].sid] = "absent" THEN unknown \cup {req[r].sid}
                ELSE unknown \ {req[r].sid}
  /\ Answered(r)
  /\ UNCHANGED <<accepted, ending, job, hits, validations, bucketVars>>

-----------------------------------------------------------------------------
\* What the workers, the reaper, an operator and retention do with a job.
LifeMoves ==
  { <<"ready", "leased">>, <<"leased", "ready">>, <<"leased", "done">>,
    <<"leased", "absent">>, <<"leased", "dead">>, <<"dead", "ready">>,
    <<"done", "absent">> }

QueueMoves(s) ==
  /\ \E m \in LifeMoves :
       /\ m[1] = job[s]
       /\ job' = [job EXCEPT ![s] = m[2]]
       /\ ending' = IF m \in {<<"leased", "done">>, <<"leased", "absent">>}
                  THEN [ending EXCEPT ![s] = "completed"] ELSE ending
  /\ UNCHANGED <<accepted, unknown, req, hits, validations, bucketVars>>

\* Redis starts again, with nothing: it has no volume.
RedisRestarts ==
  /\ job' = [s \in Sids |-> "absent"]
  /\ ending' = [s \in Sids |-> IF job[s] \in {"ready", "leased", "dead"} THEN "lost"
                             ELSE ending[s]]
  /\ BucketsLost
  /\ UNCHANGED <<accepted, unknown, req, hits, validations>>

\* Time passes for the deques, the threads before the lock, the sleepers and
\* the buckets.
IngressTick ==
  /\ BucketTick
  /\ \A r \in Requests : req[r].phase = "clocked" => req[r].stamp < MaxStall
  /\ hits' = [p \in Procs |->
                [i \in 1..Len(hits[p]) |-> AtMost(hits[p][i] + 1, Window + MaxStall + 1)]]
  /\ validations' = [p \in Procs |->
       Younger([i \in 1..Len(validations[p]) |-> validations[p][i] + 1], Window)]
  /\ req' = [r \in Requests |->
               IF req[r].phase = "sleeping" /\ req[r].left > 0
               THEN [req[r] EXCEPT !.left = @ - 1]
               ELSE IF req[r].phase = "clocked"
               THEN [req[r] EXCEPT !.stamp = @ + 1] ELSE req[r]]
  /\ UNCHANGED requestVars

IngressNext ==
  \/ \E r \in Requests, p \in Procs, key \in Principals \cup {BadKey},
        op \in {"submit", "poll"}, s \in Sids : ReadClock(r, p, key, op, s)
  \/ \E r \in Requests :
       \/ Refuse(r) \/ Authenticate(r)
       \/ Throttle(r) \/ ThrottleFailsOpen(r) \/ Pause(r) \/ Submit(r)
       \/ Unavailable(r) \/ JobStatus(r)
  \/ \E s \in Sids : QueueMoves(s)
  \/ RedisRestarts \/ IngressTick

IngressSpec == IngressInit /\ [][IngressNext]_ingressVars

-----------------------------------------------------------------------------
IngressTypeOK ==
  /\ BucketTypeOK
  /\ \A r \in Requests :
       req[r].phase \in {"idle", "clocked", "authed", "polling", "pausing", "sleeping"}
  /\ \A p \in Procs : Len(hits[p]) <= MaxAttempts
  /\ job \in [Sids -> {"absent", "ready", "leased", "done", "dead"}]
  /\ accepted \subseteq Sids /\ unknown \subseteq Sids
  /\ ending \in [Sids -> {"none", "live", "completed", "lost"}]

(* One process looks at no more than MaxAttempts keys in a window less the  *)
(* time its threads may be held between reading the clock and getting the   *)
(* lock, both ends counted, however the attempts are spread over the        *)
(* threads and in whatever order they get the lock (require_api_key,        *)
(* RateLimiter.check).                                                      *)
AttemptsBounded ==
  \A p \in Procs : Len(Younger(validations[p], Window - MaxStall)) <= MaxAttempts

(* A 202 is kept as long as Redis keeps its data: the job of an id some     *)
(* caller was told is accepted is in the queue, was completed, or was lost  *)
(* when Redis started again without its data; no delay, retry, lost answer  *)
(* or failed call between the guards and the answer leaves a 202 without a  *)
(* job, before or after such a loss (submit_call, submit_mortgage_decision).*)
AcceptedIsKept ==
  \A s \in accepted : ending[s] # "none" /\ (ending[s] = "live" => job[s] # "absent")

(* A poll is told 404 only for an id nothing was ever enqueued under, or    *)
(* whose job is completed and its record forgotten, or lost with Redis's    *)
(* data: "unreachable is not nonexistent" (api_server_v2.py line 509), also *)
(* after a submission that was answered 503 and took effect.                *)
NotFoundHonest ==
  [][\A s \in unknown' \ unknown : ending[s] # "live"]_ingressVars

-----------------------------------------------------------------------------
(* What the repository says and the code does not keep.                     *)

\* RateLimiter.check raises 429 "if `identity` has exceeded the limit": no
\* more than MaxAttempts keys are looked at in any window.  A thread that was
\* held before the lock leaves a stamp that is dropped too early.
LimitPerWindow == \A p \in Procs : Len(validations[p]) <= MaxAttempts

\* "Returns 202 the moment the job is durably in the queue": an accepted job
\* is in the queue or was completed, whatever happens to Redis.
AcceptedIsDurable == \A s \in accepted : job[s] # "absent" \/ ending[s] = "completed"

\* "404 job_not_found - this ID was NEVER accepted by the ingress": the last
\* answer anybody got for an accepted id is not a 404.
NotFoundNeverAccepted == unknown \cap accepted = {}
=============================================================================

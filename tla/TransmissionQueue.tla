-------------------------- MODULE TransmissionQueue --------------------------
(***************************************************************************)
(* The Redis job queue between ingress and the governance workers:         *)
(* sentinel_os/queue_schema.py and the Lua scripts it registers.           *)
(*                                                                         *)
(* Every script runs atomically in Redis, so each one is a single action.  *)
(* A job is a hash plus its place in five structures: the list `pending`   *)
(* and the sorted sets `scheduled`, `processing`, `dead` and `done`.       *)
(*                                                                         *)
(* Time.  The scripts read the Redis clock and compare scores with it.     *)
(* Here a score is kept as a timer: the ticks left until the score is due  *)
(* (`scheduled`, `processing`, `expires`) or the ticks since it was set    *)
(* (`done`), and Tick moves every timer by one.  Timers saturate, so the   *)
(* relative order of two scores that are both due is lost: the batch a     *)
(* script takes from the due members, and the order in which it pushes     *)
(* them, are chosen freely, which includes the order by score.             *)
(*                                                                         *)
(* Clients.  A claim() hands the caller a ClaimedJob carrying worker_id    *)
(* and claim_id.  `tokens` is the set of those still in a client's hands;  *)
(* a client may use one at any later time, more than once, or lose it.     *)
(***************************************************************************)
EXTENDS Integers, Sequences, FiniteSets

CONSTANTS
  Jobs,          \* job ids (call_sid / episode ids)
  Workers,       \* worker_id values
  ClaimIds,      \* claim_id values: secrets.token_hex(8)
  Reasons,       \* Reason taxonomy values the clients report
  Budgets,       \* max_attempts values a job may be enqueued with
  Lease,         \* lease_ms, in ticks
  BaseBackoff,   \* base_backoff_ms, in ticks
  MaxBackoff,    \* max_backoff_ms, in ticks
  Jitter,        \* jitter_ms, in ticks
  DoneKeep,      \* done_keep_ms, in ticks; 0 deletes on ack
  SweepSlack,    \* the 1000 ms verify_invariants() subtracts, in ticks
  Batch,         \* promote_batch and the reap batch
  MaxScan,       \* dangling references one claim may skip
  TrailKeep,     \* error_trail_keep
  MaxAdmissions, \* bound: successful enqueues in a behaviour
  MaxRequeues,   \* bound: operator requeues in a behaviour
  Nil            \* an absent hash field

ASSUME QueueConstants ==
  /\ IsFiniteSet(Jobs)
  /\ Budgets \subseteq Nat \ {0}
  /\ Lease \in Nat \ {0}
  /\ BaseBackoff \in Nat /\ MaxBackoff \in Nat /\ Jitter \in Nat
  /\ DoneKeep \in Nat /\ SweepSlack \in Nat
  /\ Batch \in Nat \ {0} /\ MaxScan \in Nat \ {0} /\ TrailKeep \in Nat \ {0}
  /\ MaxAdmissions \in Nat /\ MaxRequeues \in Nat
  /\ Nil \notin Workers /\ Nil \notin ClaimIds /\ Nil \notin Reasons
  /\ {"process_crash", "data_corruption", "unclassified"} \subseteq Reasons

VARIABLES
  status,      \* job hash: status, or "absent" when the key does not exist
  attempts,    \* job hash: attempts
  budget,      \* job hash: max_attempts
  claimedBy,   \* job hash: claimed_by
  claimId,     \* job hash: claim_id
  deadReason,  \* job hash: dead_reason
  escalate,    \* job hash: escalate
  intact,      \* job hash: payload still matches its checksum
  expires,     \* PEXPIRE timer of the job hash and its error trail
  trail,       \* errors:<id>, newest first
  pending,     \* list, next to pop first
  scheduled,   \* zset: ticks until the retry is due
  processing,  \* zset: ticks until the lease deadline
  dead,        \* zset, as the set of its members
  done,        \* zset: ticks since completion
  orphans,     \* ids quarantined because no job hash exists
  counters,    \* the lifetime counters the accounting relies on
  tokens       \* ClaimedJob values in clients' hands

hashVars == <<status, attempts, budget, claimedBy, claimId, deadReason,
              escalate, intact, expires, trail>>
placeVars == <<pending, scheduled, processing, dead, done, orphans>>
vars == <<hashVars, placeVars, counters, tokens>>

Statuses == {"absent", "pending", "scheduled", "processing", "dead", "done"}

CounterNames == {"enqueued", "completed", "dead", "requeued"}

\* A zset without this member, a key without a TTL.
Off == -1

Token == [job : Jobs, worker : Workers, claim : ClaimIds, intact : BOOLEAN]

Minimum(a, b) == IF a <= b THEN a ELSE b

Members(seq) == {seq[i] : i \in DOMAIN seq}

\* All the ways to list a finite set.
Orderings(S) ==
  {s \in [1..Cardinality(S) -> S] :
     /\ \A a, b \in DOMAIN s : s[a] = s[b] => a = b
     /\ \A x \in S : \E a \in DOMAIN s : s[a] = x}

\* ZRANGEBYSCORE ... LIMIT 0 Batch over members that are all due.
Batches(due) ==
  {B \in SUBSET due : /\ Cardinality(B) <= Batch
                      /\ B = due \/ Cardinality(B) = Batch}

\* Seeded fault: a resubmission resets a completed job.
ExistsUnfinished(j) == status[j] \notin {"absent", "done"}

\* EXISTS jkey
Exists(j) == status[j] # "absent"

DueRetries == {j \in Jobs : scheduled[j] = 0}

\* Seeded faults: the reaper takes a lease a tick early, or leaves a job whose
\* budget is spent where it is.
ExpiredLeasesEarly == {j \in Jobs : processing[j] \in 0..1}

ExpiredLeasesInBudget == {j \in Jobs : processing[j] = 0 /\ attempts[j] < budget[j]}

ExpiredLeases == {j \in Jobs : processing[j] = 0}

\* Seeded faults: the fence compares only the worker, or nothing at all.
OwnerCheckByWorker(j, w, c) ==
  CASE ~Exists(j) -> "gone"
    [] Exists(j) /\ (status[j] # "processing" \/ claimedBy[j] # w) -> "stale"
    [] OTHER -> "ok"

OwnerCheckUnfenced(j, w, c) == IF Exists(j) THEN "ok" ELSE "gone"

\* owner_check: "ok" | "gone" | "stale"
OwnerCheck(j, w, c) ==
  CASE ~Exists(j) -> "gone"
    [] Exists(j) /\ ( \/ status[j] # "processing"
                      \/ claimedBy[j] # w
                      \/ claimId[j] # c ) -> "stale"
    [] OTHER -> "ok"

Owns(t) == OwnerCheck(t.job, t.worker, t.claim) = "ok"

\* Seeded fault: the trail keeps the oldest errors.
RecordedOldest(j, reason) ==
  SubSeq(trail[j] \o <<reason>>, 1, Minimum(TrailKeep, Len(trail[j]) + 1))

\* record_error: LPUSH, then LTRIM to TrailKeep entries.
Recorded(j, reason) ==
  SubSeq(<<reason>> \o trail[j], 1, Minimum(TrailKeep, Len(trail[j]) + 1))

\* Capped exponential backoff after the n-th attempt, jitter added after the cap.
Backoffs(n) ==
  {delay + jitter : delay \in {d \in 0..MaxBackoff :
                                 d = Minimum(BaseBackoff * 2^(n - 1), MaxBackoff)},
                    jitter \in 0..Jitter}

Init ==
  /\ status = [j \in Jobs |-> "absent"]
  /\ attempts = [j \in Jobs |-> 0]
  /\ budget = [j \in Jobs |-> 0]
  /\ claimedBy = [j \in Jobs |-> Nil]
  /\ claimId = [j \in Jobs |-> Nil]
  /\ deadReason = [j \in Jobs |-> Nil]
  /\ escalate = [j \in Jobs |-> FALSE]
  /\ intact = [j \in Jobs |-> TRUE]
  /\ expires = [j \in Jobs |-> Off]
  /\ trail = [j \in Jobs |-> <<>>]
  /\ pending = <<>>
  /\ scheduled = [j \in Jobs |-> Off]
  /\ processing = [j \in Jobs |-> Off]
  /\ dead = {}
  /\ done = [j \in Jobs |-> Off]
  /\ orphans = {}
  /\ counters = [c \in CounterNames |-> 0]
  /\ tokens = {}

-----------------------------------------------------------------------------
(* enqueue.lua.  A duplicate job_id only bumps a counter that is not kept   *)
(* here, so the guard is the EXISTS test.                                   *)
Enqueue(j, b) ==
  /\ ~Exists(j)
  /\ counters["enqueued"] < MaxAdmissions
  /\ status' = [status EXCEPT ![j] = "pending"]
  /\ attempts' = [attempts EXCEPT ![j] = 0]
  /\ budget' = [budget EXCEPT ![j] = b]
  /\ intact' = [intact EXCEPT ![j] = TRUE]
  /\ pending' = Append(pending, j)
  /\ counters' = [counters EXCEPT !["enqueued"] = @ + 1]
  /\ UNCHANGED <<claimedBy, claimId, deadReason, escalate, expires, trail,
                 scheduled, processing, dead, done, orphans, tokens>>

\* The entry of the line the pop loop stops at, or 0 when it finds no job hash.
FirstLive(line) ==
  LET window == 1..Minimum(MaxScan, Len(line))
      live == {k \in window : Exists(line[k])}
  IN IF live = {} THEN 0
     ELSE CHOOSE k \in live : \A m \in live : k <= m

\* A claim_id nobody holds: token_hex(8) never repeats one still in use.
Fresh(c) ==
  /\ \A j \in Jobs : claimId[j] # c
  /\ \A t \in tokens : t.claim # c

\* Seeded fault: a promoted retry stays scheduled.
UnscheduleNothing(B) == UNCHANGED scheduled

\* The due retries of a batch leave the scheduled set.
Unschedule(B) ==
  scheduled' = [j \in Jobs |-> IF j \in B THEN Off ELSE scheduled[j]]

\* The pop loop takes a job from the line and stamps the lease on it; ids
\* without a hash that it met on the way are quarantined.
PopJob(line, w, c) ==
  LET k == FirstLive(line)
      j == line[k]
  IN /\ k # 0
     /\ pending' = SubSeq(line, k + 1, Len(line))
     /\ orphans' = orphans \cup {line[i] : i \in 1..(k - 1)}
     /\ attempts' = [attempts EXCEPT ![j] = @ + 1]
     /\ status' = [status EXCEPT ![j] = "processing"]
     /\ claimedBy' = [claimedBy EXCEPT ![j] = w]
     /\ claimId' = [claimId EXCEPT ![j] = c]
     /\ processing' = [processing EXCEPT ![j] = Lease]
     /\ tokens' = tokens \cup
          {[job |-> j, worker |-> w, claim |-> c, intact |-> intact[j]]}

\* The pop loop runs out of line, or of scans, without meeting a live job.
PopNothing(line) ==
  LET popped == Minimum(MaxScan, Len(line))
  IN /\ FirstLive(line) = 0
     /\ pending' = SubSeq(line, popped + 1, Len(line))
     /\ orphans' = orphans \cup {line[i] : i \in 1..popped}

(* claim.lua: promote the due retries, without touching their status, then  *)
(* lease the first job of the line.                                         *)
ClaimJob(w, c) ==
  /\ Fresh(c)
  /\ \E B \in Batches(DueRetries) : \E order \in Orderings(B) :
        Unschedule(B) /\ PopJob(pending \o order, w, c)
  /\ UNCHANGED <<budget, deadReason, escalate, intact, expires, trail,
                 dead, done, counters>>

ClaimNothing ==
  /\ \E B \in Batches(DueRetries) : \E order \in Orderings(B) :
        Unschedule(B) /\ PopNothing(pending \o order)
  /\ UNCHANGED <<hashVars, processing, dead, done, counters, tokens>>

(* ack.lua under the claim fence.  A caller that does not own the claim     *)
(* gets STALE or GONE back and changes nothing kept here.                   *)
Ack(t) ==
  LET j == t.job IN
  /\ t.intact
  /\ Owns(t)
  /\ processing' = [processing EXCEPT ![j] = Off]
  /\ claimedBy' = [claimedBy EXCEPT ![j] = Nil]
  /\ claimId' = [claimId EXCEPT ![j] = Nil]
  /\ IF DoneKeep > 0
     THEN /\ status' = [status EXCEPT ![j] = "done"]
          /\ expires' = [expires EXCEPT ![j] = DoneKeep]
          /\ done' = [i \in Jobs |-> IF i = j THEN 0
                                     ELSE IF done[i] >= DoneKeep THEN Off
                                     ELSE done[i]]
          /\ UNCHANGED trail
     ELSE /\ status' = [status EXCEPT ![j] = "absent"]
          /\ trail' = [trail EXCEPT ![j] = <<>>]
          /\ UNCHANGED <<expires, done>>
  /\ counters' = [counters EXCEPT !["completed"] = @ + 1]
  /\ UNCHANGED <<attempts, budget, deadReason, escalate, intact,
                 pending, scheduled, dead, orphans, tokens>>

\* Seeded fault: the budget is off by one.
DeadLettersLate(j, retryable) == ~retryable \/ attempts[j] > budget[j]

\* The dead-letter branch fail.lua takes.
DeadLetters(j, retryable) == ~retryable \/ attempts[j] >= budget[j]

(* fail.lua under the claim fence: the reason is recorded first, then the   *)
(* job is dead-lettered or scheduled for a backed-off retry.                *)
Fail(t, reason, retryable) ==
  LET j == t.job IN
  /\ Owns(t)
  /\ trail' = [trail EXCEPT ![j] = Recorded(j, reason)]
  /\ processing' = [processing EXCEPT ![j] = Off]
  /\ claimedBy' = [claimedBy EXCEPT ![j] = Nil]
  /\ claimId' = [claimId EXCEPT ![j] = Nil]
  /\ \/ /\ DeadLetters(j, retryable)
        /\ status' = [status EXCEPT ![j] = "dead"]
        /\ deadReason' = [deadReason EXCEPT ![j] = reason]
        /\ escalate' = [escalate EXCEPT ![j] = (reason = "unclassified")]
        /\ dead' = dead \cup {j}
        /\ counters' = [counters EXCEPT !["dead"] = @ + 1]
        /\ UNCHANGED scheduled
     \/ /\ ~DeadLetters(j, retryable)
        /\ status' = [status EXCEPT ![j] = "scheduled"]
        /\ \E backoff \in Backoffs(attempts[j]) :
             scheduled' = [scheduled EXCEPT ![j] = backoff]
        /\ UNCHANGED <<deadReason, escalate, dead, counters>>
  /\ UNCHANGED <<attempts, budget, intact, expires, pending, done, orphans,
                 tokens>>

(* fail() as the caller of a claim makes it.                                *)
FailClaim(t, reason, retryable) == t.intact /\ Fail(t, reason, retryable)

(* claim() dead-lettering a payload whose checksum does not match: the      *)
(* caller of claim() never receives it.                                     *)
FailCorrupt(t) == ~t.intact /\ Fail(t, "data_corruption", FALSE)

(* heartbeat.lua under the claim fence.                                     *)
Heartbeat(t) ==
  /\ t.intact
  /\ Owns(t)
  /\ processing' = [processing EXCEPT ![t.job] = Lease]
  /\ UNCHANGED <<hashVars, pending, scheduled, dead, done, orphans,
                 counters, tokens>>

(* promote_due.lua: claim's promotion, plus status = 'pending'.             *)
PromoteDue ==
  /\ \E B \in Batches(DueRetries) : \E order \in Orderings(B) :
       /\ pending' = pending \o order
       /\ Unschedule(B)
       /\ status' = [j \in Jobs |-> IF j \in B THEN "pending" ELSE status[j]]
  /\ UNCHANGED <<attempts, budget, claimedBy, claimId, deadReason, escalate,
                 intact, expires, trail, processing, dead, done, orphans,
                 counters, tokens>>

\* Every expired lease of the batch is recorded as a crash, and its job
\* requeued, dead-lettered, or quarantined when it has no hash.
ReapBatch(R) ==
  LET lost == {j \in R : ~Exists(j)}
      found == R \ lost
      spent == {j \in found : attempts[j] >= budget[j]}
      back == found \ spent
  IN /\ processing' = [j \in Jobs |-> IF j \in R THEN Off ELSE processing[j]]
     /\ orphans' = orphans \cup lost
     /\ trail' = [j \in Jobs |-> IF j \in found THEN Recorded(j, "process_crash")
                                 ELSE trail[j]]
     /\ claimedBy' = [j \in Jobs |-> IF j \in found THEN Nil ELSE claimedBy[j]]
     /\ claimId' = [j \in Jobs |-> IF j \in found THEN Nil ELSE claimId[j]]
     /\ status' = [j \in Jobs |-> IF j \in spent THEN "dead"
                                  ELSE IF j \in back THEN "pending"
                                  ELSE status[j]]
     /\ deadReason' = [j \in Jobs |-> IF j \in spent THEN "process_crash"
                                      ELSE deadReason[j]]
     /\ escalate' = [j \in Jobs |-> IF j \in spent THEN FALSE ELSE escalate[j]]
     /\ dead' = dead \cup spent
     /\ counters' = [counters EXCEPT !["dead"] = @ + Cardinality(spent)]
     /\ \E order \in Orderings(back) : pending' = pending \o order
     /\ UNCHANGED <<attempts, budget, intact, expires, scheduled, done, tokens>>

(* reap.lua *)
Reap == \E R \in Batches(ExpiredLeases) : ReapBatch(R)

(* requeue_dead.lua: an operator gives a dead job a fresh budget.           *)
RequeueDead(j) ==
  /\ status[j] = "dead"
  /\ counters["requeued"] < MaxRequeues
  /\ dead' = dead \ {j}
  /\ status' = [status EXCEPT ![j] = "pending"]
  /\ attempts' = [attempts EXCEPT ![j] = 0]
  /\ deadReason' = [deadReason EXCEPT ![j] = Nil]
  /\ escalate' = [escalate EXCEPT ![j] = FALSE]
  /\ pending' = Append(pending, j)
  /\ counters' = [counters EXCEPT !["requeued"] = @ + 1]
  /\ UNCHANGED <<budget, claimedBy, claimId, intact, expires, trail,
                 scheduled, processing, done, orphans, tokens>>

\* The age at which verify_invariants() prunes a member of the done set.
PruneAge == IF DoneKeep > SweepSlack THEN DoneKeep - SweepSlack ELSE 0

(* verify_invariants() first prunes the done set at the retention boundary. *)
SweepDone ==
  /\ DoneKeep > 0
  /\ done' = [j \in Jobs |-> IF done[j] >= PruneAge THEN Off ELSE done[j]]
  /\ UNCHANGED <<hashVars, pending, scheduled, processing, dead, orphans,
                 counters, tokens>>

-----------------------------------------------------------------------------
(* The environment: Redis time, payload corruption, lost claims.            *)

\* A timer that runs stops at 0; one that is off stays off.
CountDown(n) == IF n > 0 THEN n - 1 ELSE n

\* The Redis clock advances one tick; a hash whose TTL runs out disappears.
Tick ==
  LET gone == {j \in Jobs : expires[j] = 1}
  IN /\ scheduled' = [j \in Jobs |-> CountDown(scheduled[j])]
     /\ processing' = [j \in Jobs |-> CountDown(processing[j])]
     /\ done' = [j \in Jobs |-> IF done[j] = Off THEN Off
                                ELSE Minimum(done[j] + 1, DoneKeep)]
     /\ expires' = [j \in Jobs |-> IF j \in gone THEN Off ELSE CountDown(expires[j])]
     /\ status' = [j \in Jobs |-> IF j \in gone THEN "absent" ELSE status[j]]
     /\ trail' = [j \in Jobs |-> IF j \in gone THEN <<>> ELSE trail[j]]
     /\ UNCHANGED <<attempts, budget, claimedBy, claimId, deadReason, escalate,
                    intact, pending, dead, orphans, counters, tokens>>

\* The stored payload of a job no longer matches its checksum.
Corrupt(j) ==
  /\ Exists(j) /\ intact[j]
  /\ intact' = [intact EXCEPT ![j] = FALSE]
  /\ UNCHANGED <<status, attempts, budget, claimedBy, claimId, deadReason,
                 escalate, expires, trail, placeVars, counters, tokens>>

\* A client crashes, or is finished with its claim.
Drop(t) ==
  /\ tokens' = tokens \ {t}
  /\ UNCHANGED <<hashVars, placeVars, counters>>

Next ==
  \/ \E j \in Jobs, b \in Budgets : Enqueue(j, b)
  \/ \E w \in Workers, c \in ClaimIds : ClaimJob(w, c)
  \/ ClaimNothing
  \/ \E t \in tokens : Ack(t)
  \/ \E t \in tokens, r \in Reasons, retryable \in BOOLEAN :
        FailClaim(t, r, retryable)
  \/ \E t \in tokens : FailCorrupt(t)
  \/ \E t \in tokens : Heartbeat(t)
  \/ PromoteDue
  \/ Reap
  \/ \E j \in Jobs : RequeueDead(j)
  \/ SweepDone
  \/ Tick
  \/ \E j \in Jobs : Corrupt(j)
  \/ \E t \in tokens : Drop(t)

Spec == Init /\ [][Next]_vars

-----------------------------------------------------------------------------
(* Properties. *)

\* Every variable has its type: hashes, timers and the claim tokens.
TypeOK ==
  /\ status \in [Jobs -> Statuses]
  /\ attempts \in [Jobs -> Nat]
  /\ budget \in [Jobs -> Nat]
  /\ claimedBy \in [Jobs -> Workers \cup {Nil}]
  /\ claimId \in [Jobs -> ClaimIds \cup {Nil}]
  /\ deadReason \in [Jobs -> Reasons \cup {Nil}]
  /\ escalate \in [Jobs -> BOOLEAN]
  /\ intact \in [Jobs -> BOOLEAN]
  /\ expires \in [Jobs -> Nat \cup {Off}]
  /\ trail \in [Jobs -> Seq(Reasons)]
  /\ pending \in Seq(Jobs)
  /\ scheduled \in [Jobs -> Nat \cup {Off}]
  /\ processing \in [Jobs -> Nat \cup {Off}]
  /\ dead \subseteq Jobs
  /\ done \in [Jobs -> Nat \cup {Off}]
  /\ orphans \subseteq Jobs
  /\ counters \in [CounterNames -> Nat]
  /\ tokens \subseteq Token

\* A job waiting in the pending list is there once.
NoDuplicatePending ==
  \A a, b \in DOMAIN pending : pending[a] = pending[b] => a = b

\* Which live structures a job is in follows from its hash alone.
PlacedByStatus(j) ==
  /\ j \in Members(pending) <=> /\ status[j] \in {"pending", "scheduled"}
                                /\ scheduled[j] = Off
  /\ scheduled[j] # Off => status[j] = "scheduled"
  /\ processing[j] # Off <=> status[j] = "processing"
  /\ j \in dead <=> status[j] = "dead"

\* The design invariant of queue_schema.py for unfinished work: a job with a
\* live hash is in exactly one of pending, scheduled, processing and dead, an
\* id without a live hash is in none of them, and nothing is ever quarantined
\* as an orphan, whatever the order in which scripts, crashes and time act.
OneStructure ==
  /\ NoDuplicatePending
  /\ \A j \in Jobs : PlacedByStatus(j)
  /\ orphans = {}

\* The attempt budget holds across retries, crashes and operator requeues: no
\* job runs more than max_attempts times between two admissions, and a job
\* that waits to run has an attempt left.
BudgetRespected ==
  \A j \in Jobs :
    /\ attempts[j] <= budget[j]
    /\ status[j] \in {"pending", "scheduled"} => attempts[j] < budget[j]

\* A dead letter always says why: dead_reason is set, it is the newest entry
\* of the error trail, and escalate marks exactly the unclassified ones.
DeadDiagnosed ==
  \A j \in dead :
    /\ deadReason[j] # Nil
    /\ trail[j] # <<>> /\ trail[j][1] = deadReason[j]
    /\ escalate[j] <=> (deadReason[j] = "unclassified")

Unfinished == {j \in Jobs : status[j] \notin {"absent", "done"}}

\* No silent loss: jobs admitted and not completed are all still held, and
\* the dead-letter counters account for the jobs in the dead set.
Accounting ==
  /\ counters["enqueued"] - counters["completed"] = Cardinality(Unfinished)
  /\ counters["dead"] - counters["requeued"] = Cardinality(dead)

\* The fence is one way: a claim that lost its job (acked, failed, reaped,
\* reclaimed) never passes owner_check again, even when the same worker
\* claims the same job anew.
FencedForever == [][\A t \in tokens : ~Owns(t) => ~Owns(t)']_vars

\* While a lease runs, only the holder of the live claim ends it: neither the
\* reaper nor another worker takes a job from a worker within its lease.
LeaseRespected ==
  [][\A j \in Jobs : processing[j] > 0 /\ processing'[j] = Off =>
        \E t \in tokens : t.job = j /\ Owns(t)]_vars

\* "A completed job is never reset or re-run by a resubmit" (enqueue.lua): the
\* record of a completed job only disappears, and only when its TTL runs out.
CompletedStays ==
  [][\A j \in Jobs : status[j] = "done" =>
        \/ status'[j] = "done"
        \/ status'[j] = "absent" /\ expires[j] = 1]_vars

-----------------------------------------------------------------------------
(* What the repository says and the code does not keep. *)

\* The structures verify_invariants() finds a job in, after its own prune.
Places(j) ==
  {place \in Statuses \ {"absent"} :
     CASE place = "pending" -> j \in Members(pending)
       [] place = "scheduled" -> scheduled[j] # Off
       [] place = "processing" -> processing[j] # Off
       [] place = "dead" -> j \in dead
       [] place = "done" -> done[j] \in 0..(PruneAge - 1)}

\* verify_invariants(): in every state the queue reaches, each job hash is in
\* exactly one structure, the one its status names, and every member of a
\* structure has a hash; "a record mid-expiry is never a false violation".
AuditClean ==
  \A j \in Jobs : Places(j) = IF Exists(j) THEN {status[j]} ELSE {}
=============================================================================

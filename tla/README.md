# A TLA+ model of sentinel_os

`sentinel_os` is a custody runtime for automated decisions. A decision system
submits episodes over HTTP; a Redis queue carries them to workers; a worker has
the episode judged and governed and records the outcome in a hash-chained
PostgreSQL ledger; the ledger's head is sealed in an external anchor file and
its rows are shipped to an independent twin. What the system sells is evidence,
so what has to be right is that no episode is lost on the way, that what is
acknowledged is recorded, that nothing is recorded twice, and that the chain
says so in an order nobody can change afterwards.

This directory holds the TLA+ modules that model those parts, the
configurations TLC checks them with, and the theorems TLAPS proves about them.
`PROJECT.json` maps every definition to the source lines it models and lists
components, runs, hazards, findings and theorems.

Paths below are relative to `src/sentinel_os/`.

## 1. Inventory

### Core path

| Component | State it keeps | Operations | Talks to |
|---|---|---|---|
| Transmission queue (`queue_schema.py`, `lua/*.lua`) | per job a hash (status, attempts, max_attempts, claimed_by, claim_id, dead_reason, escalate, payload and checksum, TTL), an error trail, and its place in `pending`, `scheduled`, `processing`, `dead`, `done`; counters; quarantine of orphans | enqueue, claim, ack, fail, heartbeat, promote_due, reap, requeue_dead, audit with prune | ingress, workers, operators, the twin's sync worker |
| Worker (`sentinel_worker.py`) | claim in hand, `_current_job` shared by the claim loop and the reaper thread | run_forever, handle_one, process_call, start_reaper's loop | queue, harness, ledger |
| Harness (`governance_harness.py`, `governance_decider.py`) | cassette and deck in use | process, _write_decision, swap_cassette | governor, deck, conservation boundary, ledger |
| Ledger (`governance/ledger_postgres.py`) | `ledger_entries` in id order, an advisory lock | about twenty writers sharing one protocol, verify_chain, views | PostgreSQL, anchor |
| Head anchor (`twin_custody.py`) | one file: head hash, row count, signature | write_head_anchor, read_head_anchor, check_head_anchor | ledger writers, verify_chain |
| Regulatory deck (`regulatory_deck.py`) | inserted lenses, live or observing | insert, remove, judge with disclosure | harness, ledger |

### Around it

| Component | State it keeps | Operations |
|---|---|---|
| Ingress (`api_server_v2.py`, `backpressure.py`, `api_key_auth.py`) | per process the recent key attempts; reads the queue's depth | authenticate, throttle, delay, submit, status, human selection |
| Rate limiter (`rate_limiter_v2.py`, `lua/rate_limit.lua`) | a token bucket per principal | check-and-consume, refill, expiry |
| Circuit breaker (`circuit_breaker.py`) | state, failure count, probe in flight, opening time | call, outcomes, reset |
| Twin (`twin_shipper.py`, `twin_sync_worker.py`, `twin_receiver.py`, `twin_detector.py`, `twin_custodian.py`) | cursor per target, replica entries, custody log, nonces | ship, deliver, store, detect, decrypt |
| Obligations (`outcome_v1.py`, `obligation_supersession.py`, `obligation_sweep.py`, part of `twin_receiver.py`) | obligation chain and cohort reviews per replica | derive, resolve, abandon, stay open, supersede, review |
| Contracts (`contract_*.py`) | approval, egress, retention and deletion rows of the ledger | request_egress, approve, revoke, assess retention |
| Attestation (`governance/authorized_by_attestation.py`, `canonical_fields.py`) | active and retired keys | attest, verify at a position of the chain |
| Conservation boundary (`conservation/`) | a gateway per check: accepted artifacts, transformation ids, its ledger | ingest a root, register a gem, submit, verify_governed_decision |
| Action authorization (`governance/action_authorization_v1.py`) | none; asks four providers | authorize |
| SAGE-K (`sage_k/`) | a graph, drift measures, proposals | observe, detect drift, propose, realign |
| Log rotation (`governance/log_rotation_v1.py`) | chunks and manifest on disk | flush, resume, verify |
| Cassettes, episodes, events, regulatory checks, BISG, impact, epistemic gate, sealed demographics, scenarios, loop guard, cost tracking | mostly stateless | construction, validation, scoring |

### What is hard in this code

* **Leases.** A worker that stalls past its lease still runs. Its ack, fail and
  heartbeat must bounce, also when the same worker has since claimed the same
  job again (`lua/_common.lua`, owner_check).
* **At-least-once delivery.** The queue redelivers after crashes, expired
  leases, operator requeues and expired done records; the ledger has to make
  the effect happen once.
* **Two threads, one variable.** The reaper thread copies `_current_job` and
  uses the copy later.
* **Check, then act, in two transactions.** episode_decision_exists before
  append_decision; look-ups before an insert; the anchor after the commit.
* **Concurrent writers** of one hash chain, from any number of processes.
* **Two clocks for one record.** A completed job's hash expires by its TTL,
  its member of the done set when somebody prunes it.
* **Reads in sequence.** The detector, the retention sweep, the authorization
  gate and verify_chain compare things they read one after the other while all
  of them go on changing.
* **Late outcomes.** A call the breaker admitted reports after the breaker has
  opened, half-opened or closed again.
* **Partial failure.** Every call to Redis, PostgreSQL, the governor and the
  file system may fail before or after it took effect. A ledger write that
  raises may have committed: the anchor is written after the commit.
* **A Redis without a volume.** `docker-compose.yml` says so on purpose: a
  restart forgets queued jobs, buckets and the shipper's cursor, and the client
  library reconnects without a word.

The complete list, with lines, is under "hazards" in `PROJECT.json`.

### What makes each component correct

* Queue: an admitted job is in one live structure, is counted, is not run more
  often than its budget, is not taken from a worker within its lease, and a
  lost claim stays lost. A completed job is not run again while it is
  remembered.
* Worker: an acked job is on the ledger; an episode is decided once; what was
  refused is not recorded; every admitted job ends.
* Ledger: rows form one unbroken chain, are never changed, are bound, marked
  and referenced consistently whoever writes concurrently; the anchor lags the
  chain and never leads it.
* Limiter, breaker, ingress: the lazily refilled bucket grants what an eager
  one would; a taken probe slot is somebody's and an open breaker is probed
  again; a 202 means the job is kept for as long as Redis keeps its data, a 404
  that there is no such job, for whatever reason.
* Twin: no row falls between cursor and replica unless Redis is lost in the
  middle of a pass; the detector's verdict can be relied on; no plaintext is released twice or off the record; a migration is
  whole.
* Obligations: what is owed is witnessed and stays so; a cohort that loses a
  subject says so (one of the three does not always); what is closed stays
  closed (it does not: finding 5).
* Contracts: no egress is authorized against a readable revocation, and the
  standing check passes none among the rows it reads; what a counterparty is
  told agrees with the record as far as its hashes go.
* Attestation: signed claims hold across rotation, retirement and loss of keys.
* Boundary: accepted artifacts have a lineage; a durable decision rests on what
  its events observed and on nothing an actor merely reported.
* Log rotation: what flush acknowledged stays, or verify says so while there is
  a manifest.
* Deck and gate: a lens never acts without an insertion on the record; a block is released only by
  a genuine override of that very decision.

## 2. Modules

| Module | Models |
|---|---|
| `TransmissionQueue` | the queue: one action per Lua script, plus time, payload damage and clients that vanish |
| `JobLifecycle` | abstract specification: what the queue promises about one job |
| `QueueRefinement` | the mapping under which the queue implements `JobLifecycle` |
| `SentinelWorker` | workers with claim loop and reaper thread, composed with the queue and with the part of the ledger they see |
| `LedgerChain` | the write protocol of the ledger, verify_chain, the head anchor |
| `AttestationKeys` | signatures of authorization claims, policy markers and keys along the chain |
| `ConservationGateway` | the transport gateway of the conservation boundary |
| `GovernedDecision` | events folded into an episode, the boundary checks before a decision is durable, reconstruct_decision; extends `ConservationGateway` |
| `CircuitBreaker` | one breaker shared by threads |
| `RateLimiter` | the token bucket in Redis |
| `Ingress` | the API processes and their guards; extends `RateLimiter` |
| `TwinReplication` | shipper, sync queue (by the lives of `JobLifecycle`), sync workers, receiver |
| `TwinDetection` | twin_detector over a replica and a primary that go on changing |
| `TwinCustodian` | the custodian's nonces, files and audit log |
| `TwinMigration` | registration at the receiver and twin_migrate |
| `Obligations` | the obligation chain, supersession, cohort review |
| `ContractEgress` | contract terms, approvals, egress requests, the standing check |
| `ContractRetention` | ingest and deletion rows, retention sweep, attestation, receipts |
| `LogRotation` | chunks, manifest, resume and verify |
| `ActionGate` | the authorization gate |
| `RegulatoryDeck` | insertion, removal and judging of regulatory lenses |
| `QueueProofs`, `LifecycleProofs`, `WorkerProofs`, `LedgerProofs`, `AdmissionProofs`, `TwinProofs`, `BoundaryProofs`, `EvidenceProofs` | inductive invariants and theorems |
| `MCTransmissionQueue`, `MCSentinelWorker`, `MCLedgerChain` | instances for TLC |
| `MCProgress`, `MCLedgerKeys`, `MCAdmission`, `MCEvidence` | runs over several components |

Definitions introduced by "Seeded fault" are not used by any specification.
Each is a variant of the definition after it with a plausible bug in it; put in
its place, it makes TLC find a named property violated, which shows that the
property can fail. `PROJECT.json` lists the pairs under "mutants".

### TransmissionQueue

A Lua script is atomic in Redis, so it is one action, trailing bookkeeping
included: `Enqueue`, `ClaimJob`/`ClaimNothing` (which first promote due
retries, as `claim.lua` does), `Ack`, `FailClaim`, `FailCorrupt` (claim()
dead-lettering a payload that fails its checksum), `Heartbeat`, `PromoteDue`,
`Reap`, `RequeueDead`, `SweepDone` (the prune of verify_invariants). The
variables are the fields of the job hash and the structures, under the names
of the source.

*Time.* Scripts compare scores with the Redis clock. A score is kept here as a
timer, ticks to go or ticks since, and `Tick` advances all of them. Timers
stop at zero, so the order of two scores that are both due is lost: a batch is
any batch of due members, in any order, a superset of what Redis does.

*Clients.* `tokens` holds the `ClaimedJob` values clients still have. A client
may use one at any time, any number of times, or lose it. Claim ids are drawn
by `secrets.token_hex(8)`: a claim takes an id that no live claim and no token
carries.

*Left out.* `flush_namespace`, and the views stats, dlq_peek and get_job,
which change nothing. `get_job`'s status vocabulary appears in the refinement.

### SentinelWorker

`pc[w]` walks the claim loop: `Claim`, `Begin` (publishes `_current_job`),
`Parse`, `Lookup` (episode_decision_exists), `Process` (harness up to the
write), `AppendDecision` (one transaction), `AnchorHead` (after the commit),
`Settle` (ack or fail by the shape of the result), `Release`. `Peek` and
`Beat` are the reaper thread reading `_current_job` and heartbeating its copy;
`Sweep` is its reap. `Crash` kills a process between any two steps; an error
Redis raises in claim, ack or fail leaves run_forever and has the same effect.

Steps that talk to PostgreSQL have a failing alternative. The order of
`finally` matters and is kept: when process_call raises, `_current_job` stays
published until fail() has returned.

What a payload contains decides its way (`payload`, fixed per job): governed,
bare (no events), malformed, quiet (below governance_trigger), blocked by a
live lens. The governor's answer does not change the control (a recorded
rejection is a finished job), so it is not modelled. The episode id is the job
id, as in submit_mortgage_decision.

### LedgerChain

Each writer does `Start` (checks before the lock), `Lock`
(pg_advisory_xact_lock), `Insert` (its look-ups, the head, its rows), `Commit`
(which releases the lock) or `Rollback`, then outside the lock `AnchorHead`,
`AnchorCount`, `AnchorWrite`, any of which may be lost. READ COMMITTED means
that the two anchor statements each see what has been committed by then.
`VerifyRead` and `VerifyAnchor` are verify_chain fetching the rows and, later,
reading the anchor. `AlarmsExplained` says what that order costs: an untouched
chain is never called broken, but it may be called shorter than its anchor, when
rows were committed in between, and its head may stand at another position than
the anchored one (finding 4), though never on no fetched row at all.

SHA-256 over the canonical row is taken to be injective: a hash is the
sequence of entries it covers, so a tampered or forked chain is an unequal
hash. An id is a position in `chain`, because ids are drawn under the lock.
The admission rules modelled are those of append_decision (replaces_hash, looked
up before the lock; the unique index on event_id; idx_unique_call_sid),
bind_cassette_version, record_attestation_policy, supersede_decision,
record_human_selection and record_recommendation_shadow_score; a row of kind
"entry" stands for every writer without a rule of its own. A decision comes with
any sequence of events, none included, and its transaction inserts one row for
each. The index is on event_id alone: an episode may be decided again with other
events or with none, and `StreamsWhole` does not say otherwise.

### AttestationKeys, ConservationGateway, GovernedDecision

`AttestationKeys` writes signed and unsigned rows and policy markers, lets
operators rotate, retire and lose keys and switch enforcement, and lets somebody
without a trusted key rewrite rows together with their hashes, the claim removed
altogether included (`NoName`). `Reported` is the part of verify_chain that
judges signatures; a row without a claim is ABSENT and not judged. An HMAC is the record of what it
was computed from.

`ConservationGateway` keeps the gateway as one record (`guard`, registered gems,
accepted artifacts, transformation ids, ledger entries), because
verify_governed_decision builds a fresh one for every check: its operations are
operators on that record (`IngestSource`, `RegisterGem`, `Preflight`, `Submit`),
and the free calls of the module apply them in any order. The kernel package is
external; it may answer anything of `KernelAnswers`.

`GovernedDecision` folds events in order of (occurred_at, event_id), sends each
stamp to facts or to the actor's report, verifies at the harness and again in
append_decision, respects the waiver and the unique index on event ids, and
replays decisions. The summary a replay starts from (`input_data["kernel"]`) is
the caller's and may name any events, with or without its optional fields; the
replay compares what is there and reports an event folded by another build of
the reducer as drift. Events carry one field. The order is Python's stable sort,
written as the rank of each event among all (`Before`, `Ordered`); the replay
fetches the event rows in any order, because its query has no ORDER BY
(`Fetched`).

### CircuitBreaker, RateLimiter, Ingress

The breaker's lock covers admission and recording, each by itself; the
protected call runs between `AdmitCall` and `OnSuccess`, `OnFailure` or
`Escape`. `latest`, `fate` and `probes` are observers. The bucket counts tokens in the
units one tick refills, so fractions are whole; `ideal` is the bucket refilled
on every tick and never expired. A request at the ingress reads the clock
(`ReadClock`), takes the limiter's lock up to `MaxStall` ticks later and is
authenticated with the stamp it read, is throttled, reads the depth, sleeps,
enqueues; each step may fail before or after it took effect. `RedisRestarts`
empties the queue and the buckets.

### The twin

`TwinReplication` has the shipper's batch, cursor and crashes, a Redis that
comes back empty while the shipper goes on with the batch it has in memory
(`RedisLost`; `stranded` observes the rows whose jobs went with it), deliveries that are answered late or never, receiver threads
that go on when the worker has stopped waiting, and every answer of store_entry.
Every sealing is a new envelope. `TwinDetection` takes delivery by what
`TwinReplication` establishes and adds somebody who alters the primary: a row
rewritten with its hash, a body changed under its hash, a snapshot changed
(no hash covers it), a row removed. A submission is missing only if its row is
not among the pending ones the other comparison accounts for
(accounted_missing_sids). `TwinCustodian` tears the file it is
rewriting when it dies. `TwinMigration` re-seals in one transaction while
deliveries go on and posts its custody event afterwards.

### Obligations

Every request reads first and appends later; `DeriveRead`/`DeriveAppend`,
`AskTransition`/`TransitionAppend` and the sweeps are two steps each, because
_append_obligation's lock does not cover the read. A cohort review looks up
estimates, material and geography, any of which may be missing; dimensions 4, 5
and 6 have reasons of their own for leaving a subject out.

### Contracts, rotation, gate, deck

`ContractEgress` and `ContractRetention` have one counterparty with its rows in
ledger order. A request reads the approvals, decides in memory and chains its
decision in a later transaction, whose head may fail to be anchored after the
commit (`AnchorUnavailable`); the standing check reads rows of all kinds under
one LIMIT (`Reading`). The retention sweep reads ingests and deletions in two
transactions; received times may not parse; rows are rewritten with their hash,
removed, inserted, swapped or edited under their hash. `LogRotation` keeps chunks
and manifest apart, so a process may die with either written, and somebody may
damage or remove chunks, or remove the manifest. `ActionGate` is one authorize() call that asks its four
providers in turn while blocks and reviews change. `RegulatoryDeck` gives every
process a deck of its own over the one ledger, and every ledger write two failing
alternatives, before the commit and after it (`EventUnanchored`,
`DiscloseUnanchored`); remove() records its event in one step and takes out the
one entry of its lens in another, and a tier conflict is
settled lens by lens in the order of their identities (`Winner`).

## 3. Runs

| Run | Instance | Shows |
|---|---|---|
| `queue_safety` | 2 jobs, 2 workers, 2 claim ids, budgets 1 and 2, batches of 2, retention 1, 3 admissions, 1 requeue; about 900,000 states | placement, budgets, diagnosis of dead letters, accounting, fencing, leases and retention; that the queue implements `JobLifecycle`, also when a whole batch moves |
| `audit_clean` (violation) | retention 2, slack 1 | finding 1 |
| `worker_safety` | 1 job of every payload kind, 2 workers, 4 claim ids, 2 admissions, 1 requeue, 1 crash; about 510,000 states | acked means recorded, one decision per episode, no renewal of a claim that was let go |
| `progress` | 1 job, 2 workers, 3 claim ids, 1 crash, done_keep_ms = 0; 3 callers of a breaker with thresholds and timeout of 2; about 86,000 states | every admitted job settles, an open breaker is probed again, a taken probe slot is somebody's |
| `one_decision_unattested` (violation) | bare payloads, require_events off | finding 2 |
| `dead_means_unrecorded` (violation) | 1 worker, budget 1 | finding 3 |
| `ledger_safety` | 2 writers, every kind of request, writes started below 2 rows, so chains of up to 4; 3 signed rows, 2 keys, 1 forgery; 3 gateway entries; 2 durable decisions | chain, bindings, markers, references, streams, anchor, what verify_chain tells of it; claims, lineage, support of decisions |
| `anchor_names_position` (violation) | 2 writers, plain rows | finding 4 |
| `admission` | a bucket of 5, cost 3, refill 2, TTL 3; 2 requests, 1 id, 2 attempts in a window of 2, stalls of 1; 2 authorization targets; 3 contract rows read 2 at a time, 1 of them tampered with; about 5,280,000 states | bucket, retry_after, key attempts, 202 and 404, release of a blocked action, retention findings and receipts |
| `evidence` | see the configuration; about 2,210,000 states | one property or two for each of the eight parts |
| `closed_stays_closed` (violation) | 1 obligation, 2 clients | finding 5 |
| `one_probe_at_a_time` (violation) | 3 callers, thresholds and timeout of 2 | finding 6 |

`progress`, `ledger_safety`, `admission` and `evidence` each check several
components in one run. The components of such a run share no variable, in the model as in the
code, so interleaving them would multiply states and show nothing: `focus`
chooses at the start which of them a behaviour is about, and the others stand
still. Each component is therefore explored completely.

Deadlock is checked except in `admission`, `evidence` and `closed_stays_closed`,
some of whose parts really may stop: a ledger bounded in rows, a log with its last
chunk written.
Elsewhere time always passes, or a verifier always runs.

### Why the bounds are enough

* A lease of one tick can expire between any two steps. Longer leases add
  delay and no new order of events.
* Two claims of one job exist at most at the same time in any story the fence
  is about: a stale one and the live one. Two claim ids (four in the worker
  runs, where the reaper thread's copy keeps one busy too) allow the stale
  claim to be the same worker's or another's.
* Three admissions of two jobs let an id be resubmitted after its record
  expired while another job is around; one requeue lets a dead job die again.
* A budget of two has a first, a last and an exhausted attempt; a budget of
  one makes the first the last.
* Two writers are enough for every race between a look-up and an insert, which
  always involves one other commit; `MaxRows` = 3 (4.2 million states) was
  checked once and shows nothing new.
* Three callers of a breaker are a probe, a straggler admitted before the
  breaker opened, and one that is refused.
* A stall of one tick under a window of two leaves a stamp that is dropped while
  another thread's is not.
* Capacity, rate and cost of the bucket (5, 2, 3) have no common divisor, so
  partial refills, a deficit that is not a whole number of ticks, and an expiry
  just when the bucket is full all happen.
* Two receiver threads race one look-up; two rows and batches of two let the
  shipper die with a batch half shipped; three seals let one row be sealed
  twice.
* Three rows on the primary and pages of two make the detector fetch a second
  page while rows arrive; one altered row has a predecessor and a successor.
* Two clients of the obligation chain are a reader and a committer in between;
  three rows are an opening, a closing and one more.
* A row limit of two under three rows shows what get_contract_rows' LIMIT
  hides: a grant, an egress and the revocation behind them.
* Three chunks and two deaths let a restart resume after a restart; two acts of
  damage let a chunk go together with the manifest.
* `MaxAdmissions`, `MaxRequeues`, `MaxCrashes`, `MaxRows`, `MaxSigned`,
  `MaxForged`, `MaxEntries`, `MaxDecisions`, `NRows`, `MaxSeals`, `MaxAlter`,
  `MaxTrail`, `MaxCrash`, `MaxMigrations`, `MaxChain`, `MaxReviews`, `LastDay`,
  `LastDate`, `MaxPartition`, `MaxHoldings`, `MaxTamper`, `MaxChunks`,
  `MaxDeaths`, `MaxHarm`, `MaxEvents` and `MaxStall` bound what the code leaves unbounded;
  the other constants are parameters of the code or sets of names.

Symmetry is used for jobs, workers, writers, claim ids, keys and requests where
the specification does not tell them apart, and not in `progress`, which checks
liveness.

### Fairness

`progress` assumes, of the workers, weak fairness of four things. `Elapse`: the Redis
clock runs. `Sweep`: every worker's reaper thread sweeps on its timer and
catches its own exceptions. `Claim` per worker: run_forever polls without end,
and a process that dies is started again (`restart: always` in
`docker-compose.yml`). `WorkStep` per worker: a call of process_call returns or
raises. The Redis client sets socket timeouts and the governor's client has its
own; for PostgreSQL the code sets none, so there the assumption rests on the
driver and the TCP stack. It is needed: the reaper thread heartbeats for a
claim loop that hangs, so a call that never returns keeps its lease for ever.
Nothing is assumed of the outcome: the database may fail at every
attempt, and the job then ends in the dead set because every delivery spends an
attempt.

For `BreakerRecovers` it assumes that the clock runs, that somebody
keeps looking at the breaker (callers arrive or a health endpoint reads it), and
that a protected call ends, which `circuit_breaker.py` (lines 36-41) leaves to
the call's own timeout. Nothing is assumed of the outcome.

## 4. Findings

1. **audit_clean.** verify_invariants prunes the done set one second before
   the hashes expire, so a completed job in its last second is reported as
   being in no structure, although the docstring promises that "a record
   mid-expiry is never a false violation".
2. **one_decision_unattested.** With require_events off, the adapter's default,
   the look-up before the write is the only dedup, and two workers holding one
   job, one of them past its lease, both pass it: two decision rows for one
   episode. With required events the unique index on event ids closes the race
   (`worker_safety`), and main() requires them.
3. **dead_means_unrecorded.** append_decision raises when the anchor fails
   after the commit; the job is retried or dead-lettered as "decision NOT
   durably recorded" although its decision is on the chain.
4. **anchor_names_position.** The head and the count of the anchor are two
   statements outside the lock. A commit between them seals a head that is not
   at the sealed position, which check_head_anchor reports as a chain that was
   cut or rebuilt.

5. **closed_stays_closed.** transition_obligation reads the state of an
   obligation before the lock is taken and not again under it. Two transitions
   that both read OPEN both append, so an obligation is closed twice, with two
   answers, or reopened, although the handler's 409 says "a closed obligation
   is not reopened".
6. **one_probe_at_a_time.** An outcome clears _half_open_probe_in_flight whoever
   brings it. A call admitted before the breaker opened returns while a probe is
   out, and a second probe is admitted, although call() says "only one probe is
   outstanding at a time".

### Further statements the code does not keep

The modules state thirteen more sentences of the repository, each as an invariant
under the heading "What the repository says and the code does not keep" or next
to the property that says what does hold. No run is spent on them; put in place
of the properties of the configuration named here, each is violated within a
minute.

| Statement (configuration) | What the repository says | What happens | What holds instead |
|---|---|---|---|
| `ClaimUnaltered` (`LedgerSafety.cfg`) | `governance/authorized_by_attestation.py:8-10`: "The authorized_by string on the row has not been altered since it was written -- even by an attacker who can also recompute the unkeyed SHA-256 chain" | a claim set to NULL is ABSENT, and verify_chain asks for a signature only where there is a claim | `ClaimsHold`, of rows that still claim somebody |
| `ReplaysOwnStream` (`LedgerSafety.cfg`) | `governance/ledger_postgres.py:3436`: "Replay a governance_decision from its persisted observed_event stream" | the event ids come from `input_data["kernel"]`, which append_decision never compares with the events it writes | `DecisionsSupported`: reproducible exactly when the summary is true of the events it names |
| `LimitPerWindow` (`Admission.cfg`) | `api_key_auth.py:122`: 429 "if `identity` has exceeded the limit" | the clock is read before the lock; a stale stamp is dropped early and one window sees an attempt too many | `AttemptsBounded`, in a window less the longest stall |
| `AcceptedIsDurable` (`Admission.cfg`) | `api_server_v2.py:404`: "Returns 202 the moment the job is durably in the queue" | `docker-compose.yml:57-60`: Redis has no volume, on purpose, and a restart drops queued jobs | `AcceptedIsKept`, as long as Redis keeps its data |
| `NotFoundNeverAccepted` (`Admission.cfg`) | `api_server_v2.py:506`: "this ID was NEVER accepted by the ingress" | 404 also for a job lost with Redis and for a completed one whose record expired | `NotFoundHonest`: never for a job that is there |
| `ReceiptSeesAlterations` (`Admission.cfg`) | `contract_attestation.py:240-243`: "If the operator later removed, altered or reordered anything in that prefix, recomputing the prefix head will not reproduce the receipt's head" | the head folds the current_hash column; a row edited under its hash leaves it as it was (verify_chain would report the row) | `AttestationHonest`: exactly when the hashes are in place |
| `AtLeastOnce` (`Evidence.cfg`) | `twin_shipper.py:15-18`: "At-least-once, idempotent everywhere. [...] Losing the cursor re-ships history harmlessly." | Redis comes back empty in the middle of a pass, and the cursor is set past rows whose jobs are gone | `ShippedIsAccounted`, but for those rows |
| `NoSilentSkips` (`Evidence.cfg`) | `obligation_sweep.py:40-43`: an obligation that cannot enter a cohort test is reported "with why, never quietly dropped from the count" | a missing estimate is reported only behind an outcome dimension 4 can use; dimension 5 loses the others silently | `SkipsReported`, per dimension |
| `RevocationsReachCheck` (`Evidence.cfg`) | `contract_egress.py:362-363`: "Every AUTHORIZED egress whose recipient_class is subcontractor must reference an approval that was live and unrevoked at egress time" | one LIMITed read over all kinds; a revocation behind the limit is not seen and the egress passes | `EgressBacked`, of the rows the check reads |
| `UnavailableMeansUnchained` (`Evidence.cfg`) | `contract_egress.py:289-290`: "Raises EgressLedgerUnavailable if the decision could not be chained at all" | the row commits, the anchor fails, and the request raises over it | `EgressBacked`: what is returned as authorized has its row |
| `VerifySeesLoss` (`Evidence.cfg`) | `governance/log_rotation_v1.py:155-158`: verify() checks content, gaps "(deletion)" and last_chunk "(truncation / phantom appends)" | with manifest and chunks gone verify() reports ok for a log whose flushes had returned | `ManifestVouches`, over a manifest |
| `VerifyReports` (`Evidence.cfg`) | `governance/log_rotation_v1.py:159`: "Always returns a report; ok=False carries the violations." | a chunk that does not parse makes verify() raise | `ManifestVouches` |
| `WindowOnLedger` (`Evidence.cfg`) | `governance/ledger_postgres.py:1431-1433`: "when was the CFPB lens active [...] must be a direct ledger query" | the removal commits, its anchor fails, remove() raises before the lens leaves the deck, and it acts with its window closed | `OnTheRecord`, counting removals that were carried out |

Seen while modelling and stated by no definition: concurrent derivations may both
open the same obligation, so "an obligation already on the chain is not
re-appended" (derive_obligations) holds for calls one after the other only;
entries stored after a migration's SELECT keep the old key; no caller in the
repository fills the summary reconstruct_decision replays
(`input_data["kernel"]`); the module docstring of `queue_schema.py` counts the
done set among the five structures a job is in exactly one of, but a done-set
member outlives its hash until it is pruned, so a resubmitted job is in `pending`
and `done` at once (`OneStructure` is therefore about the four live structures);
`claim.lua` promotes retries without updating their status, so such a job waits in
`pending` as "scheduled", which the audit reports (`PlacedByStatus` states what
does hold); verify_chain reads the rows before the anchor, so a write in between
makes an honest chain look shorter than its anchor (`verdict = "short"` is
reachable; `AlarmsExplained` states what does hold).

## 5. Proofs

TLAPS checks eight modules. Their theorems hold for every number of jobs,
workers, writers, rows, keys, requests and crashes, and for every budget, lease,
batch, page and limit, from the named assumptions on the constants only. Of the
40 properties the passing runs check, 38 are theorems: all but the two liveness
properties listed at the end.

| Module | About | Theorems |
|---|---|---|
| `QueueProofs` | `TransmissionQueue` | `QueueInvariant`, `TypeCorrect`, `ExactlyOneStructure`, `BudgetsHold`, `FenceHolds` |
| `LifecycleProofs` | the queue's promises over `QueueRefinement` | `LeasesHold`, `QueueImplementsLifecycle`, `CompletedJobsStay`, `DeadLettersDiagnosed`, `NothingLost` |
| `WorkerProofs` | `SentinelWorker` | `WorkerInvariant`, `WorkerTypeCorrect`, `AckedAreRecorded`, `WorkersDriveQueue`, `WorkersKeepPromises`, `RenewalsAreLive`, `DecidedOnce` |
| `LedgerProofs` | `LedgerChain` | `LedgerInvariant`, `LedgerTypeCorrect`, `ChainStaysIntact`, `VersionsBoundOnce`, `MarkersChange`, `ReferencesHold`, `StreamsStayWhole`, `AnchorStaysBehind`, `LedgerAppendOnly`, `AlarmsAreExplained` |
| `AdmissionProofs` | `CircuitBreaker`, `ActionGate`, `RateLimiter`, `Ingress` | `ProbesAccounted`, `BlocksHold`, `IngressInvariant`, `BucketsAreExact`, `WaitsAreExact`, `AttemptsAreBounded`, `AcceptedAreKept`, `NotFoundIsHonest` |
| `TwinProofs` | the four twin modules | `MigrationsAreWhole`, `ReplicationInvariant`, `ShippedAreAccounted`, `ReplicaKeepsHistory`, `VerdictsAreHonest`, `ReleasesAreOnRecord` |
| `BoundaryProofs` | `AttestationKeys`, `ConservationGateway`, `GovernedDecision` | `ClaimsAlwaysHold`, `LineageAlwaysHolds`, `DecisionsAlwaysSupported` |
| `EvidenceProofs` | `Obligations`, `LogRotation`, `ContractRetention`, `ContractEgress`, `RegulatoryDeck` | `OwedIsRemembered`, `SkipsAreTold`, `ManifestAlwaysVouches`, `AttestationsAreHonest`, `EgressIsBacked`, `AlwaysOnTheRecord` |

### Queue

`QueueInv` is `TypeOK`, `OneStructure`, `BudgetRespected` and three facts they
need. `ClaimStamps`: a hash carries a claim exactly while the job is being
processed; without it, a script that passes owner_check could act on a job
that waits in `pending`. `ExpiryOfDone`: only the hash of a completed job has a
TTL; without it, time could remove the hash of a queued job and leave a
dangling id, which is also why nothing is ever quarantined. `BudgetStamped`: a
job that exists has a budget of at least one; without it a new job could wait
with no attempt left. Each script has a lemma that it preserves `QueueInv`; the
lemmas on sequences say which ids a pop, a push or a promotion leaves in
`pending`. `FenceHolds`, the action property that a lost claim never passes
owner_check again, rests on `StampStep`: a step leaves a claim stamp, clears it,
or stamps an id nobody holds.

The promises follow from `QueueInv` step by step. `LeasesHold` and
`CompletedJobsStay` are action properties. `QueueImplementsLifecycle` is the
refinement: an action on one job is that job's lifecycle action, and a batch
(promotion, reap, time) moves every job by a lifecycle step of its own or not at
all. `NothingLost` counts: the counters change by exactly the cardinality of
what enters and leaves the set of unfinished jobs and the dead set, also when
reap splits a batch between them.

### Worker

`WorkerInv` adds to `QueueInv` that a worker holds one claim exactly while its
loop works on it (`OneClaimEach`), that what is published as `_current_job` is
that claim (`PublishedHeld`), that a settled claim has lost its job
(`SettledFenced`), that the reaper thread's copy, once the loop has let go of it,
does not pass the fence (`CopyFenced`), and that a result which will be acked
has its trace on the ledger already (`ResultTraced`). `CopyFenced` is what makes
`RenewalsAreLive` true although the copy may be out of date, and it needs
`SettledFenced`: the loop lets go only of claims that no longer pass.
`WorkersDriveQueue` shows that the composed system implements the queue, so the
queue's theorems hold under it; `WorkersKeepPromises` draws that conclusion for
the lifecycle, the fence, completed jobs and the counters. `DecidedOnce` assumes
`RequireEvents`, as main() sets it; finding 2 is what happens without.

### Ledger

`LedgerInv` adds to the safety properties what the lock buys. `LockHeld`: the
writer between lock and commit is the holder of the lock, so there is one.
`Prepared`: what that writer looked up and the head it linked to are still true
when it commits; this is the heart of the argument, and it is what fails when
the lock is shared. `StreamsWhole` is inductive with it: a batch whose event ids
are distinct and new is appended right behind its decision, so no two streams
overlap. `SealSound`: a head and a count
read for the anchor stay true of a growing chain. `CommitGrows` and the lemmas
after it show what a commit of a row and its events, however many, does to each
property.
`LedgerAppendOnly` needs no run of its own: that committed rows stay follows from
`CommitGrows`. `AlarmsAreExplained` adds `SeenBehind`: what a running verify_chain
fetched is still there, so the links it checks are links of the chain, and what
it finds wrong with the anchor is bounded by `AnchorNotAhead`.

### Admission

The breaker's invariant adds that a half-open breaker still lacks a success;
otherwise a late outcome could leave it half open with its slot taken by nobody.
The bucket's (`Faithful`) says that a stored bucket is worth, at its age, what
the eager one holds; `Rate * TTL >= Capacity` is what makes an expired key worth
a full bucket. The code does not check it: its defaults (300 s, 20 tokens, 100
per minute) satisfy it with room to spare, and a deployment configured otherwise
would grant more than its rate. The
deques' (`Deque`) relates the validations to the stamps: the newest validations
are entries of the deque whose stamps are older by no more than a stall
(`Recent`), so dropping from the left drops no validation younger than the window
less the stall, and the length of the deque bounds those. `JobsKept` relates the
answers to the queue: what was enqueued is there, was completed, or was lost when
Redis restarted.

### Twin

`ReplicationInv`: every row at or below the cursor, or read and no longer in the
shipper's batch, is stored or has a job, or is stranded (`Reached`), a done job's row is stored
(`JobsBacked`), a worker waits for the thread that handles its own row
(`WaitsMatch`), and a 200 is given for a stored row (`AnswersTrue`). The last two
are why an answer that arrives late cannot complete somebody else's job. For the
detector: what it holds was committed, and while nobody altered the primary it
agrees with it (`Unaltered`), in the order in which it reads, and a submission it
asked about was decided by then (`SubmissionsAsked`). For the custodian:
a nonce past its check is spent and in one thread only (`NonceHeldOnce`), and
the plaintexts out or promised are no more than the granted records, a counting
argument over finite sets. For a migration: between its commit and its custody
event, all it picked is under the new key.

### Boundary

`KeysInv` says where any signature standing in a row can come from: a row as it
was written, or a leaked key; HMACs are equal only over equal keys and payloads.
A falsified row that still claims somebody therefore carries a signature that
does not fit.
`Lineage` of a gateway is kept by each of its operations, whatever the kernel
answers.

`DecisionInv` says that a durable decision was written well (its episode
attested by its events, or written under the override), that no two event rows
have the same id (`IdsOnce`), and what an offered write looks like. The work is
below it, in what sorting and folding amount to. The rank of an event is a
bijection, so `Ordered` is a permutation of the events. After k events the fold
has, per field, the last of the first k that goes to its destination, which for
all of them is the observation no other comes after (`FactsIn`). A replay folds
the events its summary names in another order; since ids differ, the order by
time and id, and with it the facts, is the same. `IdsOnce` is why a summary that
names a decision's own events is replayed from them and from no others.

### Evidence

* `OwedInv`: a request in flight holds a part of what is there by the time it
  appends, because nothing is ever taken away; a batch of new rows opens each
  obligation once.
* `ReviewInv`: what a recorded review saw is, dimension by dimension, what it
  counted or told as skipped.
* `RotationInv`: a manager that is up folds on over every acknowledged slice and
  writes only later chunks, and the manifest, unless it was removed, covers what
  was acknowledged; while no chunk file was touched nothing acknowledged is gone,
  with the manifest or without (`Unspoiled`); a resumed manager starts after the greatest chunk, which exists by a counting
  lemma (`GreatestChunk`) and is where the manifest's last entry is, or behind it.
* `RetentionInv`: hashes are given out once and tell rows apart, but for edits
  under a hash (`TellsApart`), so a receipt's rows are in their places or the fold
  of their hashes is another.
* `EgressInv`, with `LiveIsUnrevoked`: an approval that is live by the merged
  rows has no revocation in effect among them.
* `DeckInv`: a lens counts as held from the commit of its insertion on, before it
  acts, until the commit of its removal (`Holds`), and the ledger's balance, less
  the removals that were recorded and not carried out, covers those that hold it
  (`LedgerOpen`); what a running judge() has told is the beginning of what it
  found (`Telling`, in `DecksSound`); and a conflict found among the lenses' own
  findings stays the strictest, since what comes behind them is of another kind.
  `Winner` is the strictest claim because the best of the first n lenses is at
  least as strict as each of them.

### How the proofs do without induction

The prover cannot instantiate the library's induction theorems. Where an argument
needs induction, it is made with sets: a position in a list is the number of
elements below it (the chunks in order, `RanksAreTaken`; the sorted events,
`Ordered`), a greatest element comes from cardinality, and a fact about every
number below a bound is proved from its least counterexample, which exists by
the least-number principle of `WellFoundedInduction` applied to a set. The same
principle shows that a recursive function exists and satisfies its equation (a
least length for which it did not would have a predecessor for which it does);
after that the fold of `GovernedDecision`, the `best` of `RegulatoryDeck` and the
library's `FlattenSeq` are reasoned about like any function. The operators of
these modules, of `ContractEgress`, `ContractRetention` and `LogRotation` are
written over positions for this reason.

### What the proofs found in the model

Some attempts failed for a good reason. A disjunction in `TwinDetection`'s
commit was read with another precedence than intended, which freed it from its
guard. Several `CASE` expressions had arms that overlap: TLC takes the first,
the logic leaves the choice open, and the code is a chain of early returns. They
are `IF` chains now (`ConservationGateway.Status`, `ActionGate.AssessPolicy`,
`AttestationKeys.SignatureStatus`, `ContractEgress.ApprovalLiveAt`,
`ContractRetention.RetentionStatus` and `VerifyContinuity`,
`Obligations.Outcome`).

The order of the events was `SortSeq` over (occurred_at, event_id), which leaves
open what happens to two events with the same key, while Python's sort is stable:
the ties are decided by place now. The replay folded the event rows in the order
of the chain, which its query does not ask for; it takes them in any order now,
and the theorem had to show that this makes no difference once ids are unique.
Removal from a deck filtered out every entry of a lens where the code pops one
key; there is only one, which is part of `DeckInv` instead of the action.

### Assumptions

Each module names its own (`QueueConstants`, `WorkerConstants`,
`LedgerConstants`, `RateAssumption`, ...). They say that limits are numbers,
that those the code requires to be positive are, that jobs and decisions are
finitely many, that a marker for "nothing" is not one of the things it stands
beside, that inputs have the shape the code parses them into, and for the bucket
that one request costs no more than the capacity and that the TTL covers a
refill. TLC evaluates them on every run.

### Model-checked only

`EveryJobSettles` and `BreakerRecovers` are liveness under fairness, which this
prover does not do. The violations of section 4 are counterexamples TLC finds.

## 6. Plan

Done: the core path and the parts around it as modules, and every safety and
action property of the passing runs as a theorem. What is left, in the order of
importance:

1. The ledger's remaining writers (harm events, cohort escalations) as kinds
   with rules of their own.
2. write_head_anchor's temporary file, which is named after the process only: a
   file system below os.replace, on which two threads of one process write.

The type invariants of the modules hold on the instances above; they are not
questions of a run.

## 7. Not modelled, and why

Numeric and statistical code (regulatory checks, BISG, drift, SAGE-K, scoring in
the cassettes, recommendation impact) works on floating-point data, which TLC
does not have. Constructors, serialisation and schema validation (cassettes,
episodes, events, lenses) are pure; their refusal is an input of the actions
that call them. Cryptography (HMAC, signatures, envelopes, digests) is taken to
be sound. The conservation kernel is a package outside the repository. The
governor call, OpenTelemetry, logging, metrics and HTTP framing do not change
the state the properties are about. twin_probe reports and changes nothing. The
scenario library, loop guard and cost tracking are small sequential state with
no concurrent caller. The file system below os.replace is not modelled, so
neither is the temporary anchor file shared by the threads of one process, nor
the file a TransformationLedger may be written to. flush_namespace empties a
namespace at an operator's wish and is left out. `TransmissionQueue` and
`SentinelWorker` do not lose their Redis either: what a queue that starts empty
means is a question for those who relied on it, and is modelled there (`Ingress`,
`TwinReplication`).

--------------------------- MODULE SentinelWorker ---------------------------
(***************************************************************************)
(* Workers draining the queue into the governance ledger:                  *)
(* sentinel_os/sentinel_worker.py (SentinelWorker and                      *)
(* GovernanceHarnessJobAdapter), governance_harness.py (process and        *)
(* _write_decision) and the parts of governance/ledger_postgres.py they    *)
(* call (episode_decision_exists, append_decision), composed with the      *)
(* queue of TransmissionQueue.                                             *)
(*                                                                         *)
(* A worker process is the claim loop, whose position is pc[w], and the    *)
(* reaper thread, which shares `_current_job` (here current[w]) with it.   *)
(* The claim a loop works on is its one token in `tokens`.  A job id is    *)
(* the episode id it carries (submit_mortgage_decision), so the ledger is  *)
(* indexed by Jobs.                                                        *)
(*                                                                         *)
(* What a payload contains decides its way through process_call and is     *)
(* fixed for a job: `payload` is chosen at the start.  Postgres, Redis and *)
(* the process itself fail at any step that talks to them: an error Redis  *)
(* raises in claim, ack or fail escapes run_forever and ends the process,  *)
(* which is Crash.                                                         *)
(***************************************************************************)
EXTENDS TransmissionQueue

CONSTANTS
  Payloads,       \* the kinds of payload jobs may carry
  RequireEvents,  \* GovernanceHarnessJobAdapter.require_events
  MaxCrashes      \* bound: worker process crashes in a behaviour

\* "bare" carries no events; the others do.  "malformed" cannot be parsed,
\* "quiet" counts fewer issues than governance_trigger, and a live regulatory
\* lens blocks "blocked".
PayloadKinds == {"governed", "bare", "malformed", "quiet", "blocked"}

ASSUME WorkerConstants ==
  /\ Payloads \subseteq PayloadKinds
  /\ RequireEvents \in BOOLEAN
  /\ MaxCrashes \in Nat
  /\ "db_connection_loss" \in Reasons

VARIABLES
  payload,   \* the kind of payload each job carries
  pc,        \* where each worker's claim loop is
  verdict,   \* the shape process_call returned, or Nil
  current,   \* _current_job: the claim the reaper thread may heartbeat
  peeked,    \* the reaper thread's own copy of _current_job
  decisions, \* ledger: governance_decision rows per episode
  events,    \* ledger: episodes whose observed_event rows are on the chain
  disclosed, \* ledger: blocked episodes with their regulatory_disclosure rows
  crashes

ledgerVars == <<decisions, events, disclosed>>
workerVars == <<pc, verdict, current, peeked, ledgerVars, crashes, payload>>
allVars == <<vars, workerVars>>

\* process_call raising: a database error, or one nobody classified.
Raised == {"raised_operational", "raised_unknown"}

Verdicts == {"duplicate", "parse_failure", "write_failed", "completed"} \cup Raised

WorkerInit ==
  /\ Init
  /\ payload \in [Jobs -> Payloads]
  /\ pc = [w \in Workers |-> "idle"]
  /\ verdict = [w \in Workers |-> Nil]
  /\ current = [w \in Workers |-> Nil]
  /\ peeked = [w \in Workers |-> Nil]
  /\ decisions = [j \in Jobs |-> 0]
  /\ events = {}
  /\ disclosed = {}
  /\ crashes = 0

Held(w) == CHOOSE t \in tokens : t.worker = w

Goto(w, from, to) == pc[w] = from /\ pc' = [pc EXCEPT ![w] = to]

\* process_call is over.  handle_one's `finally` clears _current_job at once
\* when it returned, and only after the fail() call when it raised.
Returns(w, v) ==
  /\ verdict' = [verdict EXCEPT ![w] = v]
  /\ current' = IF v \in Raised THEN current ELSE [current EXCEPT ![w] = Nil]

-----------------------------------------------------------------------------
(* Ingress and operators. *)

Submit(j, b) == Enqueue(j, b) /\ UNCHANGED workerVars

Requeue(j) == RequeueDead(j) /\ UNCHANGED workerVars

Elapse == Tick /\ UNCHANGED workerVars

Damage(j) == Corrupt(j) /\ UNCHANGED workerVars

-----------------------------------------------------------------------------
(* The claim loop: run_forever, claim, handle_one, process_call. *)

\* run_forever: one poll of claim() that finds a job.
Claim(w, c) ==
  /\ Goto(w, "idle", "claimed")
  /\ \A v \in Workers : peeked[v] # Nil => peeked[v].claim # c
  /\ ClaimJob(w, c)
  /\ UNCHANGED <<verdict, current, peeked, ledgerVars, crashes, payload>>

\* claim() never returns a payload that fails its checksum; it dead-letters it.
DiscardCorrupt(w) ==
  /\ Goto(w, "claimed", "settled")
  /\ ~Held(w).intact
  /\ FailCorrupt(Held(w)) \/ (~Owns(Held(w)) /\ UNCHANGED vars)
  /\ UNCHANGED <<verdict, current, peeked, ledgerVars, crashes, payload>>

\* A poll of claim() that finds no job.
ClaimIdle(w) == pc[w] = "idle" /\ ClaimNothing /\ UNCHANGED workerVars

\* handle_one publishes the job to the reaper thread and calls process_call.
Begin(w) ==
  /\ Goto(w, "claimed", "parse")
  /\ Held(w).intact
  /\ current' = [current EXCEPT ![w] = Held(w)]
  /\ UNCHANGED <<vars, verdict, peeked, ledgerVars, crashes, payload>>

\* A payload process_call refuses: it is malformed, or it carries no events
\* although this worker requires them.
Refused(j) ==
  \/ payload[j] = "malformed"
  \/ RequireEvents /\ payload[j] = "bare"

\* process_call parses the payload.  The errors parsing is expected to raise
\* are returned; any other escapes process_call.
Parse(w) ==
  LET j == Held(w).job
  IN /\ pc[w] = "parse"
     /\ \/ /\ Refused(j)
           /\ Goto(w, "parse", "returned")
           /\ Returns(w, "parse_failure")
        \/ /\ payload[j] = "malformed"
           /\ Goto(w, "parse", "returned")
           /\ Returns(w, "raised_unknown")
        \/ /\ ~Refused(j)
           /\ Goto(w, "parse", "lookup")
           /\ UNCHANGED <<verdict, current>>
     /\ UNCHANGED <<vars, peeked, ledgerVars, crashes, payload>>

\* The pre-check episode_decision_exists, in a transaction of its own; an
\* error of the database escapes process_call.
Lookup(w) ==
  LET j == Held(w).job
  IN /\ pc[w] = "lookup"
     /\ \/ /\ decisions[j] > 0
           /\ Goto(w, "lookup", "returned")
           /\ Returns(w, "duplicate")
        \/ /\ decisions[j] = 0
           /\ Goto(w, "lookup", "process")
           /\ UNCHANGED <<verdict, current>>
        \/ /\ Goto(w, "lookup", "returned")
           /\ \E v \in Raised : Returns(w, v)
     /\ UNCHANGED <<vars, peeked, ledgerVars, crashes, payload>>

\* RegulatoryDeck.judge writes every finding to the ledger before it blocks.
\* Findings that only flag an episode are not kept here.
Discloses(j) == disclosed' = disclosed \cup {i \in {j} : payload[i] = "blocked"}

\* GovernanceHarness.process up to the ledger write.  A blocked episode is
\* returned without a governance_decision row, and so is a quiet one.  Any
\* exception of it, up to the conservation boundary refusing the record, is
\* reported as a failed ledger write, maybe after the disclosures committed.
Process(w) ==
  LET j == Held(w).job
  IN /\ pc[w] = "process"
     /\ \/ /\ payload[j] \in {"blocked", "quiet"}
           /\ Goto(w, "process", "returned")
           /\ Returns(w, "completed")
           /\ Discloses(j)
        \/ /\ payload[j] \notin {"blocked", "quiet"}
           /\ Goto(w, "process", "append")
           /\ UNCHANGED <<verdict, current, disclosed>>
        \/ /\ Goto(w, "process", "returned")
           /\ Returns(w, "write_failed")
           /\ Discloses(j) \/ UNCHANGED disclosed
     /\ UNCHANGED <<vars, peeked, decisions, events, crashes, payload>>

\* Seeded fault: no index on the event ids.
EventsFreeAlways(j) == TRUE

\* idx_unique_observed_event_id lets the events of an episode in once.
EventsFree(j) == j \notin events

\* append_decision: the decision row and its observed_event rows commit in one
\* transaction, which idx_unique_observed_event_id aborts when the events of
\* the episode are already on the chain.
AppendDecision(w) ==
  LET j == Held(w).job
  IN /\ pc[w] = "append"
     /\ \/ /\ Goto(w, "append", "anchor")
           /\ EventsFree(j)
           /\ decisions' = [decisions EXCEPT ![j] = @ + 1]
           /\ events' = events \cup {i \in {j} : payload[i] # "bare"}
           /\ UNCHANGED <<verdict, current>>
        \/ /\ Goto(w, "append", "returned")
           /\ Returns(w, "write_failed")
           /\ UNCHANGED <<decisions, events>>
     /\ UNCHANGED <<vars, peeked, disclosed, crashes, payload>>

\* After the commit: the reply is read and _anchor_head seals the head.  An
\* error here is raised like one before the commit.
AnchorHead(w) ==
  /\ Goto(w, "anchor", "returned")
  /\ Returns(w, "completed") \/ Returns(w, "write_failed")
  /\ UNCHANGED <<vars, peeked, ledgerVars, crashes, payload>>

\* Seeded fault: a failed ledger write is acked.
AcksAnyResult(v) == v \in {"duplicate", "completed", "write_failed"}

\* handle_one settles the claim by the shape process_call returned: which
\* shapes are acked, and the reason and retryability the others fail with.
Acks(v) == v \in {"duplicate", "completed"}

FailureOf(v) ==
  CASE v = "parse_failure" -> <<"data_corruption", FALSE>>
    [] v = "write_failed" -> <<"db_connection_loss", TRUE>>
    [] v = "raised_operational" -> <<"db_connection_loss", TRUE>>
    [] OTHER -> <<"unclassified", TRUE>>

Settle(w) ==
  LET t == Held(w)
      v == verdict[w]
  IN /\ Goto(w, "returned", "settled")
     /\ \/ Acks(v) /\ Ack(t)
        \/ ~Acks(v) /\ FailClaim(t, FailureOf(v)[1], FailureOf(v)[2])
        \/ ~Owns(t) /\ UNCHANGED vars
     /\ verdict' = [verdict EXCEPT ![w] = Nil]
     /\ UNCHANGED <<current, peeked, ledgerVars, crashes, payload>>

\* The loop lets go of the ClaimedJob and polls again; a `finally` still due
\* clears _current_job.
Release(w) ==
  /\ Goto(w, "settled", "idle")
  /\ Drop(Held(w))
  /\ current' = [current EXCEPT ![w] = Nil]
  /\ UNCHANGED <<verdict, peeked, ledgerVars, crashes, payload>>

-----------------------------------------------------------------------------
(* The reaper thread of start_reaper. *)

Sweep == Reap /\ UNCHANGED workerVars

\* job = self._current_job
Peek(w) ==
  /\ peeked[w] = Nil /\ current[w] # Nil
  /\ peeked' = [peeked EXCEPT ![w] = current[w]]
  /\ UNCHANGED <<vars, pc, verdict, current, ledgerVars, crashes, payload>>

\* self.queue.heartbeat(job): renews the lease, or is fenced, or raises.
Beat(w) ==
  /\ peeked[w] # Nil
  /\ Heartbeat(peeked[w]) \/ UNCHANGED vars
  /\ peeked' = [peeked EXCEPT ![w] = Nil]
  /\ UNCHANGED <<pc, verdict, current, ledgerVars, crashes, payload>>

\* The process dies, between any two steps, and is started again.
Crash(w) ==
  /\ pc[w] # "idle"
  /\ crashes < MaxCrashes
  /\ crashes' = crashes + 1
  /\ Drop(Held(w))
  /\ pc' = [pc EXCEPT ![w] = "idle"]
  /\ verdict' = [verdict EXCEPT ![w] = Nil]
  /\ current' = [current EXCEPT ![w] = Nil]
  /\ peeked' = [peeked EXCEPT ![w] = Nil]
  /\ UNCHANGED <<ledgerVars, payload>>

-----------------------------------------------------------------------------
WorkStep(w) ==
  \/ DiscardCorrupt(w) \/ Begin(w) \/ Parse(w) \/ Lookup(w) \/ Process(w)
  \/ AppendDecision(w) \/ AnchorHead(w) \/ Settle(w) \/ Release(w)

WorkerNext ==
  \/ \E j \in Jobs, b \in Budgets : Submit(j, b)
  \/ \E j \in Jobs : Requeue(j)
  \/ \E j \in Jobs : Damage(j)
  \/ Elapse
  \/ Sweep
  \/ \E w \in Workers, c \in ClaimIds : Claim(w, c)
  \/ \E w \in Workers : ClaimIdle(w)
  \/ \E w \in Workers : WorkStep(w)
  \/ \E w \in Workers : Peek(w) \/ Beat(w)
  \/ \E w \in Workers : Crash(w)

WorkerSpec == WorkerInit /\ [][WorkerNext]_allVars

(* Fairness: the clock runs, the reaper threads sweep on their timer, every  *)
(* claim loop polls (a process that ends is restarted), and each call to the *)
(* governor, PostgreSQL or Redis returns or raises, as network clients do    *)
(* once their time limits are reached.                                       *)
Fairness ==
  /\ WF_allVars(Elapse)
  /\ WF_allVars(Sweep)
  /\ \A w \in Workers : WF_allVars(\E c \in ClaimIds : Claim(w, c))
  /\ \A w \in Workers : WF_allVars(WorkStep(w))

FairWorkerSpec == WorkerSpec /\ Fairness

-----------------------------------------------------------------------------
(* Properties. *)

\* Every variable has its type, and a worker holds a claim exactly while its
\* loop is at work on one.
WorkerTypeOK ==
  /\ TypeOK
  /\ payload \in [Jobs -> Payloads]
  /\ pc \in [Workers -> {"idle", "claimed", "parse", "lookup", "process", "append",
                         "anchor", "returned", "settled"}]
  /\ verdict \in [Workers -> Verdicts \cup {Nil}]
  /\ current \in [Workers -> Token \cup {Nil}]
  /\ peeked \in [Workers -> Token \cup {Nil}]
  /\ decisions \in [Jobs -> Nat]
  /\ events \subseteq Jobs /\ disclosed \subseteq Jobs
  /\ crashes \in 0..MaxCrashes
  /\ \A w \in Workers : pc[w] # "idle" <=> \E t \in tokens : t.worker = w
  /\ \A t, u \in tokens : t.worker = u.worker => t = u

\* The F-2 rule: a job whose episode needed governing is never completed
\* without its trace on the ledger - the governance decision, or for an episode
\* a live lens blocked the disclosure of the block - whichever write, reply,
\* lease or worker was lost on the way.
AckedIsRecorded ==
  \A j \in Jobs :
    status[j] = "done" /\ payload[j] # "quiet" =>
      decisions[j] > 0 \/ (payload[j] = "blocked" /\ j \in disclosed)

\* Exactly-once effect: redelivery, lease expiry with two workers inside
\* process_call, operator requeues and resubmission after the done record
\* expired leave at most one governance_decision row per episode.
OneDecisionPerEpisode == \A j \in Jobs : decisions[j] <= 1

\* The reaper thread's heartbeat never keeps alive a claim its worker has let
\* go of, although it reads _current_job well before it uses it: a lease is
\* renewed only for a claim that is live and that the claim loop still holds.
NoZombieRenewal ==
  [][\A j \in Jobs : processing[j] # Off /\ processing'[j] > processing[j] =>
        \E w \in Workers : /\ peeked[w] \in tokens
                           /\ peeked[w].job = j
                           /\ Owns(peeked[w])]_allVars

\* handle_one reports a job as failed for db_connection_loss, "decision NOT
\* durably recorded", only when the ledger holds no decision for it.
DeadMeansUnrecorded ==
  \A j \in dead : deadReason[j] = "db_connection_loss" => decisions[j] = 0

\* Every admitted job is finished: it is completed or dead-lettered in the
\* end, although workers crash, leases expire and the database fails, because
\* each delivery spends an attempt of its budget.
EveryJobSettles ==
  \A j \in Jobs : status[j] \in {"pending", "scheduled", "processing"} ~>
                  status[j] \in {"done", "dead", "absent"}
=============================================================================

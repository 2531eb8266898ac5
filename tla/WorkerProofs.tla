---------------------------- MODULE WorkerProofs ----------------------------
(* Proofs about the workers on top of the queue, for every value of the     *)
(* constants.                                                               *)
EXTENDS SentinelWorker, LifecycleProofs

-----------------------------------------------------------------------------
(* The inductive invariant. *)

\* The variables of the workers and of the ledger they write have their types.
WorkerTypes ==
  /\ payload \in [Jobs -> Payloads]
  /\ pc \in [Workers -> {"idle", "claimed", "parse", "lookup", "process", "append",
                         "anchor", "returned", "settled"}]
  /\ verdict \in [Workers -> Verdicts \cup {Nil}]
  /\ current \in [Workers -> Token \cup {Nil}]
  /\ peeked \in [Workers -> Token \cup {Nil}]
  /\ decisions \in [Jobs -> Nat]
  /\ events \subseteq Jobs /\ disclosed \subseteq Jobs
  /\ crashes \in 0..MaxCrashes

\* A worker holds one claim while its loop is at work, and none in between.
OneClaimEach ==
  /\ \A w \in Workers : pc[w] # "idle" <=> \E t \in tokens : t.worker = w
  /\ \A t, u \in tokens : t.worker = u.worker => t = u

\* What the loop publishes to the reaper thread is the claim it holds.
PublishedHeld ==
  \A w \in Workers : current[w] # Nil => current[w] \in tokens /\ current[w].worker = w

\* A claim that is settled has lost its job.
SettledFenced == \A t \in tokens : pc[t.worker] = "settled" => ~Owns(t)

\* The reaper thread's copy is a claim of its own worker; once the loop has let
\* go of it, it does not pass the fence any more.
CopyFenced ==
  \A w \in Workers : peeked[w] # Nil =>
    peeked[w].worker = w /\ (peeked[w] \notin tokens => ~Owns(peeked[w]))

\* The trace a job that needs one must leave before it may be acked.
Traced(j) ==
  payload[j] # "quiet" =>
    decisions[j] > 0 \/ (payload[j] = "blocked" /\ j \in disclosed)

\* The loop returns a result that is acked only with the trace on the ledger.
ResultTraced ==
  \A t \in tokens :
    /\ pc[t.worker] = "anchor" => decisions[t.job] > 0
    /\ pc[t.worker] = "returned" /\ Acks(verdict[t.worker]) => Traced(t.job)

WorkerInv ==
  /\ QueueInv /\ WorkerTypes /\ OneClaimEach /\ PublishedHeld
  /\ SettledFenced /\ CopyFenced /\ ResultTraced /\ AckedIsRecorded

\* With required events: what gets past the parser carries events, and an
\* episode that is decided has its events on the chain.
EventsCarried ==
  /\ \A t \in tokens : pc[t.worker] \in {"lookup", "process", "append"} =>
                         payload[t.job] # "bare"
  /\ \A j \in Jobs : decisions[j] > 0 => j \in events

-----------------------------------------------------------------------------
(* The queue under the workers. *)

\* The claim a busy loop works on is its only token.
LEMMA HeldClaim ==
  ASSUME OneClaimEach, NEW w \in Workers, pc[w] # "idle"
  PROVE  /\ Held(w) \in tokens /\ Held(w).worker = w
         /\ \A t \in tokens : t.worker = w => t = Held(w)
<1>1. \E t \in tokens : t.worker = w
  BY DEF OneClaimEach
<1>2. Held(w) \in tokens /\ Held(w).worker = w
  BY <1>1 DEF Held
<1> QED BY <1>2 DEF OneClaimEach

\* The fields of a claim.
LEMMA ClaimFields ==
  ASSUME QueueInv, NEW t \in tokens
  PROVE  t \in Token /\ t.job \in Jobs /\ t.worker \in Workers /\ t.claim \in ClaimIds
BY DEF QueueInv, TypeOK, Token

\* The steps of the queue that neither lease a job nor renew a lease.
SteadyNext ==
  \/ \E j \in Jobs, b \in Budgets : Enqueue(j, b)
  \/ ClaimNothing
  \/ \E t \in tokens : Ack(t)
  \/ \E t \in tokens, r \in Reasons, retryable \in BOOLEAN :
        FailClaim(t, r, retryable)
  \/ \E t \in tokens : FailCorrupt(t)
  \/ Reap
  \/ \E j \in Jobs : RequeueDead(j)
  \/ Tick
  \/ \E j \in Jobs : Corrupt(j)
  \/ \E t \in tokens : Drop(t)

\* The steps of the queue that lease no job.
QuietNext == SteadyNext \/ \E t \in tokens : Heartbeat(t)

\* handle_one fails a claim with a reason of the taxonomy.
LEMMA FailureTypes ==
  ASSUME NEW v
  PROVE  FailureOf(v)[1] \in Reasons /\ FailureOf(v)[2] \in BOOLEAN
BY QueueConstants, WorkerConstants DEF FailureOf

\* What handle_one does to the queue when it settles a claim.
LEMMA SettleStep ==
  ASSUME WorkerInv, NEW w \in Workers, Settle(w)
  PROVE  \/ Acks(verdict[w]) /\ Held(w) \in tokens /\ Ack(Held(w))
         \/ \E r \in Reasons, retryable \in BOOLEAN :
              Held(w) \in tokens /\ FailClaim(Held(w), r, retryable)
         \/ ~Owns(Held(w)) /\ UNCHANGED vars
<1>1. Held(w) \in tokens
  BY HeldClaim DEF WorkerInv, Settle, Goto
<1>2. FailureOf(verdict[w])[1] \in Reasons /\ FailureOf(verdict[w])[2] \in BOOLEAN
  BY FailureTypes
<1> QED BY <1>1, <1>2 DEF Settle

\* The reaper thread renews a lease for a claim that its loop still holds.
LEMMA BeatStep ==
  ASSUME WorkerInv, NEW w \in Workers, Beat(w)
  PROVE  \/ peeked[w] \in tokens /\ Heartbeat(peeked[w])
         \/ UNCHANGED vars
<1>1. Heartbeat(peeked[w]) => Owns(peeked[w])
  BY DEF Heartbeat
<1> QED BY <1>1 DEF Beat, WorkerInv, CopyFenced

\* A step of the workers is, for the queue, a claim, one of its other scripts,
\* or nothing; only the reaper threads renew leases.
LEMMA SteadyStep ==
  ASSUME WorkerInv, WorkerNext, ~\E w \in Workers : Beat(w)
  PROVE  \/ \E w \in Workers, c \in ClaimIds : ClaimJob(w, c)
         \/ SteadyNext
         \/ UNCHANGED vars
<1> USE DEF SteadyNext
<1>1. ASSUME NEW j \in Jobs, NEW b \in Budgets, Submit(j, b) PROVE SteadyNext
  BY <1>1 DEF Submit
<1>2. ASSUME NEW j \in Jobs, Requeue(j) PROVE SteadyNext
  BY <1>2 DEF Requeue
<1>3. ASSUME NEW j \in Jobs, Damage(j) PROVE SteadyNext
  BY <1>3 DEF Damage
<1>4. ASSUME Elapse PROVE SteadyNext
  BY <1>4 DEF Elapse
<1>5. ASSUME Sweep PROVE SteadyNext
  BY <1>5 DEF Sweep
<1>6. ASSUME NEW w \in Workers, NEW c \in ClaimIds, Claim(w, c) PROVE ClaimJob(w, c)
  BY <1>6 DEF Claim
<1>7. ASSUME NEW w \in Workers, ClaimIdle(w) PROVE SteadyNext
  BY <1>7 DEF ClaimIdle
<1>8. ASSUME NEW w \in Workers, DiscardCorrupt(w) PROVE SteadyNext \/ UNCHANGED vars
  <2>1. Held(w) \in tokens
    BY <1>8, HeldClaim DEF WorkerInv, DiscardCorrupt, Goto
  <2> QED BY <1>8, <2>1 DEF DiscardCorrupt
<1>9. ASSUME NEW w \in Workers, Settle(w) PROVE SteadyNext \/ UNCHANGED vars
  BY <1>9, SettleStep
<1>10. ASSUME NEW w \in Workers, Release(w) PROVE SteadyNext
  <2>1. Held(w) \in tokens
    BY <1>10, HeldClaim DEF WorkerInv, Release, Goto
  <2> QED BY <1>10, <2>1 DEF Release
<1>11. ASSUME NEW w \in Workers, Crash(w) PROVE SteadyNext
  <2>1. Held(w) \in tokens
    BY <1>11, HeldClaim DEF WorkerInv, Crash
  <2> QED BY <1>11, <2>1 DEF Crash
<1>12. ASSUME NEW w \in Workers,
              \/ Begin(w) \/ Parse(w) \/ Lookup(w) \/ Process(w)
              \/ AppendDecision(w) \/ AnchorHead(w) \/ Peek(w)
       PROVE  UNCHANGED vars
  BY <1>12 DEF Begin, Parse, Lookup, Process, AppendDecision, AnchorHead, Peek
<1> HIDE DEF SteadyNext
<1> QED
  BY <1>1, <1>2, <1>3, <1>4, <1>5, <1>6, <1>7, <1>8, <1>9, <1>10, <1>11,
     <1>12 DEF WorkerNext, WorkStep

\* The same for every step.
LEMMA WorkerQueueStep ==
  ASSUME WorkerInv, WorkerNext
  PROVE  \/ \E w \in Workers, c \in ClaimIds : ClaimJob(w, c)
         \/ QuietNext
         \/ UNCHANGED vars
BY SteadyStep, BeatStep DEF QuietNext

\* The queue keeps its invariant under the workers.
LEMMA WorkerQueueInv ==
  ASSUME WorkerInv, WorkerNext
  PROVE  QueueInv'
<1>1. QueueInv
  BY DEF WorkerInv
<1>2. QuietNext => Next
  BY DEF QuietNext, SteadyNext, Next
<1>3. [Next]_vars
  BY <1>2, WorkerQueueStep DEF Next
<1> QED BY <1>1, <1>3, NextInv

-----------------------------------------------------------------------------
(* The fence under the workers. *)

\* Without a new lease, a claim that lost its job does not get it back.
LEMMA FenceKept ==
  ASSUME QueueInv, QuietNext \/ UNCHANGED vars, NEW t \in Token, ~Owns(t)
  PROVE  ~Owns(t)'
<1>0. t.job \in Jobs /\ t.claim \in ClaimIds
  BY DEF Token
<1>1. CASE UNCHANGED vars
  BY <1>1 DEF vars, hashVars, Owns, OwnerCheck, Exists
<1>2. CASE QuietNext
  <2>1. claimId'[t.job] \in {claimId[t.job], Nil}
    <3>1. claimId \in [Jobs -> ClaimIds \cup {Nil}]
      BY DEF QueueInv, TypeOK
    <3>2. ASSUME NEW u \in tokens, Ack(u) \/ FailCorrupt(u)
          PROVE  claimId'[t.job] \in {claimId[t.job], Nil}
      <4>1. claimId' = [claimId EXCEPT ![u.job] = Nil]
        BY <3>2 DEF Ack, FailCorrupt, Fail
      <4> QED BY <1>0, <3>1, <4>1
    <3>3. ASSUME NEW u \in tokens, NEW r \in Reasons, NEW retryable \in BOOLEAN,
                 FailClaim(u, r, retryable)
          PROVE  claimId'[t.job] \in {claimId[t.job], Nil}
      <4>1. claimId' = [claimId EXCEPT ![u.job] = Nil]
        BY <3>3 DEF FailClaim, Fail
      <4> QED BY <1>0, <3>1, <4>1
    <3>4. ASSUME Reap PROVE claimId'[t.job] \in {claimId[t.job], Nil}
      <4>1. PICK R \in SUBSET Jobs : ReapsJobs(R)
        BY <3>4, ReapStep
      <4>2. claimId' = [j \in Jobs |-> IF j \in R THEN Nil ELSE claimId[j]]
        BY <4>1 DEF ReapsJobs
      <4> QED BY <1>0, <4>2
    <3>5. ASSUME \/ \E j \in Jobs, b \in Budgets : Enqueue(j, b)
                 \/ ClaimNothing \/ Tick
                 \/ \E j \in Jobs : RequeueDead(j) \/ Corrupt(j)
                 \/ \E u \in tokens : Heartbeat(u) \/ Drop(u)
          PROVE  claimId' = claimId
      BY <3>5 DEF Enqueue, ClaimNothing, Tick, RequeueDead, Corrupt,
                  Heartbeat, Drop, hashVars
    <3> QED BY <1>2, <3>2, <3>3, <3>4, <3>5 DEF QuietNext, SteadyNext
  <2>2. Next
    BY <1>2 DEF QuietNext, SteadyNext, Next
  <2>3. KeepsFence(t.job)
    BY <1>0, <2>2, StampStep
  <2> SUFFICES ASSUME Owns(t)' PROVE FALSE
    OBVIOUS
  <2>4. /\ status'[t.job] = "processing"
        /\ claimId'[t.job] = t.claim /\ claimedBy'[t.job] = t.worker
    BY DEF Owns, OwnerCheck
  <2>5. claimId'[t.job] = claimId[t.job]
    BY <1>0, <2>1, <2>4, QueueConstants
  <2>6. /\ status[t.job] = "processing"
        /\ claimId[t.job] = t.claim /\ claimedBy[t.job] = t.worker
    BY <2>3, <2>4, <2>5 DEF KeepsFence
  <2> QED BY <2>6 DEF Owns, OwnerCheck, Exists
<1> QED BY <1>1, <1>2

\* A new lease leaves every other claim fenced.
LEMMA FenceKeptByClaim ==
  ASSUME QueueInv, NEW w \in Workers, NEW c \in ClaimIds, ClaimJob(w, c),
         NEW t \in Token, t.claim # c, ~Owns(t)
  PROVE  ~Owns(t)'
<1>0. t.job \in Jobs
  BY DEF Token
<1>1. PICK B \in SUBSET Jobs, j \in Jobs : ClaimsJob(B, j, w, c)
  BY ClaimStep
<1>2. /\ status' = [status EXCEPT ![j] = "processing"]
      /\ claimedBy' = [claimedBy EXCEPT ![j] = w]
      /\ claimId' = [claimId EXCEPT ![j] = c]
  BY <1>1 DEF ClaimsJob
<1>3. /\ status \in [Jobs -> Statuses]
      /\ claimId \in [Jobs -> ClaimIds \cup {Nil}]
      /\ claimedBy \in [Jobs -> Workers \cup {Nil}]
  BY DEF QueueInv, TypeOK
<1>4. CASE t.job = j
  BY <1>2, <1>3, <1>4 DEF Owns, OwnerCheck
<1>5. CASE t.job # j
  BY <1>2, <1>3, <1>5 DEF Owns, OwnerCheck, Exists
<1> QED BY <1>4, <1>5


-----------------------------------------------------------------------------
(* What the steps preserve, by kind. *)

\* WorkerInv without the queue's part of it.
LoopInv ==
  /\ WorkerTypes /\ OneClaimEach /\ PublishedHeld
  /\ SettledFenced /\ CopyFenced /\ ResultTraced /\ AckedIsRecorded

\* The ledger is append-only and a payload does not change.
LedgerGrows ==
  /\ payload' = payload /\ disclosed \subseteq disclosed'
  /\ \A j \in Jobs : decisions'[j] \in Nat /\ decisions'[j] >= decisions[j]

\* A trace stays on the ledger.
LEMMA TraceStays ==
  ASSUME WorkerInv, LedgerGrows, NEW j \in Jobs, Traced(j)
  PROVE  Traced(j)'
<1>1. decisions[j] \in Nat
  BY DEF WorkerInv, WorkerTypes
<1> QED BY <1>1 DEF LedgerGrows, Traced

\* A worker that did not move keeps what its result rests on.
LEMMA ResultStays ==
  ASSUME WorkerInv, LedgerGrows, NEW t \in tokens,
         pc'[t.worker] = pc[t.worker], verdict'[t.worker] = verdict[t.worker]
  PROVE  /\ pc'[t.worker] = "anchor" => decisions'[t.job] > 0
         /\ pc'[t.worker] = "returned" /\ Acks(verdict'[t.worker]) => Traced(t.job)'
<1>1. t.job \in Jobs
  BY ClaimFields DEF WorkerInv
<1>2. decisions[t.job] \in Nat
  BY <1>1 DEF WorkerInv, WorkerTypes
<1>3. pc[t.worker] = "anchor" => decisions'[t.job] > 0
  BY <1>1, <1>2 DEF WorkerInv, ResultTraced, LedgerGrows
<1>4. Traced(t.job) => Traced(t.job)'
  BY <1>1, TraceStays
<1>5. Acks(verdict[t.worker]) <=> Acks(verdict'[t.worker])
  BY DEF Acks
<1> QED BY <1>3, <1>4, <1>5 DEF WorkerInv, ResultTraced

\* Completed jobs stay recorded while no job is newly completed.
LEMMA RecordsStay ==
  ASSUME WorkerInv, LedgerGrows,
         \A j \in Jobs : status'[j] = "done" => status[j] = "done"
  PROVE  AckedIsRecorded'
<1> SUFFICES ASSUME NEW j \in Jobs, status'[j] = "done" PROVE Traced(j)'
  BY DEF AckedIsRecorded, Traced
<1>1. Traced(j)
  BY DEF WorkerInv, AckedIsRecorded, Traced
<1> QED BY <1>1, TraceStays

\* A script run by somebody else leaves the loops as they are.
LEMMA BackgroundStep ==
  ASSUME WorkerInv, QuietNext, UNCHANGED <<workerVars, tokens>>,
         \A j \in Jobs : status'[j] = "done" => status[j] = "done"
  PROVE  LoopInv'
<1>1. /\ UNCHANGED <<payload, pc, verdict, current, peeked, decisions, events,
                     disclosed, crashes, tokens>>
  BY DEF workerVars, ledgerVars
<1>2. WorkerTypes' /\ OneClaimEach' /\ PublishedHeld'
  BY <1>1 DEF WorkerInv, WorkerTypes, OneClaimEach, PublishedHeld
<1>3. SettledFenced'
  <2> SUFFICES ASSUME NEW t \in tokens, pc[t.worker] = "settled" PROVE ~Owns(t)'
    BY <1>1 DEF SettledFenced
  <2> QED BY ClaimFields, FenceKept DEF WorkerInv, SettledFenced
<1>4. CopyFenced'
  <2> SUFFICES ASSUME NEW w \in Workers, NEW t, t = peeked[w], t # Nil
               PROVE  t.worker = w /\ (t \notin tokens => ~Owns(t)')
    BY <1>1 DEF CopyFenced
  <2>1. t \in Token
    BY DEF WorkerInv, WorkerTypes
  <2> QED BY <2>1, FenceKept DEF WorkerInv, CopyFenced
<1>5. LedgerGrows
  BY <1>1 DEF WorkerInv, WorkerTypes, LedgerGrows
<1>6. ResultTraced'
  <2> SUFFICES ASSUME NEW t \in tokens
               PROVE  /\ pc'[t.worker] = "anchor" => decisions'[t.job] > 0
                      /\ pc'[t.worker] = "returned" /\ Acks(verdict'[t.worker]) =>
                           Traced(t.job)'
    BY <1>1 DEF ResultTraced
  <2> QED BY <1>1, <1>5, ResultStays
<1>7. AckedIsRecorded'
  BY <1>5, RecordsStay
<1> QED BY <1>2, <1>3, <1>4, <1>6, <1>7 DEF LoopInv

\* A worker moves on inside process_call: its claim and the queue stay.
LEMMA LocalStep ==
  ASSUME WorkerInv, NEW w \in Workers, NEW to,
         UNCHANGED <<vars, peeked>>,
         pc[w] # "idle", to \notin {"idle", "settled"},
         pc' = [pc EXCEPT ![w] = to],
         \/ current' = current
         \/ current' = [current EXCEPT ![w] = Nil]
         \/ current' = [current EXCEPT ![w] = Held(w)]
  PROVE  OneClaimEach' /\ PublishedHeld' /\ SettledFenced' /\ CopyFenced'
<1>1. /\ pc \in [Workers -> {"idle", "claimed", "parse", "lookup", "process",
                             "append", "anchor", "returned", "settled"}]
      /\ current \in [Workers -> Token \cup {Nil}]
      /\ peeked \in [Workers -> Token \cup {Nil}]
  BY DEF WorkerInv, WorkerTypes
<1>2. tokens' = tokens
  BY DEF vars
<1>3. Held(w) \in tokens /\ Held(w).worker = w
  BY HeldClaim DEF WorkerInv
<1>4. OneClaimEach'
  BY <1>1, <1>2, <1>3 DEF WorkerInv, OneClaimEach
<1>5. PublishedHeld'
  BY <1>1, <1>2, <1>3 DEF WorkerInv, PublishedHeld
<1>6. SettledFenced'
  <2> SUFFICES ASSUME NEW t \in tokens, pc'[t.worker] = "settled" PROVE ~Owns(t)'
    BY <1>2 DEF SettledFenced
  <2>1. t.worker \in Workers /\ t \in Token
    BY ClaimFields DEF WorkerInv
  <2>2. pc[t.worker] = "settled"
    BY <1>1, <2>1
  <2>3. ~Owns(t)
    BY <2>2 DEF WorkerInv, SettledFenced
  <2> QED BY <2>1, <2>3, FenceKept DEF WorkerInv
<1>7. CopyFenced'
  <2> SUFFICES ASSUME NEW v \in Workers, NEW t, t = peeked[v], t # Nil
               PROVE  t.worker = v /\ (t \notin tokens => ~Owns(t)')
    BY <1>2 DEF CopyFenced
  <2>1. t \in Token
    BY <1>1
  <2> QED BY <2>1, FenceKept DEF WorkerInv, CopyFenced
<1> QED BY <1>4, <1>5, <1>6, <1>7

\* The result of the worker that moved, and of the others.
LEMMA LocalResult ==
  ASSUME WorkerInv, LedgerGrows, NEW w \in Workers, pc[w] # "idle",
         tokens' = tokens, NEW to, pc' = [pc EXCEPT ![w] = to],
         \A v \in Workers : v # w => verdict'[v] = verdict[v],
         NEW j, j = Held(w).job,
         to = "anchor" => decisions'[j] > 0,
         to = "returned" /\ Acks(verdict'[w]) => Traced(j)'
  PROVE  ResultTraced'
<1> SUFFICES ASSUME NEW t \in tokens
             PROVE  /\ pc'[t.worker] = "anchor" => decisions'[t.job] > 0
                    /\ pc'[t.worker] = "returned" /\ Acks(verdict'[t.worker]) =>
                         Traced(t.job)'
  BY DEF ResultTraced
<1>1. t.worker \in Workers /\ pc \in [Workers -> {"idle", "claimed", "parse",
        "lookup", "process", "append", "anchor", "returned", "settled"}]
  BY ClaimFields DEF WorkerInv, WorkerTypes
<1>2. CASE t.worker = w
  <2>1. t.job = j /\ pc'[t.worker] = to
    BY <1>1, <1>2, HeldClaim DEF WorkerInv
  <2> QED BY <1>2, <2>1
<1>3. CASE t.worker # w
  BY <1>1, <1>3, ResultStays
<1> QED BY <1>2, <1>3

-----------------------------------------------------------------------------
(* The steps inside process_call. *)

\* What process_call returning does to the verdict and to _current_job.
LEMMA ReturnsStep ==
  ASSUME WorkerTypes, NEW w \in Workers, NEW v \in Verdicts, Returns(w, v)
  PROVE  /\ verdict' \in [Workers -> Verdicts \cup {Nil}] /\ verdict'[w] = v
         /\ \A u \in Workers : u # w => verdict'[u] = verdict[u]
         /\ current' \in [Workers -> Token \cup {Nil}]
         /\ current' = current \/ current' = [current EXCEPT ![w] = Nil]
<1>1. /\ verdict \in [Workers -> Verdicts \cup {Nil}]
      /\ current \in [Workers -> Token \cup {Nil}]
  BY DEF WorkerTypes
<1>2. verdict' = [verdict EXCEPT ![w] = v]
  BY DEF Returns
<1>3. current' = current \/ current' = [current EXCEPT ![w] = Nil]
  BY DEF Returns
<1> QED BY <1>1, <1>2, <1>3

\* Going on to a place of the loop.
LEMMA GotoStep ==
  ASSUME WorkerTypes, NEW w \in Workers, NEW from, NEW to, Goto(w, from, to),
         to \in {"idle", "claimed", "parse", "lookup", "process", "append",
                 "anchor", "returned", "settled"}
  PROVE  /\ pc[w] = from /\ pc' = [pc EXCEPT ![w] = to] /\ pc'[w] = to
         /\ pc' \in [Workers -> {"idle", "claimed", "parse", "lookup", "process",
                                 "append", "anchor", "returned", "settled"}]
BY DEF WorkerTypes, Goto

\* A step inside process_call, from its effect on the ledger and its result.
LEMMA InsideStep ==
  ASSUME WorkerInv, NEW w \in Workers, NEW to,
         UNCHANGED <<vars, peeked, crashes>>,
         WorkerTypes', LedgerGrows,
         pc[w] # "idle", to \notin {"idle", "settled"},
         pc' = [pc EXCEPT ![w] = to],
         \/ current' = current
         \/ current' = [current EXCEPT ![w] = Nil]
         \/ current' = [current EXCEPT ![w] = Held(w)],
         \A v \in Workers : v # w => verdict'[v] = verdict[v],
         NEW j, j = Held(w).job,
         to = "anchor" => decisions'[j] > 0,
         to = "returned" /\ Acks(verdict'[w]) => Traced(j)'
  PROVE  LoopInv'
<1>1. OneClaimEach' /\ PublishedHeld' /\ SettledFenced' /\ CopyFenced'
  BY LocalStep
<1>2. tokens' = tokens /\ status' = status
  BY DEF vars, hashVars
<1>3. ResultTraced'
  BY <1>2, LocalResult
<1>4. AckedIsRecorded'
  BY <1>2, RecordsStay
<1> QED BY <1>1, <1>3, <1>4 DEF LoopInv

\* A step that leaves the ledger's variables alone.
LEMMA SameLedger ==
  ASSUME WorkerInv, UNCHANGED <<ledgerVars, payload>>
  PROVE  LedgerGrows
BY DEF WorkerInv, WorkerTypes, LedgerGrows, ledgerVars

\* Publishing the claim to the reaper thread.
LEMMA BeginInv ==
  ASSUME WorkerInv, NEW w \in Workers, Begin(w)
  PROVE  LoopInv'
<1>1. WorkerTypes /\ LedgerGrows
  BY SameLedger DEF WorkerInv, Begin
<1>2. Goto(w, "claimed", "parse")
  BY DEF Begin
<1>3. /\ pc[w] = "claimed" /\ pc' = [pc EXCEPT ![w] = "parse"]
      /\ pc' \in [Workers -> {"idle", "claimed", "parse", "lookup", "process",
                              "append", "anchor", "returned", "settled"}]
  BY <1>1, <1>2, GotoStep
<1>4. Held(w) \in Token
  BY <1>3, HeldClaim, ClaimFields DEF WorkerInv
<1>5. WorkerTypes'
  BY <1>1, <1>3, <1>4 DEF WorkerTypes, Begin, ledgerVars
<1> QED BY <1>1, <1>3, <1>5, InsideStep DEF Begin

\* The ledger's rows have their types after a step.
RowTypes ==
  /\ payload \in [Jobs -> Payloads] /\ decisions \in [Jobs -> Nat]
  /\ events \subseteq Jobs /\ disclosed \subseteq Jobs

\* process_call returns a result: if it will be acked, its trace must be there.
LEMMA ReturnInv ==
  ASSUME WorkerInv, NEW w \in Workers, NEW from, from # "idle",
         NEW v \in Verdicts, Goto(w, from, "returned"), Returns(w, v),
         UNCHANGED <<vars, peeked, crashes>>, LedgerGrows, RowTypes',
         NEW j, j = Held(w).job, Acks(v) => Traced(j)'
  PROVE  LoopInv'
<1>1. WorkerTypes
  BY DEF WorkerInv
<1>2. /\ verdict' \in [Workers -> Verdicts \cup {Nil}] /\ verdict'[w] = v
      /\ \A u \in Workers : u # w => verdict'[u] = verdict[u]
      /\ current' \in [Workers -> Token \cup {Nil}]
      /\ current' = current \/ current' = [current EXCEPT ![w] = Nil]
  BY <1>1, ReturnsStep
<1>3. /\ pc[w] = from /\ pc' = [pc EXCEPT ![w] = "returned"]
      /\ pc' \in [Workers -> {"idle", "claimed", "parse", "lookup", "process",
                              "append", "anchor", "returned", "settled"}]
  BY <1>1, GotoStep
<1>4. WorkerTypes'
  BY <1>1, <1>2, <1>3 DEF WorkerTypes, RowTypes
<1> QED BY <1>2, <1>3, <1>4, InsideStep

\* process_call goes on to its next step.
LEMMA GoOnInv ==
  ASSUME WorkerInv, NEW w \in Workers, NEW from, from # "idle",
         NEW to \in {"lookup", "process", "append", "anchor"},
         Goto(w, from, to), UNCHANGED <<verdict, current>>,
         UNCHANGED <<vars, peeked, crashes>>, LedgerGrows, RowTypes',
         NEW j, j = Held(w).job, to = "anchor" => decisions'[j] > 0
  PROVE  LoopInv'
<1>1. WorkerTypes
  BY DEF WorkerInv
<1>2. /\ pc[w] = from /\ pc' = [pc EXCEPT ![w] = to]
      /\ pc' \in [Workers -> {"idle", "claimed", "parse", "lookup", "process",
                              "append", "anchor", "returned", "settled"}]
  BY <1>1, GotoStep
<1>3. WorkerTypes'
  BY <1>1, <1>2 DEF WorkerTypes, RowTypes
<1> QED BY <1>2, <1>3, InsideStep

\* Parsing writes nothing, and no failure of it is acked.
LEMMA ParseInv ==
  ASSUME WorkerInv, NEW w \in Workers, Parse(w)
  PROVE  LoopInv'
<1>1. LedgerGrows /\ RowTypes' /\ UNCHANGED <<vars, peeked, crashes>>
  BY SameLedger DEF Parse, RowTypes, WorkerInv, WorkerTypes, ledgerVars
<1>2. ASSUME NEW v \in {"parse_failure", "raised_unknown"},
             Goto(w, "parse", "returned"), Returns(w, v)
      PROVE  LoopInv'
  <2>1. v \in Verdicts /\ ~Acks(v)
    BY DEF Verdicts, Raised, Acks
  <2> QED BY <1>1, <1>2, <2>1, ReturnInv
<1>3. ASSUME Goto(w, "parse", "lookup"), UNCHANGED <<verdict, current>>
      PROVE  LoopInv'
  BY <1>1, <1>3, GoOnInv
<1> QED BY <1>2, <1>3 DEF Parse

\* The look-up answers "duplicate" only for an episode that is decided.
LEMMA LookupInv ==
  ASSUME WorkerInv, NEW w \in Workers, Lookup(w)
  PROVE  LoopInv'
<1> DEFINE j == Held(w).job
<1>1. LedgerGrows /\ RowTypes' /\ UNCHANGED <<vars, peeked, crashes>>
  BY SameLedger DEF Lookup, RowTypes, WorkerInv, WorkerTypes, ledgerVars
<1>2. ASSUME decisions[j] > 0, Goto(w, "lookup", "returned"), Returns(w, "duplicate")
      PROVE  LoopInv'
  <2>1. "duplicate" \in Verdicts
    BY DEF Verdicts
  <2> SUFFICES ASSUME NEW k, k = j PROVE LoopInv'
    OBVIOUS
  <2>2. Traced(k)'
    BY <1>2 DEF Traced, Lookup, ledgerVars
  <2> QED BY <1>1, <1>2, <2>1, <2>2, ReturnInv
<1>3. ASSUME Goto(w, "lookup", "process"), UNCHANGED <<verdict, current>>
      PROVE  LoopInv'
  BY <1>1, <1>3, GoOnInv
<1>4. ASSUME NEW v \in Raised, Goto(w, "lookup", "returned"), Returns(w, v)
      PROVE  LoopInv'
  <2>1. v \in Verdicts /\ ~Acks(v)
    BY DEF Verdicts, Raised, Acks
  <2> QED BY <1>1, <1>4, <2>1, ReturnInv
<1> QED BY <1>2, <1>3, <1>4 DEF Lookup

\* A blocked episode is returned with its disclosure on the ledger.
LEMMA ProcessInv ==
  ASSUME WorkerInv, NEW w \in Workers, Process(w)
  PROVE  LoopInv'
<1> SUFFICES ASSUME NEW j, j = Held(w).job PROVE LoopInv'
  OBVIOUS
<1>1. j \in Jobs
  <2>1. pc[w] # "idle"
    BY DEF Process
  <2> QED BY <2>1, HeldClaim, ClaimFields DEF WorkerInv
<1>2. /\ UNCHANGED <<vars, peeked, crashes>> /\ UNCHANGED <<decisions, events, payload>>
  BY DEF Process
<1>3. Discloses(j) \/ disclosed' = disclosed
  BY DEF Process
<1>4. disclosed \subseteq disclosed' /\ disclosed' \subseteq Jobs
  BY <1>1, <1>3 DEF Discloses, WorkerInv, WorkerTypes
<1>5. LedgerGrows /\ RowTypes'
  BY <1>2, <1>4 DEF LedgerGrows, RowTypes, WorkerInv, WorkerTypes
<1>6. ASSUME payload[j] \in {"blocked", "quiet"}, Discloses(j),
             Goto(w, "process", "returned"), Returns(w, "completed")
      PROVE  LoopInv'
  <2>1. Traced(j)'
    BY <1>2, <1>6 DEF Traced, Discloses
  <2>2. "completed" \in Verdicts
    BY DEF Verdicts
  <2> QED BY <1>2, <1>5, <1>6, <2>1, <2>2, ReturnInv
<1>7. ASSUME Goto(w, "process", "append"), UNCHANGED <<verdict, current>>
      PROVE  LoopInv'
  BY <1>2, <1>5, <1>7, GoOnInv
<1>8. ASSUME Goto(w, "process", "returned"), Returns(w, "write_failed")
      PROVE  LoopInv'
  <2>1. "write_failed" \in Verdicts /\ ~Acks("write_failed")
    BY DEF Verdicts, Acks
  <2> QED BY <1>2, <1>5, <1>8, <2>1, ReturnInv
<1> QED BY <1>6, <1>7, <1>8 DEF Process

\* The decision is on the ledger before the anchor is sealed.
LEMMA AppendDecisionInv ==
  ASSUME WorkerInv, NEW w \in Workers, AppendDecision(w)
  PROVE  LoopInv'
<1> SUFFICES ASSUME NEW j, j = Held(w).job PROVE LoopInv'
  OBVIOUS
<1>1. j \in Jobs
  <2>1. pc[w] # "idle"
    BY DEF AppendDecision
  <2> QED BY <2>1, HeldClaim, ClaimFields DEF WorkerInv
<1>2. UNCHANGED <<vars, peeked, crashes>> /\ UNCHANGED <<disclosed, payload>>
  BY DEF AppendDecision
<1>3. decisions \in [Jobs -> Nat] /\ events \subseteq Jobs /\ disclosed \subseteq Jobs
      /\ payload \in [Jobs -> Payloads]
  BY DEF WorkerInv, WorkerTypes
<1>4. ASSUME Goto(w, "append", "anchor"),
             decisions' = [decisions EXCEPT ![j] = @ + 1],
             events' = events \cup {i \in {j} : payload[i] # "bare"},
             UNCHANGED <<verdict, current>>
      PROVE  LoopInv'
  <2>1. LedgerGrows /\ RowTypes' /\ decisions'[j] > 0
    BY <1>1, <1>2, <1>3, <1>4 DEF LedgerGrows, RowTypes
  <2> QED BY <1>2, <1>4, <2>1, GoOnInv
<1>5. ASSUME Goto(w, "append", "returned"), Returns(w, "write_failed"),
             UNCHANGED <<decisions, events>>
      PROVE  LoopInv'
  <2>1. "write_failed" \in Verdicts /\ ~Acks("write_failed")
    BY DEF Verdicts, Acks
  <2>2. LedgerGrows /\ RowTypes'
    BY <1>2, <1>3, <1>5 DEF LedgerGrows, RowTypes
  <2> QED BY <1>2, <1>5, <2>1, <2>2, ReturnInv
<1> QED BY <1>4, <1>5 DEF AppendDecision

\* Sealing the anchor follows the commit.
LEMMA AnchorHeadInv ==
  ASSUME WorkerInv, NEW w \in Workers, AnchorHead(w)
  PROVE  LoopInv'
<1> SUFFICES ASSUME NEW j, j = Held(w).job PROVE LoopInv'
  OBVIOUS
<1>1. LedgerGrows /\ RowTypes' /\ UNCHANGED <<vars, peeked, crashes>>
  BY SameLedger DEF AnchorHead, RowTypes, WorkerInv, WorkerTypes, ledgerVars
<1>2. Traced(j)'
  <2>1. pc[w] = "anchor"
    BY DEF AnchorHead, Goto
  <2>2. Held(w) \in tokens /\ Held(w).worker = w
    BY <2>1, HeldClaim DEF WorkerInv
  <2>3. decisions[j] > 0
    BY <2>1, <2>2 DEF WorkerInv, ResultTraced
  <2> QED BY <2>3 DEF Traced, AnchorHead, ledgerVars
<1>3. {"completed", "write_failed"} \subseteq Verdicts
  BY DEF Verdicts
<1> QED BY <1>1, <1>2, <1>3, ReturnInv DEF AnchorHead

-----------------------------------------------------------------------------
(* Settling a claim and letting go of it. *)

\* The scripts other processes run: nobody's claim is acked by them.
LEMMA BackgroundInv ==
  ASSUME WorkerInv,
         \/ \E j \in Jobs, b \in Budgets : Submit(j, b)
         \/ \E j \in Jobs : Requeue(j) \/ Damage(j)
         \/ Elapse \/ Sweep
         \/ \E w \in Workers : ClaimIdle(w)
  PROVE  LoopInv'
<1>0. QueueInv /\ status \in [Jobs -> Statuses]
  BY DEF WorkerInv, QueueInv, TypeOK
<1> DEFINE NoneDone == \A j \in Jobs : status'[j] = "done" => status[j] = "done"
<1>1. ASSUME NEW j \in Jobs, NEW b \in Budgets, Submit(j, b) PROVE LoopInv'
  <2>1. Enqueue(j, b) /\ UNCHANGED workerVars
    BY <1>1 DEF Submit
  <2>2. NoneDone /\ UNCHANGED tokens
    BY <1>0, <2>1 DEF Enqueue
  <2>3. QuietNext
    BY <2>1 DEF QuietNext, SteadyNext
  <2> QED BY <2>1, <2>2, <2>3, BackgroundStep
<1>2. ASSUME NEW j \in Jobs, Requeue(j) PROVE LoopInv'
  <2>1. RequeueDead(j) /\ UNCHANGED workerVars
    BY <1>2 DEF Requeue
  <2>2. NoneDone /\ UNCHANGED tokens
    BY <1>0, <2>1 DEF RequeueDead
  <2>3. QuietNext
    BY <2>1 DEF QuietNext, SteadyNext
  <2> QED BY <2>1, <2>2, <2>3, BackgroundStep
<1>3. ASSUME NEW j \in Jobs, Damage(j) PROVE LoopInv'
  <2>1. Corrupt(j) /\ UNCHANGED workerVars
    BY <1>3 DEF Damage
  <2>2. NoneDone /\ UNCHANGED tokens
    BY <2>1 DEF Corrupt
  <2>3. QuietNext
    BY <2>1 DEF QuietNext, SteadyNext
  <2> QED BY <2>1, <2>2, <2>3, BackgroundStep
<1>4. ASSUME Elapse PROVE LoopInv'
  <2>1. Tick /\ UNCHANGED workerVars
    BY <1>4 DEF Elapse
  <2>2. NoneDone /\ UNCHANGED tokens
    BY <2>1 DEF Tick
  <2>3. QuietNext
    BY <2>1 DEF QuietNext, SteadyNext
  <2> QED BY <2>1, <2>2, <2>3, BackgroundStep
<1>5. ASSUME Sweep PROVE LoopInv'
  <2>1. Reap /\ UNCHANGED workerVars
    BY <1>5 DEF Sweep
  <2>2. PICK R \in SUBSET Jobs : ReapsJobs(R)
    BY <1>0, <2>1, ReapStep
  <2>3. NoneDone /\ UNCHANGED tokens
    BY <2>2 DEF ReapsJobs
  <2>4. QuietNext
    BY <2>1 DEF QuietNext, SteadyNext
  <2> QED BY <2>1, <2>3, <2>4, BackgroundStep
<1>6. ASSUME NEW w \in Workers, ClaimIdle(w) PROVE LoopInv'
  <2>1. ClaimNothing /\ UNCHANGED workerVars
    BY <1>6 DEF ClaimIdle
  <2>2. NoneDone /\ UNCHANGED tokens
    BY <2>1 DEF ClaimNothing, hashVars
  <2>3. QuietNext
    BY <2>1 DEF QuietNext, SteadyNext
  <2> QED BY <2>1, <2>2, <2>3, BackgroundStep
<1> HIDE DEF NoneDone
<1> QED BY <1>1, <1>2, <1>3, <1>4, <1>5, <1>6

\* A worker whose claim has just lost its job: what is newly completed was
\* traced.
LEMMA SettledStep ==
  ASSUME WorkerInv, NEW w \in Workers, QuietNext \/ UNCHANGED vars,
         pc[w] # "idle", pc' = [pc EXCEPT ![w] = "settled"],
         UNCHANGED <<tokens, current, peeked, ledgerVars, crashes, payload>>,
         verdict' = verdict \/ verdict' = [verdict EXCEPT ![w] = Nil],
         NEW h, h = Held(w), ~Owns(h)',
         \A j \in Jobs : status'[j] = "done" => status[j] = "done" \/ Traced(j)
  PROVE  LoopInv'
<1>1. /\ WorkerTypes /\ QueueInv
      /\ pc \in [Workers -> {"idle", "claimed", "parse", "lookup", "process",
                             "append", "anchor", "returned", "settled"}]
      /\ verdict \in [Workers -> Verdicts \cup {Nil}]
  BY DEF WorkerInv, WorkerTypes
<1>2. h \in tokens /\ h.worker = w /\ \A t \in tokens : t.worker = w => t = h
  BY HeldClaim DEF WorkerInv
<1>3. LedgerGrows
  BY SameLedger
<1>4. WorkerTypes'
  BY <1>1 DEF WorkerTypes, ledgerVars
<1>5. OneClaimEach' /\ PublishedHeld'
  BY <1>1, <1>2 DEF WorkerInv, OneClaimEach, PublishedHeld
<1>6. SettledFenced'
  <2> SUFFICES ASSUME NEW t \in tokens, pc'[t.worker] = "settled" PROVE ~Owns(t)'
    BY DEF SettledFenced
  <2>1. t \in Token /\ t.worker \in Workers
    BY <1>1, ClaimFields
  <2>2. CASE t.worker = w
    BY <1>2, <2>2
  <2>3. CASE t.worker # w
    <3>1. ~Owns(t)
      BY <1>1, <2>1, <2>3 DEF WorkerInv, SettledFenced
    <3> QED BY <1>1, <2>1, <3>1, FenceKept
  <2> QED BY <2>2, <2>3
<1>7. CopyFenced'
  <2> SUFFICES ASSUME NEW v \in Workers, NEW t, t = peeked[v], t # Nil
               PROVE  t.worker = v /\ (t \notin tokens => ~Owns(t)')
    BY DEF CopyFenced
  <2>1. t \in Token
    BY <1>1 DEF WorkerTypes
  <2> QED BY <1>1, <2>1, FenceKept DEF WorkerInv, CopyFenced
<1>8. ResultTraced'
  <2> SUFFICES ASSUME NEW t \in tokens
               PROVE  /\ pc'[t.worker] = "anchor" => decisions'[t.job] > 0
                      /\ pc'[t.worker] = "returned" /\ Acks(verdict'[t.worker]) =>
                           Traced(t.job)'
    BY DEF ResultTraced
  <2>1. t.worker \in Workers
    BY <1>1, ClaimFields
  <2>2. CASE t.worker = w
    BY <1>1, <2>2
  <2>3. CASE t.worker # w
    BY <1>1, <1>3, <2>1, <2>3, ResultStays
  <2> QED BY <2>2, <2>3
<1>9. AckedIsRecorded'
  <2> SUFFICES ASSUME NEW j \in Jobs, status'[j] = "done" PROVE Traced(j)'
    BY DEF AckedIsRecorded, Traced
  <2>1. Traced(j)
    BY DEF WorkerInv, AckedIsRecorded, Traced
  <2> QED BY <1>3, <2>1, TraceStays
<1> QED BY <1>4, <1>5, <1>6, <1>7, <1>8, <1>9 DEF LoopInv

\* claim() dead-letters a corrupt payload, or finds that the lease is lost.
LEMMA DiscardCorruptInv ==
  ASSUME WorkerInv, NEW w \in Workers, DiscardCorrupt(w)
  PROVE  LoopInv'
<1> SUFFICES ASSUME NEW h, h = Held(w) PROVE LoopInv'
  OBVIOUS
<1>1. /\ pc[w] # "idle" /\ pc' = [pc EXCEPT ![w] = "settled"]
      /\ UNCHANGED <<verdict, current, peeked, ledgerVars, crashes, payload>>
  BY DEF DiscardCorrupt, Goto
<1>2. h \in tokens /\ QueueInv
  BY <1>1, HeldClaim DEF WorkerInv
<1>3. h \in Token /\ h.job \in Jobs
  BY <1>2, ClaimFields
<1>4. CASE FailCorrupt(h)
  <2>1. QuietNext
    BY <1>2, <1>4 DEF QuietNext, SteadyNext
  <2>2. /\ claimId' = [claimId EXCEPT ![h.job] = Nil] /\ tokens' = tokens
        /\ \/ status' = [status EXCEPT ![h.job] = "dead"]
           \/ status' = [status EXCEPT ![h.job] = "scheduled"]
    BY <1>4 DEF FailCorrupt, Fail
  <2>3. claimId \in [Jobs -> ClaimIds \cup {Nil}] /\ status \in [Jobs -> Statuses]
    BY <1>2 DEF QueueInv, TypeOK
  <2>4. ~Owns(h)'
    BY <1>3, <2>2, <2>3, QueueConstants DEF Owns, OwnerCheck, Token
  <2>5. \A j \in Jobs : status'[j] = "done" => status[j] = "done"
    BY <2>2, <2>3
  <2> QED BY <1>1, <2>1, <2>2, <2>4, <2>5, SettledStep
<1>5. CASE ~Owns(h) /\ UNCHANGED vars
  <2>1. ~Owns(h)'
    BY <1>2, <1>3, <1>5, FenceKept
  <2>2. tokens' = tokens /\ status' = status
    BY <1>5 DEF vars, hashVars
  <2> QED BY <1>1, <1>5, <2>1, <2>2, SettledStep
<1> QED BY <1>4, <1>5 DEF DiscardCorrupt

\* handle_one settles the claim: it acks a result only when its trace is on
\* the ledger, and afterwards the claim has lost the job, whatever the answer.
LEMMA SettleInv ==
  ASSUME WorkerInv, NEW w \in Workers, Settle(w)
  PROVE  LoopInv'
<1> SUFFICES ASSUME NEW h, h = Held(w) PROVE LoopInv'
  OBVIOUS
<1>1. /\ pc[w] = "returned" /\ pc[w] # "idle" /\ pc' = [pc EXCEPT ![w] = "settled"]
      /\ verdict' = [verdict EXCEPT ![w] = Nil]
      /\ UNCHANGED <<current, peeked, ledgerVars, crashes, payload>>
  BY DEF Settle, Goto
<1>2. h \in tokens /\ h.worker = w /\ QueueInv
  BY <1>1, HeldClaim DEF WorkerInv
<1>3. h \in Token /\ h.job \in Jobs /\ h.claim \in ClaimIds
  BY <1>2, ClaimFields
<1>4. claimId \in [Jobs -> ClaimIds \cup {Nil}] /\ status \in [Jobs -> Statuses]
  BY <1>2 DEF QueueInv, TypeOK
<1>5. ASSUME Acks(verdict[w]), Ack(h) PROVE LoopInv'
  <2>1. QuietNext
    BY <1>2, <1>5 DEF QuietNext, SteadyNext
  <2>2. /\ claimId' = [claimId EXCEPT ![h.job] = Nil] /\ tokens' = tokens
        /\ \/ status' = [status EXCEPT ![h.job] = "done"]
           \/ status' = [status EXCEPT ![h.job] = "absent"]
    BY <1>5 DEF Ack
  <2>3. ~Owns(h)'
    BY <1>3, <1>4, <2>2, QueueConstants DEF Owns, OwnerCheck
  <2>4. Traced(h.job)
    BY <1>1, <1>2, <1>5 DEF WorkerInv, ResultTraced
  <2>5. \A j \in Jobs : status'[j] = "done" => status[j] = "done" \/ Traced(j)
    BY <1>4, <2>2, <2>4
  <2> QED BY <1>1, <2>1, <2>2, <2>3, <2>5, SettledStep
<1>6. ASSUME NEW r \in Reasons, NEW retryable \in BOOLEAN, FailClaim(h, r, retryable)
      PROVE  LoopInv'
  <2>1. QuietNext
    BY <1>2, <1>6 DEF QuietNext, SteadyNext
  <2>2. /\ claimId' = [claimId EXCEPT ![h.job] = Nil] /\ tokens' = tokens
        /\ \/ status' = [status EXCEPT ![h.job] = "dead"]
           \/ status' = [status EXCEPT ![h.job] = "scheduled"]
    BY <1>6 DEF FailClaim, Fail
  <2>3. ~Owns(h)'
    BY <1>3, <1>4, <2>2, QueueConstants DEF Owns, OwnerCheck
  <2>4. \A j \in Jobs : status'[j] = "done" => status[j] = "done"
    BY <1>4, <2>2
  <2> QED BY <1>1, <2>1, <2>2, <2>3, <2>4, SettledStep
<1>7. ASSUME ~Owns(h), UNCHANGED vars PROVE LoopInv'
  <2>1. ~Owns(h)'
    BY <1>2, <1>3, <1>7, FenceKept
  <2>2. tokens' = tokens /\ status' = status
    BY <1>7 DEF vars, hashVars
  <2> QED BY <1>1, <1>7, <2>1, <2>2, SettledStep
<1> QED BY <1>5, <1>6, <1>7, SettleStep

\* A worker lets go of its claim: when the reaper thread still has a copy of
\* it, the copy is fenced.
LEMMA DropStep ==
  ASSUME WorkerInv, NEW w \in Workers, pc[w] # "idle",
         NEW h, h = Held(w), Drop(h),
         pc' = [pc EXCEPT ![w] = "idle"],
         current' = [current EXCEPT ![w] = Nil],
         verdict' = verdict \/ verdict' = [verdict EXCEPT ![w] = Nil],
         \/ peeked' = peeked /\ ~Owns(h)
         \/ peeked' = [peeked EXCEPT ![w] = Nil],
         crashes' \in 0..MaxCrashes,
         UNCHANGED <<ledgerVars, payload>>
  PROVE  LoopInv'
<1>1. /\ WorkerTypes /\ QueueInv
      /\ pc \in [Workers -> {"idle", "claimed", "parse", "lookup", "process",
                             "append", "anchor", "returned", "settled"}]
      /\ verdict \in [Workers -> Verdicts \cup {Nil}]
      /\ current \in [Workers -> Token \cup {Nil}]
      /\ peeked \in [Workers -> Token \cup {Nil}]
  BY DEF WorkerInv, WorkerTypes
<1>2. h \in tokens /\ h.worker = w /\ \A t \in tokens : t.worker = w => t = h
  BY HeldClaim DEF WorkerInv
<1>3. LedgerGrows
  BY SameLedger
<1>4. tokens' = tokens \ {h} /\ status' = status
  BY DEF Drop, hashVars
<1>5. QuietNext
  BY <1>2 DEF QuietNext, SteadyNext
<1>6. \A t \in tokens : t \in Token /\ t.worker \in Workers
  BY <1>1, ClaimFields
<1>7. WorkerTypes'
  BY <1>1 DEF WorkerTypes, ledgerVars
<1>8. OneClaimEach'
  <2>1. ASSUME NEW v \in Workers
        PROVE  pc'[v] # "idle" <=> \E t \in tokens' : t.worker = v
    <3>1. CASE v = w
      BY <1>1, <1>2, <1>4, <3>1
    <3>2. CASE v # w
      BY <1>1, <1>2, <1>4, <3>2 DEF WorkerInv, OneClaimEach
    <3> QED BY <3>1, <3>2
  <2> QED BY <1>4, <2>1 DEF WorkerInv, OneClaimEach
<1>9. PublishedHeld'
  BY <1>1, <1>2, <1>4 DEF WorkerInv, PublishedHeld
<1>10. SettledFenced'
  <2> SUFFICES ASSUME NEW t \in tokens, t # h, pc'[t.worker] = "settled"
               PROVE  ~Owns(t)'
    BY <1>4 DEF SettledFenced
  <2>1. ~Owns(t)
    BY <1>1, <1>2, <1>6 DEF WorkerInv, SettledFenced
  <2> QED BY <1>1, <1>5, <1>6, <2>1, FenceKept
<1>11. CopyFenced'
  <2> SUFFICES ASSUME NEW v \in Workers, NEW t, t = peeked'[v], t # Nil
               PROVE  t.worker = v /\ (t \notin tokens \ {h} => ~Owns(t)')
    BY <1>4 DEF CopyFenced
  <2>1. t = peeked[v] /\ t \in Token /\ (t = h => ~Owns(h))
    <3>1. CASE peeked' = peeked /\ ~Owns(h)
      BY <1>1, <3>1
    <3>2. CASE peeked' = [peeked EXCEPT ![w] = Nil]
      <4>1. v # w /\ t = peeked[v]
        BY <1>1, <3>2
      <4>2. t.worker = v
        BY <4>1 DEF WorkerInv, CopyFenced
      <4> QED BY <1>1, <1>2, <4>1, <4>2
    <3> QED BY <3>1, <3>2
  <2>2. t.worker = v /\ (t \notin tokens => ~Owns(t))
    BY <2>1 DEF WorkerInv, CopyFenced
  <2> QED BY <1>1, <1>5, <2>1, <2>2, FenceKept
<1>12. ResultTraced'
  <2> SUFFICES ASSUME NEW t \in tokens, t # h
               PROVE  /\ pc'[t.worker] = "anchor" => decisions'[t.job] > 0
                      /\ pc'[t.worker] = "returned" /\ Acks(verdict'[t.worker]) =>
                           Traced(t.job)'
    BY <1>4 DEF ResultTraced
  <2>1. t.worker \in Workers /\ t.worker # w
    BY <1>2, <1>6
  <2> QED BY <1>1, <1>3, <2>1, ResultStays
<1>13. AckedIsRecorded'
  BY <1>3, <1>4, RecordsStay
<1> QED BY <1>7, <1>8, <1>9, <1>10, <1>11, <1>12, <1>13 DEF LoopInv

\* The loop goes on to its next poll.
LEMMA ReleaseInv ==
  ASSUME WorkerInv, NEW w \in Workers, Release(w)
  PROVE  LoopInv'
<1> SUFFICES ASSUME NEW h, h = Held(w) PROVE LoopInv'
  OBVIOUS
<1>1. /\ pc[w] = "settled" /\ pc' = [pc EXCEPT ![w] = "idle"] /\ Drop(h)
      /\ current' = [current EXCEPT ![w] = Nil]
      /\ UNCHANGED <<verdict, peeked, ledgerVars, crashes, payload>>
  BY DEF Release, Goto
<1>2. h \in tokens /\ h.worker = w
  BY <1>1, HeldClaim DEF WorkerInv
<1>3. ~Owns(h)
  BY <1>1, <1>2 DEF WorkerInv, SettledFenced
<1>4. crashes' \in 0..MaxCrashes
  BY <1>1 DEF WorkerInv, WorkerTypes
<1> QED BY <1>1, <1>3, <1>4, DropStep

\* The process dies with its claim, and with the reaper thread's copy of it.
LEMMA CrashInv ==
  ASSUME WorkerInv, NEW w \in Workers, Crash(w)
  PROVE  LoopInv'
<1> SUFFICES ASSUME NEW h, h = Held(w) PROVE LoopInv'
  OBVIOUS
<1>1. /\ pc[w] # "idle" /\ pc' = [pc EXCEPT ![w] = "idle"] /\ Drop(h)
      /\ verdict' = [verdict EXCEPT ![w] = Nil]
      /\ current' = [current EXCEPT ![w] = Nil]
      /\ peeked' = [peeked EXCEPT ![w] = Nil]
      /\ UNCHANGED <<ledgerVars, payload>>
  BY DEF Crash
<1>2. crashes' \in 0..MaxCrashes
  BY WorkerConstants DEF WorkerInv, WorkerTypes, Crash
<1> QED BY <1>1, <1>2, DropStep

-----------------------------------------------------------------------------
(* A new claim, and the reaper thread. *)

\* A poll that finds a job: no claim the worker or its reaper thread had before
\* can be confused with the new one.
LEMMA ClaimInv ==
  ASSUME WorkerInv, NEW w \in Workers, NEW c \in ClaimIds, Claim(w, c)
  PROVE  LoopInv'
<1>1. /\ WorkerTypes /\ QueueInv
      /\ pc \in [Workers -> {"idle", "claimed", "parse", "lookup", "process",
                             "append", "anchor", "returned", "settled"}]
      /\ peeked \in [Workers -> Token \cup {Nil}]
  BY DEF WorkerInv, WorkerTypes
<1>2. /\ pc[w] = "idle" /\ pc' = [pc EXCEPT ![w] = "claimed"] /\ ClaimJob(w, c)
      /\ \A v \in Workers : peeked[v] # Nil => peeked[v].claim # c
      /\ UNCHANGED <<verdict, current, peeked, ledgerVars, crashes, payload>>
  BY DEF Claim, Goto
<1>3. PICK B \in SUBSET Jobs, j \in Jobs : ClaimsJob(B, j, w, c)
  BY <1>1, <1>2, ClaimStep
<1>4. PICK n : n.worker = w /\ tokens' = tokens \cup {n}
  BY <1>3 DEF ClaimsJob
<1>5. status' = [status EXCEPT ![j] = "processing"] /\ status \in [Jobs -> Statuses]
  BY <1>1, <1>3 DEF ClaimsJob, QueueInv, TypeOK
<1>6. \A t \in tokens : t \in Token /\ t.worker \in Workers /\ t.worker # w /\ t.claim # c
  <2>1. \A t \in tokens : t \in Token /\ t.worker \in Workers
    BY <1>1, ClaimFields
  <2>2. \A t \in tokens : t.worker # w
    BY <1>2 DEF WorkerInv, OneClaimEach
  <2>3. \A t \in tokens : t.claim # c
    BY <1>2 DEF ClaimJob, Fresh
  <2> QED BY <2>1, <2>2, <2>3
<1>7. LedgerGrows
  BY <1>2, SameLedger
<1>8. WorkerTypes'
  BY <1>1, <1>2 DEF WorkerTypes, ledgerVars
<1>9. OneClaimEach'
  <2>1. ASSUME NEW v \in Workers
        PROVE  pc'[v] # "idle" <=> \E t \in tokens' : t.worker = v
    <3>1. CASE v = w
      BY <1>1, <1>2, <1>4, <3>1
    <3>2. CASE v # w
      BY <1>1, <1>2, <1>4, <3>2 DEF WorkerInv, OneClaimEach
    <3> QED BY <3>1, <3>2
  <2>2. ASSUME NEW t \in tokens', NEW u \in tokens', t.worker = u.worker PROVE t = u
    BY <1>4, <1>6, <2>2 DEF WorkerInv, OneClaimEach
  <2> QED BY <2>1, <2>2 DEF OneClaimEach
<1>10. PublishedHeld'
  BY <1>2, <1>4 DEF WorkerInv, PublishedHeld
<1>11. SettledFenced'
  <2> SUFFICES ASSUME NEW t \in tokens, pc'[t.worker] = "settled" PROVE ~Owns(t)'
    BY <1>1, <1>2, <1>4 DEF SettledFenced
  <2>1. ~Owns(t)
    BY <1>1, <1>2, <1>6 DEF WorkerInv, SettledFenced
  <2> QED BY <1>1, <1>2, <1>6, <2>1, FenceKeptByClaim
<1>12. CopyFenced'
  <2> SUFFICES ASSUME NEW v \in Workers, NEW t, t = peeked[v], t # Nil
               PROVE  t.worker = v /\ (t \notin tokens => ~Owns(t)')
    BY <1>2, <1>4 DEF CopyFenced
  <2>1. t \in Token /\ t.claim # c
    BY <1>1, <1>2
  <2> QED BY <1>1, <1>2, <2>1, FenceKeptByClaim DEF WorkerInv, CopyFenced
<1>13. ResultTraced'
  <2> SUFFICES ASSUME NEW t \in tokens
               PROVE  /\ pc'[t.worker] = "anchor" => decisions'[t.job] > 0
                      /\ pc'[t.worker] = "returned" /\ Acks(verdict'[t.worker]) =>
                           Traced(t.job)'
    <3>1. pc'[n.worker] = "claimed"
      BY <1>1, <1>2, <1>4
    <3> QED BY <1>4, <3>1 DEF ResultTraced
  <2> QED BY <1>1, <1>2, <1>6, <1>7, ResultStays
<1>14. AckedIsRecorded'
  BY <1>5, <1>7, RecordsStay
<1> QED BY <1>8, <1>9, <1>10, <1>11, <1>12, <1>13, <1>14 DEF LoopInv

\* A step of the reaper thread: its copies are old ones, or what the loop has
\* published.
LEMMA ReaperStep ==
  ASSUME WorkerInv, QuietNext \/ UNCHANGED vars, UNCHANGED <<status, tokens>>,
         UNCHANGED <<pc, verdict, current, ledgerVars, crashes, payload>>,
         peeked' \in [Workers -> Token \cup {Nil}],
         \A v \in Workers : peeked'[v] # Nil =>
           peeked'[v] = peeked[v] \/ peeked'[v] = current[v]
  PROVE  LoopInv'
<1>1. LedgerGrows
  BY SameLedger
<1>2. WorkerTypes' /\ OneClaimEach' /\ PublishedHeld'
  BY DEF WorkerInv, WorkerTypes, OneClaimEach, PublishedHeld, ledgerVars
<1>3. SettledFenced'
  <2> SUFFICES ASSUME NEW t \in tokens, pc[t.worker] = "settled" PROVE ~Owns(t)'
    BY DEF SettledFenced
  <2> QED BY ClaimFields, FenceKept DEF WorkerInv, SettledFenced
<1>4. CopyFenced'
  <2> SUFFICES ASSUME NEW v \in Workers, NEW t, t = peeked'[v], t # Nil
               PROVE  t.worker = v /\ (t \notin tokens => ~Owns(t)')
    BY DEF CopyFenced
  <2>1. CASE t = current[v]
    BY <2>1 DEF WorkerInv, PublishedHeld
  <2>2. CASE t = peeked[v]
    <3>1. t \in Token
      OBVIOUS
    <3> QED BY <2>2, <3>1, FenceKept DEF WorkerInv, CopyFenced
  <2> QED BY <2>1, <2>2
<1>5. ResultTraced'
  <2> SUFFICES ASSUME NEW t \in tokens
               PROVE  /\ pc'[t.worker] = "anchor" => decisions'[t.job] > 0
                      /\ pc'[t.worker] = "returned" /\ Acks(verdict'[t.worker]) =>
                           Traced(t.job)'
    BY DEF ResultTraced
  <2> QED BY <1>1, ResultStays
<1>6. AckedIsRecorded'
  BY <1>1, RecordsStay
<1> QED BY <1>2, <1>3, <1>4, <1>5, <1>6 DEF LoopInv

\* The reaper thread reads _current_job.
LEMMA PeekInv ==
  ASSUME WorkerInv, NEW w \in Workers, Peek(w)
  PROVE  LoopInv'
<1>1. /\ UNCHANGED vars /\ UNCHANGED <<pc, verdict, current, ledgerVars, crashes, payload>>
      /\ peeked' = [peeked EXCEPT ![w] = current[w]]
  BY DEF Peek
<1>2. UNCHANGED <<status, tokens>>
  BY <1>1 DEF vars, hashVars
<1>3. /\ peeked \in [Workers -> Token \cup {Nil}]
      /\ current \in [Workers -> Token \cup {Nil}]
  BY DEF WorkerInv, WorkerTypes
<1>4. peeked' \in [Workers -> Token \cup {Nil}]
  BY <1>1, <1>3
<1>5. \A v \in Workers : peeked'[v] = peeked[v] \/ peeked'[v] = current[v]
  BY <1>1, <1>3
<1> QED BY <1>1, <1>2, <1>4, <1>5, ReaperStep

\* The reaper thread renews the lease, or is refused, and forgets its copy.
LEMMA BeatInv ==
  ASSUME WorkerInv, NEW w \in Workers, Beat(w)
  PROVE  LoopInv'
<1>1. /\ UNCHANGED <<pc, verdict, current, ledgerVars, crashes, payload>>
      /\ peeked' = [peeked EXCEPT ![w] = Nil]
  BY DEF Beat
<1>2. QuietNext \/ UNCHANGED vars
  BY BeatStep DEF QuietNext, SteadyNext
<1>3. UNCHANGED <<status, tokens>>
  BY DEF Beat, Heartbeat, vars, hashVars
<1>4. peeked \in [Workers -> Token \cup {Nil}]
  BY DEF WorkerInv, WorkerTypes
<1>5. peeked' \in [Workers -> Token \cup {Nil}]
  BY <1>1, <1>4
<1>6. \A v \in Workers : peeked'[v] # Nil => peeked'[v] = peeked[v]
  BY <1>1, <1>4
<1> QED BY <1>1, <1>2, <1>3, <1>5, <1>6, ReaperStep

-----------------------------------------------------------------------------
(* The theorems. *)

\* The workers start with the invariant.
LEMMA WorkerInitInv == WorkerInit => WorkerInv
<1> SUFFICES ASSUME WorkerInit PROVE WorkerInv
  OBVIOUS
<1>1. QueueInv /\ tokens = {} /\ status = [j \in Jobs |-> "absent"]
  BY InitInv DEF WorkerInit, Init
<1>2. WorkerTypes
  BY WorkerConstants DEF WorkerInit, WorkerTypes
<1> QED
  BY <1>1, <1>2 DEF WorkerInit, WorkerInv, OneClaimEach, PublishedHeld, SettledFenced,
                    CopyFenced, ResultTraced, AckedIsRecorded

\* Every step keeps it.
LEMMA WorkerNextInv == WorkerInv /\ [WorkerNext]_allVars => WorkerInv'
<1>1. ASSUME WorkerInv, WorkerNext PROVE WorkerInv'
  <2>1. QueueInv'
    BY <1>1, WorkerQueueInv
  <2>2. LoopInv'
    BY <1>1, BackgroundInv, ClaimInv, DiscardCorruptInv, BeginInv, ParseInv, LookupInv,
       ProcessInv, AppendDecisionInv, AnchorHeadInv, SettleInv, ReleaseInv, PeekInv,
       BeatInv, CrashInv DEF WorkerNext, WorkStep
  <2> QED BY <2>1, <2>2 DEF WorkerInv, LoopInv
<1>2. ASSUME WorkerInv, UNCHANGED allVars PROVE WorkerInv'
  <2>1. UNCHANGED <<vars, payload, pc, verdict, current, peeked, decisions, events,
                    disclosed, crashes>>
    BY <1>2 DEF allVars, workerVars, ledgerVars
  <2>2. QueueInv'
    <3>1. [Next]_vars
      BY <2>1
    <3> QED BY <1>2, <3>1, NextInv DEF WorkerInv
  <2>3. LoopInv'
    <3>1. UNCHANGED <<status, tokens>> /\ UNCHANGED ledgerVars
      BY <2>1 DEF vars, hashVars, ledgerVars
    <3>2. peeked' \in [Workers -> Token \cup {Nil}]
      BY <1>2, <2>1 DEF WorkerInv, WorkerTypes
    <3> QED BY <1>2, <2>1, <3>1, <3>2, ReaperStep
  <2> QED BY <2>2, <2>3 DEF WorkerInv, LoopInv
<1> QED BY <1>1, <1>2

\* The claim, the loop, the reaper thread's copy and the ledger fit together in
\* every reachable state of the composed system.
THEOREM WorkerInvariant == WorkerSpec => []WorkerInv
BY WorkerInitInv, WorkerNextInv, PTL DEF WorkerSpec

\* Every variable of the composed system has its type, and a worker holds one
\* claim exactly while its loop (run_forever, handle_one) is at work on it.
THEOREM WorkerTypeCorrect == WorkerSpec => []WorkerTypeOK
<1>1. WorkerInv => WorkerTypeOK
  BY DEF WorkerInv, QueueInv, WorkerTypes, OneClaimEach, WorkerTypeOK
<1> QED BY <1>1, WorkerInvariant, PTL

\* The F-2 rule of handle_one: no job that needed governing is acked without
\* its trace on the ledger.
THEOREM AckedAreRecorded == WorkerSpec => []AckedIsRecorded
<1>1. WorkerInv => AckedIsRecorded
  BY DEF WorkerInv
<1> QED BY <1>1, WorkerInvariant, PTL

\* The workers use the queue only through its scripts, with claims they hold:
\* what is proved of the queue with arbitrary clients holds under them.
THEOREM WorkersDriveQueue == WorkerSpec => Spec
<1>1. WorkerInit => Init
  BY DEF WorkerInit
<1>2. WorkerInv /\ [WorkerNext]_allVars => [Next]_vars
  <2>1. ASSUME WorkerInv, WorkerNext PROVE [Next]_vars
    BY <2>1, WorkerQueueStep DEF QuietNext, SteadyNext, Next
  <2>2. UNCHANGED allVars => UNCHANGED vars
    BY DEF allVars
  <2> QED BY <2>1, <2>2
<1> QED BY <1>1, <1>2, WorkerInvariant, PTL DEF WorkerSpec, Spec

\* Workers that crash, stall and renew late leave the queue's promises whole:
\* under them every job lives the lifecycle of queue_schema.py, a lost claim
\* stays lost, a completed job stays completed and the counters add up.
THEOREM WorkersKeepPromises ==
  WorkerSpec => ImplementsLifecycle /\ FencedForever /\ CompletedStays /\ []Accounting
<1> QED
  BY WorkersDriveQueue, QueueImplementsLifecycle, FenceHolds, CompletedJobsStay, NothingLost, PTL

-----------------------------------------------------------------------------
(* No zombie renewal. *)

\* No running lease is extended.
NotRenewed ==
  \A j \in Jobs : processing[j] # Off => ~(processing'[j] > processing[j])

\* The only script that extends a running lease is heartbeat.lua.
LEMMA SteadyLeases ==
  ASSUME QueueInv,
         \/ \E w \in Workers, c \in ClaimIds : ClaimJob(w, c)
         \/ SteadyNext
         \/ UNCHANGED vars
  PROVE  NotRenewed
<1>1. /\ processing \in [Jobs -> Nat \cup {Off}]
      /\ \A t \in tokens : t.job \in Jobs
  BY ClaimFields DEF QueueInv, TypeOK
<1>2. ASSUME processing' = processing PROVE NotRenewed
  BY <1>1, <1>2 DEF NotRenewed, Off
<1>3. ASSUME NEW j \in Jobs, processing' = [processing EXCEPT ![j] = Off]
      PROVE  NotRenewed
  BY <1>1, <1>3 DEF NotRenewed, Off
<1>4. ASSUME NEW w \in Workers, NEW c \in ClaimIds, ClaimJob(w, c) PROVE NotRenewed
  <2>1. PICK B \in SUBSET Jobs, j \in Jobs : ClaimsJob(B, j, w, c)
    BY <1>4, ClaimStep
  <2>2. /\ status[j] \in {"pending", "scheduled"}
        /\ processing' = [processing EXCEPT ![j] = Lease]
    BY <2>1 DEF ClaimsJob
  <2>3. processing[j] = Off
    BY <2>2 DEF QueueInv, OneStructure, PlacedByStatus
  <2> QED BY <1>1, <2>2, <2>3 DEF NotRenewed, Off
<1>5. ASSUME NEW t \in tokens, Ack(t) \/ FailCorrupt(t) PROVE NotRenewed
  <2>1. processing' = [processing EXCEPT ![t.job] = Off]
    BY <1>5 DEF Ack, FailCorrupt, Fail
  <2> QED BY <1>1, <1>3, <2>1
<1>6. ASSUME NEW t \in tokens, NEW r \in Reasons, NEW retryable \in BOOLEAN,
             FailClaim(t, r, retryable)
      PROVE  NotRenewed
  <2>1. processing' = [processing EXCEPT ![t.job] = Off]
    BY <1>6 DEF FailClaim, Fail
  <2> QED BY <1>1, <1>3, <2>1
<1>7. ASSUME Reap PROVE NotRenewed
  <2>1. PICK R \in SUBSET Jobs : ReapsJobs(R)
    BY <1>7, ReapStep
  <2>2. processing' = [j \in Jobs |-> IF j \in R THEN Off ELSE processing[j]]
    BY <2>1 DEF ReapsJobs
  <2> QED BY <1>1, <2>2 DEF NotRenewed, Off
<1>8. ASSUME Tick PROVE NotRenewed
  <2>1. processing' = [j \in Jobs |-> CountDown(processing[j])]
    BY <1>8 DEF Tick
  <2> QED BY <1>1, <2>1 DEF NotRenewed, Off, CountDown
<1>9. ASSUME \/ \E j \in Jobs, b \in Budgets : Enqueue(j, b)
             \/ ClaimNothing \/ UNCHANGED vars
             \/ \E j \in Jobs : RequeueDead(j) \/ Corrupt(j)
             \/ \E t \in tokens : Drop(t)
      PROVE  processing' = processing
  BY <1>9 DEF Enqueue, ClaimNothing, RequeueDead, Corrupt, Drop, vars, placeVars
<1> QED BY <1>2, <1>4, <1>5, <1>6, <1>7, <1>8, <1>9 DEF SteadyNext

\* The reaper thread's heartbeat, which acts on a copy of _current_job that may
\* be out of date, extends a lease only for a live claim its loop still holds.
THEOREM RenewalsAreLive == WorkerSpec => NoZombieRenewal
<1> DEFINE Live ==
      \A j \in Jobs : processing[j] # Off /\ processing'[j] > processing[j] =>
        \E w \in Workers : /\ peeked[w] \in tokens
                           /\ peeked[w].job = j
                           /\ Owns(peeked[w])
<1>1. ASSUME WorkerInv, WorkerNext PROVE Live
  <2>1. QueueInv /\ processing \in [Jobs -> Nat \cup {Off}]
    BY <1>1 DEF WorkerInv, QueueInv, TypeOK
  <2>2. CASE ~\E w \in Workers : Beat(w)
    BY <1>1, <2>1, <2>2, SteadyStep, SteadyLeases DEF NotRenewed
  <2>3. ASSUME NEW w \in Workers, Beat(w) PROVE Live
    <3>1. CASE UNCHANGED vars
      BY <2>1, <3>1, SteadyLeases DEF NotRenewed
    <3>2. CASE peeked[w] \in tokens /\ Heartbeat(peeked[w])
      <4>1. /\ Owns(peeked[w])
            /\ processing' = [processing EXCEPT ![peeked[w].job] = Lease]
        BY <3>2 DEF Heartbeat
      <4>2. \A j \in Jobs : j # peeked[w].job => processing'[j] = processing[j]
        BY <2>1, <4>1
      <4> QED BY <2>1, <3>2, <4>1, <4>2 DEF Off
    <3> QED BY <1>1, <2>3, <3>1, <3>2, BeatStep
  <2> QED BY <2>2, <2>3
<1>2. WorkerInv /\ [WorkerNext]_allVars => [Live]_allVars
  BY <1>1
<1> QED BY <1>2, WorkerInvariant, PTL DEF WorkerSpec, NoZombieRenewal

-----------------------------------------------------------------------------
(* One decision per episode. *)

\* A step that decides nothing and lets no worker past the parser.
LEMMA EventsStay ==
  ASSUME EventsCarried, OneDecisionPerEpisode,
         UNCHANGED <<decisions, events, payload>>,
         \A t \in tokens' : pc'[t.worker] \in {"lookup", "process", "append"} =>
           t \in tokens /\ pc[t.worker] \in {"lookup", "process", "append"}
  PROVE  EventsCarried' /\ OneDecisionPerEpisode'
BY DEF EventsCarried, OneDecisionPerEpisode

\* With events required, the unique index on the event ids admits one decision
\* per episode: what is appended carries events, and every decided episode has
\* its events on the chain.
LEMMA EventsStep ==
  ASSUME RequireEvents, WorkerInv, [WorkerNext]_allVars,
         EventsCarried, OneDecisionPerEpisode
  PROVE  EventsCarried' /\ OneDecisionPerEpisode'
<1>1. /\ QueueInv /\ OneClaimEach
      /\ pc \in [Workers -> {"idle", "claimed", "parse", "lookup", "process",
                             "append", "anchor", "returned", "settled"}]
      /\ decisions \in [Jobs -> Nat]
  BY DEF WorkerInv, WorkerTypes
<1>2. \A t \in tokens : t.worker \in Workers /\ t.job \in Jobs
  BY <1>1, ClaimFields
<1> DEFINE Inside == {"lookup", "process", "append"}
           Kept == \A t \in tokens' : pc'[t.worker] \in Inside =>
                     t \in tokens /\ pc[t.worker] \in Inside
<1>3. ASSUME UNCHANGED allVars \/ \E w \in Workers : Peek(w) \/ Beat(w)
      PROVE  EventsCarried' /\ OneDecisionPerEpisode'
  <2>1. UNCHANGED <<pc, tokens, decisions, events, payload>>
    BY <1>3 DEF Peek, Beat, Heartbeat, allVars, workerVars, ledgerVars, vars
  <2> QED BY <2>1, EventsStay
<1>4. ASSUME \/ \E j \in Jobs, b \in Budgets : Submit(j, b)
             \/ \E j \in Jobs : Requeue(j) \/ Damage(j)
             \/ Elapse \/ Sweep
             \/ \E w \in Workers : ClaimIdle(w)
      PROVE  EventsCarried' /\ OneDecisionPerEpisode'
  <2>1. UNCHANGED <<pc, tokens, decisions, events, payload>>
    BY <1>4 DEF Submit, Enqueue, Requeue, RequeueDead, Damage, Corrupt, Elapse, Tick,
                Sweep, Reap, ReapBatch, ClaimIdle, ClaimNothing, workerVars, ledgerVars
  <2> QED BY <2>1, EventsStay
<1>5. ASSUME NEW w \in Workers, NEW c \in ClaimIds, Claim(w, c)
      PROVE  EventsCarried' /\ OneDecisionPerEpisode'
  <2>1. /\ pc' = [pc EXCEPT ![w] = "claimed"] /\ ClaimJob(w, c)
        /\ UNCHANGED <<decisions, events, payload>>
    BY <1>5 DEF Claim, Goto, ledgerVars
  <2>2. PICK B \in SUBSET Jobs, j \in Jobs : ClaimsJob(B, j, w, c)
    BY <1>1, <2>1, ClaimStep
  <2>3. PICK n : n.worker = w /\ tokens' = tokens \cup {n}
    BY <2>2 DEF ClaimsJob
  <2>4. Kept
    BY <1>1, <1>2, <2>1, <2>3
  <2> QED BY <2>1, <2>4, EventsStay
<1>6. ASSUME NEW w \in Workers, NEW to, to \notin Inside, pc' = [pc EXCEPT ![w] = to],
             tokens' \subseteq tokens, UNCHANGED <<decisions, events, payload>>
      PROVE  EventsCarried' /\ OneDecisionPerEpisode'
  <2>1. Kept
    BY <1>1, <1>2, <1>6
  <2> QED BY <1>6, <2>1, EventsStay
<1>7. ASSUME NEW w \in Workers, Begin(w) \/ DiscardCorrupt(w) \/ AnchorHead(w)
                                \/ Settle(w) \/ Release(w) \/ Crash(w)
      PROVE  EventsCarried' /\ OneDecisionPerEpisode'
  <2>1. /\ UNCHANGED <<decisions, events, payload>>
        /\ \E to \in {"parse", "settled", "returned", "idle"} : pc' = [pc EXCEPT ![w] = to]
    BY <1>7 DEF Begin, DiscardCorrupt, AnchorHead, Settle, Release, Crash, Goto, ledgerVars
  <2>2. tokens' \subseteq tokens
    BY <1>7 DEF Begin, DiscardCorrupt, AnchorHead, Settle, Release, Crash, Ack,
                FailClaim, FailCorrupt, Fail, Drop, vars
  <2> QED BY <1>6, <2>1, <2>2
<1>8. ASSUME NEW w \in Workers, Lookup(w) \/ Process(w)
      PROVE  EventsCarried' /\ OneDecisionPerEpisode'
  <2>1. /\ UNCHANGED <<decisions, events, payload>> /\ tokens' = tokens
        /\ pc[w] \in Inside /\ \E to : pc' = [pc EXCEPT ![w] = to]
    BY <1>8 DEF Lookup, Process, Goto, ledgerVars, vars
  <2>2. Kept
    BY <1>1, <1>2, <2>1
  <2> QED BY <2>1, <2>2, EventsStay
<1>9. ASSUME NEW w \in Workers, Parse(w)
      PROVE  EventsCarried' /\ OneDecisionPerEpisode'
  <2>1. /\ UNCHANGED <<decisions, events, payload>> /\ tokens' = tokens /\ pc[w] = "parse"
    BY <1>9 DEF Parse, ledgerVars, vars
  <2>2. CASE Goto(w, "parse", "returned")
    BY <1>6, <2>1, <2>2 DEF Goto
  <2>3. CASE ~Refused(Held(w).job) /\ Goto(w, "parse", "lookup")
    <3>1. payload[Held(w).job] # "bare" /\ pc' = [pc EXCEPT ![w] = "lookup"]
      BY <2>3 DEF Refused, Goto
    <3>2. \A t \in tokens : t.worker = w => t = Held(w)
      BY <1>1, <2>1, HeldClaim
    <3>3. \A t \in tokens : pc'[t.worker] \in Inside => payload[t.job] # "bare"
      BY <1>1, <1>2, <3>1, <3>2 DEF EventsCarried
    <3> QED BY <2>1, <3>3 DEF EventsCarried, OneDecisionPerEpisode
  <2> QED BY <1>9, <2>2, <2>3 DEF Parse
<1>10. ASSUME NEW w \in Workers, AppendDecision(w)
       PROVE  EventsCarried' /\ OneDecisionPerEpisode'
  <2>1. /\ UNCHANGED payload /\ tokens' = tokens /\ pc[w] = "append"
    BY <1>10 DEF AppendDecision, vars
  <2>2. CASE Goto(w, "append", "returned") /\ UNCHANGED <<decisions, events>>
    BY <1>6, <2>1, <2>2 DEF Goto
  <2>3. ASSUME NEW j, j = Held(w).job, Goto(w, "append", "anchor"), EventsFree(j),
               decisions' = [decisions EXCEPT ![j] = @ + 1],
               events' = events \cup {i \in {j} : payload[i] # "bare"}
        PROVE  EventsCarried' /\ OneDecisionPerEpisode'
    <3>1. Held(w) \in tokens /\ Held(w).worker = w
      BY <1>1, <2>1, HeldClaim
    <3>2. j \in Jobs /\ payload[j] # "bare" /\ decisions[j] = 0
      BY <1>1, <1>2, <2>1, <2>3, <3>1 DEF EventsCarried, EventsFree
    <3>3. pc' = [pc EXCEPT ![w] = "anchor"]
      BY <2>3 DEF Goto
    <3>4. Kept
      BY <1>1, <1>2, <2>1, <3>3
    <3>5. \A i \in Jobs : decisions'[i] = IF i = j THEN 1 ELSE decisions[i]
      BY <1>1, <2>3, <3>2
    <3>6. \A i \in Jobs : decisions'[i] > 0 => i \in events'
      BY <1>1, <2>3, <3>2, <3>5 DEF EventsCarried
    <3> QED BY <1>1, <2>1, <3>4, <3>5, <3>6 DEF EventsCarried, OneDecisionPerEpisode
  <2> QED BY <1>10, <2>2, <2>3 DEF AppendDecision
<1> HIDE DEF Inside, Kept
<1> QED BY <1>3, <1>4, <1>5, <1>7, <1>8, <1>9, <1>10 DEF WorkerNext, WorkStep

\* Exactly-once effect of append_decision under redelivery, for a worker that
\* requires events (require_events): an episode gets at most one decision.
THEOREM DecidedOnce ==
  ASSUME RequireEvents
  PROVE  WorkerSpec => []OneDecisionPerEpisode
<1> DEFINE Inv == WorkerInv /\ EventsCarried /\ OneDecisionPerEpisode
<1>1. WorkerInit => Inv
  BY WorkerInitInv DEF WorkerInit, Init, EventsCarried, OneDecisionPerEpisode
<1>2. Inv /\ [WorkerNext]_allVars => Inv'
  BY EventsStep, WorkerNextInv
<1>3. Inv => OneDecisionPerEpisode
  OBVIOUS
<1> QED BY <1>1, <1>2, <1>3, PTL DEF WorkerSpec
=============================================================================

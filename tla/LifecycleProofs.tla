-------------------------- MODULE LifecycleProofs --------------------------
(* What the queue promises its callers, for every value of its constants:   *)
(* leases, completed records, dead letters, accounting, and the lifecycle   *)
(* of QueueRefinement.  Everything rests on QueueInv of QueueProofs.        *)
EXTENDS QueueProofs

-----------------------------------------------------------------------------
(* The effects of the remaining scripts, as the proofs below use them. *)

\* The types the step lemmas read.
LEMMA QueueTypes ==
  ASSUME QueueInv
  PROVE  /\ status \in [Jobs -> Statuses]
         /\ attempts \in [Jobs -> Nat] /\ budget \in [Jobs -> Nat]
         /\ claimId \in [Jobs -> ClaimIds \cup {Nil}]
         /\ processing \in [Jobs -> Nat \cup {Off}]
         /\ expires \in [Jobs -> Nat \cup {Off}]
BY DEF QueueInv, TypeOK

\* The ids promote_due.lua moves are waiting retries.
LEMMA PromoteStep ==
  ASSUME QueueInv, PromoteDue
  PROVE  \E B \in SUBSET Jobs :
           /\ \A j \in B : status[j] = "scheduled"
           /\ status' = [j \in Jobs |-> IF j \in B THEN "pending" ELSE status[j]]
           /\ UNCHANGED <<attempts, budget, claimedBy, claimId, deadReason,
                          escalate, intact, expires, trail, processing, dead,
                          done, orphans, counters, tokens>>
<1>1. PICK B \in Batches(DueRetries) :
        status' = [j \in Jobs |-> IF j \in B THEN "pending" ELSE status[j]]
  BY DEF PromoteDue
<1>2. B \subseteq DueRetries
  BY BatchIsFinite DEF DueRetries
<1>3. B \subseteq Jobs /\ \A j \in B : status[j] = "scheduled"
  BY <1>2 DEF DueRetries, QueueInv, OneStructure, PlacedByStatus, Off
<1> QED BY <1>1, <1>3 DEF PromoteDue

\* Only completed hashes expire.
LEMMA TickStep ==
  ASSUME QueueInv, Tick, NEW i \in Jobs
  PROVE  /\ expires[i] = 1 => status[i] = "done" /\ status'[i] = "absent"
         /\ expires[i] # 1 => status'[i] = status[i] /\ trail'[i] = trail[i]
         /\ processing'[i] = Off => processing[i] = Off
<1>1. expires[i] = 1 => status[i] = "done"
  BY DEF QueueInv, ExpiryOfDone, Off
<1>2. processing[i] \in Nat \cup {Off}
  BY QueueTypes
<1>3. processing'[i] = CountDown(processing[i])
  BY DEF Tick
<1>4. processing'[i] = Off => processing[i] = Off
  BY <1>2, <1>3 DEF CountDown, Off
<1>5. /\ status'[i] = IF expires[i] = 1 THEN "absent" ELSE status[i]
      /\ trail'[i] = IF expires[i] = 1 THEN <<>> ELSE trail[i]
  BY DEF Tick
<1> QED BY <1>1, <1>4, <1>5

-----------------------------------------------------------------------------
(* Leases. *)

\* A running lease is ended by a script under the fence, or not at all: the
\* reaper's batch holds expired leases only, and time stops at the deadline.
LEMMA LeaseStep ==
  ASSUME QueueInv, Next, NEW i \in Jobs,
         processing[i] > 0, processing'[i] = Off
  PROVE  \E t \in tokens : t.job = i /\ Owns(t)
<1>0. processing \in [Jobs -> Nat \cup {Off}]
  BY QueueTypes
<1>1. ASSUME NEW j \in Jobs, NEW b \in Budgets, Enqueue(j, b) PROVE FALSE
  BY <1>0, <1>1 DEF Enqueue, Off
<1>2. ASSUME NEW w \in Workers, NEW c \in ClaimIds, ClaimJob(w, c) PROVE FALSE
  <2>1. PICK B \in SUBSET Jobs, j \in Jobs : ClaimsJob(B, j, w, c)
    BY <1>2, ClaimStep
  <2>2. processing' = [processing EXCEPT ![j] = Lease]
    BY <2>1 DEF ClaimsJob
  <2> QED BY <1>0, <2>2, QueueConstants DEF Off
<1>3. ASSUME ClaimNothing PROVE FALSE
  BY <1>0, <1>3 DEF ClaimNothing, Off
<1>4. ASSUME NEW t \in tokens, Ack(t) PROVE t.job = i /\ Owns(t)
  BY <1>0, <1>4 DEF Ack, Off
<1>5. ASSUME NEW t \in tokens, NEW r, NEW retryable, Fail(t, r, retryable)
      PROVE  t.job = i /\ Owns(t)
  BY <1>0, <1>5 DEF Fail, Off
<1>6. ASSUME NEW t \in tokens, Heartbeat(t) PROVE FALSE
  BY <1>0, <1>6, QueueConstants DEF Heartbeat, Off
<1>7. ASSUME PromoteDue PROVE FALSE
  BY <1>0, <1>7 DEF PromoteDue, Off
<1>8. ASSUME Reap PROVE FALSE
  <2>1. PICK R \in SUBSET Jobs : ReapsJobs(R)
    BY <1>8, ReapStep
  <2>2. i \in R
    BY <1>0, <2>1 DEF ReapsJobs, Off
  <2> QED BY <2>1, <2>2 DEF ReapsJobs
<1>9. ASSUME NEW j \in Jobs, RequeueDead(j) PROVE FALSE
  BY <1>0, <1>9 DEF RequeueDead, Off
<1>10. ASSUME SweepDone PROVE FALSE
  BY <1>0, <1>10 DEF SweepDone, Off
<1>11. ASSUME Tick PROVE FALSE
  BY <1>0, <1>11, TickStep DEF Off
<1>12. ASSUME NEW j \in Jobs, Corrupt(j) PROVE FALSE
  BY <1>0, <1>12 DEF Corrupt, placeVars, Off
<1>13. ASSUME NEW t \in tokens, Drop(t) PROVE FALSE
  BY <1>0, <1>13 DEF Drop, placeVars, Off
<1> QED
  BY <1>1, <1>2, <1>3, <1>4, <1>5, <1>6, <1>7, <1>8, <1>9, <1>10, <1>11,
     <1>12, <1>13 DEF Next, FailClaim, FailCorrupt

\* While a lease runs, neither the reaper nor another worker takes the job from
\* its holder; only the holder of the live claim acks or fails it.
THEOREM LeasesHold == Spec => LeaseRespected
<1>1. QueueInv /\ [Next]_vars =>
        [\A j \in Jobs : processing[j] > 0 /\ processing'[j] = Off =>
           \E t \in tokens : t.job = j /\ Owns(t)]_vars
  BY LeaseStep
<1> QED BY <1>1, QueueInvariant, PTL DEF Spec, LeaseRespected

-----------------------------------------------------------------------------
(* The lifecycle. *)

\* Every job takes one of its own lifecycle steps, or stays, in every step of
\* the queue.
LEMMA LifeStep ==
  ASSUME QueueInv, Next, NEW i \in Jobs
  PROVE  Lifecycle!JobStep(i)
<1> USE DEF Lifecycle!JobStep
<1>0. /\ status \in [Jobs -> Statuses]
      /\ attempts \in [Jobs -> Nat] /\ budget \in [Jobs -> Nat]
      /\ claimId \in [Jobs -> ClaimIds \cup {Nil}]
  BY QueueTypes
<1>a. lifeBar[i] = LifeOf(status[i]) /\ lifeBar'[i] = LifeOf(status'[i])
  BY DEF lifeBar
<1>b. status[i] # "processing" <=> claimId[i] = Nil
  BY DEF QueueInv, ClaimStamps
<1>stay. ASSUME LifeOf(status'[i]) = LifeOf(status[i]),
                UNCHANGED <<claimId, attempts, budget>>
         PROVE  Lifecycle!Stay(i)
  BY <1>a, <1>stay DEF Lifecycle!Stay
<1>1. ASSUME NEW j \in Jobs, NEW b \in Budgets, Enqueue(j, b)
      PROVE  Lifecycle!JobStep(i)
  <2>1. CASE i = j
    <3>1. Lifecycle!Admit(i)
      BY <1>0, <1>1, <1>a, <1>b, <2>1
         DEF Enqueue, Exists, LifeOf, Lifecycle!Admit, Lifecycle!Moves
    <3> QED BY <3>1
  <2>2. CASE i # j
    <3>1. Lifecycle!Stay(i)
      BY <1>0, <1>1, <1>a, <2>2 DEF Enqueue, Lifecycle!Stay
    <3> QED BY <3>1
  <2> QED BY <2>1, <2>2
<1>2. ASSUME NEW w \in Workers, NEW c \in ClaimIds, ClaimJob(w, c)
      PROVE  Lifecycle!JobStep(i)
  <2>1. PICK B \in SUBSET Jobs, j \in Jobs : ClaimsJob(B, j, w, c)
    BY <1>2, ClaimStep
  <2>2. /\ status[j] \in {"pending", "scheduled"}
        /\ attempts' = [attempts EXCEPT ![j] = @ + 1]
        /\ status' = [status EXCEPT ![j] = "processing"]
        /\ claimId' = [claimId EXCEPT ![j] = c]
        /\ budget' = budget
    BY <2>1 DEF ClaimsJob
  <2>3. CASE i = j
    <3>1. \A k \in Jobs : claimId[k] # c
      BY <1>2 DEF ClaimJob, Fresh
    <3>2. attempts[i] < budget[i]
      BY <2>2, <2>3 DEF QueueInv, BudgetRespected
    <3>3. Lifecycle!Grant(i)
      BY <1>0, <1>a, <2>2, <2>3, <3>1, <3>2
         DEF LifeOf, Lifecycle!Grant, Lifecycle!Moves
    <3> QED BY <3>3
  <2>4. CASE i # j
    <3>1. Lifecycle!Stay(i)
      BY <1>0, <1>a, <2>2, <2>4 DEF Lifecycle!Stay
    <3> QED BY <3>1
  <2> QED BY <2>3, <2>4
<1>3. ASSUME ClaimNothing PROVE Lifecycle!JobStep(i)
  BY <1>3, <1>stay DEF ClaimNothing, hashVars
<1>4. ASSUME NEW t \in tokens, Ack(t) PROVE Lifecycle!JobStep(i)
  <2>1. t.job \in Jobs /\ status[t.job] = "processing"
    BY <1>4, OwnerHoldsJob DEF Ack
  <2>2. /\ \/ status' = [status EXCEPT ![t.job] = "done"]
           \/ status' = [status EXCEPT ![t.job] = "absent"]
        /\ claimId' = [claimId EXCEPT ![t.job] = Nil]
        /\ attempts' = attempts /\ budget' = budget
    BY <1>4 DEF Ack
  <2>3. CASE i = t.job
    <3>1. Lifecycle!Complete(i)
      BY <1>0, <1>a, <2>1, <2>2, <2>3
         DEF LifeOf, Lifecycle!Complete, Lifecycle!Moves
    <3> QED BY <3>1
  <2>4. CASE i # t.job
    <3>1. Lifecycle!Stay(i)
      BY <1>0, <1>a, <2>1, <2>2, <2>4 DEF Lifecycle!Stay
    <3> QED BY <3>1
  <2> QED BY <2>3, <2>4
<1>5. ASSUME NEW t \in tokens, NEW r \in Reasons, NEW retryable \in BOOLEAN,
             Fail(t, r, retryable)
      PROVE  Lifecycle!JobStep(i)
  <2>1. t.job \in Jobs /\ status[t.job] = "processing"
    BY <1>5, OwnerHoldsJob DEF Fail
  <2>2. /\ \/ status' = [status EXCEPT ![t.job] = "dead"]
           \/ /\ status' = [status EXCEPT ![t.job] = "scheduled"]
              /\ ~(attempts[t.job] >= budget[t.job])
        /\ claimId' = [claimId EXCEPT ![t.job] = Nil]
        /\ attempts' = attempts /\ budget' = budget
    BY <1>5 DEF Fail, DeadLetters
  <2>3. CASE i = t.job
    <3>1. Lifecycle!Bury(i) \/ Lifecycle!GiveBack(i)
      BY <1>0, <1>a, <2>1, <2>2, <2>3
         DEF LifeOf, Lifecycle!Bury, Lifecycle!GiveBack, Lifecycle!Moves
    <3> QED BY <3>1
  <2>4. CASE i # t.job
    <3>1. Lifecycle!Stay(i)
      BY <1>0, <1>a, <2>1, <2>2, <2>4 DEF Lifecycle!Stay
    <3> QED BY <3>1
  <2> QED BY <2>3, <2>4
<1>6. ASSUME NEW t \in tokens, Heartbeat(t) PROVE Lifecycle!JobStep(i)
  BY <1>6, <1>stay DEF Heartbeat, hashVars
<1>7. ASSUME PromoteDue PROVE Lifecycle!JobStep(i)
  <2>1. LifeOf(status'[i]) = LifeOf(status[i])
    BY <1>7, PromoteStep DEF LifeOf
  <2> QED BY <1>7, <1>stay, <2>1 DEF PromoteDue
<1>8. ASSUME Reap PROVE Lifecycle!JobStep(i)
  <2>1. PICK R \in SUBSET Jobs : ReapsJobs(R)
    BY <1>8, ReapStep
  <2>2. /\ status'[i] = IF i \in SpentOf(R) THEN "dead"
                        ELSE IF i \in BackOf(R) THEN "pending" ELSE status[i]
        /\ claimId'[i] = IF i \in R THEN Nil ELSE claimId[i]
        /\ attempts' = attempts /\ budget' = budget
        /\ i \in R => status[i] = "processing"
    BY <2>1 DEF ReapsJobs
  <2>3. CASE i \in R
    <3>1. Lifecycle!Bury(i) \/ Lifecycle!GiveBack(i)
      BY <1>0, <1>a, <2>2, <2>3
         DEF SpentOf, BackOf, LifeOf, Lifecycle!Bury, Lifecycle!GiveBack,
             Lifecycle!Moves
    <3> QED BY <3>1
  <2>4. CASE i \notin R
    <3>1. Lifecycle!Stay(i)
      BY <1>a, <2>2, <2>4 DEF SpentOf, BackOf, Lifecycle!Stay
    <3> QED BY <3>1
  <2> QED BY <2>3, <2>4
<1>9. ASSUME NEW j \in Jobs, RequeueDead(j) PROVE Lifecycle!JobStep(i)
  <2>1. CASE i = j
    <3>1. Lifecycle!Revive(i)
      BY <1>0, <1>9, <1>a, <1>b, <2>1
         DEF RequeueDead, LifeOf, Lifecycle!Revive, Lifecycle!Moves
    <3> QED BY <3>1
  <2>2. CASE i # j
    <3>1. Lifecycle!Stay(i)
      BY <1>0, <1>9, <1>a, <2>2 DEF RequeueDead, Lifecycle!Stay
    <3> QED BY <3>1
  <2> QED BY <2>1, <2>2
<1>10. ASSUME SweepDone PROVE Lifecycle!JobStep(i)
  BY <1>10, <1>stay DEF SweepDone, hashVars
<1>11. ASSUME Tick PROVE Lifecycle!JobStep(i)
  <2>1. UNCHANGED <<claimId, attempts, budget>>
    BY <1>11 DEF Tick
  <2>2. CASE expires[i] = 1
    <3>1. Lifecycle!Forget(i)
      BY <1>11, <1>a, <2>1, <2>2, TickStep
         DEF LifeOf, Lifecycle!Forget, Lifecycle!Moves
    <3> QED BY <3>1
  <2>3. CASE expires[i] # 1
    BY <1>11, <1>stay, <2>1, <2>3, TickStep
  <2> QED BY <2>2, <2>3
<1>12. ASSUME NEW j \in Jobs, Corrupt(j) PROVE Lifecycle!JobStep(i)
  BY <1>12, <1>stay DEF Corrupt
<1>13. ASSUME NEW t \in tokens, Drop(t) PROVE Lifecycle!JobStep(i)
  BY <1>13, <1>stay DEF Drop, hashVars
<1> HIDE DEF Lifecycle!JobStep
<1>14. ASSUME NEW t \in tokens, FailCorrupt(t) PROVE Lifecycle!JobStep(i)
  BY <1>5, <1>14, QueueConstants DEF FailCorrupt
<1>15. ASSUME NEW t \in tokens, NEW r \in Reasons, NEW retryable \in BOOLEAN,
              FailClaim(t, r, retryable)
       PROVE  Lifecycle!JobStep(i)
  BY <1>5, <1>15 DEF FailClaim
<1> QED
  BY <1>1, <1>2, <1>3, <1>4, <1>6, <1>7, <1>8, <1>9, <1>10, <1>11, <1>12,
     <1>13, <1>14, <1>15 DEF Next

\* The Redis queue implements the job lifecycle it promises: admission, lease,
\* completion, give-back, burial, revival and expiry are the only things that
\* ever happen to a job, each under its condition.
THEOREM QueueImplementsLifecycle == Spec => ImplementsLifecycle
<1>1. Init => Lifecycle!LifeInit
  BY DEF Init, Lifecycle!LifeInit, lifeBar, LifeOf
<1>2. QueueInv /\ [Next]_vars => [Lifecycle!LifeNext]_(Lifecycle!lifeVars)
  <2> SUFFICES ASSUME QueueInv, [Next]_vars
               PROVE  Lifecycle!LifeNext \/ UNCHANGED Lifecycle!lifeVars
    OBVIOUS
  <2>1. CASE Next
    BY <2>1, LifeStep DEF Lifecycle!LifeNext
  <2>2. CASE UNCHANGED vars
    BY <2>2 DEF vars, hashVars, Lifecycle!lifeVars, lifeBar
  <2> QED BY <2>1, <2>2
<1> QED
  BY <1>1, <1>2, QueueInvariant, PTL
     DEF Spec, ImplementsLifecycle, Lifecycle!LifeSpec

-----------------------------------------------------------------------------
(* Completed jobs. *)

\* No script finds the record of a completed job in a structure it works on,
\* and only the clock, at the end of the TTL, removes it.
LEMMA DoneStep ==
  ASSUME QueueInv, Next, NEW i \in Jobs, status[i] = "done"
  PROVE  status'[i] = "done" \/ (status'[i] = "absent" /\ expires[i] = 1)
<1>0. status \in [Jobs -> Statuses]
  BY QueueTypes
<1>1. ASSUME NEW j \in Jobs, NEW b \in Budgets, Enqueue(j, b)
      PROVE  status'[i] = "done"
  BY <1>0, <1>1 DEF Enqueue, Exists
<1>2. ASSUME NEW w \in Workers, NEW c \in ClaimIds, ClaimJob(w, c)
      PROVE  status'[i] = "done"
  <2>1. PICK B \in SUBSET Jobs, j \in Jobs : ClaimsJob(B, j, w, c)
    BY <1>2, ClaimStep
  <2> QED BY <1>0, <2>1 DEF ClaimsJob
<1>3. ASSUME NEW t \in tokens, Ack(t) PROVE status'[i] = "done"
  <2>1. status[t.job] = "processing"
    BY <1>3, OwnerHoldsJob DEF Ack
  <2> QED BY <1>0, <1>3, <2>1 DEF Ack
<1>4. ASSUME NEW t \in tokens, NEW r, NEW retryable, Fail(t, r, retryable)
      PROVE  status'[i] = "done"
  <2>1. status[t.job] = "processing"
    BY <1>4, OwnerHoldsJob DEF Fail
  <2>2. \/ status' = [status EXCEPT ![t.job] = "dead"]
        \/ status' = [status EXCEPT ![t.job] = "scheduled"]
    BY <1>4 DEF Fail
  <2> QED BY <1>0, <2>1, <2>2
<1>5. ASSUME PromoteDue PROVE status'[i] = "done"
  BY <1>5, PromoteStep
<1>6. ASSUME Reap PROVE status'[i] = "done"
  <2>1. PICK R \in SUBSET Jobs : ReapsJobs(R)
    BY <1>6, ReapStep
  <2>2. i \notin R
    BY <2>1 DEF ReapsJobs
  <2> QED BY <2>1, <2>2 DEF ReapsJobs, SpentOf, BackOf
<1>7. ASSUME NEW j \in Jobs, RequeueDead(j) PROVE status'[i] = "done"
  BY <1>0, <1>7 DEF RequeueDead
<1>8. ASSUME Tick
      PROVE  status'[i] = "done" \/ (status'[i] = "absent" /\ expires[i] = 1)
  BY <1>8, TickStep
<1>9. ASSUME UNCHANGED status PROVE status'[i] = "done"
  BY <1>9
<1> QED
  BY <1>1, <1>2, <1>3, <1>4, <1>5, <1>6, <1>7, <1>8, <1>9
     DEF Next, FailClaim, FailCorrupt, ClaimNothing, Heartbeat, SweepDone,
         Corrupt, Drop, hashVars

\* A completed job is never reset or run again by a resubmission, a late claim
\* or the reaper: its record stays until its TTL runs out.
THEOREM CompletedJobsStay == Spec => CompletedStays
<1>1. QueueInv /\ [Next]_vars =>
        [\A j \in Jobs : status[j] = "done" =>
           \/ status'[j] = "done"
           \/ status'[j] = "absent" /\ expires[j] = 1]_vars
  BY DoneStep
<1> QED BY <1>1, QueueInvariant, PTL DEF Spec, CompletedStays

-----------------------------------------------------------------------------
(* Dead letters. *)

\* What DeadDiagnosed says of one job.
Diagnosed(j) ==
  /\ deadReason[j] # Nil
  /\ trail[j] # <<>> /\ trail[j][1] = deadReason[j]
  /\ escalate[j] <=> (deadReason[j] = "unclassified")

\* A job that was dead and is dead keeps its diagnosis when its record is left
\* alone.
LEMMA DiagnosisKept ==
  ASSUME DeadDiagnosed, NEW i \in dead, trail'[i] = trail[i],
         deadReason'[i] = deadReason[i], escalate'[i] = escalate[i]
  PROVE  Diagnosed(i)'
BY DEF DeadDiagnosed, Diagnosed

\* Whichever script buries a job writes its diagnosis with it, and no script
\* touches the trail or the reason of a job that is dead.
LEMMA DiagnosisStep ==
  ASSUME QueueInv, DeadDiagnosed, Next, NEW i \in dead'
  PROVE  Diagnosed(i)'
<1>0. /\ dead \subseteq Jobs
      /\ deadReason \in [Jobs -> Reasons \cup {Nil}]
      /\ escalate \in [Jobs -> BOOLEAN]
      /\ trail \in [Jobs -> Seq(Reasons)]
  BY DEF QueueInv, TypeOK
<1>a. \A j \in dead : j \in Jobs /\ status[j] = "dead"
  BY <1>0 DEF QueueInv, OneStructure, PlacedByStatus
<1>1. ASSUME UNCHANGED <<deadReason, escalate, trail, dead>> PROVE Diagnosed(i)'
  BY <1>1, DiagnosisKept
<1>2. ASSUME NEW w \in Workers, NEW c \in ClaimIds, ClaimJob(w, c)
      PROVE  Diagnosed(i)'
  BY <1>1, <1>2 DEF ClaimJob
<1>3. ASSUME NEW t \in tokens, Ack(t) PROVE Diagnosed(i)'
  <2>1. status[t.job] = "processing"
    BY <1>3, OwnerHoldsJob DEF Ack
  <2>2. /\ UNCHANGED <<deadReason, escalate, dead>>
        /\ trail' = trail \/ trail' = [trail EXCEPT ![t.job] = <<>>]
    BY <1>3 DEF Ack
  <2>3. i \in dead /\ i # t.job
    BY <1>a, <2>1, <2>2
  <2>4. trail'[i] = trail[i]
    BY <1>0, <2>2, <2>3
  <2> QED BY <2>2, <2>3, <2>4, DiagnosisKept
<1>4. ASSUME NEW t \in tokens, NEW r \in Reasons, NEW retryable \in BOOLEAN,
             Fail(t, r, retryable)
      PROVE  Diagnosed(i)'
  <2>1. t.job \in Jobs /\ status[t.job] = "processing"
    BY <1>4, OwnerHoldsJob DEF Fail
  <2>2. t.job \notin dead
    BY <1>a, <2>1
  <2>3. trail' = [trail EXCEPT ![t.job] = Recorded(t.job, r)]
    BY <1>4 DEF Fail
  <2>4. CASE i = t.job
    <3>1. /\ deadReason' = [deadReason EXCEPT ![t.job] = r]
          /\ escalate' = [escalate EXCEPT ![t.job] = (r = "unclassified")]
      BY <1>4, <2>2, <2>4 DEF Fail
    <3>2. deadReason'[i] = r
      BY <1>0, <2>1, <2>4, <3>1
    <3>3. escalate'[i] = (r = "unclassified")
      BY <1>0, <2>1, <2>4, <3>1
    <3>4. trail'[i] # <<>> /\ trail'[i][1] = r
      <4>1. /\ Recorded(t.job, r) # <<>> /\ Recorded(t.job, r)[1] = r
        BY <2>1, RecordedTrail DEF QueueInv
      <4>2. trail'[i] = Recorded(t.job, r)
        BY <1>0, <2>1, <2>3, <2>4
      <4> QED BY <4>1, <4>2
    <3>5. r # Nil
      BY QueueConstants
    <3> QED BY <3>2, <3>3, <3>4, <3>5 DEF Diagnosed
  <2>5. CASE i # t.job
    <3>1. \/ dead' = dead \cup {t.job}
             /\ deadReason' = [deadReason EXCEPT ![t.job] = r]
             /\ escalate' = [escalate EXCEPT ![t.job] = (r = "unclassified")]
          \/ UNCHANGED <<deadReason, escalate, dead>>
      BY <1>4 DEF Fail
    <3>2. i \in dead /\ i \in Jobs
      BY <1>0, <2>5, <3>1
    <3>3. trail'[i] = trail[i] /\ deadReason'[i] = deadReason[i]
      BY <1>0, <2>3, <2>5, <3>1, <3>2
    <3>4. escalate'[i] = escalate[i]
      BY <1>0, <2>5, <3>1, <3>2
    <3> QED BY <3>2, <3>3, <3>4, DiagnosisKept
  <2> QED BY <2>4, <2>5
<1>5. ASSUME Reap PROVE Diagnosed(i)'
  <2>1. PICK R \in SUBSET Jobs : ReapsJobs(R)
    BY <1>5, ReapStep
  <2>2. /\ dead' = dead \cup SpentOf(R) /\ SpentOf(R) \subseteq R
        /\ \A j \in R : status[j] = "processing"
        /\ i \in Jobs
    BY <1>0, <2>1 DEF ReapsJobs, SpentOf
  <2>3. CASE i \in SpentOf(R)
    <3>1. /\ deadReason'[i] = "process_crash" /\ escalate'[i] = FALSE
          /\ trail'[i] = Recorded(i, "process_crash")
      BY <2>1, <2>2, <2>3 DEF ReapsJobs
    <3>2. trail'[i] # <<>> /\ trail'[i][1] = "process_crash"
      BY <2>2, <3>1, RecordedTrail, QueueConstants DEF QueueInv
    <3>3. "process_crash" # Nil
      BY QueueConstants
    <3> QED BY <3>1, <3>2, <3>3 DEF Diagnosed
  <2>4. CASE i \notin SpentOf(R)
    <3>1. i \in dead /\ i \notin R
      BY <1>a, <2>2, <2>4
    <3>2. trail'[i] = trail[i] /\ deadReason'[i] = deadReason[i]
      BY <2>1, <2>2, <2>4, <3>1 DEF ReapsJobs
    <3>3. escalate'[i] = escalate[i]
      BY <2>1, <2>2, <2>4 DEF ReapsJobs
    <3> QED BY <3>1, <3>2, <3>3, DiagnosisKept
  <2> QED BY <2>3, <2>4
<1>6. ASSUME NEW j \in Jobs, RequeueDead(j) PROVE Diagnosed(i)'
  <2>1. /\ dead' = dead \ {j} /\ trail' = trail
        /\ deadReason' = [deadReason EXCEPT ![j] = Nil]
        /\ escalate' = [escalate EXCEPT ![j] = FALSE]
    BY <1>6 DEF RequeueDead
  <2>2. i \in dead /\ i # j /\ i \in Jobs
    BY <1>0, <2>1
  <2>3. trail'[i] = trail[i] /\ deadReason'[i] = deadReason[i]
    BY <1>0, <2>1, <2>2
  <2>4. escalate'[i] = escalate[i]
    BY <1>0, <2>1, <2>2
  <2> QED BY <2>2, <2>3, <2>4, DiagnosisKept
<1>7. ASSUME Tick PROVE Diagnosed(i)'
  <2>1. UNCHANGED <<deadReason, escalate, dead>>
    BY <1>7 DEF Tick
  <2>2. i \in dead /\ i \in Jobs /\ status[i] = "dead"
    BY <1>a, <2>1
  <2>3. trail'[i] = trail[i]
    BY <1>7, <2>2, TickStep
  <2> QED BY <2>1, <2>2, <2>3, DiagnosisKept
<1>8. ASSUME NEW t \in tokens, FailCorrupt(t) PROVE Diagnosed(i)'
  BY <1>4, <1>8, QueueConstants DEF FailCorrupt
<1>9. ASSUME NEW t \in tokens, NEW r \in Reasons, NEW retryable \in BOOLEAN,
             FailClaim(t, r, retryable)
      PROVE  Diagnosed(i)'
  BY <1>4, <1>9 DEF FailClaim
<1>10. ASSUME \/ \E j \in Jobs, b \in Budgets : Enqueue(j, b)
              \/ ClaimNothing \/ \E t \in tokens : Heartbeat(t)
              \/ PromoteDue \/ SweepDone
              \/ \E j \in Jobs : Corrupt(j)
              \/ \E t \in tokens : Drop(t)
       PROVE  Diagnosed(i)'
  <2>1. UNCHANGED <<deadReason, escalate, trail, dead>>
    BY <1>10 DEF Enqueue, ClaimNothing, Heartbeat, PromoteDue, SweepDone,
                 Corrupt, Drop, hashVars, placeVars
  <2> QED BY <1>1, <2>1
<1> QED
  BY <1>2, <1>3, <1>5, <1>6, <1>7, <1>8, <1>9, <1>10 DEF Next

\* A dead letter always says why it died, and escalates exactly when nobody
\* could tell.
THEOREM DeadLettersDiagnosed == Spec => []DeadDiagnosed
<1>1. Init => DeadDiagnosed
  BY DEF Init, DeadDiagnosed
<1>2. QueueInv /\ DeadDiagnosed /\ [Next]_vars => DeadDiagnosed'
  <2> SUFFICES ASSUME QueueInv, DeadDiagnosed, [Next]_vars
               PROVE  DeadDiagnosed'
    OBVIOUS
  <2>1. CASE Next
    <3>1. \A i \in dead' : Diagnosed(i)'
      BY <2>1, DiagnosisStep
    <3> QED BY <3>1 DEF DeadDiagnosed, Diagnosed
  <2>2. CASE UNCHANGED vars
    BY <2>2 DEF vars, hashVars, placeVars, DeadDiagnosed
  <2> QED BY <2>1, <2>2
<1> QED BY <1>1, <1>2, QueueInvariant, PTL DEF Spec

-----------------------------------------------------------------------------
(* Accounting. *)

\* A disjoint union has as many members as its parts.
LEMMA DisjointCount ==
  ASSUME NEW S, NEW T, IsFiniteSet(S), IsFiniteSet(T), S \cap T = {}
  PROVE  Cardinality(S \cup T) = Cardinality(S) + Cardinality(T)
<1>1. Cardinality(S) \in Nat /\ Cardinality(T) \in Nat
  BY FS_CardinalityType
<1>2. Cardinality(S \cup T) =
        Cardinality(S) + Cardinality(T) - Cardinality(S \cap T)
  BY FS_Union
<1>3. Cardinality(S \cap T) = 0
  BY FS_EmptySet
<1> QED BY <1>1, <1>2, <1>3

\* The two balances of Accounting.
AdmittedBalance == counters["enqueued"] - counters["completed"] = Cardinality(Unfinished)
DeadBalance == counters["dead"] - counters["requeued"] = Cardinality(dead)

\* A step that moves no job into or out of the queue keeps the balance.
LEMMA BalanceStep ==
  ASSUME QueueInv, Accounting, Next
  PROVE  Accounting'
<1> SUFFICES AdmittedBalance' /\ DeadBalance'
  BY DEF Accounting, AdmittedBalance, DeadBalance
<1>0. /\ status \in [Jobs -> Statuses] /\ dead \subseteq Jobs
      /\ counters \in [CounterNames -> Nat]
  BY DEF QueueInv, TypeOK
<1>a. \A j \in Jobs : j \in dead <=> status[j] = "dead"
  BY DEF QueueInv, OneStructure, PlacedByStatus
<1>b. /\ IsFiniteSet(Unfinished) /\ Cardinality(Unfinished) \in Nat
      /\ IsFiniteSet(dead) /\ Cardinality(dead) \in Nat
  BY <1>0, QueueConstants, FS_Subset, FS_CardinalityType DEF Unfinished
<1>c. /\ counters["enqueued"] \in Nat /\ counters["completed"] \in Nat
      /\ counters["dead"] \in Nat /\ counters["requeued"] \in Nat
  BY <1>0 DEF CounterNames
<1>d. AdmittedBalance /\ DeadBalance
  BY DEF Accounting, AdmittedBalance, DeadBalance
<1>held. ASSUME Unfinished' = Unfinished,
                counters'["enqueued"] = counters["enqueued"],
                counters'["completed"] = counters["completed"]
         PROVE  AdmittedBalance'
  BY <1>held, <1>d DEF AdmittedBalance
<1>buried. ASSUME dead' = dead, counters'["dead"] = counters["dead"],
                  counters'["requeued"] = counters["requeued"]
           PROVE  DeadBalance'
  BY <1>buried, <1>d DEF DeadBalance
<1>1. ASSUME NEW j \in Jobs, NEW b \in Budgets, Enqueue(j, b)
      PROVE  AdmittedBalance' /\ DeadBalance'
  <2>1. Unfinished' = Unfinished \cup {j} /\ j \notin Unfinished
    BY <1>0, <1>1 DEF Enqueue, Exists, Unfinished
  <2>2. Cardinality(Unfinished') = Cardinality(Unfinished) + 1
    BY <1>b, <2>1, FS_AddElement
  <2>3. /\ counters'["enqueued"] = counters["enqueued"] + 1
        /\ counters'["completed"] = counters["completed"]
        /\ counters'["dead"] = counters["dead"]
        /\ counters'["requeued"] = counters["requeued"] /\ dead' = dead
    BY <1>0, <1>1 DEF Enqueue, CounterNames
  <2>4. AdmittedBalance'
    BY <1>b, <1>c, <1>d, <2>2, <2>3 DEF AdmittedBalance
  <2> QED BY <2>3, <2>4, <1>buried
<1>2. ASSUME NEW w \in Workers, NEW c \in ClaimIds, ClaimJob(w, c)
      PROVE  AdmittedBalance' /\ DeadBalance'
  <2>1. PICK B \in SUBSET Jobs, j \in Jobs : ClaimsJob(B, j, w, c)
    BY <1>2, ClaimStep
  <2>2. Unfinished' = Unfinished
    BY <1>0, <2>1 DEF ClaimsJob, Unfinished
  <2>3. counters' = counters /\ dead' = dead
    BY <2>1 DEF ClaimsJob
  <2> QED BY <2>2, <2>3, <1>held, <1>buried
<1>3. ASSUME NEW t \in tokens, Ack(t) PROVE AdmittedBalance' /\ DeadBalance'
  <2>1. t.job \in Jobs /\ status[t.job] = "processing"
    BY <1>3, OwnerHoldsJob DEF Ack
  <2>2. \/ status' = [status EXCEPT ![t.job] = "done"]
        \/ status' = [status EXCEPT ![t.job] = "absent"]
    BY <1>3 DEF Ack
  <2>3. Unfinished' = Unfinished \ {t.job} /\ t.job \in Unfinished
    BY <1>0, <2>1, <2>2 DEF Unfinished
  <2>4. Cardinality(Unfinished') = Cardinality(Unfinished) - 1
    BY <1>b, <2>3, FS_RemoveElement
  <2>5. /\ counters'["enqueued"] = counters["enqueued"]
        /\ counters'["completed"] = counters["completed"] + 1
        /\ counters'["dead"] = counters["dead"]
        /\ counters'["requeued"] = counters["requeued"] /\ dead' = dead
    BY <1>0, <1>3 DEF Ack, CounterNames
  <2>6. AdmittedBalance'
    BY <1>b, <1>c, <1>d, <2>4, <2>5 DEF AdmittedBalance
  <2> QED BY <2>5, <2>6, <1>buried
<1>4. ASSUME NEW t \in tokens, NEW r \in Reasons, NEW retryable \in BOOLEAN,
             Fail(t, r, retryable)
      PROVE  AdmittedBalance' /\ DeadBalance'
  <2>1. t.job \in Jobs /\ status[t.job] = "processing"
    BY <1>4, OwnerHoldsJob DEF Fail
  <2>2. \/ status' = [status EXCEPT ![t.job] = "dead"]
        \/ status' = [status EXCEPT ![t.job] = "scheduled"]
    BY <1>4 DEF Fail
  <2>3. Unfinished' = Unfinished
    BY <1>0, <2>1, <2>2 DEF Unfinished
  <2>4. /\ counters'["enqueued"] = counters["enqueued"]
        /\ counters'["completed"] = counters["completed"]
        /\ counters'["requeued"] = counters["requeued"]
        /\ \/ /\ dead' = dead \cup {t.job}
              /\ counters'["dead"] = counters["dead"] + 1
           \/ dead' = dead /\ counters'["dead"] = counters["dead"]
    BY <1>0, <1>4 DEF Fail, CounterNames
  <2>5. Cardinality(dead \cup {t.job}) = Cardinality(dead) + 1
    BY <1>a, <1>b, <2>1, FS_AddElement
  <2>6. CASE /\ dead' = dead \cup {t.job}
             /\ counters'["dead"] = counters["dead"] + 1
    <3>1. Cardinality(dead') = Cardinality(dead) + 1
      BY <2>5, <2>6
    <3>2. DeadBalance'
      BY <1>b, <1>c, <1>d, <2>4, <2>6, <3>1 DEF DeadBalance
    <3> QED BY <2>3, <2>4, <3>2, <1>held
  <2>7. CASE dead' = dead /\ counters'["dead"] = counters["dead"]
    BY <2>3, <2>4, <2>7, <1>held, <1>buried
  <2> QED BY <2>4, <2>6, <2>7
<1>5. ASSUME Reap PROVE AdmittedBalance' /\ DeadBalance'
  <2>1. PICK R \in SUBSET Jobs : ReapsJobs(R)
    BY <1>5, ReapStep
  <2>2. /\ SpentOf(R) \subseteq R /\ IsFiniteSet(R)
        /\ \A j \in R : status[j] = "processing"
        /\ dead' = dead \cup SpentOf(R)
    BY <2>1 DEF ReapsJobs, SpentOf
  <2>3. IsFiniteSet(SpentOf(R)) /\ Cardinality(SpentOf(R)) \in Nat
    BY <2>2, FS_Subset, FS_CardinalityType
  <2>4. Unfinished' = Unfinished
    BY <2>1 DEF ReapsJobs, SpentOf, BackOf, Unfinished
  <2>5. /\ counters'["enqueued"] = counters["enqueued"]
        /\ counters'["completed"] = counters["completed"]
        /\ counters'["requeued"] = counters["requeued"]
        /\ counters'["dead"] = counters["dead"] + Cardinality(SpentOf(R))
    BY <1>0, <2>1 DEF ReapsJobs, CounterNames
  <2>6. dead \cap SpentOf(R) = {}
    BY <1>a, <2>2
  <2>7. Cardinality(dead') = Cardinality(dead) + Cardinality(SpentOf(R))
    BY <1>b, <2>2, <2>3, <2>6, DisjointCount
  <2>8. DeadBalance'
    BY <1>b, <1>c, <1>d, <2>3, <2>5, <2>7 DEF DeadBalance
  <2> QED BY <2>4, <2>5, <2>8, <1>held
<1>6. ASSUME NEW j \in Jobs, RequeueDead(j) PROVE AdmittedBalance' /\ DeadBalance'
  <2>1. Unfinished' = Unfinished
    BY <1>0, <1>6 DEF RequeueDead, Unfinished
  <2>2. /\ counters'["enqueued"] = counters["enqueued"]
        /\ counters'["completed"] = counters["completed"]
        /\ counters'["requeued"] = counters["requeued"] + 1
        /\ counters'["dead"] = counters["dead"]
        /\ dead' = dead \ {j} /\ j \in dead
    BY <1>0, <1>a, <1>6 DEF RequeueDead, CounterNames
  <2>3. Cardinality(dead') = Cardinality(dead) - 1
    BY <1>b, <2>2, FS_RemoveElement
  <2>4. DeadBalance'
    BY <1>b, <1>c, <1>d, <2>2, <2>3 DEF DeadBalance
  <2> QED BY <2>1, <2>2, <2>4, <1>held
<1>7. ASSUME PromoteDue PROVE AdmittedBalance' /\ DeadBalance'
  <2>1. Unfinished' = Unfinished
    BY <1>7, PromoteStep DEF Unfinished
  <2> QED BY <1>7, <2>1, <1>held, <1>buried DEF PromoteDue
<1>8. ASSUME Tick PROVE AdmittedBalance' /\ DeadBalance'
  <2>1. Unfinished' = Unfinished
    BY <1>8, TickStep DEF Unfinished
  <2> QED BY <1>8, <2>1, <1>held, <1>buried DEF Tick
<1>9. ASSUME UNCHANGED <<status, counters, dead>> PROVE AdmittedBalance' /\ DeadBalance'
  <2>1. Unfinished' = Unfinished
    BY <1>9 DEF Unfinished
  <2> QED BY <1>9, <2>1, <1>held, <1>buried
<1>10. ASSUME \/ ClaimNothing \/ \E t \in tokens : Heartbeat(t)
              \/ SweepDone
              \/ \E j \in Jobs : Corrupt(j)
              \/ \E t \in tokens : Drop(t)
       PROVE  AdmittedBalance' /\ DeadBalance'
  <2>1. UNCHANGED <<status, counters, dead>>
    BY <1>10 DEF ClaimNothing, Heartbeat, SweepDone, Corrupt, Drop, hashVars,
                 placeVars
  <2> QED BY <1>9, <2>1
<1>11. ASSUME NEW t \in tokens, FailCorrupt(t) PROVE AdmittedBalance' /\ DeadBalance'
  BY <1>4, <1>11, QueueConstants DEF FailCorrupt
<1>12. ASSUME NEW t \in tokens, NEW r \in Reasons, NEW retryable \in BOOLEAN,
              FailClaim(t, r, retryable)
       PROVE  AdmittedBalance' /\ DeadBalance'
  BY <1>4, <1>12 DEF FailClaim
<1> QED
  BY <1>1, <1>2, <1>3, <1>5, <1>6, <1>7, <1>8, <1>10, <1>11, <1>12 DEF Next

\* No silent loss: at every moment the counters account for every job that was
\* admitted and not completed, and for every job in the dead set, whatever the
\* number of retries, crashes, batches and requeues.
THEOREM NothingLost == Spec => []Accounting
<1>1. Init => Accounting
  <2> SUFFICES ASSUME Init PROVE Accounting
    OBVIOUS
  <2>1. Unfinished = {} /\ dead = {}
    BY DEF Init, Unfinished
  <2>2. \A c \in CounterNames : counters[c] = 0
    BY DEF Init
  <2> QED BY <2>1, <2>2, FS_EmptySet DEF Accounting, CounterNames
<1>2. QueueInv /\ Accounting /\ [Next]_vars => Accounting'
  <2> SUFFICES ASSUME QueueInv, Accounting, [Next]_vars
               PROVE  Accounting'
    OBVIOUS
  <2>1. CASE Next
    BY <2>1, BalanceStep
  <2>2. CASE UNCHANGED vars
    <3>1. Unfinished' = Unfinished /\ dead' = dead /\ counters' = counters
      BY <2>2 DEF vars, hashVars, placeVars, Unfinished
    <3> QED BY <3>1 DEF Accounting
  <2> QED BY <2>1, <2>2
<1> QED BY <1>1, <1>2, QueueInvariant, PTL DEF Spec
=============================================================================

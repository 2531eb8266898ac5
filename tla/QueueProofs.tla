---------------------------- MODULE QueueProofs ----------------------------
(* Proofs about the job queue, for every value of its constants. *)
EXTENDS QueueRefinement, SequenceTheorems, FiniteSetTheorems, TLAPS

\* A sequence without repetitions.
Distinct(s) == \A a, b \in DOMAIN s : s[a] = s[b] => a = b

-----------------------------------------------------------------------------
(* Lists of jobs. *)

\* LPUSH of a new id (the pending list is kept head first, so it appends).
LEMMA AppendMembers ==
  ASSUME NEW S, NEW s \in Seq(S), NEW e \in S
  PROVE  /\ Append(s, e) \in Seq(S)
         /\ Members(Append(s, e)) = Members(s) \cup {e}
         /\ Distinct(s) /\ e \notin Members(s) => Distinct(Append(s, e))
<1>1. /\ Append(s, e) \in Seq(S)
      /\ DOMAIN s = 1..Len(s) /\ DOMAIN Append(s, e) = 1..(Len(s) + 1)
      /\ \A i \in 1..Len(s) : Append(s, e)[i] = s[i]
      /\ Append(s, e)[Len(s) + 1] = e
      /\ Len(s) \in Nat
  OBVIOUS
<1>2. Members(Append(s, e)) = Members(s) \cup {e}
  BY <1>1 DEF Members
<1>3. ASSUME Distinct(s), e \notin Members(s) PROVE Distinct(Append(s, e))
  BY <1>1, <1>3 DEF Members, Distinct
<1> QED BY <1>1, <1>2, <1>3

\* Pushing a batch of ids behind the line.
LEMMA ConcatMembers ==
  ASSUME NEW S, NEW s \in Seq(S), NEW t \in Seq(S)
  PROVE  /\ s \o t \in Seq(S)
         /\ Members(s \o t) = Members(s) \cup Members(t)
         /\ /\ Distinct(s) /\ Distinct(t)
            /\ Members(s) \cap Members(t) = {}
            => Distinct(s \o t)
<1>1. /\ s \o t \in Seq(S)
      /\ Len(s) \in Nat /\ Len(t) \in Nat /\ Len(s \o t) = Len(s) + Len(t)
      /\ DOMAIN s = 1..Len(s) /\ DOMAIN t = 1..Len(t)
      /\ DOMAIN (s \o t) = 1..(Len(s) + Len(t))
      /\ \A i \in 1..Len(s) : (s \o t)[i] = s[i]
      /\ \A i \in 1..Len(t) : (s \o t)[Len(s) + i] = t[i]
  BY ConcatProperties
<1>2. \A i \in 1..(Len(s) + Len(t)) :
         \/ i \in 1..Len(s) /\ (s \o t)[i] = s[i]
         \/ i - Len(s) \in 1..Len(t) /\ (s \o t)[i] = t[i - Len(s)]
  BY <1>1
<1>3. Members(s \o t) = Members(s) \cup Members(t)
  <2>1. \A x \in Members(s \o t) : x \in Members(s) \cup Members(t)
    BY <1>1, <1>2 DEF Members
  <2>2. \A x \in Members(s) : x \in Members(s \o t)
    BY <1>1 DEF Members
  <2>3. \A x \in Members(t) : x \in Members(s \o t)
    <3>1. \A i \in 1..Len(t) : Len(s) + i \in 1..(Len(s) + Len(t))
      BY <1>1
    <3> QED BY <1>1, <3>1 DEF Members
  <2> QED BY <2>1, <2>2, <2>3
<1>4. ASSUME Distinct(s), Distinct(t), Members(s) \cap Members(t) = {}
      PROVE  Distinct(s \o t)
  <2> SUFFICES ASSUME NEW a \in 1..(Len(s) + Len(t)),
                      NEW b \in 1..(Len(s) + Len(t)),
                      (s \o t)[a] = (s \o t)[b]
               PROVE  a = b
    BY <1>1 DEF Distinct
  <2>1. \A i \in 1..Len(s), k \in 1..Len(t) : s[i] # t[k]
    BY <1>1, <1>4 DEF Members
  <2>2. \/ a \in 1..Len(s) /\ b \in 1..Len(s)
        \/ a - Len(s) \in 1..Len(t) /\ b - Len(s) \in 1..Len(t)
    BY <1>2, <2>1
  <2>3. CASE a \in 1..Len(s) /\ b \in 1..Len(s)
    BY <2>3, <1>1, <1>4 DEF Distinct
  <2>4. CASE a - Len(s) \in 1..Len(t) /\ b - Len(s) \in 1..Len(t)
    <3>1. /\ a = Len(s) + (a - Len(s)) /\ b = Len(s) + (b - Len(s))
      BY <1>1
    <3>2. t[a - Len(s)] = t[b - Len(s)]
      BY <1>1, <2>4, <3>1
    <3>3. a - Len(s) = b - Len(s)
      BY <1>1, <1>4, <2>4, <3>2 DEF Distinct
    <3> QED BY <1>1, <3>3
  <2> QED BY <2>2, <2>3, <2>4
<1> QED BY <1>1, <1>3, <1>4

\* Popping the head of the line.
LEMMA TailMembers ==
  ASSUME NEW S, NEW s \in Seq(S), s # <<>>
  PROVE  /\ SubSeq(s, 2, Len(s)) \in Seq(S)
         /\ s[1] \in S
         /\ Distinct(s) => /\ Distinct(SubSeq(s, 2, Len(s)))
                           /\ Members(SubSeq(s, 2, Len(s))) = Members(s) \ {s[1]}
<1> DEFINE r == SubSeq(s, 2, Len(s))
<1>1. /\ Len(s) \in Nat \ {0} /\ DOMAIN s = 1..Len(s)
      /\ r \in Seq(S) /\ Len(r) = Len(s) - 1 /\ DOMAIN r = 1..(Len(s) - 1)
      /\ \A i \in 1..(Len(s) - 1) : r[i] = s[i + 1]
      /\ s[1] \in S
  <2>1. Len(s) \in Nat \ {0} /\ DOMAIN s = 1..Len(s) /\ s[1] \in S
    BY EmptySeq
  <2>2. \A i \in 2..Len(s) : s[i] \in S
    BY <2>1
  <2> QED BY <2>1, <2>2, SubSeqProperties
<1>2. ASSUME Distinct(s)
      PROVE  Distinct(r) /\ Members(r) = Members(s) \ {s[1]}
  <2>1. Distinct(r)
    <3> SUFFICES ASSUME NEW a \in 1..(Len(s) - 1), NEW b \in 1..(Len(s) - 1),
                        r[a] = r[b]
                 PROVE  a = b
      BY <1>1 DEF Distinct
    <3>1. /\ a + 1 \in 1..Len(s) /\ b + 1 \in 1..Len(s)
          /\ s[a + 1] = s[b + 1]
      BY <1>1
    <3>2. a + 1 = b + 1
      BY <3>1, <1>1, <1>2 DEF Distinct
    <3> QED BY <3>2, <1>1
  <2>2. \A x \in Members(r) : x \in Members(s) \ {s[1]}
    <3> SUFFICES ASSUME NEW i \in 1..(Len(s) - 1)
                 PROVE  r[i] \in Members(s) \ {s[1]}
      BY <1>1 DEF Members
    <3>1. i + 1 \in 1..Len(s) /\ 1 \in 1..Len(s) /\ i + 1 # 1
      BY <1>1
    <3>2. s[i + 1] # s[1]
      BY <3>1, <1>1, <1>2 DEF Distinct
    <3> QED BY <3>1, <3>2, <1>1 DEF Members
  <2>3. \A x \in Members(s) \ {s[1]} : x \in Members(r)
    <3> SUFFICES ASSUME NEW i \in 1..Len(s), s[i] # s[1]
                 PROVE  s[i] \in Members(r)
      BY <1>1 DEF Members
    <3>1. i - 1 \in 1..(Len(s) - 1) /\ s[(i - 1) + 1] = s[i]
      BY <1>1
    <3> QED BY <3>1, <1>1 DEF Members
  <2> QED BY <2>1, <2>2, <2>3
<1> QED BY <1>1, <1>2

\* A listing of a set holds each of its members once.
LEMMA OrderingMembers ==
  ASSUME NEW S, IsFiniteSet(S), NEW s \in Orderings(S)
  PROVE  s \in Seq(S) /\ Members(s) = S /\ Distinct(s)
<1>1. Cardinality(S) \in Nat
  BY FS_CardinalityType
<1>2. s \in [1..Cardinality(S) -> S]
  BY DEF Orderings
<1>3. s \in Seq(S)
  BY <1>1, <1>2, SeqDef
<1>4. Members(s) = S
  BY <1>2 DEF Orderings, Members
<1> QED BY <1>3, <1>4 DEF Orderings, Distinct

-----------------------------------------------------------------------------
(* The inductive invariant. *)

\* A claim is stamped on a hash exactly while the job is processing.
ClaimStamps ==
  \A j \in Jobs :
    /\ status[j] = "processing" <=> claimId[j] # Nil
    /\ status[j] = "processing" <=> claimedBy[j] # Nil

\* A hash has a TTL exactly while it records a completed job.
ExpiryOfDone == \A j \in Jobs : expires[j] # Off <=> status[j] = "done"

\* A job that exists was given a budget of at least one attempt.
BudgetStamped == \A j \in Jobs : status[j] # "absent" => budget[j] >= 1

\* Placement and budgets need the claim stamps (a script under the fence acts
\* on a processing job) and the TTLs (only completed hashes disappear).
QueueInv ==
  /\ TypeOK /\ OneStructure /\ ClaimStamps /\ ExpiryOfDone
  /\ BudgetStamped /\ BudgetRespected

-----------------------------------------------------------------------------
(* What the scripts read. *)

\* A batch of due members is a finite set of jobs.
LEMMA BatchIsFinite ==
  ASSUME NEW due, due \subseteq Jobs, NEW B \in Batches(due)
  PROVE  B \subseteq due /\ IsFiniteSet(B)
BY QueueConstants, FS_Subset DEF Batches

\* The line a claim works on after promoting a batch: every id in it has a
\* waiting job behind it, so the pop loop stops at its first entry.
LEMMA ClaimLine ==
  ASSUME TypeOK, OneStructure,
         NEW B \in Batches(DueRetries), NEW order \in Orderings(B),
         NEW line, line = pending \o order
  PROVE  /\ line \in Seq(Jobs) /\ Distinct(line)
         /\ Members(line) = Members(pending) \cup B
         /\ \A j \in Members(line) : status[j] \in {"pending", "scheduled"}
         /\ line # <<>> => FirstLive(line) = 1
         /\ line = <<>> => FirstLive(line) = 0
<1>1. B \subseteq DueRetries /\ IsFiniteSet(B)
  BY BatchIsFinite DEF DueRetries
<1>2. order \in Seq(Jobs) /\ Members(order) = B /\ Distinct(order)
  BY <1>1, OrderingMembers, SeqMonotonic DEF DueRetries
<1>3. Members(pending) \cap B = {} /\ \A j \in B : status[j] = "scheduled"
  BY <1>1 DEF DueRetries, OneStructure, PlacedByStatus, Off
<1>4. pending \in Seq(Jobs) /\ Distinct(pending)
  BY DEF TypeOK, OneStructure, NoDuplicatePending, Distinct
<1>5. /\ line \in Seq(Jobs) /\ Distinct(line)
      /\ Members(line) = Members(pending) \cup B
  BY <1>2, <1>3, <1>4, ConcatMembers
<1>6. \A j \in Members(line) : status[j] \in {"pending", "scheduled"}
  <2>1. Members(pending) \subseteq Jobs
    BY <1>4 DEF Members
  <2> QED BY <1>3, <1>5, <2>1 DEF OneStructure, PlacedByStatus
<1>7. ASSUME line # <<>> PROVE FirstLive(line) = 1
  <2>1. Len(line) \in Nat \ {0} /\ DOMAIN line = 1..Len(line)
    BY <1>5, <1>7, EmptySeq
  <2>2. Exists(line[1])
    BY <1>6, <2>1 DEF Members, Exists
  <2> DEFINE window == 1..Minimum(MaxScan, Len(line))
             live == {k \in window : Exists(line[k])}
  <2>3. 1 \in live /\ \A m \in live : m \in Nat /\ 1 <= m
    BY <2>1, <2>2, QueueConstants DEF Minimum
  <2> HIDE DEF live
  <2>4. \A k \in live : (\A m \in live : k <= m) => k = 1
    BY <2>3
  <2>5. (CHOOSE k \in live : \A m \in live : k <= m) = 1
    BY <2>3, <2>4
  <2> QED BY <2>3, <2>5 DEF FirstLive, live
<1>8. ASSUME line = <<>> PROVE FirstLive(line) = 0
  <2>1. Len(line) = 0
    BY <1>8
  <2>2. 1..Minimum(MaxScan, Len(line)) = {}
    BY <2>1, QueueConstants DEF Minimum
  <2> QED BY <2>2 DEF FirstLive
<1> QED BY <1>5, <1>6, <1>7, <1>8

\* A record added to an error trail leaves it a trail, newest entry first.
LEMMA RecordedTrail ==
  ASSUME TypeOK, NEW j \in Jobs, NEW r \in Reasons
  PROVE  /\ Recorded(j, r) \in Seq(Reasons)
         /\ Recorded(j, r) # <<>> /\ Recorded(j, r)[1] = r
<1> DEFINE s == <<r>> \o trail[j]
           n == Minimum(TrailKeep, Len(trail[j]) + 1)
<1>1. trail[j] \in Seq(Reasons) /\ Len(trail[j]) \in Nat
  BY DEF TypeOK
<1>2. <<r>> \in Seq(Reasons) /\ Len(<<r>>) = 1 /\ <<r>>[1] = r
  OBVIOUS
<1>3. s \in Seq(Reasons) /\ Len(s) = Len(trail[j]) + 1 /\ s[1] = r
  BY <1>1, <1>2, ConcatProperties
<1>4. n \in 1..Len(s)
  BY <1>1, <1>3, QueueConstants DEF Minimum
<1>5. /\ SubSeq(s, 1, n) \in Seq(Reasons)
      /\ Len(SubSeq(s, 1, n)) = n
      /\ SubSeq(s, 1, n)[1] = s[1]
  BY <1>3, <1>4, SubSeqProperties
<1> HIDE DEF s, n
<1>6. SubSeq(s, 1, n) # <<>>
  BY <1>4, <1>5
<1> QED BY <1>3, <1>5, <1>6 DEF Recorded, s, n

-----------------------------------------------------------------------------
(* Each script preserves the invariant. *)

\* An empty queue satisfies the invariant.
LEMMA InitInv == Init => QueueInv
<1> SUFFICES ASSUME Init PROVE QueueInv
  OBVIOUS
<1> USE DEF Init
<1>1. pending \in Seq(Jobs) /\ Members(pending) = {} /\ Len(pending) = 0
  BY EmptySeq DEF Members
<1>2. TypeOK
  BY <1>1, EmptySeq DEF TypeOK, Statuses, Off
<1>3. OneStructure
  BY <1>1 DEF OneStructure, NoDuplicatePending, PlacedByStatus, Off
<1>4. ClaimStamps /\ ExpiryOfDone /\ BudgetStamped /\ BudgetRespected
  BY DEF ClaimStamps, ExpiryOfDone, BudgetStamped, BudgetRespected, Off
<1> QED BY <1>2, <1>3, <1>4 DEF QueueInv

\* enqueue.lua preserves the invariant: the id it appends was in no structure.
LEMMA EnqueueInv ==
  ASSUME QueueInv, NEW j \in Jobs, NEW b \in Budgets, Enqueue(j, b)
  PROVE  QueueInv'
<1> USE DEF QueueInv
<1>1. pending \in Seq(Jobs) /\ Distinct(pending) /\ j \notin Members(pending)
  BY DEF TypeOK, OneStructure, NoDuplicatePending, PlacedByStatus, Distinct,
         Enqueue, Exists
<1>2. /\ pending' \in Seq(Jobs) /\ Distinct(pending')
      /\ Members(pending') = Members(pending) \cup {j}
  BY <1>1, AppendMembers DEF Enqueue
<1>3. b \in Nat \ {0}
  BY QueueConstants
<1>4. TypeOK'
  <2>1. /\ status' \in [Jobs -> Statuses] /\ attempts' \in [Jobs -> Nat]
        /\ budget' \in [Jobs -> Nat] /\ intact' \in [Jobs -> BOOLEAN]
    BY <1>3 DEF TypeOK, Enqueue, Statuses
  <2>2. counters' \in [CounterNames -> Nat]
    BY DEF TypeOK, Enqueue, CounterNames
  <2> QED BY <1>2, <2>1, <2>2 DEF TypeOK, Enqueue
<1>5. OneStructure'
  <2>1. NoDuplicatePending'
    BY <1>2 DEF NoDuplicatePending, Distinct
  <2>2. ASSUME NEW i \in Jobs PROVE PlacedByStatus(i)'
    BY <1>2 DEF TypeOK, OneStructure, PlacedByStatus, Enqueue, Exists
  <2> QED BY <2>1, <2>2 DEF OneStructure, Enqueue
<1>6. ClaimStamps'
  BY DEF TypeOK, ClaimStamps, Enqueue, Exists
<1>7. ExpiryOfDone'
  BY DEF TypeOK, ExpiryOfDone, Enqueue, Exists
<1>8. BudgetStamped' /\ BudgetRespected'
  <2>1. /\ attempts \in [Jobs -> Nat] /\ budget \in [Jobs -> Nat]
        /\ status \in [Jobs -> Statuses]
    BY DEF TypeOK
  <2> QED BY <1>3, <2>1 DEF BudgetStamped, BudgetRespected, Enqueue
<1> QED BY <1>4, <1>5, <1>6, <1>7, <1>8

\* The effect of claim.lua when it leases job j after promoting the batch B.
ClaimsJob(B, j, w, c) ==
  /\ \A i \in B : scheduled[i] = 0
  /\ status[j] \in {"pending", "scheduled"}
  /\ j \notin B => scheduled[j] = Off
  /\ pending' \in Seq(Jobs) /\ Distinct(pending')
  /\ Members(pending') = (Members(pending) \cup B) \ {j}
  /\ scheduled' = [i \in Jobs |-> IF i \in B THEN Off ELSE scheduled[i]]
  /\ orphans' = orphans
  /\ attempts' = [attempts EXCEPT ![j] = @ + 1]
  /\ status' = [status EXCEPT ![j] = "processing"]
  /\ claimedBy' = [claimedBy EXCEPT ![j] = w]
  /\ claimId' = [claimId EXCEPT ![j] = c]
  /\ processing' = [processing EXCEPT ![j] = Lease]
  /\ tokens' = tokens \cup
       {[job |-> j, worker |-> w, claim |-> c, intact |-> intact[j]]}
  /\ UNCHANGED <<budget, deadReason, escalate, intact, expires, trail, dead,
                 done, counters>>

\* A claim takes the first of the line it finds after promoting a batch.
LEMMA ClaimStep ==
  ASSUME QueueInv, NEW w \in Workers, NEW c \in ClaimIds, ClaimJob(w, c)
  PROVE  \E B \in SUBSET Jobs, j \in Jobs : ClaimsJob(B, j, w, c)
<1> USE DEF QueueInv
<1>1. PICK B \in Batches(DueRetries) : \E order \in Orderings(B) :
        Unschedule(B) /\ PopJob(pending \o order, w, c)
  BY DEF ClaimJob
<1>2. PICK order \in Orderings(B) :
        Unschedule(B) /\ PopJob(pending \o order, w, c)
  BY <1>1
<1> DEFINE line == pending \o order
           j == line[1]
<1>3. /\ line \in Seq(Jobs) /\ Distinct(line)
      /\ Members(line) = Members(pending) \cup B
      /\ \A i \in Members(line) : status[i] \in {"pending", "scheduled"}
      /\ line # <<>> /\ FirstLive(line) = 1
  BY <1>2, ClaimLine DEF PopJob
<1>4. /\ j \in Jobs /\ SubSeq(line, 2, Len(line)) \in Seq(Jobs)
      /\ Distinct(SubSeq(line, 2, Len(line)))
      /\ Members(SubSeq(line, 2, Len(line))) = (Members(pending) \cup B) \ {j}
  BY <1>3, TailMembers
<1>5. j \in Members(line)
  BY <1>3, EmptySeq DEF Members
<1>6. /\ scheduled' = [i \in Jobs |-> IF i \in B THEN Off ELSE scheduled[i]]
      /\ pending' = SubSeq(line, 2, Len(line))
      /\ orphans' = orphans
      /\ attempts' = [attempts EXCEPT ![j] = @ + 1]
      /\ status' = [status EXCEPT ![j] = "processing"]
      /\ claimedBy' = [claimedBy EXCEPT ![j] = w]
      /\ claimId' = [claimId EXCEPT ![j] = c]
      /\ processing' = [processing EXCEPT ![j] = Lease]
      /\ tokens' = tokens \cup
           {[job |-> j, worker |-> w, claim |-> c, intact |-> intact[j]]}
  BY <1>2, <1>3 DEF Unschedule, PopJob
<1>7. UNCHANGED <<budget, deadReason, escalate, intact, expires, trail, dead,
                  done, counters>>
  BY DEF ClaimJob
<1>8. /\ status[j] \in {"pending", "scheduled"}
      /\ B \subseteq Jobs /\ \A i \in B : scheduled[i] = 0
      /\ j \notin B => scheduled[j] = Off
  <2>1. B \subseteq DueRetries
    BY BatchIsFinite DEF DueRetries
  <2> QED BY <1>3, <1>5, <2>1 DEF OneStructure, PlacedByStatus, DueRetries
<1> HIDE DEF line, j
<1>9. ClaimsJob(B, j, w, c)
  BY <1>4, <1>6, <1>7, <1>8 DEF ClaimsJob
<1> QED BY <1>4, <1>8, <1>9

\* claim.lua leasing a job preserves the invariant: the promoted retries join
\* the line, and the first of it moves to processing with an attempt it had left.
LEMMA ClaimJobInv ==
  ASSUME QueueInv, NEW w \in Workers, NEW c \in ClaimIds, ClaimJob(w, c)
  PROVE  QueueInv'
<1> USE DEF QueueInv
<1>1. PICK B \in SUBSET Jobs, j \in Jobs : ClaimsJob(B, j, w, c)
  BY ClaimStep
<1>2. /\ scheduled' = [i \in Jobs |-> IF i \in B THEN Off ELSE scheduled[i]]
      /\ pending' \in Seq(Jobs) /\ Distinct(pending')
      /\ Members(pending') = (Members(pending) \cup B) \ {j}
      /\ orphans' = orphans
      /\ attempts' = [attempts EXCEPT ![j] = @ + 1]
      /\ status' = [status EXCEPT ![j] = "processing"]
      /\ claimedBy' = [claimedBy EXCEPT ![j] = w]
      /\ claimId' = [claimId EXCEPT ![j] = c]
      /\ processing' = [processing EXCEPT ![j] = Lease]
      /\ tokens' = tokens \cup
           {[job |-> j, worker |-> w, claim |-> c, intact |-> intact[j]]}
  BY <1>1 DEF ClaimsJob
<1>3. UNCHANGED <<budget, deadReason, escalate, intact, expires, trail, dead,
                  done, counters>>
  BY <1>1 DEF ClaimsJob
<1>4. /\ status[j] \in {"pending", "scheduled"}
      /\ B \subseteq Jobs /\ \A i \in B : scheduled[i] = 0
      /\ j \notin B => scheduled[j] = Off
  BY <1>1 DEF ClaimsJob
<1>5. TypeOK'
  <2>1. [job |-> j, worker |-> w, claim |-> c, intact |-> intact[j]] \in Token
    BY <1>1 DEF TypeOK, Token
  <2>2. tokens' \subseteq Token
    BY <1>2, <2>1 DEF TypeOK
  <2>3. processing' \in [Jobs -> Nat \cup {Off}]
    BY <1>1, <1>2, QueueConstants DEF TypeOK
  <2>4. scheduled' \in [Jobs -> Nat \cup {Off}]
    BY <1>1, <1>2 DEF TypeOK
  <2>5. status' \in [Jobs -> Statuses] /\ attempts' \in [Jobs -> Nat]
    BY <1>1, <1>2 DEF TypeOK, Statuses
  <2>6. /\ claimedBy' \in [Jobs -> Workers \cup {Nil}]
        /\ claimId' \in [Jobs -> ClaimIds \cup {Nil}]
    BY <1>1, <1>2 DEF TypeOK
  <2> QED BY <1>1, <1>2, <1>3, <2>2, <2>3, <2>4, <2>5, <2>6 DEF TypeOK
<1>6. OneStructure'
  <2>1. NoDuplicatePending'
    BY <1>1, <1>2 DEF NoDuplicatePending, Distinct
  <2>2. ASSUME NEW i \in Jobs PROVE PlacedByStatus(i)'
    BY <1>1, <1>2, <1>3, <1>4, QueueConstants
       DEF TypeOK, OneStructure, PlacedByStatus, Off
  <2> QED BY <2>1, <2>2, <1>2 DEF OneStructure
<1>7. ClaimStamps'
  BY <1>1, <1>2, QueueConstants DEF TypeOK, ClaimStamps
<1>8. ExpiryOfDone'
  BY <1>1, <1>2, <1>3, <1>4 DEF TypeOK, ExpiryOfDone
<1>9. BudgetStamped' /\ BudgetRespected'
  BY <1>1, <1>2, <1>3, <1>4 DEF TypeOK, BudgetStamped, BudgetRespected
<1> QED BY <1>5, <1>6, <1>7, <1>8, <1>9

\* claim.lua finding no job preserves the invariant: every id in the line has a
\* hash, so the line was empty and nothing is quarantined.
LEMMA ClaimNothingInv ==
  ASSUME QueueInv, ClaimNothing
  PROVE  QueueInv'
<1> USE DEF QueueInv
<1>1. PICK B \in Batches(DueRetries) : \E order \in Orderings(B) :
        Unschedule(B) /\ PopNothing(pending \o order)
  BY DEF ClaimNothing
<1>2. PICK order \in Orderings(B) :
        Unschedule(B) /\ PopNothing(pending \o order)
  BY <1>1
<1>3. /\ pending \o order = <<>>
      /\ Members(pending \o order) = Members(pending) \cup B
  <2>1. FirstLive(pending \o order) = 0
    BY <1>2 DEF PopNothing
  <2> DEFINE line == pending \o order
  <2>2. /\ Members(line) = Members(pending) \cup B
        /\ line # <<>> => FirstLive(line) = 1
    BY ClaimLine
  <2> QED BY <2>1, <2>2
<1>4. Members(<<>>) = {}
  BY DEF Members
<1>5. B = {} /\ Members(pending) = {}
  BY <1>3, <1>4
<1>6. pending = <<>>
  <2>1. pending \in Seq(Jobs)
    BY DEF TypeOK
  <2>2. Len(pending) # 0 => pending[1] \in Members(pending)
    BY <2>1 DEF Members
  <2> QED BY <2>1, <2>2, <1>5, EmptySeq
<1>7. pending' = <<>> /\ orphans' = orphans
  <2>1. Minimum(MaxScan, Len(<<>>)) = 0
    BY QueueConstants DEF Minimum
  <2>2. SubSeq(<<>>, 1, Len(<<>>)) = <<>>
    BY EmptySeq
  <2> QED BY <1>2, <1>3, <2>1, <2>2 DEF PopNothing
<1>8. scheduled' = scheduled
  BY <1>2, <1>5 DEF Unschedule, TypeOK
<1>9. UNCHANGED vars
  BY <1>6, <1>7, <1>8 DEF ClaimNothing, vars, placeVars
<1> QED
  BY <1>9 DEF vars, hashVars, placeVars, TypeOK, OneStructure,
              NoDuplicatePending, PlacedByStatus, ClaimStamps, ExpiryOfDone,
              BudgetStamped, BudgetRespected

\* A client that passes the fence holds the claim of a processing job.
LEMMA OwnerHoldsJob ==
  ASSUME QueueInv, NEW t \in tokens, Owns(t)
  PROVE  /\ t.job \in Jobs /\ status[t.job] = "processing"
         /\ claimId[t.job] = t.claim /\ claimedBy[t.job] = t.worker
         /\ processing[t.job] # Off /\ expires[t.job] = Off
<1>1. t.job \in Jobs
  BY DEF QueueInv, TypeOK, Token
<1>2. /\ status[t.job] = "processing"
      /\ claimId[t.job] = t.claim /\ claimedBy[t.job] = t.worker
  BY DEF Owns, OwnerCheck
<1> QED BY <1>1, <1>2 DEF QueueInv, OneStructure, PlacedByStatus, ExpiryOfDone

\* ack.lua preserves the invariant: the job it completes is in processing only.
LEMMA AckInv ==
  ASSUME QueueInv, NEW t \in tokens, Ack(t)
  PROVE  QueueInv'
<1> USE DEF QueueInv
<1> DEFINE j == t.job
<1>1. /\ j \in Jobs /\ status[j] = "processing"
      /\ processing[j] # Off /\ expires[j] = Off
  BY OwnerHoldsJob DEF Ack
<1>2. /\ processing' = [processing EXCEPT ![j] = Off]
      /\ claimedBy' = [claimedBy EXCEPT ![j] = Nil]
      /\ claimId' = [claimId EXCEPT ![j] = Nil]
      /\ counters' = [counters EXCEPT !["completed"] = @ + 1]
      /\ UNCHANGED <<attempts, budget, deadReason, escalate, intact,
                     pending, scheduled, dead, orphans, tokens>>
  BY DEF Ack
<1> DEFINE Kept ==
             /\ status' = [status EXCEPT ![j] = "done"]
             /\ expires' = [expires EXCEPT ![j] = DoneKeep]
             /\ done' = [i \in Jobs |-> IF i = j THEN 0
                                        ELSE IF done[i] >= DoneKeep THEN Off
                                        ELSE done[i]]
             /\ trail' = trail
           Deleted ==
             /\ status' = [status EXCEPT ![j] = "absent"]
             /\ trail' = [trail EXCEPT ![j] = <<>>]
             /\ expires' = expires /\ done' = done
<1>3. Kept \/ Deleted
  BY DEF Ack
<1> HIDE DEF j
<1>4. status' \in [Jobs -> Statuses] /\ status' = [status EXCEPT ![j] = status'[j]]
      /\ status'[j] \in {"done", "absent"}
  BY <1>1, <1>3 DEF TypeOK, Statuses
<1>5. TypeOK'
  <2>1. /\ processing' \in [Jobs -> Nat \cup {Off}]
        /\ claimedBy' \in [Jobs -> Workers \cup {Nil}]
        /\ claimId' \in [Jobs -> ClaimIds \cup {Nil}]
    BY <1>2 DEF TypeOK
  <2>2. /\ expires' \in [Jobs -> Nat \cup {Off}]
        /\ done' \in [Jobs -> Nat \cup {Off}]
    <3>1. CASE Kept
      BY <3>1, QueueConstants DEF TypeOK, Off
    <3>2. CASE Deleted
      BY <3>2 DEF TypeOK
    <3> QED BY <1>3, <3>1, <3>2
  <2>3. trail' \in [Jobs -> Seq(Reasons)]
    <3>1. trail \in [Jobs -> Seq(Reasons)] /\ <<>> \in Seq(Reasons)
      BY EmptySeq DEF TypeOK
    <3> QED BY <1>3, <3>1
  <2>4. counters' \in [CounterNames -> Nat]
    BY <1>2 DEF TypeOK, CounterNames
  <2> QED BY <1>2, <1>4, <2>1, <2>2, <2>3, <2>4 DEF TypeOK
<1>6. OneStructure'
  <2>1. NoDuplicatePending'
    BY <1>2 DEF OneStructure, NoDuplicatePending
  <2>2. ASSUME NEW i \in Jobs PROVE PlacedByStatus(i)'
    BY <1>1, <1>2, <1>4 DEF TypeOK, OneStructure, PlacedByStatus, Members
  <2> QED BY <2>1, <2>2, <1>2 DEF OneStructure
<1>7. ClaimStamps'
  BY <1>1, <1>2, <1>4 DEF TypeOK, ClaimStamps
<1>8. ExpiryOfDone'
  <2>1. CASE Kept
    BY <1>1, <2>1, QueueConstants DEF TypeOK, ExpiryOfDone, Off
  <2>2. CASE Deleted
    BY <1>1, <2>2 DEF TypeOK, ExpiryOfDone
  <2> QED BY <1>3, <2>1, <2>2
<1>9. BudgetStamped' /\ BudgetRespected'
  BY <1>1, <1>2, <1>4 DEF TypeOK, BudgetStamped, BudgetRespected
<1> QED BY <1>5, <1>6, <1>7, <1>8, <1>9

\* fail.lua preserves the invariant on its retry and its dead-letter branch.
LEMMA FailInv ==
  ASSUME QueueInv, NEW t \in tokens, NEW reason \in Reasons,
         NEW retryable \in BOOLEAN, Fail(t, reason, retryable)
  PROVE  QueueInv'
<1> USE DEF QueueInv
<1> DEFINE j == t.job
           Buried ==
             /\ status' = [status EXCEPT ![j] = "dead"]
             /\ deadReason' = [deadReason EXCEPT ![j] = reason]
             /\ escalate' = [escalate EXCEPT ![j] = (reason = "unclassified")]
             /\ dead' = dead \cup {j}
             /\ counters' = [counters EXCEPT !["dead"] = @ + 1]
             /\ scheduled' = scheduled
           Retried ==
             /\ ~DeadLetters(j, retryable)
             /\ status' = [status EXCEPT ![j] = "scheduled"]
             /\ \E backoff \in Backoffs(attempts[j]) :
                  scheduled' = [scheduled EXCEPT ![j] = backoff]
             /\ UNCHANGED <<deadReason, escalate, dead, counters>>
<1>1. /\ j \in Jobs /\ status[j] = "processing"
      /\ processing[j] # Off /\ expires[j] = Off
  BY OwnerHoldsJob DEF Fail
<1>2. /\ trail' = [trail EXCEPT ![j] = Recorded(j, reason)]
      /\ processing' = [processing EXCEPT ![j] = Off]
      /\ claimedBy' = [claimedBy EXCEPT ![j] = Nil]
      /\ claimId' = [claimId EXCEPT ![j] = Nil]
      /\ UNCHANGED <<attempts, budget, intact, expires, pending, done, orphans,
                     tokens>>
      /\ Buried \/ Retried
  BY DEF Fail
<1> HIDE DEF j
<1>3. Backoffs(attempts[j]) \subseteq Nat
  BY QueueConstants DEF Backoffs
<1>4. TypeOK'
  <2>1. /\ processing' \in [Jobs -> Nat \cup {Off}]
        /\ claimedBy' \in [Jobs -> Workers \cup {Nil}]
        /\ claimId' \in [Jobs -> ClaimIds \cup {Nil}]
    BY <1>2 DEF TypeOK
  <2>2. trail' \in [Jobs -> Seq(Reasons)]
    <3>1. Recorded(j, reason) \in Seq(Reasons)
      BY <1>1, RecordedTrail
    <3> QED BY <1>2, <3>1 DEF TypeOK
  <2>3. status' \in [Jobs -> Statuses]
    <3>1. status \in [Jobs -> Statuses] /\ {"dead", "scheduled"} \subseteq Statuses
      BY DEF TypeOK, Statuses
    <3>2. CASE Buried
      BY <3>1, <3>2
    <3>3. CASE Retried
      BY <3>1, <3>3
    <3> QED BY <1>2, <3>2, <3>3
  <2>4. scheduled' \in [Jobs -> Nat \cup {Off}]
    <3>1. scheduled \in [Jobs -> Nat \cup {Off}]
      BY DEF TypeOK
    <3>2. CASE Buried
      BY <3>1, <3>2
    <3>3. CASE Retried
      BY <1>3, <3>1, <3>3
    <3> QED BY <1>2, <3>2, <3>3
  <2>5. /\ deadReason' \in [Jobs -> Reasons \cup {Nil}]
        /\ dead' \subseteq Jobs
    <3>1. /\ deadReason \in [Jobs -> Reasons \cup {Nil}]
          /\ dead \subseteq Jobs
      BY DEF TypeOK
    <3> QED BY <1>1, <1>2, <3>1
  <2>6. escalate' \in [Jobs -> BOOLEAN]
    BY <1>1, <1>2 DEF TypeOK
  <2>7. counters' \in [CounterNames -> Nat]
    <3>1. counters \in [CounterNames -> Nat] /\ "dead" \in CounterNames
      BY DEF TypeOK, CounterNames
    <3> QED BY <1>2, <3>1
  <2> QED BY <1>2, <2>1, <2>2, <2>3, <2>4, <2>5, <2>6, <2>7 DEF TypeOK
<1>5. OneStructure'
  <2>1. NoDuplicatePending'
    BY <1>2 DEF OneStructure, NoDuplicatePending
  <2>2. ASSUME NEW i \in Jobs PROVE PlacedByStatus(i)'
    <3>1. PlacedByStatus(i)
      BY DEF OneStructure
    <3>2. CASE i # j
      BY <1>1, <1>2, <3>1, <3>2 DEF TypeOK, PlacedByStatus, Members
    <3>3. CASE i = j
      <4>1. /\ i \notin Members(pending) /\ scheduled[i] = Off /\ i \notin dead
        BY <1>1, <3>1, <3>3 DEF PlacedByStatus
      <4>2. CASE Buried
        BY <1>1, <1>2, <3>3, <4>1, <4>2 DEF TypeOK, PlacedByStatus, Members
      <4>3. CASE Retried
        BY <1>1, <1>2, <1>3, <3>3, <4>1, <4>3 DEF TypeOK, PlacedByStatus, Members, Off
      <4> QED BY <1>2, <4>2, <4>3
    <3> QED BY <3>2, <3>3
  <2> QED BY <2>1, <2>2, <1>2 DEF OneStructure
<1>6. ClaimStamps'
  BY <1>1, <1>2 DEF TypeOK, ClaimStamps
<1>7. ExpiryOfDone'
  BY <1>1, <1>2 DEF TypeOK, ExpiryOfDone
<1>8. BudgetStamped' /\ BudgetRespected'
  BY <1>1, <1>2 DEF TypeOK, BudgetStamped, BudgetRespected, DeadLetters
<1> QED BY <1>4, <1>5, <1>6, <1>7, <1>8

\* heartbeat.lua preserves the invariant: it only moves a deadline.
LEMMA HeartbeatInv ==
  ASSUME QueueInv, NEW t \in tokens, Heartbeat(t)
  PROVE  QueueInv'
<1> USE DEF QueueInv
<1>1. t.job \in Jobs /\ status[t.job] = "processing"
  BY OwnerHoldsJob DEF Heartbeat
<1>2. processing' \in [Jobs -> Nat \cup {Off}]
  BY QueueConstants DEF TypeOK, Heartbeat
<1>3. TypeOK'
  BY <1>2 DEF TypeOK, Heartbeat, hashVars
<1>4. OneStructure'
  <2>1. ASSUME NEW i \in Jobs PROVE PlacedByStatus(i)'
    BY <1>1, QueueConstants
       DEF TypeOK, OneStructure, PlacedByStatus, Heartbeat, hashVars, Members, Off
  <2> QED BY <2>1 DEF OneStructure, NoDuplicatePending, Heartbeat
<1>5. ClaimStamps' /\ ExpiryOfDone' /\ BudgetStamped' /\ BudgetRespected'
  BY DEF ClaimStamps, ExpiryOfDone, BudgetStamped, BudgetRespected, Heartbeat, hashVars
<1> QED BY <1>3, <1>4, <1>5

\* promote_due.lua preserves the invariant: the promoted ids were not in line.
LEMMA PromoteDueInv ==
  ASSUME QueueInv, PromoteDue
  PROVE  QueueInv'
<1> USE DEF QueueInv
<1>1. PICK B \in Batches(DueRetries) : \E order \in Orderings(B) :
        /\ pending' = pending \o order
        /\ Unschedule(B)
        /\ status' = [j \in Jobs |-> IF j \in B THEN "pending" ELSE status[j]]
  BY DEF PromoteDue
<1>2. PICK order \in Orderings(B) : pending' = pending \o order
  BY <1>1
<1> DEFINE line == pending \o order
<1>3. /\ line \in Seq(Jobs) /\ Distinct(line)
      /\ Members(line) = Members(pending) \cup B
  BY ClaimLine
<1>4. B \subseteq Jobs /\ \A j \in B : scheduled[j] = 0 /\ status[j] = "scheduled"
  <2>1. B \subseteq DueRetries
    BY BatchIsFinite DEF DueRetries
  <2> QED BY <2>1 DEF DueRetries, OneStructure, PlacedByStatus, Off
<1>5. /\ pending' \in Seq(Jobs) /\ Distinct(pending')
      /\ Members(pending') = Members(pending) \cup B
  BY <1>2, <1>3
<1>6. /\ scheduled' = [j \in Jobs |-> IF j \in B THEN Off ELSE scheduled[j]]
      /\ status' = [j \in Jobs |-> IF j \in B THEN "pending" ELSE status[j]]
      /\ UNCHANGED <<attempts, budget, claimedBy, claimId, deadReason, escalate,
                     intact, expires, trail, processing, dead, done, orphans,
                     counters, tokens>>
  BY <1>1 DEF PromoteDue, Unschedule
<1>7. TypeOK'
  <2>1. /\ scheduled' \in [Jobs -> Nat \cup {Off}]
        /\ status' \in [Jobs -> Statuses]
    BY <1>6 DEF TypeOK, Statuses
  <2> QED BY <1>5, <1>6, <2>1 DEF TypeOK
<1>8. OneStructure'
  <2>1. NoDuplicatePending'
    BY <1>5 DEF NoDuplicatePending, Distinct
  <2>2. ASSUME NEW i \in Jobs PROVE PlacedByStatus(i)'
    BY <1>4, <1>5, <1>6 DEF TypeOK, OneStructure, PlacedByStatus, Off
  <2> QED BY <2>1, <2>2, <1>6 DEF OneStructure
<1>9. ClaimStamps' /\ ExpiryOfDone' /\ BudgetStamped' /\ BudgetRespected'
  BY <1>4, <1>6 DEF ClaimStamps, ExpiryOfDone, BudgetStamped, BudgetRespected
<1> QED BY <1>7, <1>8, <1>9

\* The expired leases of a batch that have no attempt left, and the others.
SpentOf(R) == {j \in R : attempts[j] >= budget[j]}
BackOf(R) == R \ SpentOf(R)

\* The effect of reap.lua on a batch R of expired leases.
ReapsJobs(R) ==
  /\ IsFiniteSet(R)
  /\ \A j \in R : status[j] = "processing" /\ processing[j] = 0
  /\ pending' \in Seq(Jobs) /\ Distinct(pending')
  /\ Members(pending') = Members(pending) \cup BackOf(R)
  /\ processing' = [j \in Jobs |-> IF j \in R THEN Off ELSE processing[j]]
  /\ orphans' = orphans
  /\ trail' = [j \in Jobs |-> IF j \in R THEN Recorded(j, "process_crash")
                              ELSE trail[j]]
  /\ claimedBy' = [j \in Jobs |-> IF j \in R THEN Nil ELSE claimedBy[j]]
  /\ claimId' = [j \in Jobs |-> IF j \in R THEN Nil ELSE claimId[j]]
  /\ status' = [j \in Jobs |-> IF j \in SpentOf(R) THEN "dead"
                               ELSE IF j \in BackOf(R) THEN "pending"
                               ELSE status[j]]
  /\ deadReason' = [j \in Jobs |-> IF j \in SpentOf(R) THEN "process_crash"
                                   ELSE deadReason[j]]
  /\ escalate' = [j \in Jobs |-> IF j \in SpentOf(R) THEN FALSE ELSE escalate[j]]
  /\ dead' = dead \cup SpentOf(R)
  /\ counters' = [counters EXCEPT !["dead"] = @ + Cardinality(SpentOf(R))]
  /\ UNCHANGED <<attempts, budget, intact, expires, scheduled, done, tokens>>

\* The reaper finds a hash behind every expired lease, so it requeues or
\* dead-letters the whole batch and quarantines nothing.
LEMMA ReapStep ==
  ASSUME QueueInv, Reap
  PROVE  \E R \in SUBSET Jobs : ReapsJobs(R)
<1> USE DEF QueueInv
<1>1. PICK R \in Batches(ExpiredLeases) : ReapBatch(R)
  BY DEF Reap
<1>2. /\ R \subseteq Jobs /\ IsFiniteSet(R)
      /\ \A j \in R : status[j] = "processing" /\ processing[j] = 0
  <2>1. R \subseteq ExpiredLeases /\ IsFiniteSet(R)
    BY BatchIsFinite DEF ExpiredLeases
  <2>2. \A j \in ExpiredLeases : status[j] = "processing"
    BY DEF ExpiredLeases, OneStructure, PlacedByStatus, Off
  <2> QED BY <2>1, <2>2 DEF ExpiredLeases
<1>3. {j \in R : ~Exists(j)} = {}
  BY <1>2 DEF Exists
<1>4. PICK order \in Orderings(BackOf(R)) : pending' = pending \o order
  <2>1. R \ {} = R
    OBVIOUS
  <2> QED BY <1>1, <1>3, <2>1 DEF ReapBatch, BackOf, SpentOf
<1>5. /\ pending' \in Seq(Jobs) /\ Distinct(pending')
      /\ Members(pending') = Members(pending) \cup BackOf(R)
  <2>0. BackOf(R) \subseteq Jobs /\ IsFiniteSet(BackOf(R))
    BY <1>2, FS_Subset DEF BackOf
  <2>1. order \in Seq(Jobs) /\ Members(order) = BackOf(R) /\ Distinct(order)
    BY <2>0, OrderingMembers, SeqMonotonic
  <2>2. pending \in Seq(Jobs) /\ Distinct(pending)
    BY DEF TypeOK, OneStructure, NoDuplicatePending, Distinct
  <2>3. Members(pending) \cap BackOf(R) = {}
    BY <1>2 DEF OneStructure, PlacedByStatus, BackOf
  <2> QED BY <1>4, <2>1, <2>2, <2>3, ConcatMembers
<1>6. /\ processing' = [j \in Jobs |-> IF j \in R THEN Off ELSE processing[j]]
      /\ orphans' = orphans
      /\ trail' = [j \in Jobs |-> IF j \in R THEN Recorded(j, "process_crash")
                                  ELSE trail[j]]
      /\ claimedBy' = [j \in Jobs |-> IF j \in R THEN Nil ELSE claimedBy[j]]
      /\ claimId' = [j \in Jobs |-> IF j \in R THEN Nil ELSE claimId[j]]
      /\ status' = [j \in Jobs |-> IF j \in SpentOf(R) THEN "dead"
                                   ELSE IF j \in BackOf(R) THEN "pending"
                                   ELSE status[j]]
      /\ deadReason' = [j \in Jobs |-> IF j \in SpentOf(R) THEN "process_crash"
                                       ELSE deadReason[j]]
      /\ escalate' = [j \in Jobs |-> IF j \in SpentOf(R) THEN FALSE
                                     ELSE escalate[j]]
      /\ dead' = dead \cup SpentOf(R)
      /\ counters' = [counters EXCEPT !["dead"] = @ + Cardinality(SpentOf(R))]
      /\ UNCHANGED <<attempts, budget, intact, expires, scheduled, done, tokens>>
  <2>1. R \ {} = R /\ orphans \cup {} = orphans
    OBVIOUS
  <2> QED BY <1>1, <1>3, <2>1 DEF ReapBatch, BackOf, SpentOf
<1> QED BY <1>2, <1>5, <1>6 DEF ReapsJobs

\* reap.lua preserves the invariant for the whole batch, requeued or
\* dead-lettered.
LEMMA ReapInv ==
  ASSUME QueueInv, Reap
  PROVE  QueueInv'
<1> USE DEF QueueInv
<1>1. PICK R \in SUBSET Jobs : ReapsJobs(R)
  BY ReapStep
<1>2. /\ processing' = [j \in Jobs |-> IF j \in R THEN Off ELSE processing[j]]
      /\ orphans' = orphans
      /\ trail' = [j \in Jobs |-> IF j \in R THEN Recorded(j, "process_crash")
                                  ELSE trail[j]]
      /\ claimedBy' = [j \in Jobs |-> IF j \in R THEN Nil ELSE claimedBy[j]]
      /\ claimId' = [j \in Jobs |-> IF j \in R THEN Nil ELSE claimId[j]]
      /\ status' = [j \in Jobs |-> IF j \in SpentOf(R) THEN "dead"
                                   ELSE IF j \in BackOf(R) THEN "pending"
                                   ELSE status[j]]
      /\ deadReason' = [j \in Jobs |-> IF j \in SpentOf(R) THEN "process_crash"
                                       ELSE deadReason[j]]
      /\ escalate' = [j \in Jobs |-> IF j \in SpentOf(R) THEN FALSE
                                     ELSE escalate[j]]
      /\ dead' = dead \cup SpentOf(R)
      /\ counters' = [counters EXCEPT !["dead"] = @ + Cardinality(SpentOf(R))]
      /\ UNCHANGED <<attempts, budget, intact, expires, scheduled, done, tokens>>
  BY <1>1 DEF ReapsJobs
<1>3. /\ R \subseteq Jobs /\ IsFiniteSet(SpentOf(R))
      /\ \A j \in R : status[j] = "processing"
  BY <1>1, FS_Subset DEF ReapsJobs, SpentOf
<1>4. /\ pending' \in Seq(Jobs) /\ Distinct(pending')
      /\ Members(pending') = Members(pending) \cup BackOf(R)
  BY <1>1 DEF ReapsJobs
<1>5. Cardinality(SpentOf(R)) \in Nat
  BY <1>3, FS_CardinalityType
<1>6. TypeOK'
  <2>1. /\ processing' \in [Jobs -> Nat \cup {Off}]
        /\ claimedBy' \in [Jobs -> Workers \cup {Nil}]
        /\ claimId' \in [Jobs -> ClaimIds \cup {Nil}]
    BY <1>2 DEF TypeOK
  <2>2. trail' \in [Jobs -> Seq(Reasons)]
    <3>1. \A j \in Jobs : Recorded(j, "process_crash") \in Seq(Reasons)
      BY RecordedTrail, QueueConstants
    <3> QED BY <1>2, <3>1 DEF TypeOK
  <2>3. status' \in [Jobs -> Statuses]
    BY <1>2 DEF TypeOK, Statuses
  <2>4. /\ deadReason' \in [Jobs -> Reasons \cup {Nil}]
        /\ dead' \subseteq Jobs /\ orphans' \subseteq Jobs
    BY <1>2, <1>3, QueueConstants DEF TypeOK, SpentOf
  <2>5. escalate' \in [Jobs -> BOOLEAN]
    BY <1>2 DEF TypeOK
  <2>6. counters' \in [CounterNames -> Nat]
    BY <1>2, <1>5 DEF TypeOK, CounterNames
  <2> QED BY <1>2, <1>4, <2>1, <2>2, <2>3, <2>4, <2>5, <2>6 DEF TypeOK
<1>7. OneStructure'
  <2>1. NoDuplicatePending'
    BY <1>4 DEF NoDuplicatePending, Distinct
  <2>2. ASSUME NEW i \in Jobs PROVE PlacedByStatus(i)'
    BY <1>2, <1>3, <1>4 DEF TypeOK, OneStructure, PlacedByStatus, BackOf, SpentOf
  <2> QED BY <2>1, <2>2, <1>2 DEF OneStructure
<1>8. ClaimStamps'
  BY <1>2, <1>3 DEF TypeOK, ClaimStamps, BackOf, SpentOf
<1>9. ExpiryOfDone'
  BY <1>2, <1>3 DEF TypeOK, ExpiryOfDone, BackOf, SpentOf
<1>10. BudgetStamped' /\ BudgetRespected'
  BY <1>2, <1>3 DEF TypeOK, BudgetStamped, BudgetRespected, BackOf, SpentOf
<1> QED BY <1>6, <1>7, <1>8, <1>9, <1>10

\* requeue_dead.lua preserves the invariant: the id moves from dead to pending.
LEMMA RequeueDeadInv ==
  ASSUME QueueInv, NEW j \in Jobs, RequeueDead(j)
  PROVE  QueueInv'
<1> USE DEF QueueInv
<1>1. pending \in Seq(Jobs) /\ Distinct(pending) /\ j \notin Members(pending)
  BY DEF TypeOK, OneStructure, NoDuplicatePending, PlacedByStatus, Distinct,
         RequeueDead
<1>2. /\ pending' \in Seq(Jobs) /\ Distinct(pending')
      /\ Members(pending') = Members(pending) \cup {j}
  BY <1>1, AppendMembers DEF RequeueDead
<1>3. TypeOK'
  <2>1. status' \in [Jobs -> Statuses] /\ attempts' \in [Jobs -> Nat]
    BY DEF TypeOK, RequeueDead, Statuses
  <2>2. /\ deadReason' \in [Jobs -> Reasons \cup {Nil}]
        /\ escalate' \in [Jobs -> BOOLEAN] /\ dead' \subseteq Jobs
    BY DEF TypeOK, RequeueDead
  <2>3. counters' \in [CounterNames -> Nat]
    BY DEF TypeOK, RequeueDead, CounterNames
  <2> QED BY <1>2, <2>1, <2>2, <2>3 DEF TypeOK, RequeueDead
<1>4. OneStructure'
  <2>1. NoDuplicatePending'
    BY <1>2 DEF NoDuplicatePending, Distinct
  <2>2. ASSUME NEW i \in Jobs PROVE PlacedByStatus(i)'
    BY <1>2 DEF TypeOK, OneStructure, PlacedByStatus, RequeueDead
  <2> QED BY <2>1, <2>2 DEF OneStructure, RequeueDead
<1>5. ClaimStamps' /\ ExpiryOfDone'
  BY DEF TypeOK, ClaimStamps, ExpiryOfDone, RequeueDead
<1>6. BudgetStamped' /\ BudgetRespected'
  <2>1. /\ attempts \in [Jobs -> Nat] /\ budget \in [Jobs -> Nat]
        /\ status \in [Jobs -> Statuses]
    BY DEF TypeOK
  <2> QED BY <2>1 DEF BudgetStamped, BudgetRespected, RequeueDead
<1> QED BY <1>3, <1>4, <1>5, <1>6

\* The prune of verify_invariants() touches the done set only.
LEMMA SweepDoneInv ==
  ASSUME QueueInv, SweepDone
  PROVE  QueueInv'
<1> USE DEF QueueInv
<1>1. done' \in [Jobs -> Nat \cup {Off}]
  BY DEF TypeOK, SweepDone
<1>2. UNCHANGED <<hashVars, pending, scheduled, processing, dead, orphans,
                  counters, tokens>>
  BY DEF SweepDone
<1> QED
  BY <1>1, <1>2 DEF hashVars, TypeOK, OneStructure, NoDuplicatePending,
     PlacedByStatus, ClaimStamps, ExpiryOfDone, BudgetStamped, BudgetRespected

\* The clock preserves the invariant: only completed hashes carry a TTL.
LEMMA TickInv ==
  ASSUME QueueInv, Tick
  PROVE  QueueInv'
<1> USE DEF QueueInv
<1> DEFINE gone == {j \in Jobs : expires[j] = 1}
<1>1. /\ scheduled' = [j \in Jobs |-> CountDown(scheduled[j])]
      /\ processing' = [j \in Jobs |-> CountDown(processing[j])]
      /\ done' = [j \in Jobs |-> IF done[j] = Off THEN Off
                                 ELSE Minimum(done[j] + 1, DoneKeep)]
      /\ expires' = [j \in Jobs |-> IF j \in gone THEN Off ELSE CountDown(expires[j])]
      /\ status' = [j \in Jobs |-> IF j \in gone THEN "absent" ELSE status[j]]
      /\ trail' = [j \in Jobs |-> IF j \in gone THEN <<>> ELSE trail[j]]
      /\ UNCHANGED <<attempts, budget, claimedBy, claimId, deadReason, escalate,
                     intact, pending, dead, orphans, counters, tokens>>
  BY DEF Tick
<1>2. \A n \in Nat \cup {Off} : /\ CountDown(n) \in Nat \cup {Off}
                               /\ CountDown(n) = Off <=> n = Off
  BY DEF Off, CountDown
<1>3. \A j \in gone : status[j] = "done"
  BY DEF ExpiryOfDone, Off
<1>4. /\ scheduled \in [Jobs -> Nat \cup {Off}]
      /\ processing \in [Jobs -> Nat \cup {Off}]
      /\ expires \in [Jobs -> Nat \cup {Off}]
      /\ done \in [Jobs -> Nat \cup {Off}]
  BY DEF TypeOK
<1>5. TypeOK'
  <2>1. /\ scheduled' \in [Jobs -> Nat \cup {Off}]
        /\ processing' \in [Jobs -> Nat \cup {Off}]
        /\ expires' \in [Jobs -> Nat \cup {Off}]
    <3>1. scheduled' \in [Jobs -> Nat \cup {Off}]
      BY <1>1, <1>4 DEF CountDown, Off
    <3>2. processing' \in [Jobs -> Nat \cup {Off}]
      BY <1>1, <1>4 DEF CountDown, Off
    <3>3. expires' \in [Jobs -> Nat \cup {Off}]
      BY <1>1, <1>4 DEF CountDown, Off
    <3> QED BY <3>1, <3>2, <3>3
  <2>2. done' \in [Jobs -> Nat \cup {Off}]
    <3>1. \A n \in Nat : Minimum(n + 1, DoneKeep) \in Nat
      BY QueueConstants DEF Minimum
    <3>2. \A j \in Jobs : done[j] # Off => Minimum(done[j] + 1, DoneKeep) \in Nat
      BY <1>4, <3>1
    <3> HIDE DEF Minimum
    <3> QED BY <1>1, <3>2
  <2>3. status' \in [Jobs -> Statuses]
    BY <1>1 DEF TypeOK, Statuses
  <2>4. trail' \in [Jobs -> Seq(Reasons)]
    <3>1. trail \in [Jobs -> Seq(Reasons)] /\ <<>> \in Seq(Reasons)
      BY EmptySeq DEF TypeOK
    <3> QED BY <1>1, <3>1
  <2> QED BY <1>1, <2>1, <2>2, <2>3, <2>4 DEF TypeOK
<1>6. OneStructure'
  <2>1. ASSUME NEW i \in Jobs PROVE PlacedByStatus(i)'
    <3>1. /\ scheduled'[i] = Off <=> scheduled[i] = Off
          /\ processing'[i] = Off <=> processing[i] = Off
      BY <1>1, <1>2, <1>4
    <3> QED BY <1>1, <1>3, <3>1 DEF OneStructure, PlacedByStatus, Members
  <2> QED BY <2>1, <1>1 DEF OneStructure, NoDuplicatePending
<1>7. ClaimStamps'
  BY <1>1, <1>3 DEF ClaimStamps
<1>8. ExpiryOfDone'
  BY <1>1, <1>2, <1>3, <1>4 DEF ExpiryOfDone
<1>9. BudgetStamped' /\ BudgetRespected'
  BY <1>1 DEF BudgetStamped, BudgetRespected
<1> QED BY <1>5, <1>6, <1>7, <1>8, <1>9

\* A damaged payload leaves every structure as it is.
LEMMA CorruptInv ==
  ASSUME QueueInv, NEW j \in Jobs, Corrupt(j)
  PROVE  QueueInv'
<1> USE DEF QueueInv
<1>1. intact' \in [Jobs -> BOOLEAN]
  BY DEF TypeOK, Corrupt
<1> QED
  BY <1>1 DEF Corrupt, placeVars, TypeOK, OneStructure, NoDuplicatePending,
     PlacedByStatus, ClaimStamps, ExpiryOfDone, BudgetStamped, BudgetRespected

\* A client losing its claim leaves every structure as it is.
LEMMA DropInv ==
  ASSUME QueueInv, NEW t \in tokens, Drop(t)
  PROVE  QueueInv'
BY DEF QueueInv, Drop, hashVars, placeVars, TypeOK, OneStructure,
   NoDuplicatePending, PlacedByStatus, ClaimStamps, ExpiryOfDone,
   BudgetStamped, BudgetRespected

-----------------------------------------------------------------------------
(* Theorems. *)

\* Every step of the queue preserves the invariant.
LEMMA NextInv == QueueInv /\ [Next]_vars => QueueInv'
<1> SUFFICES ASSUME QueueInv, [Next]_vars PROVE QueueInv'
  OBVIOUS
<1>1. ASSUME NEW j \in Jobs, NEW b \in Budgets, Enqueue(j, b) PROVE QueueInv'
  BY <1>1, EnqueueInv
<1>2. ASSUME NEW w \in Workers, NEW c \in ClaimIds, ClaimJob(w, c) PROVE QueueInv'
  BY <1>2, ClaimJobInv
<1>3. CASE ClaimNothing
  BY <1>3, ClaimNothingInv
<1>4. ASSUME NEW t \in tokens, Ack(t) PROVE QueueInv'
  BY <1>4, AckInv
<1>5. ASSUME NEW t \in tokens, NEW r \in Reasons, NEW retryable \in BOOLEAN,
             FailClaim(t, r, retryable)
      PROVE  QueueInv'
  BY <1>5, FailInv DEF FailClaim
<1>6. ASSUME NEW t \in tokens, FailCorrupt(t) PROVE QueueInv'
  BY <1>6, FailInv, QueueConstants DEF FailCorrupt
<1>7. ASSUME NEW t \in tokens, Heartbeat(t) PROVE QueueInv'
  BY <1>7, HeartbeatInv
<1>8. CASE PromoteDue
  BY <1>8, PromoteDueInv
<1>9. CASE Reap
  BY <1>9, ReapInv
<1>10. ASSUME NEW j \in Jobs, RequeueDead(j) PROVE QueueInv'
  BY <1>10, RequeueDeadInv
<1>11. CASE SweepDone
  BY <1>11, SweepDoneInv
<1>12. CASE Tick
  BY <1>12, TickInv
<1>13. ASSUME NEW j \in Jobs, Corrupt(j) PROVE QueueInv'
  BY <1>13, CorruptInv
<1>14. ASSUME NEW t \in tokens, Drop(t) PROVE QueueInv'
  BY <1>14, DropInv
<1>15. CASE UNCHANGED vars
  BY <1>15 DEF QueueInv, vars, hashVars, placeVars, TypeOK, OneStructure,
     NoDuplicatePending, PlacedByStatus, ClaimStamps, ExpiryOfDone,
     BudgetStamped, BudgetRespected
<1> QED
  BY <1>1, <1>2, <1>3, <1>4, <1>5, <1>6, <1>7, <1>8, <1>9, <1>10, <1>11,
     <1>12, <1>13, <1>14, <1>15 DEF Next

\* The invariant holds in every state the scripts can reach.
THEOREM QueueInvariant == Spec => []QueueInv
<1> QED BY InitInv, NextInv, PTL DEF Spec

\* Every variable keeps its type, whatever the scripts do.
THEOREM TypeCorrect == Spec => []TypeOK
<1>1. QueueInv => TypeOK
  BY DEF QueueInv
<1> QED BY <1>1, QueueInvariant, PTL

\* The design invariant of queue_schema.py for unfinished jobs: at every moment
\* a live job is in exactly one structure and no reference dangles.
THEOREM ExactlyOneStructure == Spec => []OneStructure
<1>1. QueueInv => OneStructure
  BY DEF QueueInv
<1> QED BY <1>1, QueueInvariant, PTL

\* No job is attempted more often than max_attempts allows, and a job that
\* waits to run has an attempt left.
THEOREM BudgetsHold == Spec => []BudgetRespected
<1>1. QueueInv => BudgetRespected
  BY DEF QueueInv
<1> QED BY <1>1, QueueInvariant, PTL

-----------------------------------------------------------------------------
(* The claim fence. *)

\* What a step can do to the stamps owner_check reads: stamp a fresh claim on
\* a job, leave its claim as it is, or end it.
KeepsFence(i) ==
  \/ /\ status'[i] = "processing" /\ claimId'[i] # claimId[i]
     /\ Fresh(claimId'[i])
  \/ /\ status'[i] = status[i]
     /\ claimId'[i] = claimId[i] /\ claimedBy'[i] = claimedBy[i]
  \/ status'[i] # "processing"

\* How a step changes the claim stamped on a job: it keeps it, clears it, or
\* stamps one that is fresh.
LEMMA StampStep ==
  ASSUME QueueInv, Next, NEW i \in Jobs
  PROVE  KeepsFence(i)
<1> USE DEF KeepsFence
<1>0. status \in [Jobs -> Statuses]
  BY DEF QueueInv, TypeOK
<1>1. ASSUME NEW j \in Jobs, NEW b \in Budgets, Enqueue(j, b) PROVE KeepsFence(i)
  BY <1>0, <1>1 DEF Enqueue
<1>2. ASSUME NEW w \in Workers, NEW c \in ClaimIds, ClaimJob(w, c) PROVE KeepsFence(i)
  <2>1. PICK B \in Batches(DueRetries) : \E order \in Orderings(B) :
          PopJob(pending \o order, w, c)
    BY <1>2 DEF ClaimJob
  <2>2. PICK order \in Orderings(B) : PopJob(pending \o order, w, c)
    BY <2>1
  <2> DEFINE j == (pending \o order)[FirstLive(pending \o order)]
  <2>3. /\ status' = [status EXCEPT ![j] = "processing"]
        /\ claimId' = [claimId EXCEPT ![j] = c]
        /\ claimedBy' = [claimedBy EXCEPT ![j] = w]
    BY <2>2 DEF PopJob
  <2>4. Fresh(c) /\ claimId[i] # c
    BY <1>2 DEF ClaimJob, Fresh
  <2>5. claimId \in [Jobs -> ClaimIds \cup {Nil}]
        /\ claimedBy \in [Jobs -> Workers \cup {Nil}]
    BY DEF QueueInv, TypeOK
  <2> HIDE DEF j
  <2>6. CASE i = j
    BY <1>0, <2>3, <2>4, <2>5, <2>6
  <2>7. CASE i # j
    BY <1>0, <2>3, <2>5, <2>7
  <2> QED BY <2>6, <2>7
<1>3. CASE ClaimNothing
  BY <1>3 DEF ClaimNothing, hashVars
<1>4. ASSUME NEW t \in tokens, Ack(t) PROVE KeepsFence(i)
  <2>1. t.job \in Jobs
    BY DEF QueueInv, TypeOK, Token
  <2> QED BY <1>0, <1>4, <2>1 DEF Ack, QueueInv, TypeOK
<1>5. ASSUME NEW t \in tokens, NEW r \in Reasons, NEW retryable \in BOOLEAN,
             Fail(t, r, retryable)
      PROVE  KeepsFence(i)
  <2>1. t.job \in Jobs
    BY DEF QueueInv, TypeOK, Token
  <2>2. /\ claimedBy' = [claimedBy EXCEPT ![t.job] = Nil]
        /\ claimId' = [claimId EXCEPT ![t.job] = Nil]
        /\ \/ status' = [status EXCEPT ![t.job] = "dead"]
           \/ status' = [status EXCEPT ![t.job] = "scheduled"]
    BY <1>5 DEF Fail
  <2> QED BY <1>0, <2>1, <2>2 DEF QueueInv, TypeOK
<1>6. ASSUME NEW t \in tokens, Heartbeat(t) PROVE KeepsFence(i)
  BY <1>6 DEF Heartbeat, hashVars
<1>7. CASE PromoteDue
  <2>1. PICK B \in Batches(DueRetries) :
          status' = [j \in Jobs |-> IF j \in B THEN "pending" ELSE status[j]]
    BY <1>7 DEF PromoteDue
  <2> QED BY <1>7, <2>1 DEF PromoteDue
<1>8. CASE Reap
  <2>1. PICK R \in Batches(ExpiredLeases) : ReapBatch(R)
    BY <1>8 DEF Reap
  <2>2. i \in R => Exists(i)
    BY BatchIsFinite DEF QueueInv, ExpiredLeases, OneStructure, PlacedByStatus, Exists, Off
  <2> QED BY <2>1, <2>2 DEF ReapBatch
<1>9. ASSUME NEW j \in Jobs, RequeueDead(j) PROVE KeepsFence(i)
  BY <1>0, <1>9 DEF RequeueDead
<1>10. CASE SweepDone
  BY <1>10 DEF SweepDone, hashVars
<1>11. CASE Tick
  BY <1>11 DEF Tick
<1>12. ASSUME NEW j \in Jobs, Corrupt(j) PROVE KeepsFence(i)
  BY <1>12 DEF Corrupt
<1>13. ASSUME NEW t \in tokens, Drop(t) PROVE KeepsFence(i)
  BY <1>13 DEF Drop, hashVars
<1> HIDE DEF KeepsFence
<1>14. ASSUME NEW t \in tokens, FailCorrupt(t) PROVE KeepsFence(i)
  BY <1>5, <1>14, QueueConstants DEF FailCorrupt
<1>15. ASSUME NEW t \in tokens, NEW r \in Reasons, NEW retryable \in BOOLEAN,
              FailClaim(t, r, retryable)
       PROVE  KeepsFence(i)
  BY <1>5, <1>15 DEF FailClaim
<1> QED
  BY <1>1, <1>2, <1>3, <1>4, <1>6, <1>7, <1>8, <1>9, <1>10, <1>11, <1>12,
     <1>13, <1>14, <1>15 DEF Next

\* A worker that lost its claim (lease expired, job reclaimed, failed or
\* completed) is fenced for good: no later step makes its token pass
\* owner_check again.
THEOREM FenceHolds == Spec => FencedForever
<1>1. QueueInv /\ [Next]_vars => [\A t \in tokens : ~Owns(t) => ~Owns(t)']_vars
  <2> SUFFICES ASSUME QueueInv, Next, NEW t \in tokens, Owns(t)'
               PROVE  Owns(t)
    BY DEF vars
  <2>1. t.job \in Jobs
    BY DEF QueueInv, TypeOK, Token
  <2>2. /\ status'[t.job] = "processing"
        /\ claimId'[t.job] = t.claim /\ claimedBy'[t.job] = t.worker
    BY DEF Owns, OwnerCheck
  <2>3. ~Fresh(t.claim)
    BY DEF Fresh
  <2>4. /\ status[t.job] = "processing"
        /\ claimId[t.job] = t.claim /\ claimedBy[t.job] = t.worker
    BY <2>1, <2>2, <2>3, StampStep DEF KeepsFence
  <2> QED BY <2>4 DEF Owns, OwnerCheck, Exists
<1> QED BY <1>1, QueueInvariant, PTL DEF Spec, FencedForever
=============================================================================

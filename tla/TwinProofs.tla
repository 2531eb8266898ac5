----------------------------- MODULE TwinProofs -----------------------------
(***************************************************************************)
(* Proofs about the twin: a migration is whole (TwinMigration), no row      *)
(* falls between the cursor and the replica (TwinReplication), a nonce      *)
(* opens one envelope and never in secret (TwinCustodian), and the          *)
(* detector's verdict can be relied on (TwinDetection).                     *)
(***************************************************************************)
EXTENDS TwinReplication, TwinMigration, TwinDetection, TwinCustodian,
        FiniteSetTheorems, TLAPS

-----------------------------------------------------------------------------
(* TwinMigration.                                                           *)

MigrationShape ==
  /\ meta.key \in {"none", "old", "new"}
  /\ meta = [credentials |-> meta.credentials, key |-> meta.key]
  /\ sealed \in [Entries -> {"none", "old", "new"}]  /\ shipKey \in {"old", "new"}
  /\ mig \in [step : {"idle", "reseal", "event"}, picked : SUBSET Entries,
              done : SUBSET Entries]

\* Once the transaction of migrate() is committed, and until its event is
\* posted, the registration and every selected entry are under the new key.
CommittedWhole ==
  mig.step = "event" =>
    /\ meta.key = "new"
    /\ \A i \in mig.picked : sealed[i] = "new"

MigrationInv == MigrationShape /\ CommittedWhole

LEMMA MigrationInitially == MigrationInit => MigrationInv
BY DEF MigrationInit, MigrationInv, MigrationShape, CommittedWhole, Idling

LEMMA MigrationStep == MigrationInv /\ [MigrationNext]_migrationVars => MigrationInv'
<1> SUFFICES ASSUME MigrationInv, [MigrationNext]_migrationVars PROVE MigrationInv'
    OBVIOUS
<1> USE DEF MigrationInv, MigrationShape, CommittedWhole
<1>1. ASSUME NEW c \in {"first", "second", "unsigned"}, RegisterAtReceiver(c)
      PROVE  MigrationInv'
      BY <1>1 DEF RegisterAtReceiver
<1>2. ASSUME NEW c \in {"first", "second", "unsigned"}, NEW i \in Entries,
             StoreSealed(i, c)
      PROVE  MigrationInv'
      BY <1>2 DEF StoreSealed
<1>3. CASE Reconfigure
      BY <1>3 DEF Reconfigure
<1>4. CASE MigrateSelect
      BY <1>4 DEF MigrateSelect
<1>5. CASE MigrateCommit
      BY <1>5 DEF MigrateCommit
<1>6. CASE MigrateEvent
      BY <1>6 DEF MigrateEvent, Idling
<1>7. CASE MigrateDies
      BY <1>7 DEF MigrateDies, Idling
<1>8. ASSUME NEW i \in Entries, ResealRow(i)
      PROVE  MigrationInv'
      BY <1>8 DEF ResealRow, Opens, Idling
<1>9. CASE UNCHANGED migrationVars
      BY <1>9 DEF migrationVars
<1> QED
    BY <1>1, <1>2, <1>3, <1>4, <1>5, <1>6, <1>7, <1>8, <1>9 DEF MigrationNext

\* What MigrationWhole says of a single step.
WholeStep ==
  /\ (\E i \in Entries : sealed[i] # "none" /\ sealed'[i] # sealed[i])
       => meta'.key = "new" /\ \A i \in mig.picked : sealed'[i] = "new"
  /\ custodyLog' # custodyLog
       => meta.key = "new" /\ \A i \in mig.picked : sealed[i] = "new"

LEMMA MigrationStepWhole == MigrationInv /\ MigrationNext => WholeStep
<1> SUFFICES ASSUME MigrationInv, MigrationNext PROVE WholeStep
    OBVIOUS
<1> USE DEF MigrationInv, MigrationShape, WholeStep
<1>1. ASSUME NEW c \in {"first", "second", "unsigned"}, NEW i \in Entries,
             StoreSealed(i, c)
      PROVE  WholeStep
      BY <1>1 DEF StoreSealed
<1>2. CASE MigrateCommit
      BY <1>2 DEF MigrateCommit
<1>3. CASE MigrateEvent
      BY <1>3 DEF MigrateEvent, CommittedWhole
<1>4. ASSUME UNCHANGED <<sealed, custodyLog>>
      PROVE  WholeStep
      BY <1>4
<1> QED
    BY <1>1, <1>2, <1>3, <1>4
    DEF MigrationNext, RegisterAtReceiver, Reconfigure, MigrateSelect, MigrateDies,
        ResealRow

\* A migration is whole or it did not happen, for any set of entries and any
\* number of runs: migrate() re-keys all the rows it selected together with
\* the registration, and its custody event names only rows under the new key.
THEOREM MigrationsAreWhole == MigrationSpec => MigrationWhole
<1>1. MigrationInv /\ [MigrationNext]_migrationVars => MigrationInv'
      BY MigrationStep
<1>2. MigrationInv /\ [MigrationNext]_migrationVars => [WholeStep]_migrationVars
      BY MigrationStepWhole
<1>3. MigrationSpec => [][WholeStep]_migrationVars
      BY <1>1, <1>2, MigrationInitially, PTL DEF MigrationSpec
<1> QED
    BY <1>3 DEF MigrationWhole, WholeStep

-----------------------------------------------------------------------------
(* TwinReplication.                                                         *)

Lives == {"absent", "ready", "leased", "done", "dead"}

QueueShape ==
  /\ rows \in 0..NRows /\ cursor \in 0..rows /\ reach \in 0..rows
  /\ batch \in SUBSET Rows /\ seals \in 0..MaxSeals
  /\ job \in [Rows -> Lives]
  /\ parcel \in [Rows -> 1..MaxSeals \cup {NoEntry}]
  /\ DOMAIN holder = Rows
  /\ replica \in [Rows -> 1..MaxSeals \cup {NoEntry}] /\ stranded \in SUBSET Rows

CallShape ==
  /\ worker \in [Workers -> Waits \cup {NoEntry}]
  /\ handler \in [Handlers -> Deliveries \cup {NoEntry}]

\* A job the queue knows carries an envelope, one that is done was stored, and
\* only a leased one has a holder.
JobsBacked ==
  \A i \in Rows : /\ job[i] # "absent" => parcel[i] # NoEntry
                  /\ holder[i] # NoEntry => job[i] = "leased"
                  /\ job[i] = "done" => replica[i] # NoEntry

\* A row at or below the cursor, or behind the shipper's pass, is accounted for
\* or lost with Redis during a pass.
Reached == \A i \in Rows :
             i <= cursor \/ (i <= reach /\ i \notin batch) => Accounted(i) \/ i \in stranded

\* Every worker waits for the thread that handles its own row, alone.
WaitsMatch ==
  \A w \in Workers : worker[w] # NoEntry =>
    /\ handler[worker[w].at] # NoEntry
    /\ handler[worker[w].at].row = worker[w].row
    /\ \A v \in Workers \ {w} : worker[v] # NoEntry => worker[v].at # worker[w].at

\* An answer of 200 was given for a row that is stored.
AnswersTrue ==
  \A h \in Handlers : handler[h] # NoEntry /\ handler[h].answer = 200 =>
    replica[handler[h].row] # NoEntry

QueueInv == QueueShape /\ JobsBacked /\ Reached

CallInv == CallShape /\ WaitsMatch /\ AnswersTrue

ReplicationInv == QueueInv /\ CallInv

LEMMA ReplicationInitially == TwinInit => ReplicationInv
BY TwinAssumption
   DEF TwinInit, ReplicationInv, QueueInv, CallInv, QueueShape, CallShape, JobsBacked, Reached, WaitsMatch,
       AnswersTrue, Rows, Lives, Accounted

-----------------------------------------------------------------------------
(* Steps of the shipper and of Redis.                                       *)

LEMMA CommitRowKeeps == ReplicationInv /\ CommitRow => ReplicationInv'
BY TwinAssumption
   DEF CommitRow, shipVars, queueVars, ReplicationInv, QueueInv, CallInv, QueueShape, CallShape, JobsBacked,
       Reached, WaitsMatch, AnswersTrue, Accounted

LEMMA ReadBatchKeeps == ReplicationInv /\ ReadBatch => ReplicationInv'
<1> SUFFICES ASSUME ReplicationInv, ReadBatch PROVE ReplicationInv'
    OBVIOUS
<1>1. reach' \in 0..rows /\ batch' = (cursor + 1)..reach'
      BY TwinAssumption DEF ReadBatch, ReplicationInv, QueueInv, CallInv, QueueShape, CallShape
<1>2. QueueShape' /\ CallShape'
      BY <1>1, TwinAssumption
      DEF ReadBatch, queueVars, ReplicationInv, QueueInv, CallInv, QueueShape, CallShape, Rows
<1>3. Reached'
      BY <1>1, TwinAssumption
      DEF ReadBatch, queueVars, ReplicationInv, QueueInv, CallInv, QueueShape, CallShape, Rows, Reached, Accounted
<1> QED
    BY <1>2, <1>3
    DEF ReadBatch, queueVars, ReplicationInv, QueueInv, CallInv, JobsBacked, WaitsMatch, AnswersTrue

LEMMA ShipRowKeeps == ReplicationInv /\ ShipRow => ReplicationInv'
<1> SUFFICES ASSUME ReplicationInv, ShipRow PROVE ReplicationInv'
    OBVIOUS
<1> USE DEF ReplicationInv, QueueInv, CallInv
<1>1. PICK i \in batch :
        /\ batch' = batch \ {i} /\ stranded' = stranded \ {i}
        /\ seals' = FreshSeal
        /\ IF job[i] = "absent"
           THEN /\ job' = [job EXCEPT ![i] = "ready"]
                /\ parcel' = [parcel EXCEPT ![i] = seals']
           ELSE UNCHANGED <<job, parcel>>
      BY DEF ShipRow
<1>2. /\ i \in Rows
      /\ seals' \in 1..MaxSeals
      /\ UNCHANGED <<rows, cursor, reach, holder, worker, handler, replica>>
      BY <1>1, TwinAssumption DEF ShipRow, FreshSeal, QueueShape
<1>3. QueueShape' /\ CallShape'
      BY <1>1, <1>2, TwinAssumption DEF QueueShape, CallShape, Lives
<1>4. JobsBacked'
      BY <1>1, <1>2, TwinAssumption DEF QueueShape, JobsBacked
<1>5. Reached'
      BY <1>1, <1>2, TwinAssumption
      DEF QueueShape, JobsBacked, Reached, Accounted, Undelivered, Lives
<1> QED
    BY <1>2, <1>3, <1>4, <1>5 DEF WaitsMatch, AnswersTrue

LEMMA MoveCursorKeeps == ReplicationInv /\ MoveCursor => ReplicationInv'
BY TwinAssumption
   DEF MoveCursor, shipVars, queueVars, ReplicationInv, QueueInv, CallInv, QueueShape, CallShape, JobsBacked,
       Reached, WaitsMatch, AnswersTrue, Accounted, Rows

LEMMA ShipperDiesKeeps == ReplicationInv /\ ShipperDies => ReplicationInv'
BY TwinAssumption
   DEF ShipperDies, queueVars, ReplicationInv, QueueInv, CallInv, QueueShape, CallShape, JobsBacked,
       Reached, WaitsMatch, AnswersTrue, Accounted, Rows

\* What Redis loses in the middle of a pass is what the pass has behind it.
LEMMA RedisLostKeeps == ReplicationInv /\ RedisLost => ReplicationInv'
<1> SUFFICES ASSUME ReplicationInv, RedisLost PROVE ReplicationInv'
    OBVIOUS
<1> USE DEF ReplicationInv, QueueInv, CallInv
<1>1. /\ cursor' = 0 /\ job' = [i \in Rows |-> "absent"]
      /\ parcel' = [i \in Rows |-> NoEntry] /\ holder' = [i \in Rows |-> NoEntry]
      /\ UNCHANGED <<rows, batch, reach, seals, worker, handler, replica>>
      BY DEF RedisLost
<1>2. /\ stranded' \in SUBSET Rows
      /\ reach # 0 => \A i \in Behind : replica[i] = NoEntry => i \in stranded'
  <2>1. \A i \in Behind : i \in Rows
        BY TwinAssumption DEF QueueShape, Behind, Rows
  <2>2. CASE reach = 0
        BY <2>2 DEF RedisLost
  <2>3. CASE reach # 0
        BY <2>1, <2>3 DEF RedisLost, QueueShape
  <2> QED
      BY <2>2, <2>3
<1>3. QueueShape' /\ CallShape'
      BY <1>1, <1>2, TwinAssumption DEF QueueShape, CallShape, Lives
<1>4. JobsBacked'
      BY <1>1 DEF JobsBacked
<1>5. Reached'
  <2>1. ASSUME NEW i \in Rows, i <= reach, i \notin batch PROVE reach # 0 /\ i \in Behind
        BY <2>1, TwinAssumption DEF QueueShape, Behind, Rows
  <2>2. ASSUME NEW i \in Rows PROVE ~(i <= 0)
        BY <2>2, TwinAssumption DEF Rows
  <2> QED
      BY <1>1, <1>2, <2>1, <2>2 DEF Reached, Accounted
<1> QED
    BY <1>1, <1>3, <1>4, <1>5 DEF WaitsMatch, AnswersTrue

-----------------------------------------------------------------------------
(* Steps of the workers and of the queue.  A job may be given any life that *)
(* leaves it to be delivered, and may be done when its row is stored.       *)

SettledRight(i, life) == life \in Undelivered \/ (life = "done" /\ replica[i] # NoEntry)

LEMMA SettlingKeeps ==
  ASSUME QueueInv, NEW i \in Rows, NEW life, job[i] # "absent", SettledRight(i, life),
         job' = [job EXCEPT ![i] = life],
         NEW who, holder' = [holder EXCEPT ![i] = who], who # NoEntry => life = "leased",
         UNCHANGED <<parcel, rows, shipVars, replica, stranded>>
  PROVE  QueueInv'
BY DEF QueueInv, QueueShape, JobsBacked, Reached, Accounted, SettledRight, Undelivered,
       Lives, shipVars

LEMMA PutKeeps ==
  ASSUME QueueInv, NEW w \in Workers, NEW i \in Rows, NEW life, SettledRight(i, life),
         Put(w, i, life), UNCHANGED <<parcel, rows, shipVars, replica, stranded>>
  PROVE  QueueInv'
<1>1. CASE holder[i] = w
  <2>1. job[i] # "absent"
        BY <1>1, TwinAssumption DEF QueueInv, JobsBacked
  <2> QED
      BY <1>1, <2>1, SettlingKeeps DEF Put
<1>2. CASE holder[i] # w
      BY <1>2
      DEF Put, QueueInv, QueueShape, JobsBacked, Reached, Accounted, shipVars
<1> QED
    BY <1>1, <1>2

LEMMA PostKeeps ==
  ASSUME ReplicationInv, NEW w \in Workers, NEW i \in Rows, NEW h \in Handlers,
         Post(w, i, h)
  PROVE  ReplicationInv'
<1> USE DEF ReplicationInv, CallInv
<1> DEFINE wait == [row |-> i, at |-> h]
           delivery == [row |-> i, sent |-> parcel[i], step |-> "look", answer |-> NoEntry]
<1>1. /\ worker' = [worker EXCEPT ![w] = wait]
      /\ handler' = [handler EXCEPT ![h] = delivery]
      /\ worker[w] = NoEntry /\ handler[h] = NoEntry /\ job[i] = "ready"
      /\ job' = [job EXCEPT ![i] = "leased"]
      /\ holder' = [holder EXCEPT ![i] = w]
      /\ UNCHANGED <<parcel, rows, shipVars, replica, stranded>>
      BY DEF Post
<1>2. wait \in Waits /\ wait # NoEntry
      BY TwinAssumption DEF Waits
<1>3. delivery \in Deliveries /\ delivery # NoEntry
  <2>1. parcel[i] \in 1..MaxSeals
        BY <1>1 DEF QueueInv, QueueShape, JobsBacked
  <2> QED
      BY <2>1, TwinAssumption DEF Deliveries
<1>4. CallShape'
      BY <1>1, <1>2, <1>3 DEF CallShape
<1>5. QueueInv'
  <2>1. SettledRight(i, "leased") /\ job[i] # "absent"
        BY <1>1 DEF SettledRight, Undelivered
  <2> QED
      BY <2>1, <1>1, SettlingKeeps
<1>6. WaitsMatch'
  <2>1. ASSUME NEW v \in Workers, worker'[v] # NoEntry, v # w
        PROVE  /\ worker'[v] = worker[v] /\ worker[v].at # h
               /\ worker[v] \in Waits
               /\ handler'[worker[v].at] = handler[worker[v].at]
        BY <2>1, <1>1 DEF CallShape, WaitsMatch, Waits
  <2>2. /\ worker'[w] = wait /\ handler'[h] = delivery
        /\ wait.at = h /\ wait.row = i /\ delivery.row = i
        BY <1>1 DEF CallShape
  <2> HIDE DEF wait, delivery
  <2> QED
      BY <2>1, <2>2, <1>3 DEF WaitsMatch
<1>7. AnswersTrue'
  <2>1. delivery.answer # 200
        BY TwinAssumption
  <2> HIDE DEF delivery
  <2> QED
      BY <1>1, <2>1 DEF AnswersTrue, CallShape
<1> QED
    BY <1>4, <1>5, <1>6, <1>7

\* A worker stops waiting: its thread is done with or goes on.
LEMMA LeavingKeeps ==
  ASSUME CallInv, NEW w \in Workers, worker[w] # NoEntry,
         worker' = [worker EXCEPT ![w] = NoEntry],
         \/ handler' = [handler EXCEPT ![worker[w].at] = NoEntry]
         \/ UNCHANGED handler,
         UNCHANGED replica
  PROVE  CallInv'
<1> USE DEF CallInv
<1>1. worker[w] \in Waits /\ worker[w].at \in Handlers
      BY DEF CallShape, Waits
<1>2. WaitsMatch'
  <2>1. ASSUME NEW v \in Workers, worker'[v] # NoEntry
        PROVE  /\ v # w /\ worker'[v] = worker[v] /\ worker[v].at # worker[w].at
               /\ worker[v].at \in Handlers
               /\ handler'[worker[v].at] = handler[worker[v].at]
        BY <2>1, <1>1 DEF CallShape, WaitsMatch, Waits
  <2> QED
      BY <2>1 DEF WaitsMatch
<1>3. AnswersTrue'
      BY <1>1 DEF AnswersTrue, CallShape
<1> QED
    BY <1>2, <1>3 DEF CallShape

LEMMA HandleOneKeeps ==
  ASSUME ReplicationInv, NEW w \in Workers, HandleOne(w)
  PROVE  ReplicationInv'
<1> USE DEF ReplicationInv
<1>1. PICK life \in Outcomes(handler[worker[w].at].answer) : Put(w, worker[w].row, life)
      BY DEF HandleOne
<1>2. /\ worker[w] # NoEntry /\ worker' = [worker EXCEPT ![w] = NoEntry]
      /\ handler' = [handler EXCEPT ![worker[w].at] = NoEntry]
      /\ UNCHANGED <<parcel, rows, shipVars, replica, stranded>>
      BY DEF HandleOne
<1>3. CallInv'
      BY <1>2, LeavingKeeps
<1>4. worker[w].row \in Rows /\ worker[w].at \in Handlers
      BY <1>2 DEF CallInv, CallShape, Waits
<1>5. SettledRight(worker[w].row, life)
      BY <1>1, <1>2, <1>4
      DEF Outcomes, Delivered, Rejected, SettledRight, Undelivered, CallInv, AnswersTrue,
          WaitsMatch
<1> QED
    BY <1>1, <1>2, <1>3, <1>4, <1>5, PutKeeps

LEMMA TimeOutKeeps ==
  ASSUME ReplicationInv, NEW w \in Workers, TimeOut(w)
  PROVE  ReplicationInv'
<1> USE DEF ReplicationInv
<1>1. PICK life \in Outcomes(504) : Put(w, worker[w].row, life)
      BY DEF TimeOut
<1>2. CallInv'
      BY LeavingKeeps DEF TimeOut, GoesOn
<1>3. worker[w].row \in Rows
      BY DEF TimeOut, CallInv, CallShape, Waits
<1>4. SettledRight(worker[w].row, life)
      BY <1>1 DEF Outcomes, Delivered, Rejected, SettledRight, Undelivered
<1> QED
    BY <1>1, <1>2, <1>3, <1>4, PutKeeps DEF TimeOut

LEMMA SyncWorkerDiesKeeps ==
  ASSUME ReplicationInv, NEW w \in Workers, SyncWorkerDies(w)
  PROVE  ReplicationInv'
<1>1. CallInv'
      BY LeavingKeeps DEF ReplicationInv, SyncWorkerDies, GoesOn
<1>2. QueueInv'
      BY DEF SyncWorkerDies, ReplicationInv, QueueInv, QueueShape, JobsBacked, Reached,
             Accounted, shipVars, queueVars
<1> QED
    BY <1>1, <1>2 DEF ReplicationInv

LEMMA QueueStepKeeps ==
  ASSUME ReplicationInv, NEW i \in Rows, ReapLease(i) \/ QueueMaintains(i)
  PROVE  ReplicationInv'
<1> USE DEF ReplicationInv
<1>1. CallInv'
      BY DEF ReapLease, QueueMaintains, CallInv, CallShape, WaitsMatch, AnswersTrue
<1>2. CASE ReapLease(i)
  <2>1. PICK life \in {"ready", "dead"} : job' = [job EXCEPT ![i] = life]
        BY <1>2 DEF ReapLease
  <2>2. SettledRight(i, life)
        BY DEF SettledRight, Undelivered
  <2> QED
      BY <1>1, <1>2, <2>1, <2>2, SettlingKeeps DEF ReapLease
<1>3. CASE QueueMaintains(i)
      BY <1>1, <1>3
      DEF QueueMaintains, QueueInv, QueueShape, JobsBacked, Reached, Accounted, Undelivered,
          Lives, shipVars
<1> QED
    BY <1>2, <1>3

-----------------------------------------------------------------------------
(* Steps of the receiver.                                                   *)

\* An answer is recorded where a worker waits for it: 200 only for a row that
\* is stored, and the row is still the one it was asked about.
LEMMA SayingKeeps ==
  ASSUME CallInv, NEW h \in Handlers, handler[h] # NoEntry,
         NEW answer \in {200, 401, 404, 409, 422, 500}, Says(h, answer),
         UNCHANGED worker,
         answer = 200 => replica'[handler[h].row] # NoEntry,
         \A i \in Rows : replica[i] # NoEntry => replica'[i] # NoEntry
  PROVE  CallInv'
<1> USE DEF CallInv
<1>1. handler[h] \in Deliveries
      BY DEF CallShape
<1> DEFINE said == [handler[h] EXCEPT !.answer = answer]
<1>2. /\ said \in Deliveries /\ said # NoEntry
      /\ said.row = handler[h].row /\ said.answer = answer
      BY <1>1, TwinAssumption DEF Deliveries
<1>3. handler' = [handler EXCEPT ![h] = IF Waited(h) THEN said ELSE NoEntry]
      BY DEF Says
<1> HIDE DEF said
<1>4. CallShape'
      BY <1>2, <1>3 DEF CallShape
<1>5. WaitsMatch'
  <2>1. ASSUME NEW w \in Workers, worker[w] # NoEntry
        PROVE  /\ worker[w].at \in Handlers
               /\ handler'[worker[w].at] # NoEntry
               /\ handler'[worker[w].at].row = handler[worker[w].at].row
        BY <2>1, <1>2, <1>3 DEF CallShape, Waits, Waited, WaitsMatch
  <2> QED
      BY <2>1 DEF WaitsMatch
<1>6. AnswersTrue'
  <2>1. \A k \in Handlers : handler[k] # NoEntry => handler[k].row \in Rows
        BY DEF CallShape, Deliveries
  <2> QED
      BY <1>2, <1>3, <2>1 DEF AnswersTrue, CallShape
<1> QED
    BY <1>4, <1>5, <1>6

LEMMA RefuseKeeps ==
  ASSUME ReplicationInv, NEW h \in Handlers, RefuseEntry(h)
  PROVE  ReplicationInv'
<1>1. PICK answer \in Refusals : Says(h, answer)
      BY DEF RefuseEntry
<1>2. CallInv'
      BY <1>1, SayingKeeps DEF RefuseEntry, Serving, Refusals, ReplicationInv
<1>3. QueueInv'
      BY DEF RefuseEntry, ReplicationInv, QueueInv, QueueShape, JobsBacked, Reached,
             Accounted, shipVars, queueVars
<1> QED
    BY <1>2, <1>3 DEF ReplicationInv

LEMMA LookKeeps ==
  ASSUME ReplicationInv, NEW h \in Handlers, LookEntry(h)
  PROVE  ReplicationInv'
<1>1. QueueInv'
      BY DEF LookEntry, ReplicationInv, QueueInv, QueueShape, JobsBacked, Reached,
             Accounted, shipVars, queueVars
<1>2. handler[h] # NoEntry /\ handler[h] \in Deliveries /\ handler[h].row \in Rows
      BY DEF LookEntry, Serving, ReplicationInv, CallInv, CallShape, Deliveries
<1>3. CASE replica[handler[h].row] = NoEntry
  <2> DEFINE looked == [handler[h] EXCEPT !.step = "insert"]
  <2>1. handler' = [handler EXCEPT ![h] = looked] /\ UNCHANGED <<worker, replica>>
        BY <1>3 DEF LookEntry
  <2>2. /\ looked \in Deliveries /\ looked # NoEntry
        /\ looked.row = handler[h].row /\ looked.answer = handler[h].answer
        BY <1>2, TwinAssumption DEF Deliveries
  <2> HIDE DEF looked
  <2>3. CallShape' /\ AnswersTrue'
        BY <2>1, <2>2, <1>2 DEF ReplicationInv, CallInv, CallShape, AnswersTrue
  <2>4. WaitsMatch'
        BY <2>1, <2>2, <1>2 DEF ReplicationInv, CallInv, CallShape, WaitsMatch, Waits
  <2> QED
      BY <1>1, <2>3, <2>4 DEF ReplicationInv, CallInv
<1>4. CASE replica[handler[h].row] # NoEntry
  <2>1. PICK answer \in {200, 409} : Says(h, answer)
        BY <1>4 DEF LookEntry
  <2>2. CallInv'
        BY <1>2, <1>4, <2>1, SayingKeeps DEF LookEntry, ReplicationInv
  <2> QED
      BY <1>1, <2>2 DEF ReplicationInv
<1> QED
    BY <1>3, <1>4

LEMMA InsertKeeps ==
  ASSUME ReplicationInv, NEW h \in Handlers, InsertEntry(h)
  PROVE  ReplicationInv'
<1>1. /\ handler[h] # NoEntry /\ handler[h].row \in Rows
      /\ handler[h].sent \in 1..MaxSeals /\ handler[h].sent # NoEntry
      BY TwinAssumption
      DEF InsertEntry, Serving, ReplicationInv, CallInv, CallShape, Deliveries
<1>2. /\ replica' \in [Rows -> 1..MaxSeals \cup {NoEntry}]
      /\ \A i \in Rows : replica[i] # NoEntry => replica'[i] # NoEntry
      BY <1>1 DEF InsertEntry, ReplicationInv, QueueInv, QueueShape
<1>3. QueueInv'
      BY <1>2
      DEF InsertEntry, ReplicationInv, QueueInv, QueueShape, JobsBacked, Reached,
          Accounted, shipVars, queueVars
<1>4. PICK answer \in {200, 500} :
        Says(h, answer) /\ (answer = 200 => replica'[handler[h].row] # NoEntry)
      BY <1>1 DEF InsertEntry, ReplicationInv, QueueInv, QueueShape
<1>5. CallInv'
      BY <1>1, <1>2, <1>4, SayingKeeps DEF InsertEntry, ReplicationInv
<1> QED
    BY <1>3, <1>5 DEF ReplicationInv

LEMMA ReplicationStep == ReplicationInv /\ [TwinNext]_twinVars => ReplicationInv'
<1> SUFFICES ASSUME ReplicationInv, [TwinNext]_twinVars PROVE ReplicationInv'
    OBVIOUS
<1>1. CASE UNCHANGED twinVars
      BY <1>1
      DEF twinVars, shipVars, queueVars, ReplicationInv, QueueInv, CallInv, QueueShape,
          CallShape, JobsBacked, Reached, Accounted, WaitsMatch, AnswersTrue
<1> QED
    BY <1>1, CommitRowKeeps, ReadBatchKeeps, ShipRowKeeps, MoveCursorKeeps,
       ShipperDiesKeeps, RedisLostKeeps, QueueStepKeeps, PostKeeps, HandleOneKeeps,
       TimeOutKeeps, SyncWorkerDiesKeeps, RefuseKeeps, LookKeeps, InsertKeeps
    DEF TwinNext

\* The inductive invariant of replication, for every value of the constants:
\* the shipper's cursor and batch, the queue, the waiting workers and the
\* receiver's threads fit together (ship_available, handle_one, store_entry).
THEOREM ReplicationInvariant == TwinSpec => []ReplicationInv
BY ReplicationInitially, ReplicationStep, PTL DEF TwinSpec

\* No row is lost on its way to the twin, for any number of rows, workers and
\* receiver threads and any batch size: a row at or below the shipper's
\* cursor is stored, or its job is there to be delivered or requeued, or Redis
\* lost its data during the pass that had the row behind it.
THEOREM ShippedAreAccounted == TwinSpec => []ShippedIsAccounted
<1>1. ReplicationInv => ShippedIsAccounted
      BY TwinAssumption
      DEF ReplicationInv, QueueInv, QueueShape, Reached, Accounted, Undelivered, Rows,
          ShippedIsAccounted
<1> QED
    BY <1>1, ReplicationInvariant, PTL

\* What ReplicaAppendOnly says of a single step.
AppendStep == \A i \in Rows : replica[i] # NoEntry => replica'[i] = replica[i]

\* History in the customer's custody is not rewritten by deliveries: of any
\* number of racing threads and sealings of one row the first one stored
\* stays (store_entry).
THEOREM ReplicaKeepsHistory == TwinSpec => ReplicaAppendOnly
<1>1. ReplicationInv /\ [TwinNext]_twinVars => [AppendStep]_twinVars
  <2> SUFFICES ASSUME ReplicationInv, TwinNext PROVE AppendStep
      OBVIOUS
  <2>1. ASSUME NEW h \in Handlers, InsertEntry(h) PROVE AppendStep
        BY <2>1
        DEF InsertEntry, AppendStep, ReplicationInv, QueueInv, QueueShape, CallInv,
            CallShape, Serving, Deliveries
  <2>2. CASE UNCHANGED replica
        BY <2>2 DEF AppendStep
  <2> QED
      BY <2>1, <2>2
      DEF TwinNext, CommitRow, ReadBatch, ShipRow, MoveCursor, ShipperDies, RedisLost,
          ReapLease, QueueMaintains, Post, HandleOne, TimeOut, SyncWorkerDies,
          RefuseEntry, LookEntry
<1>2. TwinSpec => [][AppendStep]_twinVars
      BY <1>1, ReplicationInvariant, PTL DEF TwinSpec
<1> QED
    BY <1>2 DEF ReplicaAppendOnly, AppendStep

-----------------------------------------------------------------------------
(* TwinDetection.  A row is the one that was committed, or an altered one;  *)
(* its link to the row before it is never altered.                          *)

RowsOf(i) == [hash : {<<i, "kept">>, <<i, "rewritten">>}, prev : {<<i - 1, "kept">>},
              body : {"kept", "rewritten"}, snapshot : {"kept", "rewritten"}]

Kept(i) == [hash |-> <<i, "kept">>, prev |-> <<i - 1, "kept">>,
            body |-> "kept", snapshot |-> "kept"]

TableShape ==
  /\ DOMAIN table = Ids /\ DOMAIN copy = Ids
  /\ \A i \in Ids : table[i] \in RowsOf(i) \cup {NoRow} /\ copy[i] \in RowsOf(i) \cup {NoRow}

FetchShape ==
  fetch # NoRow =>
    /\ verdict = NoRow
    /\ fetch = [entries |-> fetch.entries, upto |-> fetch.upto, feed |-> fetch.feed,
                step |-> fetch.step]
    /\ DOMAIN fetch.entries = Ids /\ DOMAIN fetch.feed = Ids
    /\ \A i \in Ids : fetch.entries[i] \in RowsOf(i) \cup {NoRow}

\* A submission is decided after it was made; ages are numbers.
SubmissionsAsked ==
  /\ asked \subseteq Sids /\ altered \subseteq Ids
  /\ \A i \in Sids : i \in Committed => i \in asked
  /\ age \in [Sids -> 0..SLA] /\ lag \in [Ids -> 0..SLA]

\* What the detector holds was committed: a row of the feed, and on a primary
\* nobody altered the entries are the rows themselves.
FeedCommitted ==
  fetch # NoRow => \A i \in Ids : fetch.feed[i] # NoRow => i \in Committed

Unaltered ==
  altered = {} =>
    /\ \A i \in Ids : /\ table[i] \in {Kept(i), NoRow}
                      /\ copy[i] # NoRow => copy[i] = Kept(i) /\ table[i] # NoRow
    /\ fetch # NoRow =>
         \A i \in Ids :
           /\ fetch.entries[i] # NoRow => fetch.entries[i] = Kept(i) /\ table[i] # NoRow
           /\ fetch.feed[i] # NoRow => fetch.feed[i] = Kept(i)
           /\ fetch.step = "report" /\ fetch.entries[i] # NoRow => fetch.feed[i] # NoRow

DetectionInv ==
  TableShape /\ FetchShape /\ SubmissionsAsked /\ FeedCommitted /\ Unaltered

LEMMA DetectionInitially == DetectionInit => DetectionInv
BY DetectionAssumption
   DEF DetectionInit, DetectionInv, TableShape, FetchShape, SubmissionsAsked,
       FeedCommitted, Unaltered, Committed

LEMMA DetectionStep == DetectionInv /\ [DetectionNext]_detectionVars => DetectionInv'
<1> SUFFICES ASSUME DetectionInv, [DetectionNext]_detectionVars PROVE DetectionInv'
    OBVIOUS
<1> USE DetectionAssumption DEF DetectionInv
<1>1. ASSUME NEW i \in Sids, AskFor(i) PROVE DetectionInv'
      BY <1>1
      DEF AskFor, TableShape, FetchShape, SubmissionsAsked, FeedCommitted, Unaltered,
          Committed
<1>2. ASSUME NEW i \in Ids, Alter(i) PROVE DetectionInv'
  <2>1. /\ altered' = altered \cup {i} /\ altered' # {} /\ table[i] \in RowsOf(i)
        /\ UNCHANGED <<lag, age, asked, copy, fetch, verdict, deep>>
        BY <1>2 DEF Alter, TableShape
  <2>2. /\ DOMAIN table' = Ids /\ table'[i] \in RowsOf(i) \cup {NoRow}
        /\ \A k \in Ids \ {i} : table'[k] = table[k]
        BY <1>2, <2>1 DEF Alter, TableShape, RowsOf
  <2>3. TableShape'
        BY <2>1, <2>2 DEF TableShape
  <2>4. /\ i \in Committed
        /\ \A k \in Ids : k \in Committed' <=> k \in Committed
        BY <1>2, <2>1, <2>2 DEF Alter, Committed
  <2>5. SubmissionsAsked' /\ FeedCommitted' /\ FetchShape'
        BY <2>1, <2>4 DEF SubmissionsAsked, FeedCommitted, FetchShape
  <2> QED
      BY <2>1, <2>3, <2>5 DEF Unaltered
<1>3. ASSUME NEW i \in Ids, Deliver(i) PROVE DetectionInv'
      BY <1>3
      DEF Deliver, TableShape, FetchShape, SubmissionsAsked, FeedCommitted, Unaltered,
          Committed
<1>4. CASE CommitNext
  <2>1. PICK i \in Ids :
          /\ Committed = 1..(i - 1) /\ (i \in Sids => i \in asked)
          /\ table' = [table EXCEPT ![i] = Kept(i)]
        BY <1>4 DEF CommitNext, Kept
  <2>2. UNCHANGED <<lag, age, asked, altered, copy, fetch, verdict, deep>>
        BY <1>4 DEF CommitNext
  <2>3. i \notin Committed /\ table[i] = NoRow
        BY <2>1 DEF Committed
  <2>4. Kept(i) \in RowsOf(i)
        BY DEF Kept, RowsOf
  <2>5. TableShape'
        BY <2>1, <2>2, <2>4 DEF TableShape
  <2>6. \A k \in Ids : k \in Committed' => k \in Committed \/ k = i
        BY <2>1, <2>2 DEF Committed, TableShape
  <2>7. \A k \in Ids : k \in Committed => k \in Committed'
        BY <2>1, <2>2, <2>3 DEF Committed, TableShape
  <2>8. SubmissionsAsked' /\ FeedCommitted' /\ FetchShape'
        BY <2>1, <2>2, <2>6, <2>7 DEF SubmissionsAsked, FeedCommitted, FetchShape
  <2>9. Unaltered'
        BY <2>1, <2>2, <2>3 DEF Unaltered, TableShape
  <2> QED
      BY <2>5, <2>8, <2>9
<1>5. CASE DetectionTick
  <2>1. age' \in [Sids -> 0..SLA] /\ lag' \in [Ids -> 0..SLA]
        BY <1>5 DEF DetectionTick, SubmissionsAsked
  <2> QED
      BY <1>5, <2>1
      DEF DetectionTick, TableShape, FetchShape, SubmissionsAsked, FeedCommitted,
          Unaltered, Committed
<1>6. CASE BeginFetch
      BY <1>6
      DEF BeginFetch, TableShape, FetchShape, SubmissionsAsked, FeedCommitted, Unaltered,
          Committed
<1>7. CASE FetchEntries
  <2> DEFINE got == PageAfter(fetch.upto)
  <2>1. PICK n, s :
          /\ fetch' = [fetch EXCEPT
                         !.entries = [i \in Ids |-> IF i \in got THEN copy[i] ELSE @[i]],
                         !.upto = n, !.step = s]
          /\ s \in {"feed", "entries"}
    <3> DEFINE n0 == IF got = {} THEN fetch.upto ELSE CHOOSE i \in got : \A k \in got : k <= i
               s0 == IF got = {} THEN "feed" ELSE "entries"
    <3>1. fetch' = [fetch EXCEPT
                         !.entries = [i \in Ids |-> IF i \in got THEN copy[i] ELSE @[i]],
                         !.upto = n0, !.step = s0]
          BY <1>7 DEF FetchEntries
    <3> QED
        BY <3>1
  <2>2. fetch # NoRow /\ UNCHANGED <<table, lag, age, asked, altered, copy, verdict, deep>>
        BY <1>7 DEF FetchEntries
  <2> HIDE DEF got
  <2>3. /\ fetch' = [entries |-> fetch'.entries, upto |-> fetch'.upto,
                     feed |-> fetch'.feed, step |-> fetch'.step]
        /\ fetch'.feed = fetch.feed /\ fetch'.step # "report"
        /\ DOMAIN fetch'.entries = Ids
        /\ \A i \in Ids : fetch'.entries[i] \in {copy[i], fetch.entries[i]}
        BY <2>1, <2>2 DEF FetchShape
  <2>4. FetchShape' /\ TableShape'
        BY <2>2, <2>3 DEF FetchShape, TableShape
  <2>5. SubmissionsAsked' /\ FeedCommitted' /\ Unaltered'
        BY <2>2, <2>3 DEF SubmissionsAsked, FeedCommitted, Unaltered, Committed
  <2> QED
      BY <2>4, <2>5
<1>8. CASE FetchFeed
  <2>1. /\ fetch # NoRow /\ fetch' = [fetch EXCEPT !.feed = table, !.step = "report"]
        /\ UNCHANGED <<table, lag, age, asked, altered, copy, verdict, deep>>
        BY <1>8 DEF FetchFeed
  <2>2. fetch' = [entries |-> fetch.entries, upto |-> fetch.upto, feed |-> table,
                  step |-> "report"]
        BY <2>1 DEF FetchShape
  <2>3. FetchShape' /\ TableShape'
        BY <2>1, <2>2 DEF FetchShape, TableShape
  <2>4. SubmissionsAsked' /\ FeedCommitted' /\ Unaltered'
        BY <2>1, <2>2 DEF SubmissionsAsked, FeedCommitted, Unaltered, Committed
  <2> QED
      BY <2>3, <2>4
<1>9. CASE RunDetection
      BY <1>9
      DEF RunDetection, TableShape, FetchShape, SubmissionsAsked, FeedCommitted, Unaltered,
          Committed
<1>10. CASE UNCHANGED detectionVars
      BY <1>10
      DEF detectionVars, TableShape, FetchShape, SubmissionsAsked, FeedCommitted,
          Unaltered, Committed
<1> QED
    BY <1>1, <1>2, <1>3, <1>4, <1>5, <1>6, <1>7, <1>8, <1>9, <1>10 DEF DetectionNext

\* What VerdictHonest says of a single step, and the part of a clean report
\* about one row.
FindingsFounded ==
  \E i \in Ids : /\ fetch.entries[i] = NoRow
                 /\ \/ i \in Committed /\ lag[i] >= SLA
                    \/ i \in asked /\ age[i] >= SLA

CleanOf(i) ==
  IF fetch.entries[i] = NoRow
  THEN i \in Sids \cap Committed =>
         \/ age[i] < SLA
         \/ /\ lag[i] < SLA /\ fetch.feed[i] # NoRow
            /\ \E a, b \in Held(fetch.entries) : a < i /\ i < b
  ELSE LET succeeded == i + 1 \in Ids /\ fetch.entries[i + 1] # NoRow IN
       /\ fetch.feed[i] # NoRow
       /\ fetch.feed[i].hash = fetch.entries[i].hash
       /\ succeeded => fetch.feed[i].hash = <<i, "kept">>
       /\ deep => fetch.feed[i].snapshot = fetch.entries[i].snapshot
       /\ deep /\ succeeded => fetch.entries[i].body = "kept"

HonestStep ==
  /\ Reports("FINDINGS") /\ altered = {} => FindingsFounded
  /\ Reports("CLEAN") => \A i \in Ids : CleanOf(i)

\* On a primary nobody altered the comparison finds nothing to complain of.
LEMMA NothingDiverges ==
  ASSUME DetectionInv, altered = {}, fetch # NoRow, fetch.step = "report"
  PROVE  /\ Diverging(fetch.entries, fetch.feed) = {}
         /\ Extra(fetch.entries, fetch.feed) = {}
         /\ ChainBreaks(fetch.entries) = {}
<1> USE DetectionAssumption DEF DetectionInv
<1>1. ASSUME NEW i \in Ids, fetch.entries[i] # NoRow
      PROVE  fetch.entries[i] = Kept(i) /\ fetch.feed[i] = Kept(i) /\ fetch.feed[i] # NoRow
      BY <1>1 DEF Unaltered
<1>2. ASSUME NEW i \in Ids
      PROVE  ~HeaderDiffers(Kept(i), Kept(i)) /\ DeepVerifies(i, Kept(i), Kept(i))
      BY DEF HeaderDiffers, DeepVerifies, RecomputedHash, Kept
<1>3. Diverging(fetch.entries, fetch.feed) = {}
  <2> SUFFICES ASSUME NEW i \in Diverging(fetch.entries, fetch.feed) PROVE FALSE
      OBVIOUS
  <2>1. /\ i \in Ids /\ fetch.entries[i] # NoRow
        /\ \/ HeaderDiffers(fetch.entries[i], fetch.feed[i])
           \/ ~DeepVerifies(i, fetch.entries[i], fetch.feed[i])
        BY DEF Diverging, Held
  <2> QED
      BY <1>1, <1>2, <2>1
<1>4. Extra(fetch.entries, fetch.feed) = {}
      BY <1>1 DEF Extra, Held
<1>5. ChainBreaks(fetch.entries) = {}
  <2> SUFFICES ASSUME NEW i \in ChainBreaks(fetch.entries) PROVE FALSE
      OBVIOUS
  <2>1. /\ i \in Ids /\ fetch.entries[i] # NoRow
        /\ i - 1 \in Ids /\ fetch.entries[i - 1] # NoRow
        /\ fetch.entries[i].prev # fetch.entries[i - 1].hash
        BY DEF ChainBreaks, Held
  <2>2. fetch.entries[i] = Kept(i) /\ fetch.entries[i - 1] = Kept(i - 1)
        BY <1>1, <2>1
  <2> QED
      BY <2>1, <2>2 DEF Kept
<1> QED
    BY <1>3, <1>4, <1>5

LEMMA FindingsHonest ==
  ASSUME DetectionInv, RunDetection, Reports("FINDINGS"), altered = {}
  PROVE  FindingsFounded
<1> USE DetectionAssumption
<1>1. MissingRows(fetch.entries, fetch.feed) \cup MissingSubmissions(fetch.entries, fetch.feed) # {}
      BY NothingDiverges DEF RunDetection, Reports
<1>2. ASSUME NEW i \in MissingRows(fetch.entries, fetch.feed)
      PROVE  FindingsFounded
  <2>1. /\ i \in Ids /\ fetch.feed[i] # NoRow /\ fetch.entries[i] = NoRow /\ lag[i] >= SLA
        BY DEF MissingRows, Lacking, Covered
  <2>2. i \in Committed
        BY <2>1 DEF Reports, DetectionInv, FeedCommitted
  <2> QED
      BY <2>1, <2>2 DEF FindingsFounded
<1>3. ASSUME NEW i \in MissingSubmissions(fetch.entries, fetch.feed)
      PROVE  FindingsFounded
  <2>1. i \in Ids /\ i \in asked /\ fetch.entries[i] = NoRow /\ age[i] >= SLA
        BY DEF MissingSubmissions, DetectionInv, SubmissionsAsked
  <2> QED
      BY <2>1 DEF FindingsFounded
<1> QED
    BY <1>1, <1>2, <1>3

LEMMA CleanHonest ==
  ASSUME DetectionInv, RunDetection, Reports("CLEAN"), NEW i \in Ids
  PROVE  CleanOf(i)
<1> USE DetectionAssumption DEF DetectionInv
<1> DEFINE e == fetch.entries
           f == fetch.feed
<1>1. MissingRows(e, f) \cup MissingSubmissions(e, f) \cup
        Diverging(e, f) \cup Extra(e, f) \cup ChainBreaks(e) = {}
      BY DEF RunDetection, Reports
<1>2. fetch # NoRow
      BY DEF Reports
<1>3. CASE e[i] = NoRow
  <2>1. ASSUME i \in Sids, i \in Committed, ~(age[i] < SLA)
        PROVE  /\ lag[i] < SLA /\ f[i] # NoRow
               /\ \E a, b \in Held(e) : a < i /\ i < b
    <3>1. i \in asked /\ age[i] \in 0..SLA /\ lag[i] \in 0..SLA
          BY <2>1 DEF SubmissionsAsked
    <3>2. i \notin MissingSubmissions(e, f) /\ i \notin MissingRows(e, f)
          BY <1>1
    <3>3. i \in Lacking(e, f)
          BY <1>3, <2>1, <3>1, <3>2 DEF MissingSubmissions
    <3>4. lag[i] < SLA /\ f[i] # NoRow
          BY <3>1, <3>2, <3>3 DEF MissingRows, Lacking
    <3>5. PICK a, b \in Held(e) : a <= i /\ i <= b
          BY <3>3 DEF Lacking, Covered
    <3>6. a \in Nat /\ b \in Nat /\ i \in Nat /\ a # i /\ b # i
          BY <1>3, <3>5 DEF Held
    <3>7. a < i /\ i < b
          BY <3>5, <3>6
    <3> QED
        BY <3>4, <3>5, <3>7
  <2> QED
      BY <1>3, <2>1 DEF CleanOf
<1>4. CASE e[i] # NoRow
  <2> DEFINE succeeded == i + 1 \in Ids /\ e[i + 1] # NoRow
  <2>1. i \in Held(e)
        BY <1>4 DEF Held
  <2>2. f[i] # NoRow
    <3>1. i \notin Extra(e, f)
          BY <1>1
    <3> QED
        BY <2>1, <3>1 DEF Extra
  <2>3. ~HeaderDiffers(e[i], f[i]) /\ (deep => DeepVerifies(i, e[i], f[i]))
    <3>1. i \notin Diverging(e, f)
          BY <1>1
    <3> QED
        BY <2>1, <2>2, <3>1 DEF Diverging
  <2>4. f[i].hash = e[i].hash
        BY <2>3 DEF HeaderDiffers
  <2>5. ASSUME succeeded PROVE e[i].hash = <<i, "kept">>
    <3>1. PICK j \in Ids : j = i + 1 /\ e[j] # NoRow
          BY <2>5
    <3>2. j - 1 = i
          BY <3>1
    <3>3. j \notin ChainBreaks(e) /\ j \in Held(e)
          BY <1>1, <3>1 DEF Held
    <3>4. e[j].prev = e[i].hash
          BY <2>1, <3>2, <3>3 DEF ChainBreaks
    <3>5. e[j] \in RowsOf(j)
          BY <1>2, <3>1 DEF FetchShape
    <3>6. e[j].prev = <<j - 1, "kept">>
          BY <3>5 DEF RowsOf
    <3> QED
        BY <3>2, <3>4, <3>6
  <2>6. ASSUME deep PROVE f[i].snapshot = e[i].snapshot
        BY <2>3, <2>6 DEF DeepVerifies
  <2>7. ASSUME deep, succeeded PROVE e[i].body = "kept"
        BY <2>3, <2>5, <2>7 DEF DeepVerifies, RecomputedHash
  <2> QED
      BY <1>4, <2>2, <2>4, <2>5, <2>6, <2>7 DEF CleanOf
<1> QED
    BY <1>3, <1>4

LEMMA DetectionStepHonest == DetectionInv /\ DetectionNext => HonestStep
<1> SUFFICES ASSUME DetectionInv, DetectionNext PROVE HonestStep
    OBVIOUS
<1>1. CASE RunDetection
      BY <1>1, FindingsHonest, CleanHonest DEF HonestStep
<1>2. ASSUME fetch = NoRow \/ fetch' # NoRow \/ verdict' \notin {"CLEAN", "FINDINGS"}
      PROVE  HonestStep
      BY <1>2 DEF HonestStep, Reports
<1>3. CASE FetchEntries \/ FetchFeed
  <2>1. verdict' = NoRow
        BY <1>3 DEF FetchEntries, FetchFeed, DetectionInv, FetchShape
  <2> QED
      BY <1>2, <2>1, DetectionAssumption
<1> QED
    BY <1>1, <1>2, <1>3
    DEF DetectionNext, AskFor, Alter, Deliver, CommitNext, DetectionTick, BeginFetch

\* The detector's verdict can be relied on, for any number of rows, any page
\* size, any lag and any alterations of the primary: what detect() reports is
\* founded, and what it calls clean is as it was witnessed.
THEOREM VerdictsAreHonest == DetectionSpec => VerdictHonest
<1>1. DetectionInv /\ [DetectionNext]_detectionVars => [HonestStep]_detectionVars
      BY DetectionStepHonest
<1>2. DetectionSpec => [][HonestStep]_detectionVars
      BY <1>1, DetectionInitially, DetectionStep, PTL DEF DetectionSpec
<1> QED
    BY <1>2 DEF VerdictHonest, HonestStep, FindingsFounded, CleanOf

-----------------------------------------------------------------------------
(* TwinCustodian.  A request is past the check once its nonce is consumed;  *)
(* one nonce is then in the hands of one thread, until its plaintext is out.*)

\* The decrypt request a thread serves, as AskDecrypt made it.
IsDecrypt(q) ==
  /\ q.nonce \in Nonces /\ q.replica \in Replicas
  /\ q = [replica |-> q.replica, nonce |-> q.nonce, signed |-> q.signed,
          opens |-> q.opens, step |-> q.step]

RequestShape ==
  /\ DOMAIN req = Threads
  /\ \A t \in Threads : req[t] # NoReq =>
       \/ req[t].step = "registered" /\ req[t].replica \in Replicas
       \/ IsDecrypt(req[t])

PastCheck(q) == q # NoReq /\ q.step \in {"save", "open", "answer"}

\* A nonce past the check is spent, not released, and held by one thread.
NonceHeldOnce ==
  \A t \in Threads : PastCheck(req[t]) =>
    /\ req[t].nonce \in spent
    /\ released[req[t].nonce] = 0
    /\ \A v \in Threads \ {t} : PastCheck(req[v]) => req[v].nonce # req[t].nonce

\* A released nonce is spent, in memory and in any file that loads.
ReleasedAreSpent ==
  /\ released \in [Nonces -> {0, 1}]
  /\ \A n \in Nonces : released[n] > 0 => n \in spent
  /\ files = [replicas |-> files.replicas, nonces |-> files.nonces]
  /\ files.nonces = Torn \/ files.nonces = spent

\* The plaintexts that are out or granted to a thread that is about to answer.
Promised ==
  {n \in Nonces :
     \/ released[n] > 0
     \/ \E t \in Threads : req[t] # NoReq /\ req[t].step = "answer" /\ req[t].nonce = n}

AuditRecords == [event : {"decrypt", "register_replica"}, replica : Replicas,
                 granted : BOOLEAN]

PromisesRecorded ==
  /\ trail \in Seq(AuditRecords)
  /\ IsFiniteSet(Promised)
  /\ Cardinality(Promised) <= Cardinality(Granted)

\* A process that is down serves nobody.
DownServesNobody == ~up => \A t \in Threads : req[t] = NoReq

CustodianInv ==
  /\ RequestShape /\ NonceHeldOnce /\ ReleasedAreSpent /\ PromisesRecorded
  /\ DownServesNobody

LEMMA CustodianInitially == CustodianInit => CustodianInv
<1> SUFFICES ASSUME CustodianInit PROVE CustodianInv
    OBVIOUS
<1>1. Promised = {} /\ Granted = {}
      BY DEF CustodianInit, Promised, Granted
<1>2. PromisesRecorded
      BY <1>1, FS_EmptySet DEF CustodianInit, PromisesRecorded
<1> QED
    BY <1>2
    DEF CustodianInit, CustodianInv, RequestShape, NonceHeldOnce, ReleasedAreSpent,
        PastCheck, DownServesNobody

LEMMA GrantedFinite ==
  ASSUME trail \in Seq(AuditRecords)
  PROVE  IsFiniteSet(Granted) /\ Cardinality(Granted) \in Nat
<1>1. IsFiniteSet(1..Len(trail))
      BY FS_Interval
<1>2. Granted \in SUBSET (1..Len(trail))
      BY DEF Granted
<1> QED
    BY <1>1, <1>2, FS_Subset, FS_CardinalityType

\* A record appended to the audit log counts as granted only if it says so.
LEMMA LogGrants ==
  ASSUME trail \in Seq(AuditRecords), NEW event \in {"decrypt", "register_replica"},
         NEW r \in Replicas, NEW granted \in BOOLEAN, Log(event, r, granted)
  PROVE  /\ trail' \in Seq(AuditRecords)
         /\ Granted' = IF event = "decrypt" /\ granted
                       THEN Granted \cup {Len(trail) + 1} ELSE Granted
<1> DEFINE entry == [event |-> event, replica |-> r, granted |-> granted]
<1>1. trail' = Append(trail, entry)
      BY DEF Log, Record
<1>2. entry \in AuditRecords
      BY DEF AuditRecords
<1>3. entry.event = event /\ entry.granted = granted
      BY Zenon
<1> HIDE DEF entry
<1>4. /\ trail' \in Seq(AuditRecords) /\ Len(trail') = Len(trail) + 1
      /\ trail'[Len(trail) + 1] = entry
      /\ \A k \in 1..Len(trail) : trail'[k] = trail[k]
      BY <1>1, <1>2
<1>5. ASSUME event = "decrypt", granted
      PROVE  Granted' = Granted \cup {Len(trail) + 1}
  <2>1. PICK m \in Nat : m = Len(trail)
        OBVIOUS
  <2>2. trail'[m + 1].event = "decrypt" /\ trail'[m + 1].granted
        BY <1>3, <1>4, <1>5, <2>1, Zenon
  <2>3. m + 1 \in 1..Len(trail')
        BY <1>4, <2>1
  <2>4. m + 1 \in Granted'
        BY <2>2, <2>3, Zenon DEF Granted
  <2>5. \A k \in 1..Len(trail) : k \in Granted' <=> k \in Granted
        BY <1>4 DEF Granted
  <2>6. \A k : k \in Granted' => k \in 1..Len(trail) \/ k = m + 1
        BY <1>4, <2>1 DEF Granted
  <2>7. \A k : k \in Granted => k \in 1..Len(trail)
        BY DEF Granted
  <2>8. Granted' = Granted \cup {m + 1}
        BY <2>4, <2>5, <2>6, <2>7
  <2> QED
      BY <2>1, <2>8
<1>6. ASSUME ~(event = "decrypt" /\ granted)
      PROVE  Granted' = Granted
      BY <1>3, <1>4, <1>6 DEF Granted
<1> QED
    BY <1>4, <1>5, <1>6, Zenon

\* A thread's request becomes q.
ValidRequest(q) ==
  \/ q = NoReq
  \/ q.step = "registered" /\ q.replica \in Replicas
  \/ IsDecrypt(q)

LEMMA MovingShapes ==
  ASSUME RequestShape, NEW t \in Threads, NEW q, ValidRequest(q),
         req' = [req EXCEPT ![t] = q]
  PROVE  RequestShape'
BY DEF RequestShape, ValidRequest, IsDecrypt

LEMMA MovingHolds ==
  ASSUME RequestShape, NonceHeldOnce, NEW t \in Threads, NEW q,
         req' = [req EXCEPT ![t] = q],
         PastCheck(q) => PastCheck(req[t]) /\ q.nonce = req[t].nonce,
         UNCHANGED <<spent, released>>
  PROVE  NonceHeldOnce'
BY DEF RequestShape, NonceHeldOnce, PastCheck

LEMMA MovingPromises ==
  ASSUME RequestShape, NEW t \in Threads, NEW q, req' = [req EXCEPT ![t] = q],
         ~(q # NoReq /\ q.step = "answer"), UNCHANGED released
  PROVE  Promised' \in SUBSET Promised
BY DEF RequestShape, Promised

LEMMA FewerPromises ==
  ASSUME PromisesRecorded, NEW S \in SUBSET Promised
  PROVE  IsFiniteSet(S) /\ Cardinality(S) <= Cardinality(Granted)
<1>1. IsFiniteSet(S) /\ Cardinality(S) <= Cardinality(Promised)
      BY FS_Subset DEF PromisesRecorded
<1>2. Cardinality(S) \in Nat /\ Cardinality(Promised) \in Nat
      BY <1>1, FS_CardinalityType DEF PromisesRecorded
<1> QED
    BY <1>1, <1>2, GrantedFinite DEF PromisesRecorded

\* The steps that change neither the audit log nor what was released.
LEMMA QuietMove ==
  ASSUME CustodianInv, up, NEW t \in Threads, NEW q, ValidRequest(q),
         req' = [req EXCEPT ![t] = q],
         PastCheck(q) => PastCheck(req[t]) /\ q.nonce = req[t].nonce,
         ~(q # NoReq /\ q.step = "answer"),
         UNCHANGED <<up, spent, released, trail>>,
         files' = [replicas |-> files'.replicas, nonces |-> files'.nonces],
         files'.nonces = Torn \/ files'.nonces = spent
  PROVE  CustodianInv'
<1> USE DEF CustodianInv
<1>1. RequestShape' /\ NonceHeldOnce'
      BY MovingShapes, MovingHolds
<1>2. ReleasedAreSpent'
      BY DEF ReleasedAreSpent
<1>3. PromisesRecorded'
  <2>1. PICK S : S = Promised'
        OBVIOUS
  <2>2. IsFiniteSet(S) /\ Cardinality(S) <= Cardinality(Granted)
        BY <2>1, MovingPromises, FewerPromises
  <2>3. Granted' = Granted
        BY DEF Granted
  <2> QED
      BY <2>1, <2>2, <2>3 DEF PromisesRecorded
<1>4. DownServesNobody'
      BY DEF DownServesNobody
<1> QED
    BY <1>1, <1>2, <1>3, <1>4

LEMMA RegisterKeeps ==
  ASSUME CustodianInv, NEW t \in Threads, NEW r \in Replicas, RegisterReplica(t, r)
  PROVE  CustodianInv'
<1> DEFINE q == [replica |-> r, step |-> "registered"]
<1>1. ValidRequest(q) /\ ~PastCheck(q) /\ q.step # "answer"
      BY DEF ValidRequest, PastCheck
<1>2. req' = [req EXCEPT ![t] = q] /\ up /\ UNCHANGED <<up, spent, released, trail>>
      BY DEF RegisterReplica
<1>3. /\ files' = [replicas |-> files'.replicas, nonces |-> files'.nonces]
      /\ files'.nonces = files.nonces
      BY DEF RegisterReplica, CustodianInv, ReleasedAreSpent
<1>4. files'.nonces = Torn \/ files'.nonces = spent
      BY <1>3 DEF CustodianInv, ReleasedAreSpent
<1> HIDE DEF q
<1> QED
    BY <1>1, <1>2, <1>3, <1>4, QuietMove

LEMMA AskKeeps ==
  ASSUME CustodianInv, NEW t \in Threads, NEW r \in Replicas, NEW n \in Nonces,
         NEW s \in BOOLEAN, NEW o \in BOOLEAN, AskDecrypt(t, r, n, s, o)
  PROVE  CustodianInv'
<1> DEFINE q == [replica |-> r, nonce |-> n, signed |-> s, opens |-> o, step |-> "check"]
<1>1. q.step = "check" /\ IsDecrypt(q)
      BY Zenon DEF IsDecrypt
<1>2. req' = [req EXCEPT ![t] = q] /\ up /\ UNCHANGED <<up, spent, released, trail, files>>
      BY DEF AskDecrypt
<1> HIDE DEF q
<1>3. ValidRequest(q) /\ ~PastCheck(q) /\ q.step # "answer"
      BY <1>1 DEF ValidRequest, PastCheck
<1> QED
    BY <1>2, <1>3, QuietMove DEF CustodianInv, ReleasedAreSpent

\* A request moves from one step to the next.
LEMMA SteppedRequest ==
  ASSUME RequestShape, NEW t \in Threads, NEW from, At(t, from), from # "registered",
         NEW to, Goto(t, to)
  PROVE  \E q : /\ req' = [req EXCEPT ![t] = q]
                /\ IsDecrypt(q) /\ q.step = to /\ q.nonce = req[t].nonce
                /\ q.nonce \in Nonces /\ q.replica = req[t].replica
<1> DEFINE q == [req[t] EXCEPT !.step = to]
<1>1. IsDecrypt(req[t])
      BY DEF RequestShape, At
<1>2. req' = [req EXCEPT ![t] = q]
      BY DEF Goto
<1>3. /\ IsDecrypt(q) /\ q.step = to /\ q.nonce = req[t].nonce
      /\ q.nonce \in Nonces /\ q.replica = req[t].replica
      BY <1>1 DEF IsDecrypt
<1> QED
    BY <1>2, <1>3

LEMMA ConsumeKeeps ==
  ASSUME CustodianInv, NEW t \in Threads, Consume(t)
  PROVE  CustodianInv'
<1> USE DEF CustodianInv
<1>1. CASE Goto(t, "refuse") /\ UNCHANGED <<spent, files, saver>>
  <2>1. PICK q : /\ req' = [req EXCEPT ![t] = q] /\ IsDecrypt(q) /\ q.step = "refuse"
        BY <1>1, SteppedRequest DEF Consume
  <2>2. ValidRequest(q) /\ ~PastCheck(q) /\ q.step # "answer"
        BY <2>1 DEF ValidRequest, PastCheck
  <2>3. up /\ UNCHANGED <<up, spent, released, trail, files>>
        BY <1>1 DEF Consume, At
  <2> QED
      BY <2>1, <2>2, <2>3, QuietMove DEF ReleasedAreSpent
<1>2. CASE /\ req[t].nonce \notin spent /\ spent' = spent \cup {req[t].nonce}
           /\ files' = [files EXCEPT !.nonces = Torn] /\ Goto(t, "save")
  <2>1. PICK q : /\ req' = [req EXCEPT ![t] = q] /\ IsDecrypt(q) /\ q.step = "save"
                 /\ q.nonce = req[t].nonce /\ q.nonce \in Nonces
        BY <1>2, SteppedRequest DEF Consume
  <2>2. up /\ UNCHANGED <<up, released, trail>>
        BY <1>2 DEF Consume, At
  <2>3. RequestShape'
        BY <2>1, MovingShapes DEF ValidRequest
  <2>4. released[q.nonce] = 0 /\ \A v \in Threads : PastCheck(req[v]) => req[v].nonce # q.nonce
        BY <1>2, <2>1 DEF ReleasedAreSpent, NonceHeldOnce
  <2>5. NonceHeldOnce'
        BY <1>2, <2>1, <2>2, <2>4 DEF NonceHeldOnce, PastCheck, RequestShape
  <2>6. ReleasedAreSpent'
        BY <1>2, <2>2 DEF ReleasedAreSpent
  <2>7. PromisesRecorded'
    <3>1. PICK S : S = Promised'
          OBVIOUS
    <3>2. IsFiniteSet(S) /\ Cardinality(S) <= Cardinality(Granted)
          BY <2>1, <2>2, <3>1, MovingPromises, FewerPromises
    <3>3. Granted' = Granted /\ UNCHANGED trail
          BY <2>2 DEF Granted
    <3> QED
        BY <3>1, <3>2, <3>3 DEF PromisesRecorded
  <2> QED
      BY <2>2, <2>3, <2>5, <2>6, <2>7 DEF DownServesNobody
<1> QED
    BY <1>1, <1>2 DEF Consume

LEMMA SaveKeeps ==
  ASSUME CustodianInv, NEW t \in Threads, SaveNonces(t)
  PROVE  CustodianInv'
<1> USE DEF CustodianInv
<1>1. PICK q : /\ req' = [req EXCEPT ![t] = q] /\ IsDecrypt(q) /\ q.step = "open"
               /\ q.nonce = req[t].nonce
      BY SteppedRequest DEF SaveNonces
<1>2. PastCheck(req[t]) /\ ValidRequest(q)
      BY <1>1 DEF SaveNonces, At, PastCheck, ValidRequest
<1>3. /\ files' = [replicas |-> files'.replicas, nonces |-> files'.nonces]
      /\ files'.nonces = spent
      BY DEF SaveNonces, ReleasedAreSpent
<1>4. up /\ UNCHANGED <<up, spent, released, trail>>
      BY DEF SaveNonces, At
<1> QED
    BY <1>1, <1>2, <1>3, <1>4, QuietMove

\* A record that grants nothing, and the thread is free again.
LEMMA LoggingKeeps ==
  ASSUME CustodianInv, up, NEW t \in Threads,
         NEW event \in {"decrypt", "register_replica"}, NEW r \in Replicas,
         NEW granted \in BOOLEAN, Log(event, r, granted), ~(event = "decrypt" /\ granted),
         req' = [req EXCEPT ![t] = NoReq], UNCHANGED <<up, spent, released, files>>
  PROVE  CustodianInv'
<1> USE DEF CustodianInv
<1>1. RequestShape' /\ NonceHeldOnce'
      BY MovingShapes, MovingHolds DEF ValidRequest, PastCheck
<1>2. ReleasedAreSpent'
      BY DEF ReleasedAreSpent
<1>3. PromisesRecorded'
  <2>1. PICK S : S = Promised'
        OBVIOUS
  <2>2. IsFiniteSet(S) /\ Cardinality(S) <= Cardinality(Granted)
        BY <2>1, MovingPromises, FewerPromises
  <2>3. trail' \in Seq(AuditRecords) /\ Granted' = Granted
        BY LogGrants, Zenon DEF PromisesRecorded
  <2> QED
      BY <2>1, <2>2, <2>3 DEF PromisesRecorded
<1>4. DownServesNobody'
      BY DEF DownServesNobody
<1> QED
    BY <1>1, <1>2, <1>3, <1>4

LEMMA LogRegistrationKeeps ==
  ASSUME CustodianInv, NEW t \in Threads, LogRegistration(t)
  PROVE  CustodianInv'
<1>1. req[t].replica \in Replicas /\ up
      BY DEF CustodianInv, RequestShape, LogRegistration, At, IsDecrypt
<1>2. /\ Log("register_replica", req[t].replica, TRUE)
      /\ req' = [req EXCEPT ![t] = NoReq] /\ UNCHANGED <<up, spent, released, files>>
      BY DEF LogRegistration
<1> QED
    BY <1>1, <1>2, LoggingKeeps, Zenon

LEMMA RefuseDecryptKeeps ==
  ASSUME CustodianInv, NEW t \in Threads, RefuseDecrypt(t)
  PROVE  CustodianInv'
<1>1. req[t].replica \in Replicas /\ up
      BY DEF CustodianInv, RequestShape, RefuseDecrypt, At, IsDecrypt
<1>2. /\ Log("decrypt", req[t].replica, FALSE)
      /\ req' = [req EXCEPT ![t] = NoReq] /\ UNCHANGED <<up, spent, released, files>>
      BY DEF RefuseDecrypt
<1> QED
    BY <1>1, <1>2, LoggingKeeps, Zenon

\* One more plaintext is promised, and one more record says so.
LEMMA LogGrantKeeps ==
  ASSUME CustodianInv, NEW t \in Threads, LogGrant(t)
  PROVE  CustodianInv'
<1> USE DEF CustodianInv
<1>1. PICK q : /\ req' = [req EXCEPT ![t] = q] /\ IsDecrypt(q) /\ q.step = "answer"
               /\ q.nonce = req[t].nonce /\ q.nonce \in Nonces
               /\ q.replica = req[t].replica
      BY SteppedRequest DEF LogGrant
<1>2. /\ up /\ PastCheck(req[t]) /\ UNCHANGED <<up, spent, released, files>>
      /\ Log("decrypt", req[t].replica, TRUE) /\ req[t].replica \in Replicas
      BY <1>1 DEF LogGrant, At, PastCheck, IsDecrypt
<1>3. RequestShape' /\ NonceHeldOnce'
      BY <1>1, <1>2, MovingShapes, MovingHolds DEF ValidRequest
<1>4. ReleasedAreSpent'
      BY <1>2 DEF ReleasedAreSpent
<1>5. trail' \in Seq(AuditRecords) /\ Granted' = Granted \cup {Len(trail) + 1}
      BY <1>2, LogGrants, Zenon DEF PromisesRecorded
<1>6. PromisesRecorded'
  <2>1. PICK S : S = Promised'
        OBVIOUS
  <2>2. S \in SUBSET (Promised \cup {q.nonce})
        BY <1>1, <1>2, <2>1 DEF Promised, RequestShape
  <2>3. /\ IsFiniteSet(Promised \cup {q.nonce})
        /\ Cardinality(Promised \cup {q.nonce}) <= Cardinality(Promised) + 1
    <3>1. Cardinality(Promised) \in Nat
          BY FS_CardinalityType DEF PromisesRecorded
    <3>2. /\ IsFiniteSet(Promised \cup {q.nonce})
          /\ Cardinality(Promised \cup {q.nonce}) =
               IF q.nonce \in Promised THEN Cardinality(Promised)
               ELSE Cardinality(Promised) + 1
          BY FS_AddElement DEF PromisesRecorded
    <3> QED
        BY <3>1, <3>2
  <2>4. IsFiniteSet(S) /\ Cardinality(S) <= Cardinality(Promised) + 1
    <3>1. IsFiniteSet(S) /\ Cardinality(S) <= Cardinality(Promised \cup {q.nonce})
          BY <2>2, <2>3, FS_Subset
    <3>2. /\ Cardinality(S) \in Nat /\ Cardinality(Promised \cup {q.nonce}) \in Nat
          /\ Cardinality(Promised) \in Nat
          BY <2>3, <3>1, FS_CardinalityType DEF PromisesRecorded
    <3> QED
        BY <2>3, <3>1, <3>2
  <2>5. Cardinality(Granted \cup {Len(trail) + 1}) = Cardinality(Granted) + 1
    <3>1. Len(trail) + 1 \notin Granted
          BY DEF Granted, PromisesRecorded
    <3> QED
        BY <3>1, GrantedFinite, FS_AddElement DEF PromisesRecorded
  <2>6. Cardinality(Promised) + 1 <= Cardinality(Granted) + 1
        BY GrantedFinite, FS_CardinalityType DEF PromisesRecorded
  <2>7. Cardinality(S) <= Cardinality(Granted) + 1
        BY <2>4, <2>6, GrantedFinite, FS_CardinalityType DEF PromisesRecorded
  <2> QED
      BY <1>5, <2>1, <2>4, <2>5, <2>7 DEF PromisesRecorded
<1> QED
    BY <1>2, <1>3, <1>4, <1>6 DEF DownServesNobody

LEMMA AnswerKeeps ==
  ASSUME CustodianInv, NEW t \in Threads, AnswerPlaintext(t)
  PROVE  CustodianInv'
<1> USE DEF CustodianInv
<1>1. PICK n \in Nonces : n = req[t].nonce
      BY DEF RequestShape, AnswerPlaintext, At, IsDecrypt
<1>2. /\ up /\ PastCheck(req[t]) /\ req[t] # NoReq /\ req[t].step = "answer"
      /\ UNCHANGED <<up, spent, files, trail>>
      /\ released' = [released EXCEPT ![n] = @ + 1]
      /\ req' = [req EXCEPT ![t] = NoReq]
      BY <1>1 DEF AnswerPlaintext, At, PastCheck
<1>3. RequestShape'
      BY <1>2, MovingShapes DEF ValidRequest
<1>4. released[n] = 0 /\ n \in spent
      BY <1>1, <1>2 DEF NonceHeldOnce
<1>5. ReleasedAreSpent'
      BY <1>2, <1>4 DEF ReleasedAreSpent
<1>6. NonceHeldOnce'
  <2>1. ASSUME NEW v \in Threads, PastCheck(req'[v])
        PROVE  v # t /\ req'[v] = req[v] /\ PastCheck(req[v]) /\ req[v].nonce # n
        BY <1>1, <1>2, <2>1 DEF NonceHeldOnce, PastCheck, RequestShape
  <2>2. \A m : m # n => released'[m] = released[m]
        BY <1>2 DEF ReleasedAreSpent
  <2> QED
      BY <1>2, <2>1, <2>2 DEF NonceHeldOnce, PastCheck
<1>7. PromisesRecorded'
  <2>1. PICK S : S = Promised'
        OBVIOUS
  <2>2. S \in SUBSET Promised
        BY <1>1, <1>2, <2>1 DEF Promised, RequestShape, ReleasedAreSpent
  <2>3. IsFiniteSet(S) /\ Cardinality(S) <= Cardinality(Granted)
        BY <2>2, FewerPromises
  <2>4. Granted' = Granted /\ UNCHANGED trail
        BY <1>2 DEF Granted
  <2> QED
      BY <2>1, <2>3, <2>4 DEF PromisesRecorded
<1> QED
    BY <1>2, <1>3, <1>5, <1>6, <1>7 DEF DownServesNobody

\* The requests and the lock are lost with the process; the files stay, and
\* what loads is what was spent.
LEMMA LifeKeeps ==
  ASSUME CustodianInv, CustodianDies \/ CustodianStarts \/ UNCHANGED custodianVars
  PROVE  CustodianInv'
<1> USE DEF CustodianInv
<1>1. UNCHANGED <<released, trail, files>> /\ spent' = spent
      BY DEF CustodianDies, CustodianStarts, custodianVars, ReleasedAreSpent
<1>2. req' = req \/ req' = [t \in Threads |-> NoReq]
      BY DEF CustodianDies, CustodianStarts, custodianVars
<1>3. RequestShape' /\ NonceHeldOnce'
      BY <1>1, <1>2 DEF RequestShape, NonceHeldOnce, PastCheck
<1>4. ReleasedAreSpent'
      BY <1>1 DEF ReleasedAreSpent
<1>5. PromisesRecorded'
  <2>1. PICK S : S = Promised'
        OBVIOUS
  <2>2. S \in SUBSET Promised
        BY <1>1, <1>2, <2>1 DEF Promised
  <2>3. IsFiniteSet(S) /\ Cardinality(S) <= Cardinality(Granted)
        BY <2>2, FewerPromises
  <2>4. Granted' = Granted
        BY <1>1 DEF Granted
  <2> QED
      BY <1>1, <2>1, <2>3, <2>4 DEF PromisesRecorded
<1>6. DownServesNobody'
      BY DEF CustodianDies, CustodianStarts, custodianVars, DownServesNobody
<1> QED
    BY <1>3, <1>4, <1>5, <1>6

LEMMA CustodianStep == CustodianInv /\ [CustodianNext]_custodianVars => CustodianInv'
BY RegisterKeeps, AskKeeps, ConsumeKeeps, LogRegistrationKeeps, SaveKeeps,
   RefuseDecryptKeeps, LogGrantKeeps, AnswerKeeps, LifeKeeps
   DEF CustodianNext

\* A nonce opens one envelope, and never in secret, for any number of threads,
\* nonces and replicas and through any crashes and restarts: no nonce releases
\* a second plaintext, and every plaintext that is out has a granted record of
\* its own in the audit log (consume_nonce, decrypt).
THEOREM ReleasesAreOnRecord == CustodianSpec => []ReleasedOnRecord
<1>1. CustodianInv => ReleasedOnRecord
  <2> SUFFICES ASSUME CustodianInv PROVE ReleasedOnRecord
      OBVIOUS
  <2>1. \A n \in Nonces : released[n] <= 1
        BY DEF CustodianInv, ReleasedAreSpent
  <2>2. {n \in Nonces : released[n] > 0} \in SUBSET Promised
        BY DEF Promised
  <2> QED
      BY <2>1, <2>2, FewerPromises DEF CustodianInv, ReleasedOnRecord
<1> QED
    BY <1>1, CustodianInitially, CustodianStep, PTL DEF CustodianSpec
=============================================================================

-------------------------- MODULE TwinReplication --------------------------
(***************************************************************************)
(* How rows of the primary ledger reach the twin: twin_shipper.py seals and *)
(* enqueues them, twin_sync_worker.py delivers them, twin_receiver.py       *)
(* stores each once.  One replica; the code treats its targets one after    *)
(* the other and alike.                                                     *)
(*                                                                         *)
(* The sync queue appears by its promise (JobLifecycle): a job is ready,    *)
(* leased to one worker, done, dead or absent.  A delivery is handled by a  *)
(* thread of the receiver that goes on when the worker stops waiting.       *)
(* Sealing makes a new envelope every time, so an envelope is a serial      *)
(* number and two sealings of one row differ.                               *)
(***************************************************************************)
EXTENDS Naturals

CONSTANTS
  NRows,     \* rows the primary will ever hold (bound)
  Workers,   \* sync workers
  Handlers,  \* threads of the receiver
  Batch,     \* rows ship_available reads at a time
  MaxSeals,  \* envelopes the shipper will ever seal (bound)
  NoEntry       \* no entry, nobody, nothing

Rows == 1..NRows

\* What a worker waits for, and a delivery in the hands of the receiver.
Waits == [row : Rows, at : Handlers]

Deliveries == [row : Rows, sent : 1..MaxSeals, step : {"look", "insert"},
               answer : {200, 401, 404, 409, 422, 500, NoEntry}]

ASSUME TwinAssumption ==
  /\ NRows \in Nat /\ MaxSeals \in Nat
  /\ Batch \in Nat \ {0}
  /\ NoEntry \notin Nat /\ NoEntry \notin Workers
  /\ NoEntry \notin Waits /\ NoEntry \notin Deliveries

VARIABLES
  rows,     \* rows the primary has committed: 1..rows
  cursor,   \* the shipper's cursor in Redis
  batch,    \* rows the shipper has read and not yet enqueued
  reach,    \* the highest id of the batch it read, 0 when it has none
  seals,    \* envelopes sealed so far
  job,      \* per row: the life of job "replica|id" in the sync queue
  parcel,   \* per row: NoEntry or the envelope in that job's payload
  holder,   \* per row: the worker it is leased to
  worker,   \* per worker: NoEntry or [row, at], the handler it waits for
  handler,  \* per handler: NoEntry or [row, sent, step, answer]
  replica,  \* per row: NoEntry or the stored envelope
  stranded     \* observer: rows whose job Redis lost during a pass of the shipper

shipVars == <<cursor, batch, reach, seals>>
queueVars == <<job, parcel, holder>>

twinVars == <<rows, shipVars, queueVars, worker, handler, replica, stranded>>

TwinInit ==
  /\ rows = 0
  /\ cursor = 0 /\ batch = {} /\ reach = 0 /\ seals = 0
  /\ job = [i \in Rows |-> "absent"]
  /\ parcel = [i \in Rows |-> NoEntry] /\ holder = [i \in Rows |-> NoEntry]
  /\ worker = [w \in Workers |-> NoEntry]
  /\ handler = [h \in Handlers |-> NoEntry]
  /\ replica = [i \in Rows |-> NoEntry] /\ stranded = {}

-----------------------------------------------------------------------------
\* The ledger commits a row under the next id.
CommitRow ==
  /\ rows < NRows
  /\ rows' = rows + 1
  /\ UNCHANGED <<shipVars, queueVars, worker, handler, replica, stranded>>

(* ship_available: read a batch past the cursor, enqueue row after row, and *)
(* only then move the cursor.                                               *)
ReadBatch ==
  /\ batch = {} /\ reach = 0
  /\ cursor < rows
  /\ reach' = IF rows > cursor + Batch THEN cursor + Batch ELSE rows
  /\ batch' = (cursor + 1)..reach'
  /\ UNCHANGED <<rows, cursor, seals, queueVars, worker, handler, replica, stranded>>

\* seal: an ephemeral key and a nonce of its own in every envelope.
FreshSeal == seals + 1

\* seal() and enqueue() of the next row; an id the queue knows keeps its
\* payload.
ShipRow ==
  /\ batch # {} /\ seals < MaxSeals
  /\ \E i \in batch :
       /\ \A k \in batch : i <= k
       /\ batch' = batch \ {i} /\ stranded' = stranded \ {i}
       /\ seals' = FreshSeal
       /\ IF job[i] = "absent"
          THEN /\ job' = [job EXCEPT ![i] = "ready"]
               /\ parcel' = [parcel EXCEPT ![i] = seals']
          ELSE UNCHANGED <<job, parcel>>
  /\ UNCHANGED <<rows, cursor, reach, holder, worker, handler, replica>>

\* Seeded fault: the cursor moves as soon as the batch is read.
MoveCursorEarly ==
  /\ reach # 0
  /\ cursor' = reach
  /\ UNCHANGED <<rows, batch, reach, seals, queueVars, worker, handler, replica, stranded>>

MoveCursor ==
  /\ reach # 0 /\ batch = {}
  /\ cursor' = reach /\ reach' = 0
  /\ UNCHANGED <<rows, batch, seals, queueVars, worker, handler, replica, stranded>>

\* The shipper dies and starts again from the cursor in Redis.
ShipperDies ==
  /\ reach # 0
  /\ batch' = {} /\ reach' = 0
  /\ UNCHANGED <<rows, cursor, seals, queueVars, worker, handler, replica, stranded>>

Undelivered == {"ready", "leased", "dead"}

\* Rows that are stored, or whose job is there to be delivered, retried or
\* requeued by an operator.
Accounted(i) == replica[i] # NoEntry \/ job[i] \in Undelivered

\* The rows a pass of ship_available has behind it, and will set the cursor past.
Behind == (1..reach) \ batch

\* Redis restarts without its data: the queue and the cursor are gone.  The
\* shipper keeps the rows and the highest id it has read, and its next call
\* finds a server that answers; the jobs behind it are lost unless it fails.
RedisLost ==
  /\ cursor' = 0
  /\ job' = [i \in Rows |-> "absent"]
  /\ parcel' = [i \in Rows |-> NoEntry] /\ holder' = [i \in Rows |-> NoEntry]
  /\ stranded' = IF reach = 0 THEN {}
              ELSE stranded \cup {i \in Behind : replica[i] = NoEntry}
  /\ UNCHANGED <<rows, batch, reach, seals, worker, handler, replica>>

-----------------------------------------------------------------------------
(* TwinSyncWorker: claim, post, settle by the answer.                       *)
Post(w, i, h) ==
  /\ worker[w] = NoEntry /\ handler[h] = NoEntry
  /\ job[i] = "ready"
  /\ job' = [job EXCEPT ![i] = "leased"] /\ holder' = [holder EXCEPT ![i] = w]
  /\ worker' = [worker EXCEPT ![w] = [row |-> i, at |-> h]]
  /\ handler' = [handler EXCEPT ![h] =
                   [row |-> i, sent |-> parcel[i], step |-> "look", answer |-> NoEntry]]
  /\ UNCHANGED <<parcel, rows, shipVars, replica, stranded>>

\* ack and fail act on the job only under the lease they were claimed with.
Put(w, i, life) ==
  IF holder[i] = w
  THEN /\ job' = [job EXCEPT ![i] = life]
       /\ holder' = [holder EXCEPT ![i] = NoEntry]
  ELSE UNCHANGED <<job, holder>>

\* Which answers finish a job, which kill it; the others are tried again as
\* long as the job has attempts left.
Delivered(answer) == answer = 200

Rejected(answer) == answer \in {401, 409, 422}

Outcomes(answer) ==
  IF Delivered(answer) THEN {"done"}
  ELSE IF Rejected(answer) THEN {"dead"} ELSE {"ready", "dead"}

HandleOne(w) ==
  /\ worker[w] # NoEntry
  /\ LET i == worker[w].row  h == worker[w].at IN
       /\ handler[h] # NoEntry /\ handler[h].answer # NoEntry
       /\ \E life \in Outcomes(handler[h].answer) : Put(w, i, life)
       /\ handler' = [handler EXCEPT ![h] = NoEntry]
  /\ worker' = [worker EXCEPT ![w] = NoEntry]
  /\ UNCHANGED <<parcel, rows, shipVars, replica, stranded>>

\* The connection fails or the worker's patience ends before the answer: a
\* retryable failure.  The receiver's thread goes on if it was reached and
\* has not answered.
GoesOn(h) == \/ handler' = [handler EXCEPT ![h] = NoEntry]
             \/ handler[h].answer = NoEntry /\ UNCHANGED handler

TimeOut(w) ==
  /\ worker[w] # NoEntry
  /\ \E life \in Outcomes(504) : Put(w, worker[w].row, life)
  /\ GoesOn(worker[w].at)
  /\ worker' = [worker EXCEPT ![w] = NoEntry]
  /\ UNCHANGED <<parcel, rows, shipVars, replica, stranded>>

\* The worker dies holding its lease.
SyncWorkerDies(w) ==
  /\ worker[w] # NoEntry
  /\ GoesOn(worker[w].at)
  /\ worker' = [worker EXCEPT ![w] = NoEntry]
  /\ UNCHANGED <<queueVars, rows, shipVars, replica, stranded>>

\* reap_expired: the lease of a slow worker ends.
ReapLease(i) ==
  /\ job[i] = "leased"
  /\ \E life \in {"ready", "dead"} : job' = [job EXCEPT ![i] = life]
  /\ holder' = [holder EXCEPT ![i] = NoEntry]
  /\ UNCHANGED <<parcel, rows, shipVars, worker, handler, replica, stranded>>

\* Retention forgets a done job; an operator requeues a dead one.
QueueMaintains(i) ==
  /\ \/ /\ job[i] = "done" /\ job' = [job EXCEPT ![i] = "absent"]
        /\ parcel' = [parcel EXCEPT ![i] = NoEntry]
     \/ job[i] = "dead" /\ job' = [job EXCEPT ![i] = "ready"] /\ UNCHANGED parcel
  /\ UNCHANGED <<holder, rows, shipVars, worker, handler, replica, stranded>>

-----------------------------------------------------------------------------
(* store_entry: the token and the shape are checked, the stored entry is    *)
(* looked up, then the new one is inserted; two threads may look before     *)
(* either inserts, and the primary key then fails the second (a 500).       *)
Waited(h) == \E w \in Workers : worker[w] # NoEntry /\ worker[w].at = h

\* An answer nobody waits for is lost.
Says(h, answer) ==
  handler' = [handler EXCEPT ![h] =
                IF Waited(h) THEN [@ EXCEPT !.answer = answer] ELSE NoEntry]

Serving(h, step) ==
  handler[h] # NoEntry /\ handler[h].answer = NoEntry /\ handler[h].step = step

\* An unregistered replica, a wrong ship token, a body that lacks a field
\* or an envelope of the wrong shape.
Refusals == {401, 404, 422}

RefuseEntry(h) ==
  /\ Serving(h, "look")
  /\ \E answer \in Refusals : Says(h, answer)
  /\ UNCHANGED <<rows, shipVars, queueVars, worker, replica, stranded>>

LookEntry(h) ==
  /\ Serving(h, "look")
  /\ LET stored == replica[handler[h].row] IN
       IF stored = NoEntry
       THEN handler' = [handler EXCEPT ![h].step = "insert"]
       ELSE Says(h, IF stored = handler[h].sent THEN 200 ELSE 409)
  /\ UNCHANGED <<rows, shipVars, queueVars, worker, replica, stranded>>

InsertEntry(h) ==
  /\ Serving(h, "insert")
  /\ LET i == handler[h].row IN
       IF replica[i] = NoEntry
       THEN replica' = [replica EXCEPT ![i] = handler[h].sent] /\ Says(h, 200)
       ELSE UNCHANGED replica /\ Says(h, 500)
  /\ UNCHANGED <<rows, shipVars, queueVars, worker, stranded>>

-----------------------------------------------------------------------------
TwinNext ==
  \/ CommitRow \/ ReadBatch \/ ShipRow \/ MoveCursor \/ ShipperDies \/ RedisLost
  \/ \E i \in Rows : ReapLease(i) \/ QueueMaintains(i)
  \/ \E w \in Workers, i \in Rows, h \in Handlers : Post(w, i, h)
  \/ \E w \in Workers : HandleOne(w) \/ TimeOut(w) \/ SyncWorkerDies(w)
  \/ \E h \in Handlers : RefuseEntry(h) \/ LookEntry(h) \/ InsertEntry(h)

TwinSpec == TwinInit /\ [][TwinNext]_twinVars

-----------------------------------------------------------------------------
TwinTypeOK ==
  /\ rows \in 0..NRows /\ cursor \in 0..NRows /\ reach \in 0..NRows
  /\ batch \subseteq Rows /\ seals \in 0..MaxSeals
  /\ job \in [Rows -> {"absent", "ready", "leased", "done", "dead"}]
  /\ parcel \in [Rows -> 1..MaxSeals \cup {NoEntry}]
  /\ holder \in [Rows -> Workers \cup {NoEntry}]
  /\ worker \in [Workers -> Waits \cup {NoEntry}]
  /\ handler \in [Handlers -> Deliveries \cup {NoEntry}]
  /\ replica \in [Rows -> 1..MaxSeals \cup {NoEntry}] /\ stranded \subseteq Rows

(* No row falls between the cursor and the replica, but for one case: a row *)
(* at or below the cursor is stored, or its job is still there to be        *)
(* delivered, retried or requeued by an operator, or Redis came back empty  *)
(* in the middle of the pass that had enqueued it or had it behind, and the *)
(* row was not shipped since.  Crashes of the shipper before the cursor     *)
(* moves, lost answers, expired leases, racing deliveries and a Redis that  *)
(* comes back empty between two passes lose nothing (ship_available,        *)
(* handle_one, store_entry).                                                *)
ShippedIsAccounted == \A i \in 1..cursor : Accounted(i) \/ i \in stranded

(* twin_shipper.py:15-18: "At-least-once, idempotent everywhere.  [...] the *)
(* Redis cursor advances only after the batch is enqueued.  Losing the      *)
(* cursor re-ships history harmlessly."  Not when it is lost, with the      *)
(* queue, in the middle of a pass: the pass then sets the cursor past rows  *)
(* that are neither stored nor queued, and no later pass reads them.        *)
AtLeastOnce == \A i \in 1..cursor : Accounted(i)

(* History in the customer's custody is not rewritten by deliveries: of two *)
(* threads that both found no entry, or of two sealings of one row, the     *)
(* second never replaces the first (store_entry, "replica is append-only"). *)
ReplicaAppendOnly ==
  [][\A i \in Rows : replica[i] # NoEntry => replica'[i] = replica[i]]_twinVars
=============================================================================

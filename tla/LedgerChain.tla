----------------------------- MODULE LedgerChain -----------------------------
(***************************************************************************)
(* The hash-chained governance ledger, sentinel_os/governance/             *)
(* ledger_postgres.py (PostgreSQLLedger), and the external head anchor of  *)
(* sentinel_os/twin_custody.py.                                            *)
(*                                                                         *)
(* Every writer follows one protocol: take the advisory lock, look at the  *)
(* rows its own admission rule needs, read the head, insert, commit (which *)
(* releases the lock), and then, outside the lock, read the head, count    *)
(* the rows and replace the anchor file.  Postgres runs READ COMMITTED, so *)
(* each statement after the commit sees what others have committed since.  *)
(*                                                                         *)
(* A row is its entry plus previous_hash and current_hash.  SHA-256 over   *)
(* the canonical entry and previous_hash is taken to be injective, so a    *)
(* current_hash is the sequence of the entries it covers.  Ids follow      *)
(* commit order because they are drawn under the lock: the id of a row is  *)
(* its place in `chain`, and a reference by hash is kept as that id.       *)
(***************************************************************************)
EXTENDS Integers, Sequences

CONSTANTS
  Writers,   \* connections writing to the ledger
  Subjects,  \* episodes and cassette versions
  Values,    \* content hashes, key fingerprints, call sids
  NoSid,     \* a decision whose input_data names no call_sid
  EventIds,  \* event_ids of observed events
  Requests,  \* the writes callers ask for
  MaxRows,   \* bound: no write is started on a longer chain
  Nil        \* no writer

RequestKinds ==
  {"entry", "governance_decision", "cassette_binding", "attestation_policy",
   "decision_supersession", "human_selection", "recommendation_shadow_run",
   "recommendation_shadow_score"}

\* `value` is the call_sid of a decision and the event_id of an observed event;
\* `events` is no column, it keeps the ids of the stream append_decision was given.
Entry == [kind : RequestKinds \cup {"observed_event"}, subject : Subjects,
          value : Values \cup EventIds, ref : Nat, events : Seq(EventIds)]

\* Only append_decision takes observed events.
Request(r) ==
  /\ r \in Entry /\ r.kind \in RequestKinds
  /\ r.events # <<>> => r.kind = "governance_decision"

ASSUME LedgerConstants ==
  /\ \A r \in Requests : Request(r)
  /\ MaxRows \in Nat
  /\ Nil \notin Writers

VARIABLES
  chain,    \* the committed rows, in id order
  lock,     \* holder of pg_advisory_xact_lock(hashtext('ledger_entries'))
  wpc,      \* where each writer is
  request,  \* the entry each writer is writing
  rows,     \* the rows of its open transaction
  seal,     \* head and row count it has read for the anchor
  anchor,   \* the anchor file; entries = 0 when there is none
  seenRows, \* rows the running verify_chain has fetched, 0 when none runs
  verdict   \* what the last verify_chain concluded

writerVars == <<lock, wpc, request, rows, seal>>
ledgerVars == <<chain, writerVars, anchor, seenRows, verdict>>

Positions == {"idle", "waiting", "locked", "written",
              "committed", "counting", "sealing"}

Verdicts == {"ok", "broken", "missing", "short", "mismatch"}

Genesis == <<>>

\* sha256 of the canonical entry, previous_hash included.
HashOf(entry, prev) == Append(prev, entry)

Row == [entry : Entry, prev : Seq(Entry), hash : Seq(Entry)]

Link(entry, prev) ==
  [entry |-> entry, prev |-> prev, hash |-> HashOf(entry, prev)]

\* current_hash of the row with this id, "genesis" before the first.
HashAt(id) == IF id = 0 THEN Genesis ELSE chain[id].hash

LastHash == HashAt(Len(chain))

NoSeal == [head |-> Genesis, entries |-> 0]

LedgerInit ==
  /\ chain = <<>>
  /\ lock = Nil
  /\ wpc = [w \in Writers |-> "idle"]
  /\ request = [w \in Writers |-> Nil]
  /\ rows = [w \in Writers |-> <<>>]
  /\ seal = [w \in Writers |-> NoSeal]
  /\ anchor = NoSeal
  /\ seenRows = 0
  /\ verdict = "ok"

-----------------------------------------------------------------------------
(* Admission rules: what each kind of write looks up before it inserts. *)

IsKind(id, kind) == id \in DOMAIN chain /\ chain[id].entry.kind = kind

\* append_decision, before the lock: a replaces_hash must name a decision.
ReplacesReal(r) ==
  r.kind = "governance_decision" /\ r.ref # 0 =>
    IsKind(r.ref, "governance_decision")

\* append_decision, before the lock: no event_id twice in a batch.
EventsDistinct(r) ==
  \A j, k \in DOMAIN r.events : r.events[j] = r.events[k] => j = k

\* Seeded fault: no index on the event ids.
EventsUnchecked(r) == TRUE

\* append_decision: idx_unique_observed_event_id refuses an event_id that is on
\* the chain, whichever episode or decision it came with.
EventsNew(r) ==
  \A i \in DOMAIN chain, k \in DOMAIN r.events :
    IsKind(i, "observed_event") => chain[i].entry.value # r.events[k]

\* append_decision: idx_unique_call_sid refuses a call_sid that is on the chain.
SidNew(r) ==
  r.kind = "governance_decision" /\ r.value # NoSid =>
    \A i \in DOMAIN chain : IsKind(i, "governance_decision") =>
      chain[i].entry.value # r.value

\* Seeded fault: only a binding of the same content is found.
BindsNewContent(r) ==
  r.kind = "cassette_binding" =>
    \A i \in DOMAIN chain : IsKind(i, "cassette_binding") =>
      <<chain[i].entry.subject, chain[i].entry.value>> # <<r.subject, r.value>>

\* bind_cassette_version: a bound version is never bound again, be it with
\* the same content ("exists") or with other content (a conflict).
BindsNew(r) ==
  r.kind = "cassette_binding" =>
    \A i \in DOMAIN chain : IsKind(i, "cassette_binding") =>
      chain[i].entry.subject # r.subject

\* Seeded fault: the oldest marker is compared instead of the newest.
IsOldestMarker(id) ==
  /\ IsKind(id, "attestation_policy")
  /\ \A i \in DOMAIN chain : IsKind(i, "attestation_policy") => id <= i

\* The newest attestation_policy marker on the chain.
IsNewestMarker(id) ==
  /\ IsKind(id, "attestation_policy")
  /\ \A i \in DOMAIN chain : IsKind(i, "attestation_policy") => i <= id

\* record_attestation_policy: a marker only when the newest names another key.
MarksChange(r) ==
  r.kind = "attestation_policy" =>
    \A i \in DOMAIN chain : IsNewestMarker(i) => chain[i].entry.value # r.value

\* supersede_decision refers to a decision.
SupersedesReal(r) ==
  r.kind = "decision_supersession" => IsKind(r.ref, "governance_decision")

\* Seeded fault: a human selection may name a row of any kind.
SelectsRow(r) == r.kind = "human_selection" => r.ref \in DOMAIN chain

\* record_human_selection refers to a decision.
SelectsReal(r) == r.kind = "human_selection" => IsKind(r.ref, "governance_decision")

\* record_recommendation_shadow_score refers to a shadow run.
NamesShadowRun(r) ==
  r.kind = "recommendation_shadow_score" =>
    IsKind(r.ref, "recommendation_shadow_run")

Admits(r) ==
  /\ EventsNew(r) /\ SidNew(r) /\ BindsNew(r) /\ MarksChange(r)
  /\ SupersedesReal(r) /\ SelectsReal(r) /\ NamesShadowRun(r)

\* append_decision's entries: the decision, then its observed events in order.
\* Every other writer inserts one entry.
EventOf(r, k) == [kind |-> "observed_event", subject |-> r.subject,
                  value |-> r.events[k], ref |-> 0, events |-> <<>>]

Batch(r) ==
  [k \in 1..(Len(r.events) + 1) |-> IF k = 1 THEN r ELSE EventOf(r, k - 1)]

\* The rows of the batch, each linked to the one before it.
NewRows(r) ==
  [k \in 1..(Len(r.events) + 1) |->
     Link(Batch(r)[k], LastHash \o SubSeq(Batch(r), 1, k - 1))]

-----------------------------------------------------------------------------
(* One write. *)

Goes(w, from, to) == wpc[w] = from /\ wpc' = [wpc EXCEPT ![w] = to]

\* The call returns or raises; its connection goes back to the pool.
Leaves(w) ==
  /\ wpc' = [wpc EXCEPT ![w] = "idle"]
  /\ request' = [request EXCEPT ![w] = Nil]
  /\ rows' = [rows EXCEPT ![w] = <<>>]
  /\ seal' = [seal EXCEPT ![w] = NoSeal]

\* A call arrives and passes the checks made before the lock.
Start(w) ==
  /\ Len(chain) < MaxRows
  /\ Goes(w, "idle", "waiting")
  /\ \E r \in Requests : /\ EventsDistinct(r) /\ ReplacesReal(r)
                         /\ request' = [request EXCEPT ![w] = r]
  /\ UNCHANGED <<chain, lock, rows, seal, anchor, seenRows, verdict>>

\* Seeded fault: the advisory lock is not exclusive.
LockShared(w) ==
  /\ Goes(w, "waiting", "locked")
  /\ lock' = w
  /\ UNCHANGED <<chain, request, rows, seal, anchor, seenRows, verdict>>

\* SELECT pg_advisory_xact_lock
Lock(w) ==
  /\ lock = Nil
  /\ Goes(w, "waiting", "locked")
  /\ lock' = w
  /\ UNCHANGED <<chain, request, rows, seal, anchor, seenRows, verdict>>

\* Look up, read the head and insert, all before the commit.
Insert(w) ==
  /\ Goes(w, "locked", "written")
  /\ Admits(request[w])
  /\ rows' = [rows EXCEPT ![w] = NewRows(request[w])]
  /\ UNCHANGED <<chain, lock, request, seal, anchor, seenRows, verdict>>

\* The rows appear and the lock is released.
Commit(w) ==
  /\ Goes(w, "written", "committed")
  /\ chain' = chain \o rows[w]
  /\ lock' = Nil
  /\ UNCHANGED <<request, rows, seal, anchor, seenRows, verdict>>

\* Refused by its admission rule, failed or crashed before the commit: the
\* transaction is rolled back, which also releases the lock.
Rollback(w) ==
  /\ wpc[w] \in {"waiting", "locked", "written"}
  /\ Leaves(w)
  /\ lock' = IF lock = w THEN Nil ELSE lock
  /\ UNCHANGED <<chain, anchor, seenRows, verdict>>

-----------------------------------------------------------------------------
(* _anchor_head, after the commit and outside the lock. *)

\* SELECT current_hash, id ... ORDER BY id DESC LIMIT 1
AnchorHead(w) ==
  /\ Goes(w, "committed", "counting")
  /\ seal' = [seal EXCEPT ![w] = [head |-> LastHash, entries |-> 0]]
  /\ UNCHANGED <<chain, lock, request, rows, anchor, seenRows, verdict>>

\* Seeded fault: the next id stands for the count.
AnchorCountNextId(w) ==
  /\ Goes(w, "counting", "sealing")
  /\ seal' = [seal EXCEPT ![w] = [head |-> seal[w].head,
                                  entries |-> Len(chain) + 1]]
  /\ UNCHANGED <<chain, lock, request, rows, anchor, seenRows, verdict>>

\* SELECT COUNT(*)
AnchorCount(w) ==
  /\ Goes(w, "counting", "sealing")
  /\ seal' = [seal EXCEPT ![w] = [head |-> seal[w].head,
                                  entries |-> Len(chain)]]
  /\ UNCHANGED <<chain, lock, request, rows, anchor, seenRows, verdict>>

\* write_head_anchor: os.replace of a complete file.
AnchorWrite(w) ==
  /\ wpc[w] = "sealing"
  /\ Leaves(w)
  /\ anchor' = seal[w]
  /\ UNCHANGED <<chain, lock, seenRows, verdict>>

\* The anchor is not written: an I/O error, raised to the caller although the
\* rows are committed, or a crash.
AnchorLost(w) ==
  /\ wpc[w] \in {"committed", "counting", "sealing"}
  /\ Leaves(w)
  /\ UNCHANGED <<chain, lock, anchor, seenRows, verdict>>

-----------------------------------------------------------------------------
(* verify_chain: fetch every row, then read the anchor. *)

VerifyRead ==
  /\ seenRows = 0 /\ chain # <<>>
  /\ seenRows' = Len(chain)
  /\ UNCHANGED <<chain, writerVars, anchor, verdict>>

\* Links and content hashes of the first n rows.
LinksHold(n) ==
  \A i \in 1..n : /\ chain[i].prev = HashAt(i - 1)
                  /\ chain[i].hash = HashOf(chain[i].entry, chain[i].prev)

\* Seeded fault: an anchor of all the rows counts as longer than them.
CheckHeadAnchorOffByOne(n) ==
  CASE anchor.entries = 0 -> "missing"
    [] anchor.entries >= n -> "short"
    [] anchor.entries \in 1..(n - 1) /\ HashAt(anchor.entries) # anchor.head -> "mismatch"
    [] OTHER -> "ok"

\* read_head_anchor and check_head_anchor, for the first n rows.
CheckHeadAnchor(n) ==
  CASE anchor.entries = 0 -> "missing"
    [] anchor.entries > n -> "short"
    [] anchor.entries \in 1..n /\ HashAt(anchor.entries) # anchor.head -> "mismatch"
    [] OTHER -> "ok"

VerifyAnchor ==
  /\ seenRows # 0
  /\ seenRows' = 0
  /\ verdict' = IF LinksHold(seenRows) THEN CheckHeadAnchor(seenRows) ELSE "broken"
  /\ UNCHANGED <<chain, writerVars, anchor>>

WriteStep(w) ==
  \/ Start(w) \/ Lock(w) \/ Insert(w) \/ Commit(w) \/ Rollback(w)
  \/ AnchorHead(w) \/ AnchorCount(w) \/ AnchorWrite(w) \/ AnchorLost(w)

LedgerNext == (\E w \in Writers : WriteStep(w)) \/ VerifyRead \/ VerifyAnchor

LedgerSpec == LedgerInit /\ [][LedgerNext]_ledgerVars

-----------------------------------------------------------------------------
(* Properties. *)

Seal == [head : Seq(Entry), entries : Nat]

\* Every variable has its type.
LedgerTypeOK ==
  /\ chain \in Seq(Row)
  /\ lock \in Writers \cup {Nil}
  /\ wpc \in [Writers -> Positions]
  /\ request \in [Writers -> Requests \cup {Nil}]
  /\ rows \in [Writers -> Seq(Row)]
  /\ seal \in [Writers -> Seal]
  /\ anchor \in Seal
  /\ seenRows \in Nat
  /\ verdict \in Verdicts

\* The chain never forks or breaks: each row carries the hash of the row before
\* it, however the transactions of concurrent writers interleave or fail.
ChainIntact == LinksHold(Len(chain))

\* A cassette version is a content commitment: concurrent loads of a version
\* leave one cassette_binding row for it.
OneBinding ==
  \A i, k \in DOMAIN chain :
    /\ IsKind(i, "cassette_binding") /\ IsKind(k, "cassette_binding")
    /\ chain[i].entry.subject = chain[k].entry.subject
    => i = k

\* "Concurrent boots cannot each append their own marker": between two markers
\* naming the same key there is one naming another key.
MarkersAlternate ==
  \A i, k \in DOMAIN chain :
    /\ IsKind(i, "attestation_policy") /\ IsKind(k, "attestation_policy")
    /\ i < k /\ chain[i].entry.value = chain[k].entry.value
    => \E m \in (i + 1)..(k - 1) : /\ IsKind(m, "attestation_policy")
                                   /\ chain[m].entry.value # chain[k].entry.value

\* The kind of row an entry's reference must name, if it has a reference.
Targets(e) ==
  CASE e.kind \in {"decision_supersession", "human_selection"} -> {"governance_decision"}
    [] e.kind = "governance_decision" /\ e.ref # 0 -> {"governance_decision"}
    [] e.kind = "recommendation_shadow_score" -> {"recommendation_shadow_run"}
    [] OTHER -> {}

\* A supersession, a human selection or a replacement names a decision, and a
\* shadow score a shadow run, that was on the chain before it: each writer's
\* look-up, made under the lock or (replaces_hash) before it, is still true of
\* the row it inserts.
ReferencesReal ==
  \A i \in DOMAIN chain : \A target \in Targets(chain[i].entry) :
    chain[i].entry.ref < i /\ IsKind(chain[i].entry.ref, target)

\* "The decision and its whole observation stream commit together or not at
\* all": every decision is followed by the events it was appended with, all of
\* them, in order and with no foreign row between; every event row is part of
\* such a stream; and no event or call_sid is recorded twice, although an
\* episode may be decided again with other events or with none.
StreamsWhole ==
  /\ \A i \in DOMAIN chain : \A k \in DOMAIN chain[i].entry.events :
       i + k \in DOMAIN chain /\ chain[i + k].entry = EventOf(chain[i].entry, k)
  /\ \A j \in DOMAIN chain : IsKind(j, "observed_event") =>
       \E i \in 1..(j - 1) : j - i \in DOMAIN chain[i].entry.events
  /\ \A i, j \in DOMAIN chain :
       /\ IsKind(i, "observed_event") /\ IsKind(j, "observed_event")
       /\ chain[i].entry.value = chain[j].entry.value
       => i = j
  /\ \A i, j \in DOMAIN chain :
       /\ IsKind(i, "governance_decision") /\ IsKind(j, "governance_decision")
       /\ chain[i].entry.value = chain[j].entry.value /\ chain[i].entry.value # NoSid
       => i = j

\* "The anchor never runs ahead of a row that did not commit": whatever writer
\* sealed it last, the anchored head is the hash of a committed row and the
\* anchored count is no more than the rows there are.
AnchorNotAhead ==
  anchor.entries # 0 =>
    /\ anchor.entries <= Len(chain)
    /\ \E i \in 1..anchor.entries : HashAt(i) = anchor.head

\* Append only: no step changes or removes a committed row.
AppendOnly ==
  [][/\ Len(chain') >= Len(chain)
     /\ \A i \in DOMAIN chain : chain'[i] = chain[i]]_ledgerVars

\* What verify_chain tells of a chain that only the writers touched, although it
\* reads the anchor after the rows and writers and their anchors go on in between:
\* its rows are never broken; it is shorter than its anchor only when rows were
\* committed since they were fetched; and a head that is not at the anchored
\* position is still the hash of a row that was fetched.
AlarmsExplained ==
  [][seenRows # 0 /\ seenRows' = 0 =>
       /\ verdict' # "broken"
       /\ verdict' = "short" => Len(chain) > seenRows
       /\ verdict' = "mismatch" => \E i \in 1..seenRows : HashAt(i) = anchor.head]_ledgerVars

-----------------------------------------------------------------------------
(* What the repository says and the protocol does not keep. *)

\* check_head_anchor: a different hash at the anchored position means that the
\* chain was cut or rebuilt; so on a chain only the writers touch, the anchored
\* head is the hash at the anchored position.
AnchorNamesPosition ==
  anchor.entries # 0 => HashAt(anchor.entries) = anchor.head
=============================================================================

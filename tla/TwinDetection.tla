--------------------------- MODULE TwinDetection ---------------------------
(***************************************************************************)
(* twin_detector.py: the replica's entries, the primary's rows and the      *)
(* customer's own submission record are fetched one after the other, while  *)
(* all three go on changing, and run_detection compares them.               *)
(*                                                                         *)
(* Delivery appears by what TwinReplication establishes: the entry of a     *)
(* committed row arrives once, at any time after it, in any order, and does *)
(* not change.  Rows may be rewritten, removed, or given another cassette   *)
(* snapshot on the primary (the snapshot's body is outside the row's hash): *)
(* that is what the twin is there to show.  A hash is the row's number and  *)
(* the body it was computed from.                                          *)
(***************************************************************************)
EXTENDS Naturals, FiniteSets

CONSTANTS
  Ids,       \* ids of the primary's rows, 1..n
  Sids,      \* those that decide a submission of the customer
  SLA,       \* max_lag_seconds, in ticks
  Page,      \* entries one request to the replica returns
  MaxAlter,  \* rows altered on the primary (bound)
  NoRow      \* no row, no entry

ASSUME DetectionAssumption ==
  /\ Sids \subseteq Ids /\ Ids \subseteq Nat /\ Ids = 1..Cardinality(Ids)
  /\ SLA \in Nat /\ Page \in Nat \ {0} /\ MaxAlter \in Nat
  /\ NoRow \notin {"CLEAN", "FINDINGS"}

VARIABLES
  table,    \* per row: NoRow or [hash, prev, body, snapshot], the primary's table
  lag,      \* per row: ticks since its commit, counted up to SLA
  age,      \* per submission: ticks since the customer made it, likewise
  asked,    \* the customer's submission record
  altered,  \* observer: rows altered on the primary
  copy,     \* per row: NoRow or the stored entry
  fetch,    \* NoRow, or the detector's pass: what it has and how far it is
  verdict,  \* of its last report
  deep      \* the detector holds a decryptor

detectionVars == <<table, lag, age, asked, altered, copy, fetch, verdict, deep>>

DetectionInit ==
  /\ table = [i \in Ids |-> NoRow] /\ lag = [i \in Ids |-> 0]
  /\ age = [i \in Sids |-> 0] /\ asked = {} /\ altered = {}
  /\ copy = [i \in Ids |-> NoRow]
  /\ fetch = NoRow /\ verdict = NoRow
  /\ deep \in BOOLEAN

-----------------------------------------------------------------------------
Committed == {i \in Ids : table[i] # NoRow} \cup altered

\* The customer submits and keeps a record of it.
AskFor(i) ==
  /\ i \notin asked
  /\ asked' = asked \cup {i}
  /\ UNCHANGED <<table, lag, age, altered, copy, fetch, verdict, deep>>

\* The ledger commits the next row.
CommitNext ==
  /\ \E i \in Ids :
       /\ Committed = 1..(i - 1)
       /\ i \in Sids => i \in asked
       /\ table' = [table EXCEPT ![i] =
                      [hash |-> <<i, "kept">>, prev |-> <<i - 1, "kept">>,
                       body |-> "kept", snapshot |-> "kept"]]
  /\ UNCHANGED <<lag, age, asked, altered, copy, fetch, verdict, deep>>

Alter(i) ==
  /\ table[i] # NoRow /\ i \notin altered /\ Cardinality(altered) < MaxAlter
  /\ altered' = altered \cup {i}
  /\ \/ table' = [table EXCEPT ![i].hash = <<i, "rewritten">>, ![i].body = "rewritten"]
     \/ table' = [table EXCEPT ![i].body = "rewritten"]
     \/ table' = [table EXCEPT ![i].snapshot = "rewritten"]
     \/ table' = [table EXCEPT ![i] = NoRow]
  /\ UNCHANGED <<lag, age, asked, copy, fetch, verdict, deep>>

\* The shipper's and the receiver's work, see TwinReplication.
Deliver(i) ==
  /\ table[i] # NoRow /\ copy[i] = NoRow
  /\ copy' = [copy EXCEPT ![i] = table[i]]
  /\ UNCHANGED <<table, lag, age, asked, altered, fetch, verdict, deep>>

DetectionTick ==
  /\ lag' = [i \in Ids |-> IF i \in Committed /\ lag[i] < SLA
                           THEN lag[i] + 1 ELSE lag[i]]
  /\ age' = [i \in Sids |-> IF i \in asked /\ age[i] < SLA
                            THEN age[i] + 1 ELSE age[i]]
  /\ UNCHANGED <<table, asked, altered, copy, fetch, verdict, deep>>

-----------------------------------------------------------------------------
(* detect: fetch_replica_entries page by page, then fetch_primary_feed,     *)
(* then load_submission_record and the report.                              *)
After(i) == {k \in Ids : k > i /\ copy[k] # NoRow}

PageAfter(i) ==
  {k \in After(i) : Cardinality({n \in After(i) : n < k}) < Page}

BeginFetch ==
  /\ fetch = NoRow
  /\ fetch' = [entries |-> [i \in Ids |-> NoRow], upto |-> 0,
               feed |-> [i \in Ids |-> NoRow], step |-> "entries"]
  /\ verdict' = NoRow
  /\ UNCHANGED <<table, lag, age, asked, altered, copy, deep>>

\* An empty page ends the loop.
FetchEntries ==
  /\ fetch # NoRow /\ fetch.step = "entries"
  /\ LET got == PageAfter(fetch.upto) IN
       fetch' = [fetch EXCEPT
                   !.entries = [i \in Ids |-> IF i \in got THEN copy[i] ELSE @[i]],
                   !.upto = IF got = {} THEN @
                            ELSE CHOOSE i \in got : \A k \in got : k <= i,
                   !.step = IF got = {} THEN "feed" ELSE "entries"]
  /\ UNCHANGED <<table, lag, age, asked, altered, copy, verdict, deep>>

\* Seeded fault: the primary is fetched before the replica.
FetchFeedFirst ==
  /\ fetch # NoRow /\ fetch.step = "feed"
  /\ fetch' = [fetch EXCEPT
                 !.entries = copy,
                 !.feed = [i \in Ids |-> IF fetch.entries[i] = NoRow THEN NoRow
                                         ELSE table[i]],
                 !.step = "report"]
  /\ UNCHANGED <<table, lag, age, asked, altered, copy, verdict, deep>>

FetchFeed ==
  /\ fetch # NoRow /\ fetch.step = "feed"
  /\ fetch' = [fetch EXCEPT !.feed = table, !.step = "report"]
  /\ UNCHANGED <<table, lag, age, asked, altered, copy, verdict, deep>>

Held(entries) == {i \in Ids : entries[i] # NoRow}

\* The covered window: from the first to the last entry of the replica.
Covered(entries) ==
  {i \in Ids : \E a, b \in Held(entries) : a <= i /\ i <= b}

\* Rows of the window the replica lacks: pending, and missing once overdue.
Lacking(entries, feed) ==
  {i \in Covered(entries) : feed[i] # NoRow /\ entries[i] = NoRow}

MissingRows(entries, feed) == {i \in Lacking(entries, feed) : lag[i] >= SLA}

\* Part 3: submissions of the customer whose decision the replica lacks, unless
\* part 1 has their row among the missing or the pending already
\* (accounted_missing_sids).
MissingSubmissions(entries, feed) ==
  {i \in asked : /\ entries[i] = NoRow /\ age[i] >= SLA
                 /\ i \notin Lacking(entries, feed)}

\* recompute_current_hash: of the body, and not of the snapshot.
RecomputedHash(i, row) == <<i, row.body>>

\* The headers in the clear.
HeaderDiffers(held, row) == held.hash # row.hash \/ held.prev # row.prev

\* With a decryptor the entry is opened, its hash recomputed and its
\* snapshot compared with the primary's.
DeepVerifies(i, held, row) ==
  held.hash = RecomputedHash(i, held) /\ held.snapshot = row.snapshot

Diverging(entries, feed) ==
  {i \in Held(entries) :
     /\ feed[i] # NoRow
     /\ \/ HeaderDiffers(entries[i], feed[i])
        \/ deep /\ ~DeepVerifies(i, entries[i], feed[i])}

Extra(entries, feed) == {i \in Held(entries) : feed[i] = NoRow}

ChainBreaks(entries) ==
  {i \in Held(entries) : /\ i - 1 \in Held(entries)
                         /\ entries[i].prev # entries[i - 1].hash}

RunDetection ==
  /\ fetch # NoRow /\ fetch.step = "report"
  /\ LET e == fetch.entries  f == fetch.feed IN
       verdict' = IF MissingRows(e, f) \cup MissingSubmissions(e, f) \cup
                     Diverging(e, f) \cup Extra(e, f) \cup ChainBreaks(e) = {}
                  THEN "CLEAN" ELSE "FINDINGS"
  /\ fetch' = NoRow
  /\ UNCHANGED <<table, lag, age, asked, altered, copy, deep>>

DetectionNext ==
  \/ \E i \in Sids : AskFor(i)
  \/ \E i \in Ids : Alter(i) \/ Deliver(i)
  \/ CommitNext \/ DetectionTick
  \/ BeginFetch \/ FetchEntries \/ FetchFeed \/ RunDetection

DetectionSpec == DetectionInit /\ [][DetectionNext]_detectionVars

-----------------------------------------------------------------------------
DetectionTypeOK ==
  /\ lag \in [Ids -> 0..SLA] /\ age \in [Sids -> 0..SLA]
  /\ asked \subseteq Sids /\ altered \subseteq Ids
  /\ verdict \in {NoRow, "CLEAN", "FINDINGS"} /\ deep \in BOOLEAN

Reports(v) == fetch # NoRow /\ fetch' = NoRow /\ verdict' = v

(* The verdict can be relied on (detect, run_detection).  On a primary      *)
(* nobody altered the detector reports findings only when something overdue *)
(* was not on the replica when its entries were fetched, however commits    *)
(* and deliveries fall between the pages, the feed and the submission       *)
(* record.  A clean report vouches: a row the replica had witnessed is on   *)
(* the primary under the hash it was witnessed with, a row rewritten before *)
(* it was shipped does not pass once its successor has been delivered, and  *)
(* a submission that was decided and never witnessed is not overdue, or its *)
(* row lies between two the replica holds and is not overdue itself.  With  *)
(* a decryptor neither does a row whose body was changed under its hash     *)
(* before it was shipped, nor one whose snapshot was changed after.         *)
VerdictHonest ==
  [][/\ Reports("FINDINGS") /\ altered = {} =>
          \E i \in Ids : /\ fetch.entries[i] = NoRow
                         /\ \/ i \in Committed /\ lag[i] >= SLA
                            \/ i \in asked /\ age[i] >= SLA
     /\ Reports("CLEAN") =>
          \A i \in Ids :
            IF fetch.entries[i] = NoRow
            THEN i \in Sids \cap Committed =>
                   \/ age[i] < SLA
                   \/ /\ lag[i] < SLA /\ fetch.feed[i] # NoRow
                      /\ \E a, b \in Held(fetch.entries) : a < i /\ i < b
            ELSE LET succeeded == i + 1 \in Ids /\ fetch.entries[i + 1] # NoRow IN
                 /\ fetch.feed[i] # NoRow
                 /\ fetch.feed[i].hash = fetch.entries[i].hash
                 /\ succeeded => fetch.feed[i].hash = <<i, "kept">>
                 /\ deep => fetch.feed[i].snapshot = fetch.entries[i].snapshot
                 /\ deep /\ succeeded => fetch.entries[i].body = "kept"
    ]_detectionVars
=============================================================================

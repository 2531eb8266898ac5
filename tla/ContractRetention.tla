-------------------------- MODULE ContractRetention --------------------------
(* What a counterparty is told about its data: contract_retention.py (the   *)
(* retention sweep over ingest and deletion rows) and                       *)
(* contract_attestation.py (the partition chain, the anchor receipt and the *)
(* continuity check), over the rows record_contract_ingest and              *)
(* record_contract_deletion append.                                         *)
(*                                                                          *)
(* One counterparty, rows in ledger order.  A row's `hash` is its ledger    *)
(* hash, a number nothing else carries; the running SHA-256 of the          *)
(* partition chain is the sequence of the row hashes it folds.              *)
EXTENDS Integers, Sequences, FiniteSets, SequencesExt, FiniteSetsExt

CONSTANTS
  Ingests,      \* ingest ids
  Terms,        \* the retention terms, in contract order: [max, backup]
  NoCarveOut,   \* a term without backup_max_days
  LastDate,     \* bound: the clock stops here
  MaxHoldings,  \* bound: rows of the partition
  ReadLimit,    \* LIMIT of get_contract_rows
  MaxTamper,    \* bound: changes made behind the ledger's back
  Unparsed      \* a claimed time that does not parse

Dates == 0 .. LastDate
Times == Dates \cup {Unparsed}
Scopes == {"active", "backup"}

ASSUME RetentionAssumption ==
  /\ LastDate \in Nat /\ MaxHoldings \in Nat /\ MaxTamper \in Nat
  /\ ReadLimit \in Nat \ {0}
  /\ NoCarveOut \notin Nat /\ Unparsed \notin Nat
  /\ Terms \in Seq([max : Nat, backup : Nat \cup {NoCarveOut}])

VARIABLES
  date,      \* the clock, in days
  holdings,  \* ingest and deletion rows
  swept,     \* the sweep in progress, between its two reads
  findings,  \* what the step just taken reported
  receipt,   \* the anchor receipt the counterparty holds
  serial,    \* hashes given out so far
  covered,   \* observer: the rows the receipt was issued over
  tampered,  \* changes made behind the ledger's back so far
  edited     \* observer: hashes of the rows edited under them

retentionVars ==
  <<date, holdings, swept, findings, receipt, serial, covered, tampered, edited>>

NotSweeping == [at |-> "idle"]
NoReceipt == [count |-> -1]

-----------------------------------------------------------------------------
(* The retention terms.                                                     *)

\* validate_term: a carve-out shorter than the term is refused.
ValidRetention(term) == term.backup # NoCarveOut => term.backup >= term.max

\* The strictest term wins; without one there is no horizon.
RetentionMaxDays ==
  IF Terms = <<>> THEN -1 ELSE Min({Terms[i].max : i \in DOMAIN Terms})

\* The first carve-out in contract order.
BackupMaxDays ==
  LET carved == SelectSeq(Terms, LAMBDA t : t.backup # NoCarveOut)
  IN IF carved = <<>> THEN -1 ELSE Head(carved).backup

EffectiveMax(scope) ==
  IF scope = "backup" /\ BackupMaxDays # -1 THEN BackupMaxDays ELSE RetentionMaxDays

-----------------------------------------------------------------------------
(* The sweep.                                                               *)

\* get_contract_rows for one kind, oldest first: the rows read, by their
\* position in the partition.
OfKind(rows, kind) ==
  LET found == {i \in DOMAIN rows : rows[i].kind = kind}
      read  == {i \in found : Cardinality({j \in found : j <= i}) <= ReadLimit}
  IN [i \in read |-> rows[i]]

RowsFor(rows, id) == {i \in DOMAIN rows : rows[i].id = id}

\* retention_status for one ingest and one scope; among the ingest rows of
\* one id the last one counts, among its deletions the earliest.
RetentionStatus(ingests, deletions, id, scope, now) ==
  LET own  == RowsFor(ingests, id)
      gone == {i \in RowsFor(deletions, id) : deletions[i].scope = scope}
      due  == ingests[Max(own)].on + EffectiveMax(scope)
  IN IF own = {} THEN "no_ingest_record"
     ELSE IF EffectiveMax(scope) = -1 THEN "no_retention_term"
     ELSE IF ingests[Max(own)].on = Unparsed THEN "unparseable_ingest_time"
     ELSE IF \E i \in gone : deletions[i].on = Unparsed THEN "unparseable_deletion_time"
     ELSE IF gone # {}
       THEN IF Min({deletions[i].on : i \in gone}) <= due
            THEN "DELETED_ON_TIME" ELSE "deleted_late"
     ELSE IF now > due THEN "not_deleted" ELSE "WITHIN_TERM"

\* assess_counterparty: every id that either kind of row names, in the
\* active scope and, with a carve-out, in the backup scope.
Assess(ingests, deletions, now, mark) ==
  LET ids    == {ingests[i].id : i \in DOMAIN ingests}
                \cup {deletions[i].id : i \in DOMAIN deletions}
      scopes == IF BackupMaxDays = -1 THEN {"active"} ELSE Scopes
  IN {[id |-> id, scope |-> scope, mark |-> mark,
       status |-> RetentionStatus(ingests, deletions, id, scope, now)] :
      id \in ids, scope \in scopes}

-----------------------------------------------------------------------------
(* The partition chain and the receipt.                                     *)

PartitionHead(rows) == [i \in DOMAIN rows |-> rows[i].hash]

\* issue_anchor_receipt: over exactly the rows that were read.
Receipt(rows) == [count |-> Len(rows), head |-> PartitionHead(rows)]

\* Seeded fault: a receipt is honoured as soon as no row is missing.
VerifyContinuityByCount(held, rows) ==
  IF Len(rows) < held.count THEN "DIVERGED" ELSE "CONTINUOUS"

\* verify_continuity, for a receipt whose signature verifies.
VerifyContinuity(held, rows) ==
  IF \/ Len(rows) < held.count
     \/ PartitionHead(SubSeq(rows, 1, held.count)) # held.head
  THEN "DIVERGED" ELSE "CONTINUOUS"

\* get_contract_rows over all kinds, as the attestation reads them.
SliceRead == SubSeq(holdings, 1, Min({ReadLimit, Len(holdings)}))

-----------------------------------------------------------------------------
RetentionInit ==
  /\ \A i \in DOMAIN Terms : ValidRetention(Terms[i])
  /\ date = 0
  /\ holdings = <<>>
  /\ swept = NotSweeping
  /\ findings = {}
  /\ receipt = NoReceipt
  /\ serial = 0
  /\ covered = <<>>
  /\ tampered = 0
  /\ edited = {}

DatePasses ==
  /\ date < LastDate
  /\ date' = date + 1
  /\ findings' = {}
  /\ UNCHANGED <<holdings, swept, receipt, serial, covered, tampered, edited>>

\* A row hash covers the chain before it and the time: no two are alike.
Chained(kind, id, on, scope) ==
  /\ Len(holdings) < MaxHoldings
  /\ holdings' = Append(holdings, [kind |-> kind, id |-> id, on |-> on,
                                   scope |-> scope, hash |-> serial + 1])
  /\ serial' = serial + 1

\* The arrival is the caller's claim: received_at only has to be there.
RecordIngest(id, on) ==
  /\ Chained("ingest", id, on, "active")
  /\ findings' = {}
  /\ UNCHANGED <<date, swept, receipt, covered, tampered, edited>>

\* A deletion is attested, not observed: any id, at any claimed time.
RecordDeletion(id, scope, on) ==
  /\ Chained("deletion", id, on, scope)
  /\ findings' = {}
  /\ UNCHANGED <<date, swept, receipt, covered, tampered, edited>>

\* sweep: the ingest rows are read first, in a transaction of their own.
SweepIngests ==
  /\ swept.at = "idle"
  /\ swept' = [at |-> "ingests", mark |-> Len(holdings),
               rows |-> OfKind(holdings, "ingest")]
  /\ findings' = {}
  /\ UNCHANGED <<date, holdings, receipt, serial, covered, tampered, edited>>

\* Then the deletion rows, and the findings are computed.
SweepDeletions ==
  /\ swept.at = "ingests"
  /\ findings' = Assess(swept.rows, OfKind(holdings, "deletion"), date, swept.mark)
  /\ swept' = NotSweeping
  /\ UNCHANGED <<date, holdings, receipt, serial, covered, tampered, edited>>

\* build_attestation: one read of all kinds, the findings from it, and the
\* receipt over exactly the rows that were read.
BuildAttestation ==
  /\ swept.at = "idle"
  /\ findings' = Assess(OfKind(SliceRead, "ingest"), OfKind(SliceRead, "deletion"),
                        date, Len(SliceRead))
  /\ receipt' = Receipt(SliceRead)
  /\ covered' = SliceRead
  /\ UNCHANGED <<date, holdings, swept, serial, tampered, edited>>

\* The table's owner rewrites a row and its hash, removes it, puts another one
\* in front of it, or exchanges two rows.
Altered(i) ==
  LET forged == [holdings[i] EXCEPT !.hash = serial + 1]
  IN {[holdings EXCEPT ![i] = forged], RemoveAt(holdings, i)}
     \cup (IF Len(holdings) < MaxHoldings THEN {InsertAt(holdings, i, forged)} ELSE {})
     \cup {[holdings EXCEPT ![i] = holdings[j], ![j] = holdings[i]] :
            j \in DOMAIN holdings \ {i}}

Tamper(i) ==
  /\ tampered < MaxTamper
  /\ holdings' \in Altered(i)
  /\ serial' = serial + 1
  /\ tampered' = tampered + 1
  /\ findings' = {}
  /\ UNCHANGED <<date, swept, receipt, covered, edited>>

\* Or edits a row's data and leaves the stored hash as it is.
EditUnderHash(i, on) ==
  /\ tampered < MaxTamper
  /\ holdings' = [holdings EXCEPT ![i].on = on]
  /\ edited' = edited \cup {holdings[i].hash}
  /\ tampered' = tampered + 1
  /\ findings' = {}
  /\ UNCHANGED <<date, swept, receipt, serial, covered>>

RetentionNext ==
  \/ DatePasses
  \/ \E id \in Ingests, on \in Times : RecordIngest(id, on)
  \/ \E id \in Ingests, scope \in Scopes, on \in Times : RecordDeletion(id, scope, on)
  \/ SweepIngests
  \/ SweepDeletions
  \/ BuildAttestation
  \/ \E i \in DOMAIN holdings : Tamper(i)
  \/ \E i \in DOMAIN holdings, on \in Times : EditUnderHash(i, on)

RetentionSpec == RetentionInit /\ [][RetentionNext]_retentionVars

-----------------------------------------------------------------------------
RetentionTypeOK ==
  /\ date \in Dates
  /\ Len(holdings) <= MaxHoldings
  /\ swept.at \in {"idle", "ingests"}
  /\ tampered \in 0 .. MaxTamper
  /\ receipt.count \in {-1} \cup 0 .. MaxHoldings

\* A row the receipt covers is where it was and as it was, but for an edit
\* that left its hash alone.
InPlace(i) ==
  \/ holdings[i] = covered[i]
  \/ holdings[i].hash = covered[i].hash /\ covered[i].hash \in edited

\* What the counterparty is told is what the record says (sweep,
\* build_attestation, verify_continuity): an ingest is never reported as not
\* deleted when a readable deletion of it was already on the chain as its row
\* was read, although the sweep reads ingests and deletions in two
\* transactions; and, however the partition grew, was rewritten, cut, filled
\* up or reordered since, the receipt verifies exactly when every row it covers
\* is in its place, as it was or edited under its old hash.
AttestationHonest ==
  /\ tampered = 0 =>
       \A f \in findings : f.status \in {"not_deleted", "WITHIN_TERM"} =>
         ~ \E i \in DOMAIN OfKind(SubSeq(holdings, 1, f.mark), "deletion") :
             LET r == OfKind(SubSeq(holdings, 1, f.mark), "deletion")[i]
             IN r.id = f.id /\ r.scope = f.scope
  /\ receipt # NoReceipt =>
       (VerifyContinuity(receipt, SliceRead) = "CONTINUOUS" <=>
          Len(covered) <= Len(holdings) /\ \A i \in DOMAIN covered : InPlace(i))

\* "If the operator later removed, altered or reordered anything in that
\* prefix, recomputing the prefix head will not reproduce the receipt's head"
\* (verify_continuity): a receipt that verifies covers rows as they were.  The
\* fold takes the stored current_hash and nothing recomputes it.
ReceiptSeesAlterations ==
  receipt # NoReceipt /\ VerifyContinuity(receipt, SliceRead) = "CONTINUOUS" =>
    \A i \in DOMAIN covered : holdings[i] = covered[i]
=============================================================================

--------------------------- MODULE ContractEgress ---------------------------
(* The egress chokepoint of a data-use contract: contract_cassette.py (the  *)
(* terms and the registry), contract_egress.py (the decision on one egress  *)
(* and the standing check over the recorded ones) and the writers and the   *)
(* reader of the counterparty's rows in ledger_postgres.py.                 *)
(*                                                                          *)
(* One counterparty.  Its rows are `partition`, in ledger order; ingests    *)
(* and deletions matter here only for the room they take in a limited read  *)
(* (ContractRetention models what they say).  Each record_contract_* call is one transaction under the  *)
(* ledger's lock, after which the head is anchored, and that may fail; a    *)
(* request reads the approvals in a transaction of its own, decides in      *)
(* memory, and chains its decision in another one.                          *)
EXTENDS Naturals, Sequences, FiniteSets, FiniteSetsExt

CONSTANTS
  Lenses,       \* the contract cassettes somebody may register: sets of terms
  Approvals,    \* approval ids
  Purposes,     \* purposes an egress may state
  Classes,      \* recipient classes; "subcontractor" is one
  LastDay,      \* bound: the clock stops here
  MaxPartition, \* bound: rows of the partition
  RowLimit,     \* LIMIT of get_contract_rows
  NoTime,       \* an empty timestamp
  Garbled,      \* a timestamp that does not parse
  ApprovalBodies,       \* the times the approvers write: grant, expiry, revocation
  Asks,         \* the requests that are made
  NoRef         \* a request without approval_reference

Days == 0 .. LastDay

ASSUME EgressAssumption ==
  /\ LastDay \in Nat /\ MaxPartition \in Nat /\ RowLimit \in Nat \ {0}
  /\ "subcontractor" \in Classes
  /\ NoTime \notin Days /\ Garbled \notin Days /\ NoTime # Garbled
  /\ LET Stamps == Days \cup {NoTime, Garbled}
     IN ApprovalBodies \subseteq [since : Stamps, until : Stamps, ended : Stamps]
  /\ Asks \subseteq [class : Classes, purpose : Purposes,
                     ref : Approvals \cup {NoRef}, occurred : Days \cup {NoTime}]
  /\ NoRef \notin Approvals
  /\ \A lens \in Lenses : \A term \in lens :
       term.type \in {"EGRESS_PROHIBITED", "EGRESS_REQUIRES_APPROVAL",
                      "PURPOSE_RESTRICTION"}

VARIABLES
  registered,  \* the lenses registered for the counterparty
  day,         \* the clock
  partition,   \* rows of the counterparty, ledger order
  asking,      \* the request in progress
  granted      \* what request_egress returned as authorized, with the rows
               \* an approval it needed was looked up in (none: 0)

egressVars == <<registered, day, partition, asking, granted>>

Vacant == [at |-> "idle"]

-----------------------------------------------------------------------------
(* The terms of a contract.                                                 *)

\* validate_term: what the closed vocabulary requires of one term.
ValidTerm(term) ==
  CASE term.type = "EGRESS_PROHIBITED"        -> term.param \in Purposes
    [] term.type = "EGRESS_REQUIRES_APPROVAL" -> term.param \in Classes
    [] term.type = "PURPOSE_RESTRICTION"      -> term.param # {}

\* validate_contract_cassette_terms: a lens without terms is refused too.
ValidLens(lens) == lens # {} /\ \A term \in lens : ValidTerm(term)

ParamsOf(lens, type) == {term.param : term \in {t \in lens : t.type = type}}

\* Several restrictions intersect; none leaves every purpose permitted.
PermittedPurposes(lens) ==
  {p \in Purposes : \A allowed \in ParamsOf(lens, "PURPOSE_RESTRICTION") : p \in allowed}

\* for_counterparty: none or several contracts are no contract for the caller.
Contract == IF Cardinality(registered) = 1 THEN registered ELSE {}

-----------------------------------------------------------------------------
(* Approvals.                                                               *)

\* What one get_contract_rows(kinds = approval) returns, the oldest RowLimit,
\* by their position in the partition.
ApprovalRows(rows) ==
  LET found == {i \in DOMAIN rows : rows[i].kind = "approval"}
      read  == {i \in found : Cardinality({j \in found : j <= i}) <= RowLimit}
  IN [i \in read |-> rows[i]]

OwnRows(rows, id) == {i \in DOMAIN ApprovalRows(rows) : rows[i].id = id}

\* The last value the rows of an approval give a field; empty ones overwrite
\* nothing, so a grant recorded after a revocation leaves revoked_at in place.
Merged(rows, own, field) ==
  LET given == {i \in own : rows[i].body[field] # NoTime}
  IN IF given = {} THEN NoTime ELSE rows[Max(given)].body[field]

\* Seeded fault: only the newest row of an approval is looked at.
LatestApprovalReplaced(rows, id) ==
  LET own == OwnRows(rows, id)
      newest == IF own = {} THEN {} ELSE {Max(own)}
  IN [exists  |-> own # {},
      revoked |-> own # {} /\ rows[Max(own)].state = "revoked",
      since   |-> Merged(rows, newest, "since"),
      until   |-> Merged(rows, newest, "until"),
      ended   |-> Merged(rows, newest, "ended")]

\* latest_approval_states, for one approval id.
LatestApproval(rows, id) ==
  LET own == OwnRows(rows, id)
  IN [exists  |-> own # {},
      revoked |-> own # {} /\ rows[Max(own)].state = "revoked",
      since   |-> Merged(rows, own, "since"),
      until   |-> Merged(rows, own, "until"),
      ended   |-> Merged(rows, own, "ended")]

Parses(t) == t \in Days

\* approval_live_at: the tests in the order the code makes them.
ApprovalLiveAt(approval, when) ==
  IF ~approval.exists THEN "FLAG"
  ELSE IF ~Parses(when) \/ ~Parses(approval.since) THEN "INDETERMINATE"
  ELSE IF when < approval.since THEN "FLAG"
  ELSE IF approval.until = Garbled THEN "INDETERMINATE"
  ELSE IF Parses(approval.until) /\ when > approval.until THEN "FLAG"
  ELSE IF approval.ended = Garbled THEN "INDETERMINATE"
  ELSE IF Parses(approval.ended) /\ when >= approval.ended THEN "FLAG"
  ELSE IF approval.revoked /\ approval.ended = NoTime THEN "INDETERMINATE"
  ELSE "PASS"

-----------------------------------------------------------------------------
(* One request.                                                             *)

\* EgressRequest.when(): the stated time, or the clock whenever it is called.
When(req) == IF req.occurred = NoTime THEN day ELSE req.occurred

Needs(lens, req) == req.class \in ParamsOf(lens, "EGRESS_REQUIRES_APPROVAL")

\* evaluate_egress: every term is tested and any reason refuses.
Decision(req, lenses, approval, when) ==
  IF /\ lenses # {}
     /\ \A lens \in lenses :
          /\ req.purpose \notin ParamsOf(lens, "EGRESS_PROHIBITED")
          /\ req.purpose \in PermittedPurposes(lens)
          /\ Needs(lens, req) =>
               /\ req.ref # NoRef
               /\ ApprovalLiveAt(approval, when) = "PASS"
  THEN "AUTHORIZED" ELSE "REFUSED"

EgressInit ==
  /\ registered = {}
  /\ day = 0
  /\ partition = <<>>
  /\ asking = Vacant
  /\ granted = {}

RegisterLens(lens) ==
  /\ ValidLens(lens)
  /\ lens \notin registered
  /\ registered' = registered \cup {lens}
  /\ UNCHANGED <<day, partition, asking, granted>>

DayPasses ==
  /\ day < LastDay
  /\ day' = day + 1
  /\ UNCHANGED <<registered, partition, asking, granted>>

\* record_contract_approval: a revocation needs revoked_at, nothing else does.
\* Its caller may be told of a failed anchor; the row is there either way.
RecordApproval(id, state, body) ==
  /\ Len(partition) < MaxPartition
  /\ body.since # NoTime
  /\ state = "revoked" => body.ended # NoTime
  /\ partition' = Append(partition, [kind |-> "approval", id |-> id,
                                     state |-> state, body |-> body])
  /\ UNCHANGED <<registered, day, asking, granted>>

\* record_contract_ingest, record_contract_deletion.
RecordOther ==
  /\ Len(partition) < MaxPartition
  /\ partition' = Append(partition, [kind |-> "other"])
  /\ UNCHANGED <<registered, day, asking, granted>>

\* The contract is looked up and the approvals are read, if the request
\* names one.
ReadApprovals(req) ==
  /\ asking.at = "idle"
  /\ asking' = [at     |-> "read",
                req    |-> req,
                lenses |-> Contract,
                seen   |-> IF Contract # {} /\ req.ref # NoRef
                           THEN Len(partition) ELSE 0]
  /\ UNCHANGED <<registered, day, partition, granted>>

EvaluateEgress ==
  /\ asking.at = "read"
  /\ LET approval == LatestApproval(SubSeq(partition, 1, asking.seen), asking.req.ref)
     IN asking' = [at       |-> "decided",
                   req      |-> asking.req,
                   seen     |-> IF \E lens \in asking.lenses : Needs(lens, asking.req)
                                THEN asking.seen ELSE 0,
                   when     |-> When(asking.req),
                   decision |-> Decision(asking.req, asking.lenses, approval,
                                         When(asking.req))]
  /\ UNCHANGED <<registered, day, partition, granted>>

\* record_contract_egress, with the time asked for once more.
EgressRow(req, decision) ==
  [kind |-> "egress", decision |-> decision, class |-> req.class, ref |-> req.ref,
   at |-> When(req)]

CommitEgress ==
  /\ asking.at = "decided"
  /\ Len(partition) < MaxPartition
  /\ partition' = Append(partition, EgressRow(asking.req, asking.decision))
  /\ asking' = Vacant
  /\ UNCHANGED <<registered, day>>

\* The decision is returned once its row is committed and the head anchored.
ChainEgress ==
  /\ CommitEgress
  /\ granted' = IF asking.decision = "AUTHORIZED"
                THEN granted \cup {[row  |-> Len(partition) + 1,
                                    seen |-> asking.seen, when |-> asking.when]}
                ELSE granted

\* The row is committed and _anchor_head raises: EgressLedgerUnavailable, and
\* nothing is returned.
AnchorUnavailable == CommitEgress /\ UNCHANGED granted

\* The ledger fails before the commit: EgressLedgerUnavailable.
LedgerUnavailable ==
  /\ asking.at = "decided"
  /\ asking' = Vacant
  /\ UNCHANGED <<registered, day, partition, granted>>

-----------------------------------------------------------------------------
(* check_subcontractor_approvals, over what build_attestation reads: rows   *)
(* of all kinds, the oldest RowLimit of them.                               *)

Reading(rows) == SubSeq(rows, 1, IF Len(rows) < RowLimit THEN Len(rows) ELSE RowLimit)

Audited(rows) ==
  {i \in DOMAIN rows : /\ rows[i].kind = "egress"
                       /\ rows[i].class = "subcontractor"
                       /\ rows[i].decision = "AUTHORIZED"}

ApprovalFinding(rows, i) ==
  IF rows[i].ref = NoRef THEN "FLAG"
  ELSE ApprovalLiveAt(LatestApproval(rows, rows[i].ref), rows[i].at)

-----------------------------------------------------------------------------
EgressNext ==
  \/ \E lens \in Lenses : RegisterLens(lens)
  \/ DayPasses
  \/ \E id \in Approvals, state \in {"granted", "revoked"}, body \in ApprovalBodies :
       RecordApproval(id, state, body)
  \/ RecordOther
  \/ \E req \in Asks : ReadApprovals(req)
  \/ EvaluateEgress
  \/ ChainEgress
  \/ AnchorUnavailable
  \/ LedgerUnavailable

EgressSpec == EgressInit /\ [][EgressNext]_egressVars

-----------------------------------------------------------------------------
EgressTypeOK ==
  /\ registered \subseteq Lenses
  /\ day \in Days
  /\ Len(partition) <= MaxPartition
  /\ asking.at \in {"idle", "read", "decided"}
  /\ \A g \in granted : g.row \in DOMAIN partition

\* The revocation of an approval that stands after the first n rows: the
\* newest readable row that gives an end to it.
EndsGiven(rows, id) ==
  {i \in DOMAIN ApprovalRows(rows) : rows[i].id = id /\ rows[i].body.ended # NoTime}

RevokedBy(rows, id, when) ==
  EndsGiven(rows, id) # {} /\
    LET end == rows[Max(EndsGiven(rows, id))].body.ended
    IN ~Parses(end) \/ when >= end

\* The audited egresses of `seen` whose approval was revoked by a row of `rows`.
AgainstRevocation(seen, rows) ==
  {i \in Audited(seen) : RevokedBy(rows, seen[i].ref, seen[i].at)}

\* An authorization is backed by the record (request_egress and
\* check_subcontractor_approvals): whatever is returned as authorized has its
\* row on the chain; where the approval is required, no revocation that the
\* request could read and that had taken effect is undone by a grant recorded
\* after it; and an authorization that raced a revocation, or whose time moved
\* past one before it was recorded, is not passed by a standing check that
\* reads both rows.
EgressBacked ==
  /\ \A g \in granted :
       /\ partition[g.row].kind = "egress" /\ partition[g.row].decision = "AUTHORIZED"
       /\ g.seen > 0 =>
            ~RevokedBy(SubSeq(partition, 1, g.seen), partition[g.row].ref, g.when)
  /\ LET read == Reading(partition) IN
       \A i \in AgainstRevocation(read, read) : ApprovalFinding(read, i) # "PASS"

\* contract_egress.py:362-363, "Every AUTHORIZED egress whose recipient_class is
\* subcontractor must reference an approval that was live and unrevoked at egress
\* time", over rows that ledger_postgres.py:2494 calls "Every contract row for
\* ONE counterparty, oldest first": no revocation on the chain is left out of the
\* check.  The read has a LIMIT that rows of all kinds share, so the newest
\* revocation is the first row to fall out of it.
RevocationsReachCheck ==
  LET read == Reading(partition) IN
  \A i \in AgainstRevocation(read, partition) : ApprovalFinding(read, i) # "PASS"

\* contract_egress.py:289-290, "Raises EgressLedgerUnavailable if the decision
\* could not be chained at all": an authorization that is on the chain was
\* returned.  _anchor_head raises after the commit, so the caller may be told that
\* nothing was chained and the chain says AUTHORIZED.
UnavailableMeansUnchained ==
  \A i \in DOMAIN partition :
    partition[i].kind = "egress" /\ partition[i].decision = "AUTHORIZED" =>
      \E g \in granted : g.row = i
=============================================================================

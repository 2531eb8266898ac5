---------------------------- MODULE Obligations ----------------------------
(***************************************************************************)
(* What decisions owe later: the receiver derives obligations from the      *)
(* declarations of the decisions it holds and chains their transitions      *)
(* (twin_receiver.py, outcome_v1.py); obligation_supersession.py abandons   *)
(* those of replaced decisions; obligation_sweep.py reviews the resolved    *)
(* ones as a cohort and chains the review.                                  *)
(*                                                                         *)
(* Every request is a transaction of its own that reads first and appends   *)
(* later.  _append_obligation locks the chain until the commit, but the     *)
(* read before it is not under that lock, so other requests commit between  *)
(* the two.  Cohorts (domain, kind) are reviewed one by one and alike; one  *)
(* is modelled, and an obligation is named by its decision.                 *)
(***************************************************************************)
EXTENDS Naturals, Sequences, FiniteSets, SequencesExt

CONSTANTS
  Decisions,    \* decisions on the primary ledger
  Clients,      \* concurrent requests and sweeps
  MaxChain,     \* rows of the obligation chain (bound)
  MaxReviews,   \* chained cohort reviews (bound)
  Idle          \* a client without a request

ASSUME ObligationAssumption ==
  MaxChain \in Nat /\ MaxReviews \in Nat /\ IsFiniteSet(Decisions)

VARIABLES
  declares,  \* per decision: what its outcome_obligation column holds
  arrived,   \* decisions the replica has stored
  replaced,  \* decisions a later one names in replaces_hash
  chain,     \* obligation_ledger, in the order of seq
  client,    \* per client: Idle or the request it is in
  reviews,   \* cohort_review_ledger
  derived    \* observer: readable decisions some finished derivation read

obligationVars == <<declares, arrived, replaced, chain, client, reviews, derived>>

ObligationInit ==
  /\ declares \in [Decisions -> {"a rule", "not a rule", "nothing"}]
  /\ arrived = {} /\ replaced = {} /\ chain = <<>> /\ reviews = <<>>
  /\ client = [c \in Clients |-> Idle]
  /\ derived = {}

-----------------------------------------------------------------------------
\* Decisions of a cassette with the outcome capability carry a declaration.
Declaring == {d \in Decisions : declares[d] # "nothing"}

Readable == {d \in Declaring : declares[d] = "a rule"}

RowsOf(d) == {k \in 1..Len(chain) : chain[k].of = d}

Known == {d \in Decisions : RowsOf(d) # {}}

\* _latest_states: the row with the highest seq of an obligation.
Latest(d) == chain[CHOOSE k \in RowsOf(d) : \A n \in RowsOf(d) : n <= k]

StateIs(d, state) == d \in Known /\ Latest(d).state = state

\* open_obligation, resolve, stay_open and abandon, for what a transition
\* may ask; validate_obligation refuses the last one (a reason outside the
\* vocabulary, a resolution without evidence).
Opening == [state |-> "OPEN", reason |-> "not_yet_due", favorable |-> "none"]

Bodies ==
  {[state |-> "RESOLVED", reason |-> "none", favorable |-> f] : f \in {"yes", "none"}}
  \cup {[state |-> "ABANDONED", reason |-> r, favorable |-> "none"] :
          r \in {"subject_withdrew", "decision_superseded"}}
  \cup {[state |-> "OPEN", reason |-> "data_source_unreachable", favorable |-> "none"],
        [state |-> "RESOLVED", reason |-> "unfounded", favorable |-> "yes"]}

OpenReasons == {"not_yet_due", "insufficient_cohort", "data_source_unreachable",
                "genuinely_ambiguous"}

AbandonedReasons == {"subject_withdrew", "decision_superseded", "retention_expired"}

Valid(body) ==
  CASE body.state = "OPEN" -> body.reason \in OpenReasons
    [] body.state = "RESOLVED" -> body.reason = "none"
    [] body.state = "ABANDONED" -> body.reason \in AbandonedReasons

RowFor(d, body) == [of |-> d, state |-> body.state, reason |-> body.reason,
                    favorable |-> body.favorable]

Turn(c, request) == client' = [client EXCEPT ![c] = request]

-----------------------------------------------------------------------------
\* The shipper's work, and the ledger's.
Arrive(d) ==
  /\ d \notin arrived
  /\ arrived' = arrived \cup {d}
  /\ UNCHANGED <<replaced, chain, client, reviews, derived>>

DeclareReplacement(d) ==
  /\ d \notin replaced
  /\ replaced' = replaced \cup {d}
  /\ UNCHANGED <<arrived, chain, client, reviews, derived>>

(* derive_obligations: the declaring rows and the known obligations are     *)
(* read, then one OPEN row is appended for every other readable one.        *)
DeriveRead(c) ==
  /\ client[c] = Idle
  /\ Turn(c, [step |-> "derive", rows |-> arrived \cap Readable, known |-> Known])
  /\ UNCHANGED <<arrived, replaced, chain, reviews, derived>>

\* One transaction: it appends what it did not find, and commits or, when
\* the database fails, leaves nothing.
DeriveAppend(c) ==
  /\ client[c] # Idle /\ client[c].step = "derive"
  /\ LET new == SetToSeq(client[c].rows \ client[c].known) IN
       \/ /\ Len(chain) + Len(new) <= MaxChain
          /\ chain' = chain \o [k \in DOMAIN new |-> RowFor(new[k], Opening)]
          /\ derived' = derived \cup client[c].rows
       \/ UNCHANGED <<chain, derived>>
  /\ Turn(c, Idle)
  /\ UNCHANGED <<arrived, replaced, reviews>>

-----------------------------------------------------------------------------
(* transition_obligation: an unknown obligation is 404, a closed one 409, a *)
(* body that does not validate 422; otherwise the row is appended.  What    *)
(* the same client still has to post afterwards goes with it (`rest`).      *)

\* Seeded fault: an obligation without a row is not told from an open one.
TransitionLookUnknown(c, d, body, rest) ==
  IF (d \in Known => Latest(d).state = "OPEN") /\ Valid(body)
  THEN Turn(c, [step |-> "append", of |-> d, body |-> body, rest |-> rest])
  ELSE Turn(c, Idle)

TransitionLook(c, d, body, rest) ==
  IF StateIs(d, "OPEN") /\ Valid(body)
  THEN Turn(c, [step |-> "append", of |-> d, body |-> body, rest |-> rest])
  ELSE Turn(c, Idle)

AskTransition(c, d, body) ==
  /\ client[c] = Idle
  /\ TransitionLook(c, d, body, {})
  /\ UNCHANGED <<arrived, replaced, chain, reviews, derived>>

TransitionAppend(c) ==
  /\ client[c] # Idle /\ client[c].step = "append" /\ Len(chain) < MaxChain
  /\ chain' = Append(chain, RowFor(client[c].of, client[c].body))
  /\ Turn(c, IF client[c].rest = {} THEN Idle
             ELSE [step |-> "sweep", todo |-> client[c].rest])
  /\ UNCHANGED <<arrived, replaced, reviews, derived>>

\* The request fails in the database, or its client goes away before it.
GiveUp(c) ==
  /\ client[c] # Idle /\ client[c].step \in {"sweep", "append"}
  /\ Turn(c, Idle)
  /\ UNCHANGED <<arrived, replaced, chain, reviews, derived>>

(* obligation_supersession.sweep and record_outcomes: of the replaced       *)
(* decisions' obligations those that are OPEN are abandoned; an abandoned   *)
(* one is done, a resolved or unknown one is reported and left alone.       *)
Outcome(d) ==
  IF d \notin Readable \cap Known THEN "unresolvable"
  ELSE CASE StateIs(d, "OPEN") -> "abandoned"
         [] StateIs(d, "ABANDONED") /\ Latest(d).reason = "decision_superseded" ->
              "already_abandoned"
         [] OTHER -> "conflict"

Superseded == [state |-> "ABANDONED", reason |-> "decision_superseded",
               favorable |-> "none"]

\* The states are read once; the abandonments are posted one after the
\* other, and the first refusal ends the sweep.
SweepSuperseded(c) ==
  /\ client[c] = Idle
  /\ LET todo == {d \in replaced : Outcome(d) = "abandoned"} IN
       todo # {} /\ Turn(c, [step |-> "sweep", todo |-> todo])
  /\ UNCHANGED <<arrived, replaced, chain, reviews, derived>>

SweepPost(c) ==
  /\ client[c] # Idle /\ client[c].step = "sweep"
  /\ \E d \in client[c].todo :
       TransitionLook(c, d, Superseded, client[c].todo \ {d})
  /\ UNCHANGED <<arrived, replaced, chain, reviews, derived>>

-----------------------------------------------------------------------------
(* obligation_sweep: the resolved obligations are fetched, then the look-   *)
(* ups are made, the three cohorts assembled, and the review recorded.      *)
Testable(row) == row.favorable # "none"

Dimension4(seen, estimated) == {r \in seen : Testable(r) /\ r.of \in estimated}

Dimension5(seen, estimated, material) ==
  {r \in seen : r.of \in estimated /\ r.of \in material}

\* Seeded fault: geography is only looked at for subjects with an estimate.
Dimension6Coupled(seen, estimated, located) ==
  {r \in seen : Testable(r) /\ r.of \in estimated /\ r.of \in located}

Dimension6(seen, estimated, located) ==
  {r \in seen : Testable(r) /\ r.of \in located}

\* The skips assemble_cohort reports, as pairs of a row and a reason.
Skipped(seen, estimated, material, located) ==
  {<<r, "outcome">> : r \in {x \in seen : ~Testable(x)}}
  \cup {<<r, "estimate">> : r \in {x \in seen : Testable(x) /\ x.of \notin estimated}}
  \cup {<<r, "material">> :
          r \in {x \in seen : x.of \in estimated /\ x.of \notin material}}
  \cup {<<r, "geography">> :
          r \in {x \in seen : Testable(x) /\ x.of \notin located}}

\* list_obligations, and what the sweep keeps of it.
Resolved == {Latest(d) : d \in {x \in Known : StateIs(x, "RESOLVED")}}

FetchResolved(c) ==
  /\ client[c] = Idle /\ Resolved # {}
  /\ Turn(c, [step |-> "review", seen |-> Resolved])
  /\ UNCHANGED <<arrived, replaced, chain, reviews, derived>>

\* What the look-ups find: estimates in the sealed channel, material on the
\* primary ledger and, only for decisions with material, a place.
LookUps(seen) ==
  {found \in [estimated : SUBSET {r.of : r \in seen},
              material : SUBSET {r.of : r \in seen},
              located : SUBSET {r.of : r \in seen}] :
     found.located \subseteq found.material}

\* review_cohort: the sizes and findings follow from the three cohorts.
Review(seen, found) ==
  [seen |-> seen,
   dim4 |-> Dimension4(seen, found.estimated),
   dim5 |-> Dimension5(seen, found.estimated, found.material),
   dim6 |-> Dimension6(seen, found.estimated, found.located),
   skipped |-> Skipped(seen, found.estimated, found.material, found.located)]

\* store_cohort_review.
ChainReview(review) == reviews' = Append(reviews, review)

RecordReview(c) ==
  /\ client[c] # Idle /\ client[c].step = "review"
  /\ Len(reviews) < MaxReviews
  /\ \E found \in LookUps(client[c].seen) : ChainReview(Review(client[c].seen, found))
  /\ Turn(c, Idle)
  /\ UNCHANGED <<arrived, replaced, chain, derived>>

\* A dry run, or the post fails: nothing is recorded.
DropReview(c) ==
  /\ client[c] # Idle /\ client[c].step = "review"
  /\ Turn(c, Idle)
  /\ UNCHANGED <<arrived, replaced, chain, reviews, derived>>

ObligationNext ==
  /\ UNCHANGED declares
  /\ \/ \E d \in Decisions : Arrive(d) \/ DeclareReplacement(d)
     \/ \E c \in Clients :
          \/ DeriveRead(c) \/ DeriveAppend(c)
          \/ \E d \in Decisions, body \in Bodies : AskTransition(c, d, body)
          \/ TransitionAppend(c) \/ GiveUp(c)
          \/ SweepSuperseded(c) \/ SweepPost(c)
          \/ FetchResolved(c) \/ RecordReview(c) \/ DropReview(c)

ObligationSpec == ObligationInit /\ [][ObligationNext]_obligationVars

-----------------------------------------------------------------------------
ObligationTypeOK ==
  /\ arrived \subseteq Decisions /\ replaced \subseteq Decisions
  /\ derived \subseteq Decisions
  /\ Len(chain) <= MaxChain /\ Len(reviews) <= MaxReviews
  /\ \A k \in 1..Len(chain) :
       chain[k].of \in Decisions /\ chain[k].state \in {"OPEN", "RESOLVED", "ABANDONED"}

(* What is owed is witnessed and stays witnessed: once a derivation has     *)
(* finished, every readable declaration it read is on the chain whatever    *)
(* other requests committed in between, the chain holds nothing the         *)
(* decisions themselves do not declare, and every obligation starts OPEN    *)
(* (derive_obligations, transition_obligation).                             *)
NothingOwedForgotten ==
  /\ derived \subseteq Known
  /\ Known \subseteq arrived \cap Readable
  /\ \A d \in Known : \E k \in RowsOf(d) :
       chain[k].state = "OPEN" /\ \A n \in RowsOf(d) : k <= n

\* Why a recorded review says that a row is missing from its cohorts.
Why(review, r) == {w \in {"outcome", "estimate", "material", "geography"} :
                     <<r, w>> \in review.skipped}

(* What a recorded review leaves out it reports: a resolved obligation that *)
(* is missing from the cohort of dimension 4 or 6 has a reason there that   *)
(* applies to that dimension, one missing from dimension 5 has its own, the *)
(* estimate or the material, if its outcome is usable, and an unresolved or *)
(* ambiguous one is counted in none that tests outcomes (assemble_cohort).  *)
SkipsReported ==
  \A k \in 1..Len(reviews) : \A r \in reviews[k].seen :
    LET why == Why(reviews[k], r) IN
    /\ r \in reviews[k].dim4 \/ why \cap {"outcome", "estimate"} # {}
    /\ r \in reviews[k].dim6 \/ why \cap {"outcome", "geography"} # {}
    /\ Testable(r) /\ r \notin reviews[k].dim5 => why \cap {"estimate", "material"} # {}
    /\ r \in reviews[k].dim4 \cup reviews[k].dim6 =>
         r.state = "RESOLVED" /\ r.favorable # "none"

(* obligation_sweep.py:40-43, "NO SILENT SKIPS": "An obligation that can't  *)
(* enter a cohort test -- no protected-characteristic estimate on file      *)
(* [...] -- is reported in the review's `skipped` list with why".           *)
(* Dimension 5 needs an estimate and material and no usable outcome; for an *)
(* ambiguous outcome without an estimate the list names dimension 4 alone,  *)
(* so the missing estimate is told of neither.                              *)
NoSilentSkips ==
  \A k \in 1..Len(reviews) : \A r \in reviews[k].seen :
    r \in reviews[k].dim5 \/ Why(reviews[k], r) \cap {"estimate", "material"} # {}

(* "A closed obligation is not reopened": after a RESOLVED or ABANDONED row *)
(* the chain has no further row of that obligation (transition_obligation,  *)
(* the detail of its 409).                                                  *)
ClosedStaysClosed ==
  \A k, n \in 1..Len(chain) :
    k < n /\ chain[k].of = chain[n].of => chain[k].state = "OPEN"
=============================================================================

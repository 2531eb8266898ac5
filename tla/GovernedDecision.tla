-------------------------- MODULE GovernedDecision --------------------------
(***************************************************************************)
(* How a decision becomes durable: observed events are folded into an       *)
(* episode (event_v1.py, episode.py), the harness and then the ledger each  *)
(* verify the judgment of that episode at a conservation boundary of their  *)
(* own (conservation/boundary.py), and the ledger writes the decision with  *)
(* its events; reconstruct_decision replays them later.                     *)
(*                                                                         *)
(* An event carries one field and the version of the fold it was recorded   *)
(* under.  A decision may carry a summary of the events it was assembled    *)
(* from (input_data["kernel"]), which nobody checks when it is written.     *)
(***************************************************************************)
EXTENDS ConservationGateway, SequencesExt

CONSTANTS
  Batches,       \* sequences of observed events a caller may hand in
  Episodes,      \* episodes a caller may hand in
  NoEpisode,     \* a caller that hands in none
  Summaries,     \* what a caller may put into input_data["kernel"]
  NoSummary,     \* a decision row without input_data["kernel"]
  Absent,        \* a key the summary does not have
  Builds,        \* REDUCER_VERSIONs of the builds that replay
  MaxDecisions   \* decisions written (bound)

ASSUME DecisionAssumption ==
  /\ \A events \in Batches :
       /\ events \in Seq(ToSet(events))
       /\ \A k \in DOMAIN events : events[k].id \in Nat /\ events[k].at \in Nat
  /\ \A s \in Summaries \ {NoSummary} :
       /\ s.sources \in Seq(Nat)
       /\ s.provenance # Absent =>
            s.provenance = [f \in DOMAIN s.provenance |-> s.provenance[f]]

VARIABLES
  waived,   \* conservation_boundary_waived(): the development override
  write,    \* the write in progress, or NoEpisode
  durable   \* decisions on the ledger, with their events

decisionVars == <<waived, write, durable>>

-----------------------------------------------------------------------------
(* event_v1: events and the episode they amount to.                         *)

Stamps == {"verified", "attested", "estimated"}

\* Seeded fault: what the actor says of itself counts as observed.
DestinationTrusting(stamp) ==
  IF stamp \in {"verified", "estimated", "attested"} THEN "actual" ELSE "actor_report"

Destination(stamp) ==
  IF stamp \in {"verified", "estimated"} THEN "actual" ELSE "actor_report"

ValidEvent(ev) ==
  ev.stamp \in Stamps /\ (ev.method <=> ev.stamp = "estimated") /\ ev.at > 0

\* sorted() by time, then by id; it is stable.
Before(events, n, k) ==
  \/ events[n].at < events[k].at
  \/ events[n].at = events[k].at /\ events[n].id < events[k].id
  \/ events[n].at = events[k].at /\ events[n].id = events[k].id /\ n < k

Ordered(events) ==
  [r \in DOMAIN events |->
     events[CHOOSE k \in DOMAIN events :
              Cardinality({n \in DOMAIN events : Before(events, n, k)}) = r - 1]]

NoFacts == [f \in {} |-> f]

Overwritten(facts, ev) ==
  [f \in DOMAIN facts \cup {ev.field} |-> IF f = ev.field THEN ev ELSE facts[f]]

\* Per field the event that says it: later ones overwrite earlier ones.
Folded(events, dest) ==
  LET ordered == Ordered(events)
      got[k \in 0..Len(events)] ==
        IF k = 0 THEN NoFacts
        ELSE IF Destination(ordered[k].stamp) = dest
        THEN Overwritten(got[k - 1], ordered[k]) ELSE got[k - 1]
  IN got[Len(events)]

ValuesOf(folded) == [f \in DOMAIN folded |-> folded[f].value]

Provenance(events) ==
  LET facts == Folded(events, "actual") IN [f \in DOMAIN facts |-> facts[f].stamp]

AssembleEpisode(id, requested, reasons, events) ==
  [id |-> id, requested |-> requested, reasons |-> reasons,
   actual |-> ValuesOf(Folded(events, "actual")),
   report |-> ValuesOf(Folded(events, "actor_report")),
   provenance |-> Provenance(events),
   timeline |-> [k \in DOMAIN events |-> Ordered(events)[k].id]]

\* validate_episode: a reason is owed when the outcome is not the request.
OutcomeMismatches(e) ==
  {f \in DOMAIN e.requested : f \notin DOMAIN e.actual \/ e.actual[f] # e.requested[f]}

ValidEpisode(e) == OutcomeMismatches(e) # {} => e.reasons

-----------------------------------------------------------------------------
(* conservation: the episode as a root, the judgment as a transformation.   *)

ObservedIds(e) ==
  {<<"episode">>} \cup {<<"actual", f>> : f \in DOMAIN e.actual}
  \cup IF e.reasons THEN {<<"reason">>} ELSE {}

Propositions(e) ==
  {[of |-> p, status |-> "OBSERVATION"] : p \in ObservedIds(e)}
  \cup {[of |-> <<"requested", f>>, status |-> "ASSUMPTION"] : f \in DOMAIN e.requested}
  \cup {[of |-> <<"actor", f>>, status |-> "INFERENCE"] : f \in DOMAIN e.report}

EpisodeSource(e) == Source(e.id, [episode |-> e, propositions |-> Propositions(e)])

\* The judgment keeps the source's propositions and adds its own, whose
\* parents are the observed ones.
Judgment(e) ==
  [kept |-> Propositions(e), roots |-> ObservedIds(e)]

\* EpisodeRootGuard.attest: the events reproduce this very episode.
Attested(e, events) ==
  /\ \A k \in DOMAIN events : ValidEvent(events[k]) /\ events[k].episode = e.id
  /\ AssembleEpisode(e.id, e.requested, e.reasons, events) = e

\* verify_governed_decision: a fresh gateway, guarded when there are events.
\* The set of what it may conclude, over what the kernel may answer.
VerifyGovernedDecision(e, events) ==
  LET gem == CHOOSE gem \in Gems : gem \notin Unregistered
      root == EpisodeSource(e)
      fresh == NewGateway(IF events = <<>> THEN Open ELSE Ref(root))
      request == MakeRequest(root, gem, 0)
      p == Proposal(request, Candidate(request, Judgment(e)))
      ready == RegisterGem(IngestSource(fresh, root), gem)
  IN IF events # <<>> /\ ~Attested(e, events) THEN {FALSE}
     ELSE {Status(ready, request, p, answer) = "ACCEPTED" : answer \in KernelAnswers}

-----------------------------------------------------------------------------
\* The override is the environment of the process.
DecisionInit == waived \in BOOLEAN /\ write = NoEpisode /\ durable = <<>>

\* A caller comes with a decision: the harness, whose episode has been
\* judged and which writes no summary, or somebody calling the ledger.
Offer(e, events, summary, by) ==
  /\ write = NoEpisode /\ Len(durable) < MaxDecisions
  /\ by = "harness" => e # NoEpisode /\ summary = NoSummary
  /\ by = "harness" => ValidEpisode(e)
  /\ write' = [by |-> by, episode |-> e, events |-> events, summary |-> summary]
  /\ UNCHANGED <<waived, durable>>

\* GovernanceHarness._write_decision.
HarnessVerifies ==
  /\ write # NoEpisode /\ write.by = "harness"
  /\ \E accepted \in VerifyGovernedDecision(write.episode, write.events) :
       write' = IF accepted THEN [write EXCEPT !.by = "ledger"] ELSE NoEpisode
  /\ UNCHANGED <<waived, durable>>

EventsAdmitted(events) ==
  /\ \A k \in DOMAIN events : ValidEvent(events[k])
  /\ \A k, n \in DOMAIN events :
       events[k].episode = events[n].episode /\ (events[k].id = events[n].id => k = n)

\* The event rows of the ledger, by decision and place, and the unique index
\* over their ids: a violation of it rolls the whole decision back.
Stored == UNION {{m} \X DOMAIN durable[m].events : m \in DOMAIN durable}

EventAt(p) == durable[p[1]].events[p[2]]

IdsFree(events) == \A k \in DOMAIN events, p \in Stored : events[k].id # EventAt(p).id

\* append_decision up to its commit; the rows are LedgerChain's.
LedgerAppends ==
  /\ write # NoEpisode /\ write.by = "ledger"
  /\ \E accepted \in IF write.episode = NoEpisode THEN {waived}
                      ELSE VerifyGovernedDecision(write.episode, write.events) :
       durable' = IF accepted /\ EventsAdmitted(write.events) /\ IdsFree(write.events)
                  THEN Append(durable, [episode |-> write.episode, events |-> write.events,
                                        summary |-> write.summary, override |-> waived])
                  ELSE durable
  /\ write' = NoEpisode
  /\ UNCHANGED waived

\* The environment of the next process.
SwitchWaiver ==
  /\ write = NoEpisode
  /\ waived' = ~waived
  /\ UNCHANGED <<write, durable>>

DecisionNext ==
  \/ /\ write = NoEpisode
     /\ \E events \in Batches, summary \in Summaries \cup {NoSummary},
           e \in Episodes \cup {NoEpisode}, by \in {"harness", "ledger"} :
          Offer(e, events, summary, by)
  \/ HarnessVerifies \/ LedgerAppends \/ SwitchWaiver

DecisionSpec == DecisionInit /\ [][DecisionNext]_decisionVars

-----------------------------------------------------------------------------
(* reconstruct_decision: the event rows with the summary's ids, of whatever *)
(* decision and in whatever order the query has them, are folded again and  *)
(* compared with what the summary has of them.                              *)
Fetched(ids) ==
  LET rows == SetToSeq({p \in Stored : EventAt(p).id \in ids})
  IN [n \in DOMAIN rows |-> EventAt(rows[n])]

IdsIn(events) == {events[k].id : k \in DOMAIN events}

EstimatedFields(events) ==
  {f \in DOMAIN Provenance(events) : Provenance(events)[f] = "estimated"}

\* sorted(list) == sorted(...) of keys that are distinct.
Lists(list, keys) == IsInjective(list) /\ ToSet(list) = keys

\* Its "ok", in a process of the given build: the named rows are there and of
\* one episode, what the summary has of them matches, it has more than their
\* ids, and the fold is the one they were recorded under.
ReconstructDecision(k, build) ==
  LET summary == durable[k].summary
      bodies == Fetched(ToSet(summary.sources))
  IN /\ summary # NoSummary /\ summary.sources # <<>>
     /\ ToSet(summary.sources) \subseteq IdsIn(bodies)
     /\ Cardinality({bodies[n].episode : n \in DOMAIN bodies}) = 1
     /\ Lists(summary.sources, IdsIn(bodies))
     /\ summary.provenance = Absent \/ summary.provenance = Provenance(bodies)
     /\ summary.estimated = Absent \/ Lists(summary.estimated, EstimatedFields(bodies))
     /\ summary.provenance # Absent \/ summary.estimated # Absent
     /\ {bodies[n].reducer : n \in DOMAIN bodies} = {build}

-----------------------------------------------------------------------------
(* What a set of events says, without folding it: the observations of a     *)
(* field that no other observation of it comes after.                       *)
Observed(events) == {ev \in events : ev.stamp \in {"verified", "estimated"}}

LastObserved(events) ==
  {ev \in Observed(events) : \A o \in Observed(events) : o.field = ev.field =>
     o.at < ev.at \/ (o.at = ev.at /\ o.id <= ev.id)}

FactsIn(events) == {<<ev.field, ev.value, ev.stamp>> : ev \in LastObserved(events)}

\* The facts of an episode; those without a stamp are nobody's observation.
FactsOf(e) ==
  {<<f, e.actual[f], IF f \in DOMAIN e.provenance THEN e.provenance[f] ELSE "none">> :
     f \in DOMAIN e.actual}

\* The events on the ledger that a summary names.
Cited(summary) == {EventAt(p) : p \in {q \in Stored : EventAt(q).id \in ToSet(summary.sources)}}

\* A summary is true of the events it names: they are on the ledger, each named
\* once, of one episode and recorded under this fold; it has their stamps or
\* their estimated fields, and neither differs from what they observed last.
SummaryTrue(summary, build) ==
  LET facts == FactsIn(Cited(summary))
  IN /\ summary.sources # <<>>
     /\ Lists(summary.sources, {ev.id : ev \in Cited(summary)})
     /\ \A ev, o \in Cited(summary) : ev.episode = o.episode
     /\ \A ev \in Cited(summary) : ev.reducer = build
     /\ summary.provenance # Absent \/ summary.estimated # Absent
     /\ summary.provenance # Absent =>
          {<<f, summary.provenance[f]>> : f \in DOMAIN summary.provenance}
            = {<<fact[1], fact[3]>> : fact \in facts}
     /\ summary.estimated # Absent =>
          Lists(summary.estimated, {fact[1] : fact \in {x \in facts : x[3] = "estimated"}})

(* What is durable is supported: nothing is written without an episode but  *)
(* under the override; a decision written with events has exactly the       *)
(* facts those events observed last, each with the stamp it was observed    *)
(* under, its judgment rests on nothing the actor only reported, and all    *)
(* its events are of that episode; a replay calls it reproducible exactly   *)
(* when its summary is true of the events it names; and those are its own   *)
(* events when it names them, whatever other decisions are on the ledger    *)
(* (append_decision, verify_governed_decision, reconstruct_decision).       *)
DecisionsSupported ==
  \A k \in 1..Len(durable) :
    LET d == durable[k]
    IN /\ d.episode = NoEpisode => d.override
       /\ d.episode # NoEpisode /\ d.events # <<>> =>
            /\ \A n \in DOMAIN d.events : d.events[n].episode = d.episode.id
            /\ FactsOf(d.episode) = FactsIn(ToSet(d.events))
            /\ Judgment(d.episode).roots \subseteq
                 {<<"episode">>, <<"reason">>}
                 \cup {<<"actual", fact[1]>> : fact \in FactsIn(ToSet(d.events))}
       /\ d.summary # NoSummary =>
            /\ \A build \in Builds :
                 ReconstructDecision(k, build) <=> SummaryTrue(d.summary, build)
            /\ ToSet(d.summary.sources) = IdsIn(d.events) =>
                 Cited(d.summary) = ToSet(d.events)

-----------------------------------------------------------------------------
(* What the repository says and nobody checks.                              *)

\* reconstruct_decision replays a decision "from its persisted observed_event
\* stream": what it calls reproducible was replayed from the events that were
\* written with the decision.  The ids come from the caller's summary, which
\* append_decision takes as it is.
ReplaysOwnStream ==
  \A k \in 1..Len(durable), build \in Builds :
    ReconstructDecision(k, build) =>
      ToSet(durable[k].summary.sources) = IdsIn(durable[k].events)
=============================================================================

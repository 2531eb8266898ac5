------------------------ MODULE ConservationGateway ------------------------
(***************************************************************************)
(* The transport of the conservation boundary (conservation/transport/): a  *)
(* gateway that lets source artifacts in as roots, lets registered Gems     *)
(* propose transformations of accepted artifacts, and accepts a candidate   *)
(* only when its own preflight and the conservation kernel both do.         *)
(*                                                                         *)
(* The kernel is a library: what it answers to a proposal is one of         *)
(* KernelAnswers, at random.  Its root guard (episode_guard.py) is ours.    *)
(* A digest is injective, so an artifact's digest is its content; ids are   *)
(* the lineage they are built from.                                         *)
(***************************************************************************)
EXTENDS Naturals, Sequences, FiniteSets

CONSTANTS
  Sources,     \* names of source artifacts
  Contents,    \* contents an artifact may have
  Gems,        \* Gem identities
  Unregistered,\* those nobody registers
  MaxEntries,  \* entries of the transport ledger (bound)
  Open,        \* the guard of a gateway that admits any root
  Spent        \* a guard that has let its one root in

VARIABLE gateway

-----------------------------------------------------------------------------
(* Artifacts and what refers to them.                                       *)

Source(name, content) ==
  [id |-> <<name>>, parents |-> {}, content |-> content, producer |-> Open]

Ref(artifact) == [id |-> artifact.id, digest |-> artifact.content]

Roots == {Source(s, c) : s \in Sources, c \in Contents}

ASSUME GatewayAssumption ==
  /\ Unregistered \subseteq Gems /\ MaxEntries \in Nat
  /\ Spent # Open /\ Spent \notin {Ref(r) : r \in Roots}

\* BaseGem.make_request: two requests of one Gem on one artifact are only
\* told apart by the suffix.
MakeRequest(artifact, gem, suffix) ==
  [id |-> <<gem, artifact.id, suffix>>, source |-> artifact, gem |-> gem]

\* BaseGem._artifact and _proposal: the candidate and the record that says
\* where it comes from.
Candidate(request, content) ==
  [id |-> Append(request.source.id, request.gem), parents |-> {request.source.id},
   content |-> content, producer |-> request.gem]

Proposal(request, candidate) ==
  [request |-> request.id, tid |-> request.id, source |-> Ref(request.source),
   output |-> Ref(candidate), gem |-> request.gem, candidate |-> candidate]

-----------------------------------------------------------------------------
(* The operations of the class, on the gateway's state.                     *)

NewGateway(guard) ==
  [guard |-> guard, gems |-> {}, accepted |-> {}, done |-> {}, entries |-> <<>>]

AcceptedAs(g, id) == {a \in g.accepted : a.id = id}

\* kernel.register_root asks the guard; one that permits is then spent.
\* ingest_source raises for an artifact with parents or a second digest.
RootPermitted(g, artifact) == g.guard \in {Open, Ref(artifact)}

EntersAsRoot(g, artifact) ==
  /\ artifact.parents = {}
  /\ AcceptedAs(g, artifact.id) = {}
  /\ RootPermitted(g, artifact)

IngestSource(g, artifact) ==
  IF EntersAsRoot(g, artifact)
  THEN [g EXCEPT
          !.guard = IF @ = Open THEN Open ELSE Spent,
          !.accepted = @ \cup {artifact},
          !.entries = Append(@, [event |-> "ROOT", artifact |-> Ref(artifact),
                                 source |-> Ref(artifact), tid |-> <<>>,
                                 status |-> "ROOT"])]
  ELSE g

RegisterGem(g, gem) == [g EXCEPT !.gems = @ \cup {gem}]

\* _preflight finds nothing: the source is accepted with that digest, the Gem
\* is registered, the record and the candidate are this request's, and
\* neither id is taken.
\* Seeded fault: a taken id is only looked for among the transformations.
PreflightByTransformation(g, request, p) ==
  /\ request.source \in g.accepted /\ request.gem \in g.gems
  /\ p.request = request.id /\ p.source = Ref(request.source)
  /\ p.output = Ref(p.candidate)
  /\ p.gem = request.gem /\ p.candidate.producer = request.gem
  /\ p.tid \notin g.done

Preflight(g, request, p) ==
  /\ request.source \in g.accepted /\ request.gem \in g.gems
  /\ p.request = request.id /\ p.source = Ref(request.source)
  /\ p.output = Ref(p.candidate)
  /\ p.gem = request.gem /\ p.candidate.producer = request.gem
  /\ p.tid \notin g.done /\ AcceptedAs(g, p.candidate.id) = {}

\* What the kernel may find: nothing, a property it cannot verify, or
\* violations, whose codes ask for an authorization, for evidence, or neither.
KernelAnswers ==
  {"accepted", "unverifiable", "authorization", "verification", "violation"}

\* submit and _decision_for_kernel.
Status(g, request, p, answer) ==
  IF ~Preflight(g, request, p) THEN "REJECTED"
  ELSE CASE answer = "accepted" -> "ACCEPTED"
         [] answer \in {"unverifiable", "verification"} -> "REQUIRES_VERIFICATION"
         [] answer = "authorization" -> "REQUIRES_AUTHORIZATION"
         [] OTHER -> "REJECTED"

\* _accepted and _transformations are dictionaries: an entry under a taken
\* id replaces the one that is there.
Submit(g, request, p, answer) ==
  LET status == Status(g, request, p, answer)
      told == [g EXCEPT !.entries =
                 Append(@, [event |-> "TRANSFORMATION", artifact |-> p.output,
                            source |-> p.source, tid |-> p.tid, status |-> status])]
  IN IF status = "ACCEPTED"
     THEN [told EXCEPT !.accepted = (@ \ AcceptedAs(g, p.candidate.id)) \cup {p.candidate},
                       !.done = @ \cup {p.tid}]
     ELSE told

-----------------------------------------------------------------------------
(* A gateway whose callers call in any order, with artifacts it has or has  *)
(* not accepted and proposals made for this request or for another one.     *)

GatewayInit ==
  gateway \in {NewGateway(guard) : guard \in {Open} \cup {Ref(r) : r \in Roots}}

Reachable == Roots \cup gateway.accepted

GatewayRequests == {MakeRequest(a, gem, suffix) :
               a \in Reachable, gem \in Gems, suffix \in {0, 1}}

HasRoom == Len(gateway.entries) < MaxEntries

CallIngest(artifact) ==
  /\ HasRoom
  /\ gateway' = IngestSource(gateway, artifact)

CallRegister(gem) ==
  /\ gem \notin Unregistered
  /\ gateway' = RegisterGem(gateway, gem)

CallSubmit(request, made, content, answer) ==
  /\ HasRoom
  /\ gateway' = Submit(gateway, request, Proposal(made, Candidate(made, content)), answer)

GatewayNext ==
  \/ \E a \in Reachable : CallIngest(a)
  \/ \E gem \in Gems : CallRegister(gem)
  \/ \E request, made \in GatewayRequests, content \in Contents, answer \in KernelAnswers :
       CallSubmit(request, made, content, answer)

GatewaySpec == GatewayInit /\ [][GatewayNext]_gateway

-----------------------------------------------------------------------------
(* What the gateway has accepted has a lineage: an id names one artifact;   *)
(* it is a root the guard permitted and the ledger has as such, or exactly  *)
(* one ACCEPTED entry has it, whose source is accepted with that very       *)
(* digest; and an ACCEPTED entry never loses its artifact, however many     *)
(* later calls fail or try the same id again (ConservationGateway.submit).  *)
LineageHolds ==
  LET Made(a) == {k \in 1..Len(gateway.entries) :
                    gateway.entries[k].status = "ACCEPTED"
                    /\ gateway.entries[k].artifact = Ref(a)}
      refs == {Ref(a) : a \in gateway.accepted}
      roots == {a \in gateway.accepted : a.parents = {}}
  IN /\ \A a, b \in gateway.accepted : a.id = b.id => a = b
     /\ \A a \in gateway.accepted \ roots :
          Cardinality(Made(a)) = 1 /\ \A k \in Made(a) : gateway.entries[k].source \in refs
     /\ \A k \in 1..Len(gateway.entries) :
          gateway.entries[k].status \in {"ROOT", "ACCEPTED"} =>
            gateway.entries[k].artifact \in refs
     /\ gateway.guard # Open => Cardinality(roots) <= 1
     /\ gateway.guard # Open /\ gateway.guard # Spent => gateway.accepted = {}
=============================================================================

---------------------------- MODULE MCLedgerKeys ----------------------------
(* The ledger's guarantees in one run: the chain with its anchor, the       *)
(* signatures of the rows, the gateway of the conservation boundary and the *)
(* decisions that pass it.  A behaviour is one of theirs: the anchor never  *)
(* looks at signatures, nor a signature at the anchor, and a boundary is    *)
(* done with before a decision's transaction begins.                        *)
EXTENDS MCLedgerChain, AttestationKeys, GovernedDecision

VARIABLE focus  \* the component that acts in this behaviour

LedgerKeysInit ==
  /\ focus \in {"chain", "keys", "gateway", "decision"}
  /\ LedgerInit /\ KeysInit /\ GatewayInit /\ DecisionInit
  /\ focus # "keys" => current = NoKey /\ ~override
  /\ focus # "gateway" => gateway = NewGateway(Open)
  /\ focus # "decision" => ~waived

Rest(part, vars) == IF focus = part THEN TRUE ELSE UNCHANGED vars

LedgerKeysNext ==
  /\ UNCHANGED focus
  /\ \/ focus = "chain" /\ LedgerNext
     \/ focus = "keys" /\ KeysNext
     \/ focus = "gateway" /\ GatewayNext
     \/ focus = "decision" /\ DecisionNext
  /\ Rest("chain", ledgerVars) /\ Rest("keys", keyVars)
  /\ Rest("gateway", gateway) /\ Rest("decision", decisionVars)

LedgerKeysSpec ==
  /\ LedgerKeysInit
  /\ [][LedgerKeysNext]_<<focus, ledgerVars, keyVars, gateway, decisionVars>>

LedgerKeysSymmetry ==
  Permutations(Writers) \cup Permutations(Keys) \cup Permutations(Names)

-----------------------------------------------------------------------------
(* The instance of the boundary: events of two episodes that observe or     *)
(* claim the same field, in and out of order, one without its method.       *)
Event(id, episode, at, stamp, value) ==
  [id |-> id, episode |-> episode, at |-> at, stamp |-> stamp,
   method |-> stamp = "estimated", field |-> "f", value |-> value, reducer |-> "v1"]

MCBatches ==
  LET seen == Event(1, "e1", 1, "verified", 0)
      guess == Event(2, "e1", 2, "estimated", 1)
      said == Event(3, "e1", 1, "attested", 1)
      sameTime == Event(4, "e1", 1, "verified", 1)
      other == Event(1, "e2", 1, "verified", 1)
  IN {<<>>, <<seen>>, <<seen, guess>>, <<guess, seen>>, <<said, seen>>,
      <<sameTime, seen>>, <<seen, other>>, <<seen, seen>>,
      <<[guess EXCEPT !.method = FALSE]>>,
      <<[guess EXCEPT !.episode = "e2", !.reducer = "v0"]>>}

\* Summaries of some of these events, true or not of them and of others.
MCSummaries ==
  LET Summary(sources, provenance, estimated) ==
        [sources |-> sources, provenance |-> provenance, estimated |-> estimated]
  IN {Summary(<<1>>, [f |-> "verified"], <<>>), Summary(<<2, 1>>, [f |-> "estimated"], Absent),
      Summary(<<1, 2>>, Absent, <<"f">>), Summary(<<1>>, Absent, Absent),
      Summary(<<2>>, Absent, <<"f">>)}

\* Episodes that some of the batches make, and the same with a claim as a
\* fact, an estimate as an observation, an event less or no reason.
MCEpisodes ==
  LET Made(events) == AssembleEpisode("e1", [f |-> 0], TRUE, events)
      honest == {Made(b) : b \in {x \in MCBatches : \A k \in DOMAIN x :
                                   x[k].episode = "e1" /\ (x[k].method <=> x[k].stamp = "estimated")}}
  IN honest
     \cup {[e EXCEPT !.actual = e.report] : e \in {x \in honest : x.report # <<>>}}
     \cup {[e EXCEPT !.provenance = [f |-> "verified"]] :
              e \in {x \in honest : "f" \in DOMAIN x.provenance}}
     \cup {[e EXCEPT !.timeline = Tail(@), !.reasons = FALSE] :
              e \in {x \in honest : "estimated" \in {x.provenance[f] : f \in DOMAIN x.provenance}}}
=============================================================================

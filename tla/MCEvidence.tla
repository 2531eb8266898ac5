----------------------------- MODULE MCEvidence -----------------------------
(* The parts that produce, replicate or check evidence, in one run.  They   *)
(* share no state in the code either: each has its own tables, files or     *)
(* memory and reads the others' through what the inputs of its actions      *)
(* enumerate.  A behaviour is one part's, chosen at the start.              *)
EXTENDS TwinReplication, TwinDetection, TwinCustodian, TwinMigration,
        Obligations, ContractEgress, LogRotation, RegulatoryDeck

VARIABLE focus  \* the component that acts in this behaviour

Parts == {"replication", "detection", "custodian", "migration", "obligations",
          "egress", "rotation", "deck"}

\* A part that does not act starts in one state, not in all of its own.
Still(part, var, value) == focus # part => var = value

\* Some decision declares a rule; the decisions are alike, so it may be the one
\* CHOOSE names.
EvidenceInit ==
  /\ focus \in Parts
  /\ TwinInit /\ DetectionInit /\ CustodianInit /\ MigrationInit
  /\ ObligationInit /\ EgressInit /\ RotationInit /\ DeckInit
  /\ Still("detection", deep, TRUE)
  /\ declares[CHOOSE d \in Decisions : TRUE] = "a rule"
  /\ Still("obligations", declares, [d \in Decisions |-> "a rule"])

Rest(part, vars) == IF focus = part THEN TRUE ELSE UNCHANGED vars

EvidenceNext ==
  /\ UNCHANGED focus
  /\ \/ focus = "replication" /\ TwinNext
     \/ focus = "detection" /\ DetectionNext
     \/ focus = "custodian" /\ CustodianNext
     \/ focus = "migration" /\ MigrationNext
     \/ focus = "obligations" /\ ObligationNext
     \/ focus = "egress" /\ EgressNext
     \/ focus = "rotation" /\ RotationNext
     \/ focus = "deck" /\ DeckNext
  /\ Rest("replication", twinVars) /\ Rest("detection", detectionVars)
  /\ Rest("custodian", custodianVars) /\ Rest("migration", migrationVars)
  /\ Rest("obligations", obligationVars)
  /\ Rest("egress", egressVars) /\ Rest("rotation", rotationVars)
  /\ Rest("deck", deckVars)

EvidenceSpec ==
  /\ EvidenceInit
  /\ [][EvidenceNext]_<<focus, twinVars, detectionVars, custodianVars,
                        migrationVars, obligationVars, egressVars,
                        rotationVars, deckVars>>

-----------------------------------------------------------------------------
(* The instance.                                                            *)

\* One lens with an approval term and a prohibition, one that restricts the
\* purpose, and one without terms.
MCLenses ==
  {{[type |-> "EGRESS_REQUIRES_APPROVAL", param |-> "subcontractor"],
    [type |-> "EGRESS_PROHIBITED", param |-> "q"]},
   {[type |-> "PURPOSE_RESTRICTION", param |-> {"q"}]},
   {}}

\* A standing approval and its revocation, one granted later, one that has
\* expired, and one whose revocation time does not parse.
MCApprovalBodies ==
  {[since |-> 0, until |-> NoTime, ended |-> e] : e \in {NoTime, 1, Garbled}}
  \cup {[since |-> 1, until |-> NoTime, ended |-> NoTime],
        [since |-> 0, until |-> 0, ended |-> NoTime]}

MCAsks ==
  LET one == CHOOSE a \in Approvals : TRUE IN
  {[class |-> "subcontractor", purpose |-> "p", ref |-> r, occurred |-> NoTime] :
     r \in {one, NoRef}}
  \cup {[class |-> "other", purpose |-> "q", ref |-> NoRef, occurred |-> 0],
        [class |-> "subcontractor", purpose |-> "p", ref |-> one, occurred |-> 1]}

\* The first lens may be inserted either way, the second only live.
MCModes == [r \in Regs |-> IF r = 1 THEN {"live", "observer"} ELSE {"live"}]

\* A lens blocks at tier T6, or flags at T5 and at T0.
MCReviews ==
  {<<[action |-> "block", tier |-> "T6"]>>,
   <<[action |-> "flag", tier |-> "T5"], [action |-> "flag", tier |-> "T0"]>>}
=============================================================================

----------------------------- MODULE ActionGate -----------------------------
(* The authorization gate of governance/action_authorization_v1.py: one     *)
(* authorize() call asks four providers in turn (decision state, policy,    *)
(* review evidence, verifier) and any of them may fail, answer for another  *)
(* target, or have changed its mind since the previous one answered.        *)
EXTENDS Naturals, FiniteSets

CONSTANTS
  Targets,     \* authorization targets: type, stable id and evidence hash
  Selections,  \* HUMAN_SELECTIONS; "override" is one
  NoAnswer     \* a provider returned None

ASSUME GateAssumption == "override" \in Selections /\ NoAnswer \notin Targets

VARIABLES
  blocked,   \* the action_block of each decision, as the ledger has it now
  evidence,  \* the review on record for each target, or NoAnswer
  call,      \* the authorize() call in progress
  result     \* what the last authorize() answered, {} before the first

gateVars == <<blocked, evidence, call, result>>

Resting == [at |-> "idle"]

(* What the providers answer.  The policy is external: any assessment; what *)
(* an assessment without a review does not use is fixed.                    *)
Assessments ==
  [target : Targets, requirement : {"not_required", "indeterminate"},
   allowed : {{}}, override : {FALSE}, identified : {FALSE}]
  \cup [target : Targets, requirement : {"required"},
        allowed : SUBSET Selections, override : BOOLEAN, identified : BOOLEAN]

HumanReviews == [target : Targets, selection : Selections, genuine : BOOLEAN]

GateInit ==
  /\ blocked \in [Targets -> BOOLEAN]
  /\ evidence = [t \in Targets |-> NoAnswer]
  /\ call = Resting
  /\ result = {}

Answer(status) ==
  /\ result' = {[target |-> call.target, status |-> status,
                 block |-> call.block, review |-> call.review]}
  /\ call' = Resting
  /\ UNCHANGED <<blocked, evidence>>

BeginAuthorize(t) ==
  /\ call.at = "idle"
  /\ call' = [at |-> "decision", target |-> t, block |-> FALSE, review |-> NoAnswer]
  /\ UNCHANGED <<blocked, evidence, result>>

\* The decision state: an exception, None, or the state of another target
\* ends the call.
LoadDecision ==
  /\ call.at = "decision"
  /\ \/ Answer("INDETERMINATE")
     \/ Answer("DENIED")
     \/ /\ call' = [call EXCEPT !.at = "policy", !.block = blocked[call.target]]
        /\ UNCHANGED <<blocked, evidence, result>>

\* The tests on the assessment in the order the code makes them; what is
\* left is a policy that requires a review.
AssessPolicy(a) ==
  /\ call.at = "policy"
  /\ IF a.target # call.target \/ a.requirement = "indeterminate"
       THEN Answer("INDETERMINATE")
     ELSE IF a.requirement = "not_required"
       THEN Answer(IF call.block THEN "DENIED" ELSE "PERMITTED")
     ELSE IF call.block /\ ~(a.override /\ a.identified)
       THEN Answer("DENIED")
       ELSE /\ call' = [at |-> "review", target |-> call.target, block |-> call.block,
                        review |-> NoAnswer, allowed |-> a.allowed]
            /\ UNCHANGED <<blocked, evidence, result>>

\* A selection the policy permits; a blocked decision needs an override.
Releases(selection, allowed, block) ==
  selection \in allowed /\ (block => selection = "override")

\* Seeded fault: a permitted selection releases a blocked decision as well.
LoadReviewAnySelection ==
  /\ call.at = "review"
  /\ LET r == evidence[call.target]
     IN CASE r = NoAnswer -> Answer("REVIEW_REQUIRED")
          [] r # NoAnswer /\ (r.target # call.target \/ r.selection \notin call.allowed) ->
               Answer("DENIED")
          [] OTHER ->
               /\ call' = [call EXCEPT !.at = "verify", !.review = r]
               /\ UNCHANGED <<blocked, evidence, result>>

LoadReview ==
  /\ call.at = "review"
  /\ LET r == evidence[call.target]
     IN CASE r = NoAnswer -> Answer("REVIEW_REQUIRED")
          [] r # NoAnswer /\ (\/ r.target # call.target
                              \/ ~Releases(r.selection, call.allowed, call.block)) ->
               Answer("DENIED")
          [] OTHER ->
               /\ call' = [call EXCEPT !.at = "verify", !.review = r]
               /\ UNCHANGED <<blocked, evidence, result>>

\* The verifier vouches for the evidence it is handed, not for the record.
VerifyReview ==
  /\ call.at = "verify"
  /\ Answer(IF call.review.genuine THEN "PERMITTED" ELSE "DENIED")

\* A provider raises, or answers something that is not its type.
ProviderFails ==
  /\ call.at \in {"policy", "review", "verify"}
  /\ Answer("INDETERMINATE")

\* The world goes on between two answers.
RaiseBlock(t) ==
  /\ ~blocked[t]
  /\ blocked' = [blocked EXCEPT ![t] = TRUE]
  /\ UNCHANGED <<evidence, call, result>>

RecordSelection(t, r) ==
  /\ evidence[t] = NoAnswer
  /\ evidence' = [evidence EXCEPT ![t] = r]
  /\ UNCHANGED <<blocked, call, result>>

GateNext ==
  \/ \E t \in Targets : BeginAuthorize(t)
  \/ LoadDecision
  \/ \E a \in Assessments : AssessPolicy(a)
  \/ LoadReview
  \/ VerifyReview
  \/ ProviderFails
  \/ \E t \in Targets : RaiseBlock(t)
  \/ \E t \in Targets, r \in HumanReviews : RecordSelection(t, r)

GateSpec == GateInit /\ [][GateNext]_gateVars

-----------------------------------------------------------------------------
GateTypeOK ==
  /\ blocked \in [Targets -> BOOLEAN]
  /\ evidence \in [Targets -> HumanReviews \cup {NoAnswer}]
  /\ call.at \in {"idle", "decision", "policy", "review", "verify"}

\* A block holds (authorize): whatever the providers answer and however the
\* block and the review change in between, a decision that was blocked when
\* it was loaded is only released on a genuine override of that very
\* decision, and a review that was looked at is never one of another target.
BlockHolds ==
  \A r \in result : r.status = "PERMITTED" =>
    /\ r.block => r.review # NoAnswer
    /\ r.review # NoAnswer => /\ r.review.target = r.target
                              /\ r.review.genuine
                              /\ r.block => r.review.selection = "override"
=============================================================================

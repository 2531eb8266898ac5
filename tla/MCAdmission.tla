---------------------------- MODULE MCAdmission ----------------------------
(* What is let in, let through and let go, in one run: submissions at the   *)
(* ingress, actions at their authorization, and a counterparty's data under *)
(* its retention terms.  They share no state, so a behaviour is about one   *)
(* of them, chosen at the start.                                            *)
EXTENDS Ingress, ActionGate, ContractRetention, TLC

VARIABLE focus  \* the component that acts in this behaviour

AdmissionInit ==
  /\ focus \in {"ingress", "gate", "retention"}
  /\ IngressInit /\ GateInit /\ RetentionInit
  /\ focus # "gate" => blocked = [t \in Targets |-> FALSE]

AdmissionNext ==
  /\ UNCHANGED focus
  /\ \/ focus = "ingress" /\ IngressNext /\ UNCHANGED <<gateVars, retentionVars>>
     \/ focus = "gate" /\ GateNext /\ UNCHANGED <<ingressVars, retentionVars>>
     \/ focus = "retention" /\ RetentionNext /\ UNCHANGED <<ingressVars, gateVars>>

AdmissionSpec ==
  /\ AdmissionInit
  /\ [][AdmissionNext]_<<focus, ingressVars, gateVars, retentionVars>>

\* A request is its place in its handler, a process its deque.
AdmissionSymmetry == Permutations(Requests) \cup Permutations(Procs)

\* Two retention terms; only the second has a backup carve-out.
MCTerms == <<[max |-> 0, backup |-> NoCarveOut], [max |-> 0, backup |-> 1]>>
=============================================================================

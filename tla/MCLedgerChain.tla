---------------------------- MODULE MCLedgerChain ----------------------------
(* TLC instances of the governance ledger. *)
EXTENDS LedgerChain, TLC

CONSTANTS Episode, Version, Key1, Key2, Event1, Event2

\* A request of a kind; fields a kind does not use are fixed.
Ask(kind, subject, value, ref) ==
  [kind |-> kind, subject |-> subject, value |-> value, ref |-> ref, events |-> <<>>]

\* append_decision for the episode, with its stream.
Decide(sid, ref, events) ==
  [Ask("governance_decision", Episode, sid, ref) EXCEPT !.events = events]

\* Every kind of write, with references to any row the bound admits; decisions
\* of one episode with a stream, with part of it again, and with none.
AllRequests ==
  {Ask("entry", Episode, Key1, 0),
   Decide(NoSid, 0, <<Event1, Event2>>), Decide(Key1, 0, <<Event2>>), Decide(Key1, 0, <<>>),
   Ask("recommendation_shadow_run", Episode, Key1, 0),
   Ask("cassette_binding", Version, Key1, 0), Ask("cassette_binding", Version, Key2, 0),
   Ask("attestation_policy", Episode, Key1, 0), Ask("attestation_policy", Episode, Key2, 0)}
  \cup {Decide(NoSid, id, <<>>) : id \in 1..2}
  \cup {Ask(kind, Episode, Key1, id) :
          kind \in {"decision_supersession", "human_selection",
                    "recommendation_shadow_score"}, id \in 1..2}

\* Plain appends only, for the questions about the anchor.
PlainRequests == {Ask("entry", Episode, Key1, 0)}

Symmetry == Permutations(Writers)
=============================================================================

--------------------------- MODULE RegulatoryDeck ---------------------------
(* The deck of regulatory lenses (regulatory_deck.py with                   *)
(* regulatory_cassette_interface.py): lenses are inserted and removed with  *)
(* an event on the ledger, and judge() discloses every finding of the live  *)
(* ones on the ledger before its verdict takes effect.                      *)
(*                                                                          *)
(* Every process has a deck of its own, in memory, over the one ledger.     *)
(* Each ledger write is a transaction that may fail, and so may the sealing *)
(* of the chain head that follows its commit; a process may die between any *)
(* two, and its deck with it.  Of the ledger the model keeps how often a    *)
(* lens was inserted and removed, and what each process has disclosed since *)
(* its last judge() began.                                                  *)
EXTENDS Integers, Sequences, FiniteSets, SequencesExt, FiniteSetsExt

CONSTANTS
  Decks,     \* the processes
  Judges,    \* those of them that judge episodes (the workers)
  Regs,      \* lens identities, as numbers: the order sorted() gives them
  Modes,     \* the modes each lens declares
  Reviews,   \* what a lens may find in an episode: sequences of findings
  MaxEvents  \* bound: insertions, and removals, of a lens on the ledger

Tiers == {"T0", "T1", "T2", "T3", "T4", "T5", "T6"}
NoTier == "none"
Findings == [action : {"flag", "block"}, tier : Tiers \cup {NoTier}]

ASSUME DeckAssumption ==
  /\ Judges \subseteq Decks /\ IsFiniteSet(Decks)
  /\ Regs \subseteq Nat
  /\ Modes \in [Regs -> SUBSET {"observer", "live"}]
  /\ Reviews \subseteq Seq(Findings)
  /\ MaxEvents \in Nat

VARIABLES
  inserted,  \* per deck, the lenses in it in insertion order: [lens, mode]
  opened,    \* per lens, insertion rows on the ledger
  closed,    \* per lens, removal rows on the ledger
  missed,    \* observer: per lens, removal rows of removals not carried out
  disclosed, \* per deck, disclosure rows since its last judge() began
  busy,      \* per deck, the operation in progress
  verdicts   \* per deck, what the last judge() did

deckVars == <<inserted, opened, closed, missed, disclosed, busy, verdicts>>

Free == [at |-> "idle"]
NoVerdict == [kind |-> "none"]

-----------------------------------------------------------------------------
(* Tier conflicts.                                                          *)

\* The order resolve_tier_conflict implements: T0 bars everything, T6 comes
\* next, then the ladder.
Rank(tier) ==
  CASE tier = "T0" -> 7 [] tier = "T6" -> 6 [] tier = "T5" -> 5 [] tier = "T4" -> 4
    [] tier = "T3" -> 3 [] tier = "T2" -> 2 [] tier = "T1" -> 1

ResolveTierConflict(a, b) == IF Rank(a) >= Rank(b) THEN a ELSE b

\* Of the findings at these places, the last one of each lens that claims a
\* tier for the variable.
Claims(found, places) ==
  LET claiming == {i \in places : found[i].tier # NoTier}
  IN [lens \in {found[i].lens : i \in claiming} |->
        found[Max({i \in claiming : found[i].lens = lens})]]

\* Walking the claims in the order of the lens identities, the stricter tier
\* takes over together with its lens.
Winner(claims) ==
  LET first == Min(DOMAIN claims)
      last == Max(DOMAIN claims)
      best[l \in first .. last] ==
        IF l = first THEN claims[l]
        ELSE IF l \in DOMAIN claims
                /\ ResolveTierConflict(best[l - 1].tier, claims[l].tier) # best[l - 1].tier
        THEN claims[l] ELSE best[l - 1]
  IN best[last]

\* _cross_lens_tier_conflicts, for one input variable.
TierConflicts(found) ==
  LET claims == Claims(found, DOMAIN found)
  IN IF Cardinality({claims[l].tier : l \in DOMAIN claims}) < 2 THEN <<>>
     ELSE <<[lens |-> Winner(claims).lens, action |-> "flag",
             tier |-> Winner(claims).tier, check |-> "conflict"]>>

-----------------------------------------------------------------------------
DeckInit ==
  /\ inserted = [d \in Decks |-> <<>>]
  /\ opened = [lens \in Regs |-> 0]
  /\ closed = [lens \in Regs |-> 0]
  /\ missed = [lens \in Regs |-> 0]
  /\ disclosed = [d \in Decks |-> <<>>]
  /\ busy = [d \in Decks |-> Free]
  /\ verdicts = [d \in Decks |-> NoVerdict]

Active(d) == {inserted[d][i].lens : i \in DOMAIN inserted[d]}

Steps(d, step) == busy' = [busy EXCEPT ![d] = step]

Enters(d, lens, mode) ==
  inserted' = [inserted EXCEPT ![d] = Append(@, [lens |-> lens, mode |-> mode])]

\* Seeded fault: the lens acts before its insertion is on the ledger.
InsertBindActivating(d, lens, mode) ==
  /\ busy[d].at = "idle"
  /\ mode \in Modes[lens]
  /\ lens \notin Active(d)
  /\ Enters(d, lens, mode)
  /\ Steps(d, [at |-> "bound", lens |-> lens, mode |-> mode])
  /\ UNCHANGED <<opened, closed, missed, disclosed, verdicts>>

\* insert(): the lens is valid, declares the mode and is not in this deck;
\* its version is bound (idempotent) before the insertion is recorded.
InsertBind(d, lens, mode) ==
  /\ busy[d].at = "idle"
  /\ mode \in Modes[lens]
  /\ lens \notin Active(d)
  /\ Steps(d, [at |-> "bound", lens |-> lens, mode |-> mode])
  /\ UNCHANGED <<inserted, opened, closed, missed, disclosed, verdicts>>

\* The insertion event is on the ledger.
InsertEvent(d) ==
  /\ busy[d].at = "bound"
  /\ opened[busy[d].lens] < MaxEvents
  /\ opened' = [opened EXCEPT ![busy[d].lens] = @ + 1]
  /\ Steps(d, [busy[d] EXCEPT !.at = "entering"])
  /\ UNCHANGED <<inserted, closed, missed, disclosed, verdicts>>

InsertActivate(d) ==
  /\ busy[d].at = "entering"
  /\ Enters(d, busy[d].lens, busy[d].mode)
  /\ Steps(d, Free)
  /\ UNCHANGED <<opened, closed, missed, disclosed, verdicts>>

\* remove(): the removal is recorded first ...
RemoveEvent(d, lens) ==
  /\ busy[d].at = "idle"
  /\ lens \in Active(d)
  /\ closed[lens] < MaxEvents
  /\ closed' = [closed EXCEPT ![lens] = @ + 1]
  /\ Steps(d, [at |-> "leaving", lens |-> lens])
  /\ UNCHANGED <<inserted, opened, missed, disclosed, verdicts>>

\* ... and then the lens leaves the deck.
RemoveLens(d) ==
  /\ busy[d].at = "leaving"
  /\ \E i \in DOMAIN inserted[d] :
       /\ inserted[d][i].lens = busy[d].lens
       /\ inserted' = [inserted EXCEPT ![d] = RemoveAt(@, i)]
  /\ Steps(d, Free)
  /\ UNCHANGED <<opened, closed, missed, disclosed, verdicts>>

\* judge(): what the live lenses find, lens by lens in insertion order.
Reported(lens, review) ==
  [i \in DOMAIN review |->
     [lens |-> lens, action |-> review[i].action, tier |-> review[i].tier, check |-> "review"]]

LiveFindings(d, reviews) ==
  FlattenSeq([i \in DOMAIN inserted[d] |->
    LET e == inserted[d][i]
    IN IF e.mode = "live" THEN Reported(e.lens, reviews[e.lens]) ELSE <<>>])

BeginJudge(d, reviews) ==
  /\ d \in Judges
  /\ busy[d].at = "idle"
  /\ Steps(d, [at |-> "review", found |-> LiveFindings(d, reviews), told |-> 0])
  /\ disclosed' = [disclosed EXCEPT ![d] = <<>>]
  /\ verdicts' = [verdicts EXCEPT ![d] = NoVerdict]
  /\ UNCHANGED <<inserted, opened, closed, missed>>

\* _disclose: the next finding is chained, in whichever part of judge() it
\* was found.
Disclose(d) ==
  /\ busy[d].at \in {"review", "conflicts", "cohort"}
  /\ busy[d].told < Len(busy[d].found)
  /\ disclosed' = [disclosed EXCEPT ![d] = Append(@, busy[d].found[busy[d].told + 1])]
  /\ Steps(d, [busy[d] EXCEPT !.told = @ + 1])
  /\ UNCHANGED <<inserted, opened, closed, missed, verdicts>>

AllTold(d, part) == busy[d].at = part /\ busy[d].told = Len(busy[d].found)

FindConflicts(d) ==
  /\ AllTold(d, "review")
  /\ Steps(d, [busy[d] EXCEPT !.at = "conflicts",
                              !.found = @ \o TierConflicts(@)])
  /\ UNCHANGED <<inserted, opened, closed, missed, disclosed, verdicts>>

\* _cohort_equity_escalations: no review, or no client, is no escalation;
\* otherwise one flag for each live lens whose rollup says so.
Escalations(d, flagged) ==
  FlattenSeq([i \in DOMAIN inserted[d] |->
    LET e == inserted[d][i]
    IN IF e.mode = "live" /\ e.lens \in flagged
       THEN <<[lens |-> e.lens, action |-> "flag", tier |-> NoTier, check |-> "cohort"]>>
       ELSE <<>>])

EscalateCohort(d, flagged) ==
  /\ AllTold(d, "conflicts")
  /\ Steps(d, [busy[d] EXCEPT !.at = "cohort", !.found = @ \o Escalations(d, flagged)])
  /\ UNCHANGED <<inserted, opened, closed, missed, disclosed, verdicts>>

\* A blocking finding raises RegulatoryBlock, with all findings; otherwise
\* the judgment is returned with them.
Conclude(d) ==
  /\ AllTold(d, "cohort")
  /\ verdicts' = [verdicts EXCEPT ![d] =
       [kind  |-> IF \E i \in DOMAIN busy[d].found : busy[d].found[i].action = "block"
                  THEN "blocked" ELSE "judged",
        found |-> busy[d].found]]
  /\ Steps(d, Free)
  /\ UNCHANGED <<inserted, opened, closed, missed, disclosed>>

\* A ledger write raises: the operation ends and nothing else changes.
WriteFails(d) ==
  /\ \/ busy[d].at = "bound"
     \/ busy[d].at \in {"review", "conflicts", "cohort"} /\ busy[d].told < Len(busy[d].found)
  /\ Steps(d, Free)
  /\ UNCHANGED <<inserted, opened, closed, missed, disclosed, verdicts>>

\* The row is committed and _anchor_head raises: the operation ends there, with
\* its event on the ledger ...
EventUnanchored(d) ==
  /\ busy[d].at \in {"entering", "leaving"}
  /\ missed' = IF busy[d].at = "leaving"
               THEN [missed EXCEPT ![busy[d].lens] = @ + 1] ELSE missed
  /\ Steps(d, Free)
  /\ UNCHANGED <<inserted, opened, closed, disclosed, verdicts>>

\* ... or the disclosure, and judge() with it.
DiscloseUnanchored(d) ==
  /\ busy[d].at \in {"review", "conflicts", "cohort"}
  /\ busy[d].told < Len(busy[d].found)
  /\ disclosed' = [disclosed EXCEPT ![d] = Append(@, busy[d].found[busy[d].told + 1])]
  /\ Steps(d, Free)
  /\ UNCHANGED <<inserted, opened, closed, missed, verdicts>>

\* The process dies and starts again with an empty deck.
ProcessDies(d) ==
  /\ inserted' = [inserted EXCEPT ![d] = <<>>]
  /\ busy' = [busy EXCEPT ![d] = Free]
  /\ verdicts' = [verdicts EXCEPT ![d] = NoVerdict]
  /\ disclosed' = [disclosed EXCEPT ![d] = <<>>]
  /\ UNCHANGED <<opened, closed, missed>>

DeckNext ==
  \E d \in Decks :
    \/ \E lens \in Regs, mode \in {"observer", "live"} : InsertBind(d, lens, mode)
    \/ InsertEvent(d)
    \/ InsertActivate(d)
    \/ \E lens \in Regs : RemoveEvent(d, lens)
    \/ RemoveLens(d)
    \/ \E reviews \in [Regs -> Reviews] : BeginJudge(d, reviews)
    \/ Disclose(d)
    \/ FindConflicts(d)
    \/ \E flagged \in SUBSET Regs : EscalateCohort(d, flagged)
    \/ Conclude(d)
    \/ WriteFails(d)
    \/ EventUnanchored(d)
    \/ DiscloseUnanchored(d)
    \/ ProcessDies(d)

DeckSpec == DeckInit /\ [][DeckNext]_deckVars

-----------------------------------------------------------------------------
DeckTypeOK ==
  /\ \A d \in Decks : Active(d) \subseteq Regs
  /\ opened \in [Regs -> 0 .. MaxEvents] /\ closed \in [Regs -> 0 .. MaxEvents]
  /\ \A d \in Decks : busy[d].at \in
       {"idle", "bound", "entering", "leaving", "review", "conflicts", "cohort"}

\* The decks a lens acts in: it is in them, and not on its way out.
ActsIn(lens) ==
  {d \in Decks : lens \in Active(d) /\ ~(busy[d].at = "leaving" /\ busy[d].lens = lens)}

\* A lens never acts off the record (insert, remove, judge): across any failed
\* writes, unsealed heads and deaths the ledger has an insertion for every deck
\* a lens acts in, without a removal that was carried out; what the last judge()
\* of a process returned or raised is on the ledger finding by finding, in
\* order, since it began; and where live lenses disagree about a tier the
\* strictest one is disclosed, whichever lens was asked first.
OnTheRecord ==
  /\ \A lens \in Regs :
       opened[lens] - (closed[lens] - missed[lens]) >= Cardinality(ActsIn(lens))
  /\ \A d \in Decks : verdicts[d] # NoVerdict =>
       LET found  == verdicts[d].found
           claims == Claims(found, {i \in DOMAIN found : found[i].check = "review"})
       IN /\ disclosed[d] = found
          /\ verdicts[d].kind = "judged" => \A i \in DOMAIN found : found[i].action = "flag"
          /\ \A i \in DOMAIN found : found[i].check = "conflict" =>
               \A lens \in DOMAIN claims : Rank(claims[lens].tier) <= Rank(found[i].tier)

\* '"when was the CFPB lens active ..." must be a direct ledger query'
\* (record_regulatory_cassette_event): while a lens acts in a deck the ledger
\* has an insertion of it without a removal.  The removal is committed before
\* the sealing of the head that may raise, and the lens then stays.
WindowOnLedger ==
  \A lens \in Regs : opened[lens] - closed[lens] >= Cardinality(ActsIn(lens))
=============================================================================

--------------------------- MODULE BoundaryProofs ---------------------------
(***************************************************************************)
(* Proofs about what enters the ledger under somebody's name: signed        *)
(* authorization claims hold (AttestationKeys), what the conservation       *)
(* boundary accepts has a lineage (ConservationGateway), and a decision that *)
(* passed it says what its events observed (GovernedDecision).              *)
(***************************************************************************)
EXTENDS AttestationKeys, GovernedDecision, FiniteSetTheorems, WellFoundedInduction,
        TLAPS

-----------------------------------------------------------------------------
(* AttestationKeys.                                                         *)

Tags == {"legacy", "abv2", "abv3"}

Bodies == {"written", "other"}

Claims == Names \cup {NoName}

Signatures ==
  {NoSig} \cup {Envelope(k, tag, name, place, content) :
                  k \in Keys, tag \in Tags, name \in Claims, place \in Nat, content \in Bodies}

ClaimRows == [kind : {"claim"}, name : Claims, content : Bodies, sig : Signatures,
              was : [name : Claims, sig : Signatures]]

PolicyRows == [kind : {"policy"}, name : Keys]

KeysShape ==
  /\ current \in Keys \cup {NoKey}
  /\ previous \in SUBSET Keys /\ retired \in SUBSET Keys /\ leaked \in SUBSET Keys
  /\ signed \in Seq(ClaimRows \cup PolicyRows)

\* A claim was written without a signature, or with one over its own name,
\* its own place and what was written.
Genuine(sig, name, place) ==
  /\ name # NoName
  /\ \E k \in Keys, tag \in Tags \ {"legacy"} : sig = Envelope(k, tag, name, place, "written")

WrittenRight ==
  \A i \in DOMAIN signed : signed[i].kind = "claim" =>
    signed[i].was.sig = NoSig \/ Genuine(signed[i].was.sig, signed[i].was.name, i)

\* Where a signature that stands in a row can come from: nowhere, a row that
\* was written, or a leaked key.
SignaturesFound ==
  \A i \in DOMAIN signed : signed[i].kind = "claim" =>
    \/ signed[i].sig = NoSig
    \/ signed[i].sig.mac.key \in leaked
    \/ \E j \in DOMAIN signed : signed[j].kind = "claim" /\ signed[i].sig = signed[j].was.sig

KeysInv == KeysShape /\ WrittenRight /\ SignaturesFound

LEMMA KeysInitially == KeysInit => KeysInv
BY DEF KeysInit, KeysInv, KeysShape, WrittenRight, SignaturesFound

LEMMA EnvelopeFields ==
  ASSUME NEW k, NEW tag, NEW name, NEW place, NEW content
  PROVE  LET sig == Envelope(k, tag, name, place, content) IN
         /\ sig.tag = tag /\ sig.fp = (IF tag = "legacy" THEN NoKey ELSE k)
         /\ sig.mac = Mac(k, tag, name, place, content)
         /\ sig.mac.key = k
BY DEF Envelope, Mac

\* Two HMACs are the same only over the same key and the same payload.
LEMMA SameMac ==
  ASSUME NEW k, NEW name, NEW place, NEW content,
         NEW k2, NEW name2, NEW place2, NEW content2, NEW tag,
         Mac(k, tag, name, place, content) = Mac(k2, tag, name2, place2, content2)
  PROVE  /\ k = k2 /\ name = name2 /\ place = place2
         /\ tag = "abv3" => content = content2
<1> DEFINE mac == Mac(k, tag, name, place, content)
           mac2 == Mac(k2, tag, name2, place2, content2)
<1>1. /\ mac.key = k /\ mac.name = name /\ mac.place = place
      /\ mac.content = IF tag = "abv3" THEN {content} ELSE {}
      BY DEF Mac
<1>2. /\ mac2.key = k2 /\ mac2.name = name2 /\ mac2.place = place2
      /\ mac2.content = IF tag = "abv3" THEN {content2} ELSE {}
      BY DEF Mac
<1>3. mac = mac2
      OBVIOUS
<1> HIDE DEF mac, mac2
<1> QED
    BY <1>1, <1>2, <1>3

\* A row is appended behind the others.
LEMMA AppendedRow ==
  ASSUME KeysShape, NEW row \in ClaimRows \cup PolicyRows, signed' = Append(signed, row)
  PROVE  /\ signed' \in Seq(ClaimRows \cup PolicyRows)
         /\ DOMAIN signed' = DOMAIN signed \cup {Len(signed) + 1}
         /\ Len(signed) + 1 \notin DOMAIN signed
         /\ signed'[Len(signed) + 1] = row
         /\ \A i \in DOMAIN signed : signed'[i] = signed[i]
BY DEF KeysShape

LEMMA StartKeeps == KeysInv /\ StartLedger => KeysInv'
<1> SUFFICES ASSUME KeysInv, StartLedger PROVE KeysInv'
    OBVIOUS
<1> USE DEF KeysInv
<1> DEFINE row == [kind |-> "policy", name |-> current]
<1>1. row \in ClaimRows \cup PolicyRows /\ row.kind = "policy"
      BY DEF StartLedger, KeysShape, PolicyRows
<1>2. signed' = Append(signed, row) /\ UNCHANGED <<current, previous, retired, leaked>>
      BY DEF StartLedger
<1> HIDE DEF row
<1>3. KeysShape'
      BY <1>1, <1>2, AppendedRow DEF KeysShape
<1>4. WrittenRight'
      BY <1>1, <1>2, AppendedRow DEF WrittenRight, Genuine
<1>5. SignaturesFound'
      BY <1>1, <1>2, AppendedRow DEF SignaturesFound
<1> QED
    BY <1>3, <1>4, <1>5

LEMMA WriteKeeps ==
  ASSUME KeysInv, NEW name \in Claims, NEW tag \in {"abv2", "abv3"}, WriteClaim(name, tag)
  PROVE  KeysInv'
<1> USE DEF KeysInv
<1> DEFINE place == Len(signed) + 1
           sig == SignAuthorizedBy(current, tag, name, place, "written")
           row == [kind |-> "claim", name |-> name, content |-> "written",
                   sig |-> sig, was |-> [name |-> name, sig |-> sig]]
<1>1. signed' = Append(signed, row) /\ UNCHANGED <<current, previous, retired, leaked>>
      BY DEF WriteClaim
<1>2. place \in Nat /\ tag \in Tags \ {"legacy"}
      BY DEF KeysShape, Tags
<1>3. sig = NoSig \/ Genuine(sig, name, place)
      BY <1>2 DEF SignAuthorizedBy, Genuine, KeysShape
<1>4. sig \in Signatures
      BY <1>2 DEF SignAuthorizedBy, Signatures, KeysShape, Bodies
<1> HIDE DEF sig
<1>5. /\ row \in ClaimRows \cup PolicyRows
      /\ row.kind = "claim" /\ row.sig = sig /\ row.was.sig = sig /\ row.was.name = name
      BY <1>4 DEF ClaimRows, Bodies
<1> HIDE DEF row
<1>6. KeysShape'
      BY <1>1, <1>5, AppendedRow DEF KeysShape
<1>7. WrittenRight'
      BY <1>1, <1>3, <1>5, AppendedRow DEF WrittenRight, Genuine
<1>8. SignaturesFound'
      BY <1>1, <1>5, AppendedRow DEF SignaturesFound
<1> QED
    BY <1>6, <1>7, <1>8

LEMMA ForgeKeeps ==
  ASSUME KeysInv, NEW i \in DOMAIN signed, NEW name \in Claims, NEW content \in Bodies,
         Forge(i, name, content)
  PROVE  KeysInv'
<1> USE DEF KeysInv
<1>1. PICK sig \in Forgeries(name, content, i) :
        signed' = [signed EXCEPT ![i].name = name, ![i].content = content, ![i].sig = sig]
      BY DEF Forge
<1>2. /\ signed[i] \in ClaimRows /\ i \in Nat
      /\ UNCHANGED <<current, previous, retired, leaked>>
      BY DEF Forge, KeysShape, PolicyRows
<1>3. \A j \in DOMAIN signed \ Markers : signed[j].kind = "claim" /\ signed[j] \in ClaimRows
      BY DEF KeysShape, Markers, PolicyRows, ClaimRows
<1>4. \/ sig = NoSig
      \/ \E j \in DOMAIN signed : signed[j].kind = "claim" /\ sig = signed[j].was.sig
      \/ \E k \in leaked, tag \in Tags : sig = Envelope(k, tag, name, i, content)
      BY <1>1, <1>3 DEF Forgeries, Tags
<1>5. sig \in Signatures
  <2>1. CASE sig = NoSig
        BY <2>1 DEF Signatures
  <2>2. ASSUME NEW j \in DOMAIN signed, signed[j].kind = "claim", sig = signed[j].was.sig
        PROVE  sig \in Signatures
        BY <2>2 DEF KeysShape, PolicyRows, ClaimRows
  <2>3. ASSUME NEW k \in leaked, NEW tag \in Tags, sig = Envelope(k, tag, name, i, content)
        PROVE  sig \in Signatures
        BY <1>2, <2>3 DEF Signatures, KeysShape
  <2> QED
      BY <1>4, <2>1, <2>2, <2>3
<1>6. /\ signed' \in Seq(ClaimRows \cup PolicyRows)
      /\ DOMAIN signed' = DOMAIN signed
      /\ signed'[i].kind = "claim" /\ signed'[i].sig = sig /\ signed'[i].was = signed[i].was
      /\ \A j \in DOMAIN signed \ {i} : signed'[j] = signed[j]
  <2> DEFINE row == [signed[i] EXCEPT !.name = name, !.content = content, !.sig = sig]
  <2>1. /\ row \in ClaimRows /\ row.kind = "claim" /\ row.sig = sig
        /\ row.was = signed[i].was
        BY <1>2, <1>5 DEF ClaimRows
  <2>2. signed' = [signed EXCEPT ![i] = row]
        BY <1>1
  <2> HIDE DEF row
  <2> QED
      BY <2>1, <2>2 DEF KeysShape
<1>7. \A j \in DOMAIN signed : /\ signed'[j].kind = "claim" <=> signed[j].kind = "claim"
                               /\ signed'[j].was.sig = signed[j].was.sig \/ signed[j].kind # "claim"
                               /\ signed'[j].was.name = signed[j].was.name \/ signed[j].kind # "claim"
      BY <1>6 DEF Forge
<1>8. KeysShape'
      BY <1>2, <1>6 DEF KeysShape
<1>9. WrittenRight'
      BY <1>6, <1>7 DEF WrittenRight, Genuine
<1>10. SignaturesFound'
  <2>1. ASSUME NEW k \in leaked, NEW tag \in Tags, sig = Envelope(k, tag, name, i, content)
        PROVE  sig.mac.key \in leaked
        BY <2>1, EnvelopeFields
  <2>2. \/ sig = NoSig
        \/ sig.mac.key \in leaked
        \/ \E j \in DOMAIN signed : signed[j].kind = "claim" /\ sig = signed[j].was.sig
        BY <1>4, <2>1
  <2> QED
      BY <1>2, <1>6, <1>7, <2>2 DEF SignaturesFound
<1> QED
    BY <1>8, <1>9, <1>10

LEMMA KeyChangesKeep ==
  ASSUME KeysInv,
         \/ \E k \in Keys : RotateKey(k) \/ RetireKey(k) \/ LeakKey(k)
         \/ SwitchOverride
         \/ UNCHANGED keyVars
  PROVE  KeysInv'
<1> USE DEF KeysInv
<1>1. /\ UNCHANGED signed /\ leaked \subseteq leaked'
      /\ current' \in Keys \cup {NoKey} /\ previous' \in SUBSET Keys
      /\ retired' \in SUBSET Keys /\ leaked' \in SUBSET Keys
      BY DEF RotateKey, RetireKey, LeakKey, SwitchOverride, keyVars, KeysShape, Trusted
<1> QED
    BY <1>1 DEF KeysShape, WrittenRight, SignaturesFound

LEMMA KeysStep == KeysInv /\ [KeysNext]_keyVars => KeysInv'
<1> SUFFICES ASSUME KeysInv, [KeysNext]_keyVars PROVE KeysInv'
    OBVIOUS
<1>1. ASSUME NEW i \in DOMAIN signed, NEW name \in Claims, NEW content \in {"written", "other"},
             Forge(i, name, content)
      PROVE  KeysInv'
      BY <1>1, ForgeKeeps DEF Bodies
<1> QED
    BY <1>1, StartKeeps, WriteKeeps, KeyChangesKeep DEF KeysNext, Claims

-----------------------------------------------------------------------------
(* What verification makes of such rows.                                    *)

\* A set of numbers that is not empty has a least one.
LEMMA LeastNumber ==
  ASSUME NEW S \in SUBSET Nat, S # {}
  PROVE  Min(S) \in S /\ \A m \in S : Min(S) <= m
<1> DEFINE Below == {ss \in Nat \X Nat : ss[1] < ss[2]}
<1>1. IsWellFoundedOn(Below, Nat)
      BY NatLessThanWellFounded, Zenon DEF OpToRel
<1>2. PICK k \in S : \A m \in S : ~(<<m, k>> \in Below)
      BY <1>1, WFMin
<1>3. \A m \in S : ~(m < k)
      BY <1>2
<1>4. \E x \in S : \A y \in S : x =< y
      BY <1>3
<1> QED
    BY <1>4 DEF Min

LEMMA MarkedIsEnforced ==
  ASSUME KeysShape, NEW i \in DOMAIN signed, NEW m \in Markers, m < i
  PROVE  EnforcedSince(i)
<1>1. Markers \in SUBSET Nat /\ Markers # {} /\ i \in Nat
      BY DEF KeysShape, Markers
<1>2. Min(Markers) \in Nat /\ Min(Markers) <= m
      BY <1>1, LeastNumber
<1> QED
    BY <1>1, <1>2 DEF EnforcedSince

\* A trusted key fits a falsified row only if it has leaked.
LEMMA FalsifiedFitsNoKey ==
  ASSUME KeysInv, NEW i \in DOMAIN signed, signed[i].kind = "claim", Falsified(i),
         signed[i].sig # NoSig, NEW k \in Keys \ leaked
  PROVE  signed[i].sig.mac #
           Mac(k, signed[i].sig.tag, signed[i].name, i, signed[i].content)
<1> SUFFICES ASSUME signed[i].sig.mac =
                      Mac(k, signed[i].sig.tag, signed[i].name, i, signed[i].content)
             PROVE  FALSE
    OBVIOUS
<1> USE DEF KeysInv
<1>1. signed[i].sig.mac.key = k
  <2>1. \A tag, name, place, content : Mac(k, tag, name, place, content).key = k
        BY DEF Mac
  <2> QED
      BY <2>1
<1>2. PICK j \in DOMAIN signed : signed[j].kind = "claim" /\ signed[i].sig = signed[j].was.sig
      BY <1>1 DEF SignaturesFound
<1>3. Genuine(signed[j].was.sig, signed[j].was.name, j)
      BY <1>2 DEF WrittenRight
<1>4. PICK key \in Keys, tag \in Tags \ {"legacy"} :
        signed[i].sig = Envelope(key, tag, signed[j].was.name, j, "written")
      BY <1>2, <1>3 DEF Genuine
<1>5. /\ signed[i].sig.tag = tag
      /\ Mac(key, tag, signed[j].was.name, j, "written")
           = Mac(k, tag, signed[i].name, i, signed[i].content)
      BY <1>4, EnvelopeFields
<1>6. j = i /\ signed[j].was.name = signed[i].name
      BY <1>5, SameMac
<1>7. tag = "abv3" => signed[i].content = "written"
      BY <1>5, SameMac
<1> QED
    BY <1>2, <1>5, <1>6, <1>7 DEF Falsified

LEMMA FalsifiedIsReported ==
  ASSUME KeysInv, NEW i \in DOMAIN signed, signed[i].kind = "claim", Falsified(i),
         EnforcementRequired, Trusted # {}, leaked \cap Trusted = {},
         signed[i].sig # NoSig, signed[i].name # NoName
  PROVE  Reported(i)
<1> DEFINE sig == signed[i].sig
           Fits(k) == sig.mac = Mac(k, sig.tag, signed[i].name, i, signed[i].content)
<1>1. \A k \in Trusted : ~Fits(k)
      BY FalsifiedFitsNoKey DEF Trusted, KeysInv, KeysShape
<1>2. SignatureStatus(signed[i], i) # "ok"
  <2> SUFFICES ASSUME SignatureStatus(signed[i], i) = "ok" PROVE FALSE
      OBVIOUS
  <2>1. /\ sig.fp = NoKey \/ sig.fp \in Trusted \cup Retired
        /\ sig.fp \notin Retired
        /\ IF sig.fp = NoKey THEN \E k \in Trusted : Fits(k) ELSE Fits(sig.fp)
        BY DEF SignatureStatus
  <2> QED
      BY <1>1, <2>1
<1>3. SignatureStatus(signed[i], i) \in {"unknown_key", "retired_key", "invalid"}
      BY <1>2 DEF SignatureStatus
<1> QED
    BY <1>3 DEF Reported

\* A row nobody touched, under a key that is trusted, verifies.
LEMMA UntouchedIsNotReported ==
  ASSUME KeysInv, NEW i \in DOMAIN signed, signed[i].kind = "claim",
         signed[i].sig = signed[i].was.sig, ~Falsified(i), signed[i].sig # NoSig,
         signed[i].sig.fp \in Trusted
  PROVE  ~Reported(i)
<1> USE DEF KeysInv
<1> DEFINE sig == signed[i].sig
<1>1. PICK key \in Keys, tag \in Tags \ {"legacy"} :
        sig = Envelope(key, tag, signed[i].was.name, i, "written")
      BY DEF WrittenRight, Genuine
<1>2. /\ sig.tag = tag /\ sig.fp = key
      /\ sig.mac = Mac(key, tag, signed[i].was.name, i, "written")
      BY <1>1, EnvelopeFields
<1>3. /\ signed[i].name = signed[i].was.name
      /\ tag = "abv3" => signed[i].content = "written"
      /\ signed[i].was.name # NoName
      BY <1>2 DEF Falsified, WrittenRight, Genuine
<1>4. Mac(key, tag, signed[i].was.name, i, "written")
        = Mac(key, tag, signed[i].name, i, signed[i].content)
      BY <1>3 DEF Mac
<1>5. sig.fp # NoKey /\ sig.fp \notin Retired
      BY KeysAssumption DEF Trusted, Retired, KeysShape
<1>6. SignatureStatus(signed[i], i) = "ok"
      BY <1>2, <1>3, <1>4, <1>5 DEF SignatureStatus
<1> QED
    BY <1>6 DEF Reported

\* Claims hold, for any keys, names, number of rows and number of changes made
\* behind the ledger's back: rotation and retirement never turn against an
\* honest row, and no signature moved, kept or made elsewhere covers a
\* falsified one (verify_authorized_by_signature, verify_chain).
THEOREM ClaimsAlwaysHold == KeysSpec => []ClaimsHold
<1>1. KeysInv => ClaimsHold
  <2> SUFFICES ASSUME KeysInv, NEW i \in DOMAIN signed \ Markers
               PROVE  LET row == signed[i] IN
                      /\ row.sig = row.was.sig /\ ~Falsified(i) /\ row.sig # NoSig =>
                           (Reported(i) => row.sig.fp \notin Trusted)
                      /\ /\ Falsified(i) /\ row.name # NoName /\ \E m \in Markers : m < i
                         /\ \/ row.sig = NoSig
                            \/ EnforcementRequired /\ Trusted # {} /\ leaked \cap Trusted = {}
                         => Reported(i)
      BY DEF ClaimsHold
  <2>1. signed[i].kind = "claim"
        BY DEF Markers, KeysInv, KeysShape, ClaimRows, PolicyRows
  <2>2. ASSUME signed[i].sig = signed[i].was.sig, ~Falsified(i), signed[i].sig # NoSig,
               Reported(i)
        PROVE  signed[i].sig.fp \notin Trusted
        BY <2>1, <2>2, UntouchedIsNotReported
  <2>3. ASSUME signed[i].sig = NoSig, signed[i].name # NoName, NEW m \in Markers, m < i
        PROVE  Reported(i)
        BY <2>1, <2>3, MarkedIsEnforced DEF Reported, KeysInv
  <2>4. ASSUME Falsified(i), signed[i].sig # NoSig, signed[i].name # NoName,
               EnforcementRequired, Trusted # {}, leaked \cap Trusted = {}
        PROVE  Reported(i)
        BY <2>1, <2>4, FalsifiedIsReported
  <2> QED
      BY <2>2, <2>3, <2>4
<1> QED
    BY <1>1, KeysInitially, KeysStep, PTL DEF KeysSpec

-----------------------------------------------------------------------------
(* ConservationGateway.  The operations are functions of the gateway's      *)
(* state g, so the invariant is a predicate on g.                           *)

Refs(g) == {Ref(a) : a \in g.accepted}

\* Entry k of the transport ledger accepted an artifact with this reference.
Accepts(g, k, ref) ==
  k \in 1..Len(g.entries) /\ g.entries[k].status = "ACCEPTED" /\ g.entries[k].artifact = ref

GatewayShape(g) ==
  /\ g = [guard |-> g.guard, gems |-> g.gems, accepted |-> g.accepted, done |-> g.done,
          entries |-> g.entries]
  /\ \E S : g.entries \in Seq(S)

OneArtifactPerId(g) == \A a, b \in g.accepted : a.id = b.id => a = b

MadeOnce(g) ==
  \A a \in g.accepted : a.parents # {} =>
    \E k \in 1..Len(g.entries) :
      /\ Accepts(g, k, Ref(a)) /\ g.entries[k].source \in Refs(g)
      /\ \A n \in 1..Len(g.entries) : Accepts(g, n, Ref(a)) => n = k

EntriesKept(g) ==
  \A k \in 1..Len(g.entries) :
    g.entries[k].status \in {"ROOT", "ACCEPTED"} => g.entries[k].artifact \in Refs(g)

\* A guard lets one root in; before it has, nothing is accepted.
Guarded(g) ==
  /\ \A a \in g.accepted : a.parents = {} => a \in Roots
  /\ g.guard # Open =>
       \A a, b \in g.accepted : a.parents = {} /\ b.parents = {} => a = b
  /\ g.guard # Open /\ g.guard # Spent => g.accepted = {}

Lineage(g) ==
  /\ GatewayShape(g) /\ OneArtifactPerId(g) /\ MadeOnce(g) /\ EntriesKept(g)
  /\ Guarded(g)

LEMMA AppendedEntry ==
  ASSUME NEW s, NEW S, s \in Seq(S), NEW e
  PROVE  /\ Append(s, e) \in Seq(S \cup {e})
         /\ Len(s) \in Nat /\ Len(Append(s, e)) = Len(s) + 1
         /\ Append(s, e)[Len(s) + 1] = e
         /\ \A k \in 1..Len(s) : Append(s, e)[k] = s[k]
<1>1. s \in Seq(S \cup {e})
      OBVIOUS
<1> QED
    BY <1>1

LEMMA SameRef ==
  ASSUME NEW a, NEW b, Ref(a) = Ref(b)
  PROVE  a.id = b.id
<1>1. \A x : Ref(x).id = x.id
      BY DEF Ref
<1> QED
    BY <1>1

LEMMA FreshHasLineage ==
  ASSUME NEW guard
  PROVE  Lineage(NewGateway(guard))
<1> DEFINE g == NewGateway(guard)
<1>1. /\ g = [guard |-> g.guard, gems |-> g.gems, accepted |-> g.accepted, done |-> g.done,
              entries |-> g.entries]
      /\ g.entries = <<>> /\ g.accepted = {}
      BY DEF NewGateway
<1>2. <<>> \in Seq({}) /\ 1..Len(<<>>) = {}
      OBVIOUS
<1> HIDE DEF g
<1>3. GatewayShape(g)
      BY <1>1, <1>2, Zenon DEF GatewayShape
<1>4. 1..Len(g.entries) = {}
      BY <1>1, <1>2
<1>5. Lineage(g)
      BY <1>1, <1>3, <1>4 DEF Lineage, OneArtifactPerId, MadeOnce, EntriesKept, Guarded
<1> QED
    BY <1>5 DEF g

LEMMA IngestKeepsLineage ==
  ASSUME NEW g, Lineage(g), NEW artifact \in Roots \cup g.accepted
  PROVE  Lineage(IngestSource(g, artifact))
<1> USE DEF Lineage
<1>1. CASE ~EntersAsRoot(g, artifact)
      BY <1>1 DEF IngestSource
<1>2. CASE EntersAsRoot(g, artifact)
  <2> DEFINE e == [event |-> "ROOT", artifact |-> Ref(artifact), source |-> Ref(artifact),
                   tid |-> <<>>, status |-> "ROOT"]
             h == IngestSource(g, artifact)
  <2>1. /\ h.guard = (IF g.guard = Open THEN Open ELSE Spent)
        /\ h.accepted = g.accepted \cup {artifact}
        /\ h.entries = Append(g.entries, e)
        /\ h = [guard |-> h.guard, gems |-> h.gems, accepted |-> h.accepted,
                done |-> h.done, entries |-> h.entries]
        BY <1>2 DEF IngestSource, GatewayShape
  <2>2. e.status = "ROOT" /\ e.artifact = Ref(artifact)
        OBVIOUS
  <2> HIDE DEF e, h
  <2>3. PICK S : g.entries \in Seq(S)
        BY DEF GatewayShape
  <2>4. /\ h.entries \in Seq(S \cup {e}) /\ Len(g.entries) \in Nat
        /\ Len(h.entries) = Len(g.entries) + 1
        /\ h.entries[Len(g.entries) + 1] = e
        /\ \A k \in 1..Len(g.entries) : h.entries[k] = g.entries[k]
        BY <2>1, <2>3, AppendedEntry
  <2>5. GatewayShape(h)
        BY <2>1, <2>4 DEF GatewayShape
  <2>6. artifact.parents = {} /\ \A a \in g.accepted : a.id # artifact.id
        BY <1>2 DEF EntersAsRoot, AcceptedAs
  <2>7. artifact \notin g.accepted /\ artifact \in Roots
        BY <2>6
  <2>8. OneArtifactPerId(h)
        BY <2>1, <2>6 DEF OneArtifactPerId
  <2>9. Refs(h) = Refs(g) \cup {Ref(artifact)}
        BY <2>1 DEF Refs
  <2>10. \A k, ref : Accepts(h, k, ref) <=> Accepts(g, k, ref)
        BY <2>2, <2>4 DEF Accepts
  <2>11. MadeOnce(h)
    <3> SUFFICES ASSUME NEW a \in h.accepted, a.parents # {}
                 PROVE  \E k \in 1..Len(h.entries) :
                          /\ Accepts(h, k, Ref(a)) /\ h.entries[k].source \in Refs(h)
                          /\ \A n \in 1..Len(h.entries) : Accepts(h, n, Ref(a)) => n = k
        BY DEF MadeOnce
    <3>1. a \in g.accepted
          BY <2>1, <2>6
    <3>2. PICK k \in 1..Len(g.entries) :
            /\ Accepts(g, k, Ref(a)) /\ g.entries[k].source \in Refs(g)
            /\ \A n \in 1..Len(g.entries) : Accepts(g, n, Ref(a)) => n = k
          BY <3>1 DEF MadeOnce
    <3>3. k \in 1..Len(h.entries) /\ h.entries[k].source \in Refs(h)
          BY <2>4, <2>9, <3>2
    <3>4. \A n : Accepts(h, n, Ref(a)) => n = k
          BY <2>10, <3>2 DEF Accepts
    <3> QED
        BY <2>10, <3>2, <3>3, <3>4
  <2>12. EntriesKept(h)
        BY <2>2, <2>4, <2>9 DEF EntriesKept
  <2>13. Guarded(h)
    <3>1. CASE g.guard = Open
          BY <2>1, <2>7, <3>1 DEF Guarded
    <3>2. CASE g.guard # Open
      <4>1. g.guard = Ref(artifact) /\ g.guard # Spent
            BY <1>2, <2>7, <3>2, GatewayAssumption DEF EntersAsRoot, RootPermitted
      <4>2. g.accepted = {}
            BY <3>2, <4>1 DEF Guarded
      <4> QED
          BY <2>1, <2>7, <3>2, <4>2 DEF Guarded
    <3> QED
        BY <3>1, <3>2
  <2>14. Lineage(h)
        BY <2>5, <2>8, <2>11, <2>12, <2>13
  <2> QED
      BY <2>14 DEF h
<1> QED
    BY <1>1, <1>2

LEMMA RegisterKeepsLineage ==
  ASSUME NEW g, Lineage(g), NEW gem
  PROVE  Lineage(RegisterGem(g, gem))
<1> DEFINE h == RegisterGem(g, gem)
<1>1. /\ h.guard = g.guard /\ h.accepted = g.accepted /\ h.entries = g.entries
      /\ h = [guard |-> h.guard, gems |-> h.gems, accepted |-> h.accepted,
              done |-> h.done, entries |-> h.entries]
  <2>1. g = [guard |-> g.guard, gems |-> g.gems, accepted |-> g.accepted, done |-> g.done,
             entries |-> g.entries]
        BY DEF Lineage, GatewayShape
  <2>2. h = [g EXCEPT !.gems = g.gems \cup {gem}]
        BY DEF RegisterGem
  <2> HIDE DEF h
  <2> QED
      BY <2>1, <2>2
<1> HIDE DEF h
<1>2. Lineage(h)
      BY <1>1
      DEF Lineage, GatewayShape, OneArtifactPerId, MadeOnce, EntriesKept, Guarded, Refs,
          Accepts
<1> QED
    BY <1>2 DEF h

\* An entry that accepts nothing leaves the lineage as it was.
LEMMA ToldKeepsLineage ==
  ASSUME NEW g, Lineage(g), NEW e, e.status \notin {"ROOT", "ACCEPTED"},
         NEW h, h = [g EXCEPT !.entries = Append(@, e)]
  PROVE  Lineage(h)
<1> USE DEF Lineage
<1>1. /\ h.guard = g.guard /\ h.accepted = g.accepted /\ h.entries = Append(g.entries, e)
      /\ h = [guard |-> h.guard, gems |-> h.gems, accepted |-> h.accepted,
              done |-> h.done, entries |-> h.entries]
      BY DEF GatewayShape
<1>2. PICK S : g.entries \in Seq(S)
      BY DEF GatewayShape
<1>3. /\ h.entries \in Seq(S \cup {e}) /\ Len(g.entries) \in Nat
      /\ Len(h.entries) = Len(g.entries) + 1
      /\ h.entries[Len(g.entries) + 1] = e
      /\ \A k \in 1..Len(g.entries) : h.entries[k] = g.entries[k]
      BY <1>1, <1>2, AppendedEntry
<1>4. GatewayShape(h)
      BY <1>1, <1>3 DEF GatewayShape
<1>5. OneArtifactPerId(h) /\ Guarded(h)
      BY <1>1 DEF OneArtifactPerId, Guarded
<1>6. Refs(h) = Refs(g)
      BY <1>1 DEF Refs
<1>7. \A k, ref : Accepts(h, k, ref) <=> Accepts(g, k, ref)
      BY <1>3 DEF Accepts
<1>8. MadeOnce(h)
  <2> SUFFICES ASSUME NEW a \in g.accepted, a.parents # {}
               PROVE  \E k \in 1..Len(h.entries) :
                        /\ Accepts(h, k, Ref(a)) /\ h.entries[k].source \in Refs(h)
                        /\ \A n \in 1..Len(h.entries) : Accepts(h, n, Ref(a)) => n = k
      BY <1>1 DEF MadeOnce
  <2>1. PICK k \in 1..Len(g.entries) :
          /\ Accepts(g, k, Ref(a)) /\ g.entries[k].source \in Refs(g)
          /\ \A n \in 1..Len(g.entries) : Accepts(g, n, Ref(a)) => n = k
        BY DEF MadeOnce
  <2>2. k \in 1..Len(h.entries) /\ h.entries[k].source \in Refs(h)
        BY <1>3, <1>6, <2>1
  <2>3. \A n : Accepts(h, n, Ref(a)) => n = k
        BY <1>7, <2>1 DEF Accepts
  <2> QED
      BY <1>7, <2>1, <2>2, <2>3
<1>9. EntriesKept(h)
      BY <1>3, <1>6 DEF EntriesKept
<1> QED
    BY <1>4, <1>5, <1>8, <1>9

\* A candidate under a new id, made from an accepted source, with its entry.
LEMMA AcceptedKeepsLineage ==
  ASSUME NEW g, Lineage(g), NEW candidate, candidate.parents # {},
         \A a \in g.accepted : a.id # candidate.id,
         NEW e, e.status = "ACCEPTED", e.artifact = Ref(candidate), e.source \in Refs(g),
         NEW h, h.guard = g.guard, h.accepted = g.accepted \cup {candidate},
         h.entries = Append(g.entries, e),
         h = [guard |-> h.guard, gems |-> h.gems, accepted |-> h.accepted,
              done |-> h.done, entries |-> h.entries]
  PROVE  Lineage(h)
<1> USE DEF Lineage
<1>1. PICK S : g.entries \in Seq(S)
      BY DEF GatewayShape
<1>2. /\ h.entries \in Seq(S \cup {e}) /\ Len(g.entries) \in Nat
      /\ Len(h.entries) = Len(g.entries) + 1
      /\ h.entries[Len(g.entries) + 1] = e
      /\ \A k \in 1..Len(g.entries) : h.entries[k] = g.entries[k]
      BY <1>1, AppendedEntry
<1>3. GatewayShape(h)
      BY <1>2 DEF GatewayShape
<1>4. OneArtifactPerId(h)
      BY DEF OneArtifactPerId
<1>5. Refs(h) = Refs(g) \cup {Ref(candidate)}
      BY DEF Refs
<1>6. EntriesKept(h)
      BY <1>2, <1>5 DEF EntriesKept
<1>7. Guarded(h)
  <2>1. g.accepted # {}
        BY DEF Refs
  <2> QED
      BY <2>1 DEF Guarded
<1>8. Ref(candidate) \notin Refs(g)
      BY SameRef DEF Refs
<1>9. \A n : ~Accepts(g, n, Ref(candidate))
      BY <1>8 DEF Accepts, EntriesKept
<1>10. MadeOnce(h)
  <2> SUFFICES ASSUME NEW a \in h.accepted, a.parents # {}
               PROVE  \E k \in 1..Len(h.entries) :
                        /\ Accepts(h, k, Ref(a)) /\ h.entries[k].source \in Refs(h)
                        /\ \A n \in 1..Len(h.entries) : Accepts(h, n, Ref(a)) => n = k
      BY DEF MadeOnce
  <2>1. PICK m \in Nat : m = Len(g.entries) + 1
        BY <1>2
  <2>2. \A n, ref : n # m => (Accepts(h, n, ref) <=> Accepts(g, n, ref))
        BY <1>2, <2>1 DEF Accepts
  <2>3. CASE a = candidate
    <3>1. Accepts(h, m, Ref(a)) /\ h.entries[m].source \in Refs(h) /\ m \in 1..Len(h.entries)
          BY <1>2, <1>5, <2>1, <2>3 DEF Accepts
    <3>2. \A n : Accepts(h, n, Ref(a)) => n = m
          BY <1>9, <2>2, <2>3
    <3> QED
        BY <3>1, <3>2
  <2>4. CASE a # candidate
    <3>1. a \in g.accepted
          BY <2>4
    <3>2. PICK k \in 1..Len(g.entries) :
            /\ Accepts(g, k, Ref(a)) /\ g.entries[k].source \in Refs(g)
            /\ \A n \in 1..Len(g.entries) : Accepts(g, n, Ref(a)) => n = k
          BY <3>1 DEF MadeOnce
    <3>3. k \in 1..Len(h.entries) /\ h.entries[k].source \in Refs(h) /\ k # m
          BY <1>2, <1>5, <2>1, <3>2
    <3>4. ~Accepts(h, m, Ref(a))
      <4>1. Ref(a) # Ref(candidate)
            BY <3>1, SameRef
      <4> QED
          BY <1>2, <2>1, <4>1 DEF Accepts
    <3>5. \A n : Accepts(h, n, Ref(a)) => n = k
      <4> SUFFICES ASSUME NEW n, Accepts(h, n, Ref(a)) PROVE n = k
          OBVIOUS
      <4>1. Accepts(g, n, Ref(a))
            BY <2>2, <3>4
      <4> QED
          BY <3>2, <4>1 DEF Accepts
    <3>6. Accepts(h, k, Ref(a))
          BY <2>2, <3>2, <3>3
    <3> QED
        BY <3>3, <3>5, <3>6
  <2> QED
      BY <2>3, <2>4
<1> QED
    BY <1>3, <1>4, <1>6, <1>7, <1>10

LEMMA SubmitKeepsLineage ==
  ASSUME NEW g, Lineage(g), NEW request, NEW made, NEW content, NEW answer
  PROVE  Lineage(Submit(g, request, Proposal(made, Candidate(made, content)), answer))
<1> DEFINE candidate == Candidate(made, content)
           p == Proposal(made, candidate)
           status == Status(g, request, p, answer)
           e == [event |-> "TRANSFORMATION", artifact |-> p.output,
                 source |-> p.source, tid |-> p.tid, status |-> status]
           told == [g EXCEPT !.entries = Append(@, e)]
           h == Submit(g, request, p, answer)
<1>1. candidate.parents # {}
      BY DEF Candidate
<1>2. p.candidate = candidate /\ p.output = Ref(candidate)
      BY DEF Proposal
<1>3. e.status = status /\ e.artifact = p.output /\ e.source = p.source
      OBVIOUS
<1>4. h = IF status = "ACCEPTED"
          THEN [told EXCEPT !.accepted = (@ \ AcceptedAs(g, p.candidate.id)) \cup {p.candidate},
                            !.done = @ \cup {p.tid}]
          ELSE told
      BY DEF Submit
<1>5. status \in {"REJECTED", "ACCEPTED", "REQUIRES_VERIFICATION", "REQUIRES_AUTHORIZATION"}
      BY DEF Status
<1>6. status = "ACCEPTED" => Preflight(g, request, p)
      BY DEF Status
<1> HIDE DEF candidate, p, status, e, h
<1>7. CASE status # "ACCEPTED"
  <2>1. Lineage(h)
        BY <1>3, <1>4, <1>5, <1>7, ToldKeepsLineage
  <2> QED
      BY <2>1 DEF h, p, candidate
<1>8. CASE status = "ACCEPTED"
  <2>1. /\ request.source \in g.accepted /\ p.source = Ref(request.source)
        /\ AcceptedAs(g, candidate.id) = {}
        BY <1>2, <1>6, <1>8 DEF Preflight
  <2>2. e.source \in Refs(g) /\ \A a \in g.accepted : a.id # candidate.id
        BY <1>3, <2>1 DEF Refs, AcceptedAs
  <2>3. g = [guard |-> g.guard, gems |-> g.gems, accepted |-> g.accepted, done |-> g.done,
             entries |-> g.entries]
        BY DEF Lineage, GatewayShape
  <2>4. told = [guard |-> g.guard, gems |-> g.gems, accepted |-> g.accepted,
                done |-> g.done, entries |-> Append(g.entries, e)]
        BY <2>3
  <2>5. h = [told EXCEPT !.accepted = g.accepted \cup {candidate},
                         !.done = g.done \cup {p.tid}]
        BY <1>2, <1>4, <1>8, <2>1, <2>4
  <2>6. h = [guard |-> g.guard, gems |-> g.gems, accepted |-> g.accepted \cup {candidate},
             done |-> g.done \cup {p.tid}, entries |-> Append(g.entries, e)]
        BY <2>4, <2>5
  <2>7. /\ h.guard = g.guard /\ h.accepted = g.accepted \cup {candidate}
        /\ h.entries = Append(g.entries, e)
        /\ h = [guard |-> h.guard, gems |-> h.gems, accepted |-> h.accepted,
                done |-> h.done, entries |-> h.entries]
        BY <2>6
  <2>8. Lineage(h)
        BY <1>1, <1>2, <1>3, <1>8, <2>2, <2>7, AcceptedKeepsLineage
  <2> QED
      BY <2>8 DEF h, p, candidate
<1> QED
    BY <1>7, <1>8

LEMMA LineageStep == Lineage(gateway) /\ [GatewayNext]_gateway => Lineage(gateway')
<1> SUFFICES ASSUME Lineage(gateway), [GatewayNext]_gateway PROVE Lineage(gateway')
    OBVIOUS
<1>1. ASSUME NEW a \in Reachable, CallIngest(a) PROVE Lineage(gateway')
      BY <1>1, IngestKeepsLineage DEF CallIngest, Reachable
<1>2. ASSUME NEW gem \in Gems, CallRegister(gem) PROVE Lineage(gateway')
      BY <1>2, RegisterKeepsLineage DEF CallRegister
<1>3. ASSUME NEW request \in GatewayRequests, NEW made \in GatewayRequests,
             NEW content \in Contents, NEW answer \in KernelAnswers,
             CallSubmit(request, made, content, answer)
      PROVE  Lineage(gateway')
      BY <1>3, SubmitKeepsLineage DEF CallSubmit
<1>4. CASE UNCHANGED gateway
      BY <1>4
<1> QED
    BY <1>1, <1>2, <1>3, <1>4 DEF GatewayNext

\* What the gateway has accepted has a lineage, for any sources, contents and
\* Gems and whatever the kernel answers: every accepted artifact is a permitted
\* root or has exactly one accepting entry whose source is accepted, and no
\* call takes an accepted artifact away (ConservationGateway.submit).
THEOREM LineageAlwaysHolds == GatewaySpec => []LineageHolds
<1> DEFINE Inv == Lineage(gateway)
<1>1. GatewayInit => Inv
      BY FreshHasLineage DEF GatewayInit
<1>2. Inv /\ [GatewayNext]_gateway => Inv'
      BY LineageStep
<1>3. Inv => LineageHolds
  <2> SUFFICES ASSUME Lineage(gateway) PROVE LineageHolds
      OBVIOUS
  <2> DEFINE Made(a) == {k \in 1..Len(gateway.entries) :
                           gateway.entries[k].status = "ACCEPTED"
                           /\ gateway.entries[k].artifact = Ref(a)}
             refs == {Ref(a) : a \in gateway.accepted}
             roots == {a \in gateway.accepted : a.parents = {}}
  <2> USE DEF Lineage
  <2>1. \A a, b \in gateway.accepted : a.id = b.id => a = b
        BY DEF OneArtifactPerId
  <2>2. ASSUME NEW a \in gateway.accepted \ roots
        PROVE  Cardinality(Made(a)) = 1 /\ \A k \in Made(a) : gateway.entries[k].source \in refs
    <3>1. PICK k \in 1..Len(gateway.entries) :
            /\ Accepts(gateway, k, Ref(a)) /\ gateway.entries[k].source \in Refs(gateway)
            /\ \A n \in 1..Len(gateway.entries) : Accepts(gateway, n, Ref(a)) => n = k
          BY DEF MadeOnce
    <3>2. Made(a) = {k}
          BY <3>1 DEF Accepts
    <3>3. Cardinality({k}) = 1
          BY FS_Singleton
    <3> QED
        BY <3>1, <3>2, <3>3 DEF Refs
  <2>3. \A k \in 1..Len(gateway.entries) :
          gateway.entries[k].status \in {"ROOT", "ACCEPTED"} => gateway.entries[k].artifact \in refs
        BY DEF EntriesKept, Refs
  <2>4. ASSUME gateway.guard # Open PROVE Cardinality(roots) <= 1
    <3>1. CASE roots = {}
          BY <3>1, FS_EmptySet
    <3>2. CASE roots # {}
      <4>1. PICK a \in roots : TRUE
            BY <3>2
      <4>2. \A b \in roots : b = a
            BY <2>4 DEF Guarded
      <4>3. Cardinality({a}) = 1
            BY FS_Singleton
      <4> HIDE DEF roots
      <4>4. roots = {a}
            BY <4>1, <4>2
      <4> QED
          BY <4>3, <4>4
    <3> QED
        BY <3>1, <3>2
  <2>5. gateway.guard # Open /\ gateway.guard # Spent => gateway.accepted = {}
        BY DEF Guarded
  <2> HIDE DEF roots
  <2> QED
      BY <2>1, <2>2, <2>3, <2>4, <2>5 DEF LineageHolds, roots
<1> QED
    BY <1>1, <1>2, <1>3, PTL DEF GatewaySpec

-----------------------------------------------------------------------------
(* Decisions (GovernedDecision.tla): the events of a batch in order.        *)

\* A batch is a sequence of events with a time and an id.
Timed(events) ==
  /\ events \in Seq(ToSet(events))
  /\ \A k \in DOMAIN events : events[k].id \in Nat /\ events[k].at \in Nat

LEMMA BatchShape ==
  ASSUME NEW events, Timed(events)
  PROVE  /\ Len(events) \in Nat /\ DOMAIN events = 1..Len(events)
         /\ IsFiniteSet(DOMAIN events) /\ Cardinality(DOMAIN events) = Len(events)
         /\ events # <<>> => Len(events) > 0
<1>1. /\ Len(events) \in Nat /\ DOMAIN events = 1..Len(events)
      /\ events # <<>> => Len(events) > 0
      BY DEF Timed
<1>2. 1 \in Int /\ Len(events) \in Int
      BY <1>1
<1>3. /\ IsFiniteSet(1..Len(events))
      /\ Cardinality(1..Len(events)) = IF 1 > Len(events) THEN 0 ELSE Len(events) - 1 + 1
      BY <1>2, FS_Interval
<1> QED
    BY <1>1, <1>3

\* The order of sorted() is a strict total order of the places of a batch.
LEMMA BeforeOrders ==
  ASSUME NEW events, Timed(events)
  PROVE  /\ \A a \in DOMAIN events : ~Before(events, a, a)
         /\ \A a, b, c \in DOMAIN events :
              Before(events, a, b) /\ Before(events, b, c) => Before(events, a, c)
         /\ \A a, b \in DOMAIN events : a # b => Before(events, a, b) \/ Before(events, b, a)
<1>1. DOMAIN events \subseteq Nat
      BY BatchShape
<1>2. \A k \in DOMAIN events : events[k].id \in Nat /\ events[k].at \in Nat
      BY DEF Timed
<1>3. \A a \in DOMAIN events : ~Before(events, a, a)
      BY <1>1, <1>2 DEF Before
<1>4. ASSUME NEW a \in DOMAIN events, NEW b \in DOMAIN events, NEW c \in DOMAIN events,
             Before(events, a, b), Before(events, b, c)
      PROVE  Before(events, a, c)
      BY <1>1, <1>2, <1>4 DEF Before
<1>5. ASSUME NEW a \in DOMAIN events, NEW b \in DOMAIN events, a # b
      PROVE  Before(events, a, b) \/ Before(events, b, a)
      BY <1>1, <1>2, <1>5 DEF Before
<1> QED
    BY <1>3, <1>4, <1>5

\* The places before a place, and the place that has r - 1 before it.
Below(events, k) == {n \in DOMAIN events : Before(events, n, k)}

PlaceOf(events, r) == CHOOSE k \in DOMAIN events : Cardinality(Below(events, k)) = r - 1

LEMMA EarlierHasFewerBelow ==
  ASSUME NEW events, Timed(events),
         NEW a \in DOMAIN events, NEW b \in DOMAIN events, Before(events, a, b)
  PROVE  Cardinality(Below(events, a)) < Cardinality(Below(events, b))
<1>1. IsFiniteSet(Below(events, b))
  <2>1. Below(events, b) \in SUBSET DOMAIN events
        BY DEF Below
  <2> QED
      BY <2>1, BatchShape, FS_Subset
<1>2. Below(events, a) \in SUBSET Below(events, b)
  <2>1. \A n \in DOMAIN events : Before(events, n, a) => Before(events, n, b)
        BY BeforeOrders
  <2> QED
      BY <2>1 DEF Below
<1>3. a \in Below(events, b) /\ a \notin Below(events, a)
      BY BeforeOrders DEF Below
<1>4. /\ IsFiniteSet(Below(events, a))
      /\ Cardinality(Below(events, a)) <= Cardinality(Below(events, b))
      /\ Cardinality(Below(events, a)) # Cardinality(Below(events, b))
      BY <1>1, <1>2, <1>3, FS_Subset
<1>5. Cardinality(Below(events, a)) \in Nat /\ Cardinality(Below(events, b)) \in Nat
      BY <1>1, <1>4, FS_CardinalityType
<1> QED
    BY <1>4, <1>5

\* Every number of places before is somebody's.
LEMMA PlacesAreTaken ==
  ASSUME NEW events, Timed(events), NEW r \in DOMAIN events
  PROVE  /\ PlaceOf(events, r) \in DOMAIN events
         /\ Cardinality(Below(events, PlaceOf(events, r))) = r - 1
<1> DEFINE D == DOMAIN events
           n == Len(events)
           rank == [k \in D |-> Cardinality(Below(events, k))]
<1>1. n \in Nat /\ D = 1..n /\ IsFiniteSet(D) /\ Cardinality(D) = n
      BY BatchShape
<1>2. ASSUME NEW k \in D PROVE rank[k] \in 0..(n - 1)
  <2>1. Below(events, k) \in SUBSET D /\ Below(events, k) # D
        BY BeforeOrders DEF Below
  <2>2. /\ IsFiniteSet(Below(events, k)) /\ Cardinality(Below(events, k)) <= n
        /\ Cardinality(Below(events, k)) # n
        BY <1>1, <2>1, FS_Subset
  <2>3. Cardinality(Below(events, k)) \in Nat
        BY <2>2, FS_CardinalityType
  <2> QED
      BY <1>1, <2>2, <2>3
<1>3. rank \in Injection(D, 0..(n - 1))
  <2>1. rank \in [D -> 0..(n - 1)]
        BY <1>2
  <2>2. ASSUME NEW a \in D, NEW b \in D, a # b PROVE rank[a] # rank[b]
    <3>1. rank[a] < rank[b] \/ rank[b] < rank[a]
          BY <2>2, BeforeOrders, EarlierHasFewerBelow
    <3>2. rank[a] \in Nat /\ rank[b] \in Nat
          BY <1>1, <1>2
    <3> HIDE DEF rank
    <3> QED
        BY <3>1, <3>2
  <2> QED
      BY <2>1, <2>2 DEF Injection, IsInjective
<1>4. IsFiniteSet(0..(n - 1)) /\ Cardinality(0..(n - 1)) = n
  <2>1. 0 \in Int /\ n - 1 \in Int
        BY <1>1
  <2>2. /\ IsFiniteSet(0..(n - 1))
        /\ Cardinality(0..(n - 1)) = IF 0 > n - 1 THEN 0 ELSE (n - 1) - 0 + 1
        BY <2>1, FS_Interval
  <2> HIDE DEF n
  <2> QED
      BY <1>1, <2>2
<1>5. rank \in Surjection(D, 0..(n - 1))
      BY <1>1, <1>3, <1>4, FS_Injection
<1>6. r - 1 \in 0..(n - 1)
      BY <1>1
<1>7. PICK k \in D : rank[k] = r - 1
      BY <1>5, <1>6 DEF Surjection
<1> QED
    BY <1>7 DEF PlaceOf

\* Ordered() lists the events of a batch, each once, in their order.
LEMMA OrderedIsSorted ==
  ASSUME NEW events, Timed(events)
  PROVE  /\ \A r \in DOMAIN events : /\ PlaceOf(events, r) \in DOMAIN events
                                     /\ Ordered(events)[r] = events[PlaceOf(events, r)]
         /\ \A r, s \in DOMAIN events :
              r < s => Before(events, PlaceOf(events, r), PlaceOf(events, s))
         /\ \A k \in DOMAIN events : \E r \in DOMAIN events : PlaceOf(events, r) = k
<1>1. ASSUME NEW r \in DOMAIN events
      PROVE  /\ PlaceOf(events, r) \in DOMAIN events
             /\ Ordered(events)[r] = events[PlaceOf(events, r)]
      BY PlacesAreTaken DEF Ordered, PlaceOf, Below
<1>2. \A r \in DOMAIN events : r \in Nat
      BY BatchShape
<1>3. ASSUME NEW r \in DOMAIN events, NEW s \in DOMAIN events, r < s
      PROVE  Before(events, PlaceOf(events, r), PlaceOf(events, s))
  <2> DEFINE a == PlaceOf(events, r)
             b == PlaceOf(events, s)
  <2>1. a \in DOMAIN events /\ b \in DOMAIN events
        BY PlacesAreTaken
  <2>2. Cardinality(Below(events, a)) = r - 1 /\ Cardinality(Below(events, b)) = s - 1
        BY PlacesAreTaken
  <2> HIDE DEF a, b
  <2>3. a # b
        BY <1>2, <1>3, <2>2
  <2>4. ASSUME Before(events, b, a) PROVE FALSE
    <3>1. Cardinality(Below(events, b)) < Cardinality(Below(events, a))
          BY <2>1, <2>4, EarlierHasFewerBelow
    <3> QED
        BY <1>2, <1>3, <2>2, <3>1
  <2> QED
      BY <2>1, <2>3, <2>4, BeforeOrders DEF a, b
<1>4. ASSUME NEW k \in DOMAIN events PROVE \E r \in DOMAIN events : PlaceOf(events, r) = k
  <2> DEFINE m == Cardinality(Below(events, k))
             n == Len(events)
  <2>1. n \in Nat /\ DOMAIN events = 1..n /\ IsFiniteSet(DOMAIN events)
        /\ Cardinality(DOMAIN events) = n
        BY BatchShape
  <2>2. Below(events, k) \in SUBSET DOMAIN events /\ Below(events, k) # DOMAIN events
        BY BeforeOrders DEF Below
  <2>3. IsFiniteSet(Below(events, k)) /\ m <= n /\ m # n
        BY <2>1, <2>2, FS_Subset
  <2>4. m \in Nat
        BY <2>3, FS_CardinalityType
  <2> HIDE DEF n
  <2>5. m + 1 \in DOMAIN events
    <3> HIDE DEF m
    <3> QED
        BY <2>1, <2>3, <2>4
  <2> DEFINE p == PlaceOf(events, m + 1)
  <2>6. p \in DOMAIN events /\ Cardinality(Below(events, p)) = (m + 1) - 1
        BY <2>5, PlacesAreTaken
  <2>7. (m + 1) - 1 = m
    <3> HIDE DEF m
    <3> QED
        BY <2>4
  <2>8. Cardinality(Below(events, p)) = Cardinality(Below(events, k))
        BY <2>6, <2>7
  <2> HIDE DEF p
  <2>9. ~(Cardinality(Below(events, p)) < Cardinality(Below(events, k)))
        /\ ~(Cardinality(Below(events, k)) < Cardinality(Below(events, p)))
        BY <2>4, <2>8
  <2>10. p = k
        BY <2>6, <2>9, BeforeOrders, EarlierHasFewerBelow
  <2> QED
      BY <2>5, <2>10 DEF p
<1> QED
    BY <1>1, <1>3, <1>4

-----------------------------------------------------------------------------
(* What folding the ordered events yields.                                  *)

\* One round of the loop over the ordered events o.
FoldStep(o, dest, k, facts) ==
  IF k = 0 THEN NoFacts
  ELSE IF Destination(o[k].stamp) = dest THEN Overwritten(facts, o[k]) ELSE facts

FoldsTo(o, dest, m, g) == g = [k \in 0..m |-> FoldStep(o, dest, k, g[k - 1])]

\* The recursive function of Folded exists: a least length for which it did
\* not would have a predecessor for which it does.
LEMMA FoldExists ==
  ASSUME NEW o, NEW dest, NEW n \in Nat
  PROVE  \E g : FoldsTo(o, dest, n, g)
<1> DEFINE Missing == {m \in Nat : ~ \E g : FoldsTo(o, dest, m, g)}
<1>1. SUFFICES ASSUME n \in Missing PROVE FALSE
      OBVIOUS
<1>2. Missing \in SUBSET Nat /\ Missing # {}
      BY <1>1
<1> DEFINE m == Min(Missing)
<1>3. m \in Missing /\ \A k \in Missing : m <= k
      BY <1>2, LeastNumber
<1> HIDE DEF m
<1>4. m \in Nat /\ ~ \E g : FoldsTo(o, dest, m, g)
      BY <1>3
<1>5. m # 0
  <2> DEFINE h == [k \in 0..0 |-> NoFacts]
  <2>1. \A k \in 0..0 : FoldStep(o, dest, k, h[k - 1]) = NoFacts
        BY DEF FoldStep
  <2>2. FoldsTo(o, dest, 0, h)
        BY <2>1 DEF FoldsTo
  <2> QED
      BY <1>4, <2>2
<1>6. m - 1 \in Nat /\ m - 1 \notin Missing
      BY <1>3, <1>4, <1>5
<1>7. PICK g : FoldsTo(o, dest, m - 1, g)
      BY <1>6
<1> DEFINE h == [k \in 0..m |-> IF k = m THEN FoldStep(o, dest, m, g[m - 1]) ELSE g[k]]
<1>8. ASSUME NEW k \in 0..m PROVE h[k] = FoldStep(o, dest, k, h[k - 1])
  <2>1. CASE k = m
    <3>1. m - 1 \in 0..m /\ m - 1 # m
          BY <1>4, <1>6
    <3>2. h[m - 1] = g[m - 1]
          BY <3>1
    <3> QED
        BY <2>1, <3>2
  <2>2. CASE k # m /\ k # 0
    <3>1. k \in 0..(m - 1) /\ k - 1 \in 0..m /\ k - 1 # m
          BY <1>4, <2>2
    <3>2. h[k] = g[k] /\ h[k - 1] = g[k - 1]
          BY <2>2, <3>1
    <3>3. g[k] = FoldStep(o, dest, k, g[k - 1])
          BY <1>7, <3>1 DEF FoldsTo
    <3> QED
        BY <3>2, <3>3
  <2>3. CASE k = 0
    <3>1. h[0] = g[0] /\ 0 \in 0..(m - 1)
          BY <1>4, <1>5
    <3>2. g[0] = FoldStep(o, dest, 0, g[0 - 1])
          BY <1>7, <3>1 DEF FoldsTo
    <3> QED
        BY <2>3, <3>1, <3>2 DEF FoldStep
  <2> QED
      BY <2>1, <2>2, <2>3
<1>9. FoldsTo(o, dest, m, h)
      BY <1>8, Zenon DEF FoldsTo
<1> QED
    BY <1>4, <1>9

LEMMA FoldedIsFold ==
  ASSUME NEW events, Timed(events), NEW dest
  PROVE  \E g : /\ FoldsTo(Ordered(events), dest, Len(events), g)
                /\ Folded(events, dest) = g[Len(events)]
<1> DEFINE n == Len(events)
           g == CHOOSE x : FoldsTo(Ordered(events), dest, n, x)
<1>1. n \in Nat
      BY BatchShape
<1>2. FoldsTo(Ordered(events), dest, n, g)
      BY <1>1, FoldExists
<1>3. Folded(events, dest) = g[n]
      BY DEF Folded, FoldsTo, FoldStep
<1> QED
    BY <1>2, <1>3

\* After k rounds there is a fact for every field that an event of this
\* destination has said so far, and it is the last of these events.
SaidIn(o, dest, j, f) == Destination(o[j].stamp) = dest /\ o[j].field = f

LastSaid(o, dest, k, F) ==
  /\ F = [f \in DOMAIN F |-> F[f]]
  /\ \A j \in 1..k : Destination(o[j].stamp) = dest => o[j].field \in DOMAIN F
  /\ \A f \in DOMAIN F : \E j \in 1..k :
       /\ SaidIn(o, dest, j, f) /\ F[f] = o[j]
       /\ \A i \in 1..k : SaidIn(o, dest, i, f) => i <= j

LEMMA FoldStepKeeps ==
  ASSUME NEW o, NEW dest, NEW k \in Nat, k # 0, NEW F, LastSaid(o, dest, k - 1, F)
  PROVE  LastSaid(o, dest, k, FoldStep(o, dest, k, F))
<1> DEFINE G == FoldStep(o, dest, k, F)
<1>0. \A j \in 1..k : j # k => j \in 1..(k - 1)
      OBVIOUS
<1>00. k \in 1..k /\ \A j \in 1..(k - 1) : j \in 1..k /\ j <= k
      OBVIOUS
<1>1. CASE Destination(o[k].stamp) = dest
  <2>1. G = [f \in DOMAIN F \cup {o[k].field} |-> IF f = o[k].field THEN o[k] ELSE F[f]]
        BY <1>1 DEF FoldStep, Overwritten
  <2> HIDE DEF G
  <2>2. DOMAIN G = DOMAIN F \cup {o[k].field}
        BY <2>1
  <2>3. G = [f \in DOMAIN G |-> G[f]]
        BY <2>1
  <2>4. \A j \in 1..k : Destination(o[j].stamp) = dest => o[j].field \in DOMAIN G
        BY <1>0, <2>2 DEF LastSaid
  <2>5. ASSUME NEW f \in DOMAIN G
        PROVE  \E j \in 1..k : /\ SaidIn(o, dest, j, f) /\ G[f] = o[j]
                               /\ \A i \in 1..k : SaidIn(o, dest, i, f) => i <= j
    <3>1. CASE f = o[k].field
      <4>1. SaidIn(o, dest, k, f) /\ G[f] = o[k]
            BY <1>1, <2>1, <3>1 DEF SaidIn
      <4>2. \A i \in 1..k : i <= k
            OBVIOUS
      <4> QED
          BY <1>00, <4>1, <4>2
    <3>2. CASE f # o[k].field
      <4>1. f \in DOMAIN F /\ G[f] = F[f]
            BY <2>1, <2>2, <3>2
      <4>2. PICK j \in 1..(k - 1) : /\ SaidIn(o, dest, j, f) /\ F[f] = o[j]
                                    /\ \A i \in 1..(k - 1) : SaidIn(o, dest, i, f) => i <= j
            BY <4>1 DEF LastSaid
      <4>3. ~SaidIn(o, dest, k, f)
            BY <3>2 DEF SaidIn
      <4> QED
          BY <1>0, <1>00, <4>1, <4>2, <4>3
    <3> QED
        BY <3>1, <3>2
  <2>6. LastSaid(o, dest, k, G)
        BY <2>3, <2>4, <2>5, Zenon DEF LastSaid
  <2> QED
      BY <2>6 DEF G
<1>2. CASE Destination(o[k].stamp) # dest
  <2>1. G = F
        BY <1>2 DEF FoldStep
  <2> HIDE DEF G
  <2>2. \A f : ~SaidIn(o, dest, k, f)
        BY <1>2 DEF SaidIn
  <2>3. \A j \in 1..k : Destination(o[j].stamp) = dest => o[j].field \in DOMAIN F
        BY <1>0, <1>2 DEF LastSaid
  <2>4. ASSUME NEW f \in DOMAIN F
        PROVE  \E j \in 1..k : /\ SaidIn(o, dest, j, f) /\ F[f] = o[j]
                               /\ \A i \in 1..k : SaidIn(o, dest, i, f) => i <= j
    <3>1. PICK j \in 1..(k - 1) : /\ SaidIn(o, dest, j, f) /\ F[f] = o[j]
                                  /\ \A i \in 1..(k - 1) : SaidIn(o, dest, i, f) => i <= j
          BY DEF LastSaid
    <3> QED
        BY <1>0, <1>00, <2>2, <3>1
  <2>5. F = [f \in DOMAIN F |-> F[f]]
        BY DEF LastSaid
  <2>6. LastSaid(o, dest, k, F)
        BY <2>3, <2>4, <2>5, Zenon DEF LastSaid
  <2> QED
      BY <2>1, <2>6 DEF G
<1> QED
    BY <1>1, <1>2

LEMMA FoldSaysLast ==
  ASSUME NEW o, NEW dest, NEW n \in Nat, NEW g, FoldsTo(o, dest, n, g)
  PROVE  LastSaid(o, dest, n, g[n])
<1> DEFINE Wrong == {k \in 0..n : ~LastSaid(o, dest, k, g[k])}
<1>1. SUFFICES ASSUME n \in Wrong PROVE FALSE
      OBVIOUS
<1>2. Wrong \in SUBSET Nat /\ Wrong # {}
      BY <1>1
<1> DEFINE m == Min(Wrong)
<1>3. m \in Wrong /\ \A k \in Wrong : m <= k
      BY <1>2, LeastNumber
<1> HIDE DEF m
<1>4. m \in 0..n /\ ~LastSaid(o, dest, m, g[m])
      BY <1>3
<1>5. \A k \in 0..n : g[k] = FoldStep(o, dest, k, g[k - 1])
      BY DEF FoldsTo
<1>6. CASE m = 0
  <2>1. g[0] = NoFacts
        BY <1>4, <1>5, <1>6 DEF FoldStep
  <2>2. DOMAIN NoFacts = {} /\ NoFacts = [f \in DOMAIN NoFacts |-> NoFacts[f]]
        BY DEF NoFacts
  <2>3. 1..0 = {}
        OBVIOUS
  <2>4. LastSaid(o, dest, 0, NoFacts)
        BY <2>2, <2>3 DEF LastSaid
  <2> QED
      BY <1>4, <1>6, <2>1, <2>4
<1>7. CASE m # 0
  <2>1. m \in Nat /\ m - 1 \in 0..n /\ m - 1 \notin Wrong
        BY <1>3, <1>4, <1>7
  <2>2. LastSaid(o, dest, m - 1, g[m - 1])
        BY <2>1
  <2>3. LastSaid(o, dest, m, FoldStep(o, dest, m, g[m - 1]))
        BY <1>7, <2>1, <2>2, FoldStepKeeps
  <2> QED
      BY <1>4, <1>5, <2>3
<1> QED
    BY <1>6, <1>7

\* The last event of its field and destination in a batch.
LastOf(events, dest, k) ==
  /\ k \in DOMAIN events /\ Destination(events[k].stamp) = dest
  /\ \A n \in DOMAIN events :
       SaidIn(events, dest, n, events[k].field) /\ n # k => Before(events, n, k)

\* What a batch folds to: for every field the last event that says it.
LEMMA FoldedIsLast ==
  ASSUME NEW events, Timed(events), NEW dest
  PROVE  LET F == Folded(events, dest)
         IN /\ F = [f \in DOMAIN F |-> F[f]]
            /\ \A f \in DOMAIN F : \E k \in DOMAIN events :
                 LastOf(events, dest, k) /\ events[k].field = f /\ F[f] = events[k]
            /\ \A k \in DOMAIN events : LastOf(events, dest, k) =>
                 events[k].field \in DOMAIN F /\ F[events[k].field] = events[k]
<1> DEFINE F == Folded(events, dest)
           o == Ordered(events)
           n == Len(events)
<1>1. n \in Nat /\ DOMAIN events = 1..n
      BY BatchShape
<1>2. PICK g : FoldsTo(o, dest, n, g) /\ F = g[n]
      BY FoldedIsFold
<1>3. LastSaid(o, dest, n, F)
      BY <1>1, <1>2, FoldSaysLast
<1> DEFINE p(r) == PlaceOf(events, r)
<1>4. /\ \A r \in 1..n : p(r) \in DOMAIN events /\ o[r] = events[p(r)]
      /\ \A r, s \in 1..n : r < s => Before(events, p(r), p(s))
      /\ \A k \in DOMAIN events : \E r \in 1..n : p(r) = k
      BY <1>1, OrderedIsSorted
<1> HIDE DEF F, o, p
<1>5. F = [f \in DOMAIN F |-> F[f]]
      BY <1>3 DEF LastSaid
<1>6. ASSUME NEW f \in DOMAIN F
      PROVE  \E k \in DOMAIN events :
               LastOf(events, dest, k) /\ events[k].field = f /\ F[f] = events[k]
  <2>1. PICK j \in 1..n : /\ SaidIn(o, dest, j, f) /\ F[f] = o[j]
                          /\ \A i \in 1..n : SaidIn(o, dest, i, f) => i <= j
        BY <1>3 DEF LastSaid
  <2>2. /\ p(j) \in DOMAIN events /\ F[f] = events[p(j)]
        /\ Destination(events[p(j)].stamp) = dest /\ events[p(j)].field = f
        BY <1>4, <2>1 DEF SaidIn
  <2>3. ASSUME NEW x \in DOMAIN events, SaidIn(events, dest, x, f), x # p(j)
        PROVE  Before(events, x, p(j))
    <3>1. PICK i \in 1..n : p(i) = x
          BY <1>4
    <3>2. SaidIn(o, dest, i, f)
          BY <1>4, <2>3, <3>1 DEF SaidIn
    <3>3. i <= j /\ i # j
          BY <2>1, <2>3, <3>1, <3>2
    <3>4. i < j
          BY <1>1, <3>3
    <3> QED
        BY <1>4, <3>1, <3>4
  <2>4. LastOf(events, dest, p(j))
        BY <2>2, <2>3 DEF LastOf
  <2> QED
      BY <2>2, <2>4
<1>7. ASSUME NEW k \in DOMAIN events, LastOf(events, dest, k)
      PROVE  events[k].field \in DOMAIN F /\ F[events[k].field] = events[k]
  <2>1. PICK r \in 1..n : p(r) = k
        BY <1>4
  <2>2. events[k].field \in DOMAIN F
    <3>1. o[r] = events[k] /\ Destination(o[r].stamp) = dest
          BY <1>4, <1>7, <2>1 DEF LastOf
    <3> QED
        BY <1>3, <3>1 DEF LastSaid
  <2>3. PICK x \in DOMAIN events : /\ LastOf(events, dest, x)
                                   /\ events[x].field = events[k].field
                                   /\ F[events[k].field] = events[x]
        BY <1>6, <2>2
  <2>4. x = k
    <3>1. ASSUME x # k PROVE FALSE
      <4>1. Before(events, x, k) /\ Before(events, k, x)
            BY <1>7, <2>3, <3>1 DEF LastOf, SaidIn
      <4> QED
          BY <4>1, BeforeOrders
    <3> QED
        BY <3>1
  <2> QED
      BY <2>2, <2>3, <2>4
<1> QED
    BY <1>5, <1>6, <1>7 DEF F

-----------------------------------------------------------------------------
(* What a batch says, by folding it and without.                            *)

Distinct(events) ==
  \A k, n \in DOMAIN events : events[k].id = events[n].id => k = n

LEMMA OrderOfDistinct ==
  ASSUME NEW events, Timed(events), Distinct(events),
         NEW n \in DOMAIN events, NEW k \in DOMAIN events, n # k
  PROVE  Before(events, n, k) <=>
           \/ events[n].at < events[k].at
           \/ events[n].at = events[k].at /\ events[n].id < events[k].id
BY DEF Distinct, Before

LEMMA LastIsLastObservation ==
  ASSUME NEW events, Timed(events), Distinct(events), NEW k \in DOMAIN events
  PROVE  events[k] \in LastObserved(ToSet(events)) <=> LastOf(events, "actual", k)
<1> DEFINE E == ToSet(events)
<1>1. \A n \in DOMAIN events : events[n].id \in Nat /\ events[n].at \in Nat
      BY DEF Timed
<1>2. \A stamp : Destination(stamp) = "actual" <=> stamp \in {"verified", "estimated"}
      BY DEF Destination
<1>3. \A n \in DOMAIN events :
        events[n] \in Observed(E) <=> Destination(events[n].stamp) = "actual"
      BY <1>2 DEF Observed, ToSet
<1>4. ASSUME NEW n \in DOMAIN events
      PROVE  (n # k => Before(events, n, k)) <=>
               \/ events[n].at < events[k].at
               \/ events[n].at = events[k].at /\ events[n].id <= events[k].id
  <2>1. CASE n = k
        BY <1>1, <2>1
  <2>2. CASE n # k
    <3>1. events[n].id # events[k].id
          BY <2>2 DEF Distinct
    <3>2. events[n].id <= events[k].id <=> events[n].id < events[k].id
          BY <1>1, <3>1
    <3> QED
        BY <2>2, <3>2, OrderOfDistinct
  <2> QED
      BY <2>1, <2>2
<1>5. \A o \in Observed(E) : \E n \in DOMAIN events : o = events[n]
      BY DEF Observed, ToSet
<1> HIDE DEF E
<1>6. ASSUME events[k] \in LastObserved(E) PROVE LastOf(events, "actual", k)
  <2>1. events[k] \in Observed(E)
        BY <1>6 DEF LastObserved
  <2>2. ASSUME NEW n \in DOMAIN events, SaidIn(events, "actual", n, events[k].field), n # k
        PROVE  Before(events, n, k)
    <3>1. events[n] \in Observed(E) /\ events[n].field = events[k].field
          BY <1>3, <2>2 DEF SaidIn
    <3>2. \/ events[n].at < events[k].at
          \/ events[n].at = events[k].at /\ events[n].id <= events[k].id
          BY <1>6, <3>1 DEF LastObserved
    <3> QED
        BY <1>4, <2>2, <3>2
  <2> QED
      BY <1>3, <2>1, <2>2 DEF LastOf
<1>7. ASSUME LastOf(events, "actual", k) PROVE events[k] \in LastObserved(E)
  <2>1. events[k] \in Observed(E)
        BY <1>3, <1>7 DEF LastOf
  <2>2. ASSUME NEW o \in Observed(E), o.field = events[k].field
        PROVE  \/ o.at < events[k].at
               \/ o.at = events[k].at /\ o.id <= events[k].id
    <3>1. PICK n \in DOMAIN events : o = events[n]
          BY <1>5
    <3>2. SaidIn(events, "actual", n, events[k].field)
          BY <1>3, <2>2, <3>1 DEF SaidIn
    <3>3. n # k => Before(events, n, k)
          BY <1>7, <3>2 DEF LastOf
    <3> QED
        BY <1>4, <3>1, <3>3
  <2> QED
      BY <2>1, <2>2 DEF LastObserved
<1> QED
    BY <1>6, <1>7 DEF E

\* Folding yields the facts that LastObserved picks out.
LEMMA FoldedFacts ==
  ASSUME NEW events, Timed(events), Distinct(events)
  PROVE  LET F == Folded(events, "actual")
         IN FactsIn(ToSet(events)) = {<<f, F[f].value, F[f].stamp>> : f \in DOMAIN F}
<1> DEFINE F == Folded(events, "actual")
           E == ToSet(events)
           G == {<<f, F[f].value, F[f].stamp>> : f \in DOMAIN F}
<1>1. /\ \A f \in DOMAIN F : \E k \in DOMAIN events :
           LastOf(events, "actual", k) /\ events[k].field = f /\ F[f] = events[k]
      /\ \A k \in DOMAIN events : LastOf(events, "actual", k) =>
           events[k].field \in DOMAIN F /\ F[events[k].field] = events[k]
      BY FoldedIsLast
<1>2. \A ev \in LastObserved(E) : \E k \in DOMAIN events : ev = events[k]
      BY DEF LastObserved, Observed, ToSet
<1>3. \A k \in DOMAIN events : events[k] \in LastObserved(E) <=> LastOf(events, "actual", k)
      BY LastIsLastObservation
<1> HIDE DEF F, E
<1>4. ASSUME NEW ev \in LastObserved(E)
      PROVE  <<ev.field, ev.value, ev.stamp>> \in G
  <2>1. PICK k \in DOMAIN events : ev = events[k]
        BY <1>2
  <2>2. ev.field \in DOMAIN F /\ F[ev.field] = ev
        BY <1>1, <1>3, <2>1
  <2> QED
      BY <2>2
<1>5. ASSUME NEW f \in DOMAIN F
      PROVE  <<f, F[f].value, F[f].stamp>> \in FactsIn(E)
  <2>1. PICK k \in DOMAIN events :
          LastOf(events, "actual", k) /\ events[k].field = f /\ F[f] = events[k]
        BY <1>1
  <2>2. F[f] \in LastObserved(E) /\ F[f].field = f
        BY <1>3, <2>1
  <2> QED
      BY <2>2 DEF FactsIn
<1>6. FactsIn(E) \subseteq G
      BY <1>4 DEF FactsIn
<1>7. G \subseteq FactsIn(E)
      BY <1>5
<1> QED
    BY <1>6, <1>7 DEF F, E

\* An episode that was assembled from a batch has the facts of the batch.
LEMMA AssembledFacts ==
  ASSUME NEW events, Timed(events), Distinct(events), NEW e, Attested(e, events)
  PROVE  /\ FactsOf(e) = FactsIn(ToSet(events))
         /\ Judgment(e).roots \subseteq
              {<<"episode">>, <<"reason">>} \cup {<<"actual", fact[1]>> : fact \in FactsIn(ToSet(events))}
<1> DEFINE F == Folded(events, "actual")
           made == AssembleEpisode(e.id, e.requested, e.reasons, events)
<1>1. made.actual = ValuesOf(F) /\ made.provenance = Provenance(events)
      BY DEF AssembleEpisode
<1>2. e = made
      BY DEF Attested
<1> HIDE DEF made
<1>3. e.actual = [f \in DOMAIN F |-> F[f].value] /\ e.provenance = [f \in DOMAIN F |-> F[f].stamp]
      BY <1>1, <1>2 DEF ValuesOf, Provenance
<1>4. FactsIn(ToSet(events)) = {<<f, F[f].value, F[f].stamp>> : f \in DOMAIN F}
      BY FoldedFacts
<1> HIDE DEF F
<1>5. DOMAIN e.actual = DOMAIN F /\ DOMAIN e.provenance = DOMAIN F
      BY <1>3
<1>6. \A f \in DOMAIN F : e.actual[f] = F[f].value /\ e.provenance[f] = F[f].stamp
      BY <1>3
<1>7. FactsOf(e) = {<<f, F[f].value, F[f].stamp>> : f \in DOMAIN F}
      BY <1>5, <1>6 DEF FactsOf
<1>8. ASSUME NEW f \in DOMAIN F
      PROVE  <<"actual", f>> \in {<<"actual", fact[1]>> : fact \in FactsIn(ToSet(events))}
  <2> DEFINE fact == <<f, F[f].value, F[f].stamp>>
  <2>1. fact \in FactsIn(ToSet(events)) /\ fact[1] = f
        BY <1>4
  <2> HIDE DEF fact
  <2> QED
      BY <2>1
<1>9. Judgment(e).roots = ObservedIds(e)
      BY DEF Judgment
<1>10. ObservedIds(e) \subseteq {<<"episode">>, <<"reason">>} \cup {<<"actual", f>> : f \in DOMAIN F}
      BY <1>5 DEF ObservedIds
<1> QED
    BY <1>4, <1>7, <1>8, <1>9, <1>10

-----------------------------------------------------------------------------
(* What is on the ledger.                                                   *)

\* A decision was written by somebody who may, of an episode its events
\* reproduce, with whatever summary the caller gave.
WrittenWell(d) ==
  /\ Timed(d.events) /\ EventsAdmitted(d.events) /\ d.summary \in Summaries \cup {NoSummary}
  /\ d.episode = NoEpisode => d.override
  /\ d.episode # NoEpisode /\ d.events # <<>> => Attested(d.episode, d.events)

\* No two event rows of the ledger have the same id.
IdsOnce ==
  \A m, n \in DOMAIN durable :
    \A a \in DOMAIN durable[m].events, b \in DOMAIN durable[n].events :
      durable[m].events[a].id = durable[n].events[b].id => m = n /\ a = b

OfferShape ==
  write = NoEpisode \/
  \E by, e, events, summary :
    /\ write = [by |-> by, episode |-> e, events |-> events, summary |-> summary]
    /\ Timed(events) /\ summary \in Summaries \cup {NoSummary}

DecisionInv ==
  /\ \E S : durable \in Seq(S)
  /\ \A m \in DOMAIN durable : WrittenWell(durable[m])
  /\ IdsOnce /\ OfferShape

LEMMA DecisionInitially == DecisionInit => DecisionInv
<1> SUFFICES ASSUME DecisionInit PROVE DecisionInv
    OBVIOUS
<1>1. durable = <<>> /\ write = NoEpisode
      BY DEF DecisionInit
<1>2. durable \in Seq({}) /\ DOMAIN durable = {}
      BY <1>1
<1> QED
    BY <1>1, <1>2 DEF DecisionInv, IdsOnce, OfferShape

\* Whoever offers a decision hands in a batch, and a summary if they like.
LEMMA OfferKeeps ==
  ASSUME DecisionInv, NEW e, NEW events \in Batches, NEW summary \in Summaries \cup {NoSummary}, NEW by,
         Offer(e, events, summary, by)
  PROVE  DecisionInv'
<1>1. Timed(events)
      BY DecisionAssumption DEF Timed
<1>2. write' = [by |-> by, episode |-> e, events |-> events, summary |-> summary]
      /\ durable' = durable
      BY DEF Offer
<1>3. OfferShape'
  <2>1. summary \in Summaries \cup {NoSummary}
        OBVIOUS
  <2> QED
      BY <1>1, <1>2, <2>1 DEF OfferShape
<1> QED
    BY <1>2, <1>3 DEF DecisionInv, IdsOnce

LEMMA HarnessKeeps == DecisionInv /\ HarnessVerifies => DecisionInv'
<1> SUFFICES ASSUME DecisionInv, HarnessVerifies PROVE DecisionInv'
    OBVIOUS
<1>1. /\ durable' = durable /\ write # NoEpisode
      /\ write' = [write EXCEPT !.by = "ledger"] \/ write' = NoEpisode
      BY DEF HarnessVerifies
<1>2. OfferShape'
  <2>1. CASE write' = NoEpisode
        BY <2>1 DEF OfferShape
  <2>2. CASE write' = [write EXCEPT !.by = "ledger"]
    <3>1. PICK by, e, events, summary :
            /\ write = [by |-> by, episode |-> e, events |-> events, summary |-> summary]
            /\ Timed(events) /\ summary \in Summaries \cup {NoSummary}
          BY <1>1 DEF DecisionInv, OfferShape
    <3>2. write' = [by |-> "ledger", episode |-> e, events |-> events, summary |-> summary]
          BY <2>2, <3>1
    <3> QED
        BY <3>1, <3>2 DEF OfferShape
  <2> QED
      BY <1>1, <2>1, <2>2
<1> QED
    BY <1>1, <1>2 DEF DecisionInv, IdsOnce

\* What the boundary lets through with events, the events reproduce.
LEMMA VerifiedIsAttested ==
  ASSUME NEW e, NEW events, events # <<>>, TRUE \in VerifyGovernedDecision(e, events)
  PROVE  Attested(e, events)
<1>1. ~Attested(e, events) => VerifyGovernedDecision(e, events) = {FALSE}
      BY DEF VerifyGovernedDecision
<1> QED
    BY <1>1

LEMMA AppendKeeps == DecisionInv /\ LedgerAppends => DecisionInv'
<1> SUFFICES ASSUME DecisionInv, LedgerAppends PROVE DecisionInv'
    OBVIOUS
<1>1. write # NoEpisode /\ write' = NoEpisode
      BY DEF LedgerAppends
<1>2. OfferShape'
      BY <1>1 DEF OfferShape
<1>3. PICK by, e, events, summary :
        /\ write = [by |-> by, episode |-> e, events |-> events, summary |-> summary]
        /\ Timed(events) /\ summary \in Summaries \cup {NoSummary}
      BY <1>1 DEF DecisionInv, OfferShape
<1>4. write.episode = e /\ write.events = events /\ write.summary = summary
      BY <1>3
<1> DEFINE d == [episode |-> e, events |-> events, summary |-> summary, override |-> waived]
<1>5. PICK accepted \in IF e = NoEpisode THEN {waived} ELSE VerifyGovernedDecision(e, events) :
        durable' = IF accepted /\ EventsAdmitted(events) /\ IdsFree(events)
                   THEN Append(durable, d) ELSE durable
      BY <1>4, Zenon DEF LedgerAppends
<1>6. CASE ~(accepted /\ EventsAdmitted(events) /\ IdsFree(events))
  <2>1. durable' = durable
        BY <1>5, <1>6
  <2> QED
      BY <1>2, <2>1 DEF DecisionInv, IdsOnce
<1>7. CASE accepted /\ EventsAdmitted(events) /\ IdsFree(events)
  <2>1. durable' = Append(durable, d)
        BY <1>5, <1>7
  <2>2. d.episode = e /\ d.events = events /\ d.summary = summary /\ d.override = waived
        OBVIOUS
  <2> HIDE DEF d
  <2>3. PICK S : durable \in Seq(S)
        BY DEF DecisionInv
  <2> DEFINE n == Len(durable)
  <2>4. /\ durable' \in Seq(S \cup {d}) /\ n \in Nat /\ Len(durable') = n + 1
        /\ durable'[n + 1] = d /\ \A m \in 1..n : durable'[m] = durable[m]
        BY <2>1, <2>3, AppendedEntry
  <2>5. DOMAIN durable = 1..n /\ DOMAIN durable' = 1..(n + 1)
        BY <2>3, <2>4
  <2> HIDE DEF n
  <2>6. \A m \in DOMAIN durable' : m = n + 1 \/ m \in DOMAIN durable
        BY <2>4, <2>5
  <2>7. WrittenWell(d)
    <3>1. e = NoEpisode => waived
          BY <1>5, <1>7
    <3>2. ASSUME e # NoEpisode, events # <<>> PROVE Attested(e, events)
      <4>1. accepted \in VerifyGovernedDecision(e, events)
            BY <1>5, <3>2
      <4>2. VerifyGovernedDecision(e, events) \subseteq BOOLEAN
            BY DEF VerifyGovernedDecision
      <4>3. accepted = TRUE
            BY <1>7, <4>1, <4>2
      <4> QED
          BY <3>2, <4>1, <4>3, VerifiedIsAttested
    <3> QED
        BY <1>3, <1>7, <2>2, <3>1, <3>2 DEF WrittenWell
  <2>8. \A m \in DOMAIN durable' : WrittenWell(durable'[m])
    <3>1. \A m \in DOMAIN durable : WrittenWell(durable[m])
          BY DEF DecisionInv
    <3> QED
        BY <2>4, <2>5, <2>6, <2>7, <3>1
  <2>9. ASSUME NEW m \in DOMAIN durable, NEW a \in DOMAIN durable[m].events, NEW b \in DOMAIN events
        PROVE  durable[m].events[a].id # events[b].id
    <3>1. <<m, a>> \in Stored
          BY DEF Stored
    <3>2. EventAt(<<m, a>>) = durable[m].events[a]
          BY DEF EventAt
    <3> QED
        BY <1>7, <3>1, <3>2 DEF IdsFree
  <2>10. \A a, b \in DOMAIN events : events[a].id = events[b].id => a = b
        BY <1>7 DEF EventsAdmitted
  <2>11. IdsOnce'
    <3> SUFFICES ASSUME NEW m \in DOMAIN durable', NEW k \in DOMAIN durable',
                        NEW a \in DOMAIN durable'[m].events, NEW b \in DOMAIN durable'[k].events,
                        durable'[m].events[a].id = durable'[k].events[b].id
                 PROVE  m = k /\ a = b
        BY DEF IdsOnce
    <3>1. CASE m \in DOMAIN durable /\ k \in DOMAIN durable
      <4>1. durable'[m] = durable[m] /\ durable'[k] = durable[k]
            BY <2>4, <2>5, <3>1
      <4> QED
          BY <3>1, <4>1 DEF DecisionInv, IdsOnce
    <3>2. CASE m \in DOMAIN durable /\ k = n + 1
      <4>1. durable'[m] = durable[m] /\ durable'[k].events = events
            BY <2>2, <2>4, <2>5, <3>2
      <4> QED
          BY <2>9, <3>2, <4>1
    <3>3. CASE m = n + 1 /\ k \in DOMAIN durable
      <4>1. durable'[k] = durable[k] /\ durable'[m].events = events
            BY <2>2, <2>4, <2>5, <3>3
      <4> QED
          BY <2>9, <3>3, <4>1
    <3>4. CASE m = n + 1 /\ k = n + 1
      <4>1. durable'[m].events = events /\ durable'[k].events = events
            BY <2>2, <2>4, <3>4
      <4> QED
          BY <2>10, <3>4, <4>1
    <3> QED
        BY <2>6, <3>1, <3>2, <3>3, <3>4
  <2>12. \E T : durable' \in Seq(T)
        BY <2>4
  <2> QED
      BY <1>2, <2>8, <2>11, <2>12 DEF DecisionInv
<1> QED
    BY <1>6, <1>7

LEMMA DecisionStep == DecisionInv /\ [DecisionNext]_decisionVars => DecisionInv'
<1> SUFFICES ASSUME DecisionInv, [DecisionNext]_decisionVars PROVE DecisionInv'
    OBVIOUS
<1>1. CASE \E events \in Batches, summary \in Summaries \cup {NoSummary},
              e \in Episodes \cup {NoEpisode}, by \in {"harness", "ledger"} :
             Offer(e, events, summary, by)
      BY <1>1, OfferKeeps
<1>2. CASE SwitchWaiver
      BY <1>2 DEF SwitchWaiver, DecisionInv, IdsOnce, OfferShape
<1>3. CASE UNCHANGED decisionVars
      BY <1>3 DEF decisionVars, DecisionInv, IdsOnce, OfferShape
<1> QED
    BY <1>1, <1>2, <1>3, HarnessKeeps, AppendKeeps DEF DecisionNext

-----------------------------------------------------------------------------
(* What reconstruct_decision makes of it.                                   *)

\* A list of a finite set has every element once.
LEMMA ListedOnce ==
  ASSUME NEW S, IsFiniteSet(S)
  PROVE  /\ Cardinality(S) \in Nat
         /\ SetToSeq(S) \in [1..Cardinality(S) -> S]
         /\ \A i, j \in 1..Cardinality(S) : SetToSeq(S)[i] = SetToSeq(S)[j] => i = j
         /\ \A x \in S : \E i \in 1..Cardinality(S) : SetToSeq(S)[i] = x
<1> DEFINE n == Cardinality(S)
           q == SetToSeq(S)
<1>1. n \in Nat /\ ExistsBijection(1..n, S)
      BY FS_CardinalityType
<1>2. PICK b : b \in [1..n -> S] /\ IsInjective(b)
      BY <1>1 DEF ExistsBijection, Bijection, Injection
<1>3. q \in [1..n -> S] /\ IsInjective(q)
      BY <1>2 DEF SetToSeq
<1> HIDE DEF q
<1>4. \A i, j \in 1..n : q[i] = q[j] => i = j
      BY <1>3 DEF IsInjective
<1>5. q \in Injection(1..n, S)
      BY <1>3 DEF Injection
<1>6. 1 \in Int /\ n \in Int
      BY <1>1
<1>7. Cardinality(1..n) = IF 1 > n THEN 0 ELSE n - 1 + 1
      BY <1>6, FS_Interval
<1>8. Cardinality(1..n) = n
  <2> HIDE DEF n
  <2> QED
      BY <1>1, <1>7
<1>9. q \in Surjection(1..n, S)
      BY <1>5, <1>8, FS_Injection
<1>10. \A x \in S : \E i \in 1..n : q[i] = x
      BY <1>9 DEF Surjection
<1> QED
    BY <1>1, <1>3, <1>4, <1>10 DEF q

\* There are finitely many event rows.
LEMMA StoredIsFinite ==
  ASSUME DecisionInv
  PROVE  IsFiniteSet(Stored)
<1> DEFINE Places(m) == {m} \X DOMAIN durable[m].events
           D == DOMAIN durable
           placesOf == [m \in D |-> Places(m)]
           T == {Places(m) : m \in D}
<1>1. PICK S : durable \in Seq(S)
      BY DEF DecisionInv
<1>2. 1 \in Int /\ Len(durable) \in Int /\ D = 1..Len(durable)
      BY <1>1
<1>3. IsFiniteSet(D)
      BY <1>2, FS_Interval
<1>4. placesOf \in Surjection(D, T)
      BY DEF Surjection
<1>5. IsFiniteSet(T)
  <2> HIDE DEF placesOf, T, D
  <2> QED
      BY <1>3, <1>4, FS_Surjection
<1>6. ASSUME NEW m \in D PROVE IsFiniteSet(Places(m))
  <2>1. Timed(durable[m].events)
        BY DEF DecisionInv, WrittenWell
  <2>2. IsFiniteSet(DOMAIN durable[m].events)
        BY <2>1, BatchShape
  <2>3. IsFiniteSet({m})
        BY FS_Singleton
  <2> QED
      BY <2>2, <2>3, FS_Product
<1>7. \A x \in T : IsFiniteSet(x)
      BY <1>6
<1>8. Stored = UNION T
      BY DEF Stored
<1> HIDE DEF T
<1> QED
    BY <1>5, <1>7, <1>8, FS_UNION

\* The events on the ledger with one of these ids.
Named(ids) == {EventAt(p) : p \in {q \in Stored : EventAt(q).id \in ids}}

\* A query for ids answers a batch of exactly the events with these ids.
LEMMA FetchedIsNamed ==
  ASSUME DecisionInv, NEW ids
  PROVE  LET bodies == Fetched(ids)
         IN Timed(bodies) /\ Distinct(bodies) /\ ToSet(bodies) = Named(ids)
<1> DEFINE P == {p \in Stored : EventAt(p).id \in ids}
           rows == SetToSeq(P)
           bodies == [n \in DOMAIN rows |-> EventAt(rows[n])]
           N == Cardinality(P)
<1>1. \A p \in P : \E m \in DOMAIN durable : \E a \in DOMAIN durable[m].events :
        p = <<m, a>> /\ EventAt(p) = durable[m].events[a]
      BY DEF Stored, EventAt
<1>2. IsFiniteSet(P)
  <2>1. P \subseteq Stored
        OBVIOUS
  <2> HIDE DEF P
  <2> QED
      BY <2>1, StoredIsFinite, FS_Subset
<1>3. /\ N \in Nat /\ rows \in [1..N -> P]
      /\ \A i, j \in 1..N : rows[i] = rows[j] => i = j
      /\ \A p \in P : \E i \in 1..N : rows[i] = p
  <2> HIDE DEF P
  <2> QED
      BY <1>2, ListedOnce
<1>4. Fetched(ids) = bodies
      BY DEF Fetched
<1>5. Named(ids) = {EventAt(p) : p \in P}
      BY DEF Named
<1> HIDE DEF rows, P, N
<1>6. DOMAIN rows = 1..N /\ DOMAIN bodies = 1..N
      BY <1>3
<1>7. \A i \in 1..N : rows[i] \in P /\ bodies[i] = EventAt(rows[i])
      BY <1>3, <1>6
<1>8. bodies \in Seq(ToSet(bodies))
  <2>1. bodies \in [1..N -> ToSet(bodies)]
        BY <1>6 DEF ToSet
  <2> HIDE DEF bodies
  <2> QED
      BY <1>3, <2>1
<1> HIDE DEF bodies
<1>9. Timed(bodies)
  <2>1. ASSUME NEW i \in DOMAIN bodies PROVE bodies[i].id \in Nat /\ bodies[i].at \in Nat
    <3>1. PICK m, a : m \in DOMAIN durable /\ a \in DOMAIN durable[m].events /\
            bodies[i] = durable[m].events[a]
          BY <1>1, <1>6, <1>7
    <3>2. Timed(durable[m].events)
          BY <3>1 DEF DecisionInv, WrittenWell
    <3> QED
        BY <3>1, <3>2 DEF Timed
  <2> QED
      BY <1>8, <2>1 DEF Timed
<1>10. Distinct(bodies)
  <2> SUFFICES ASSUME NEW i \in 1..N, NEW j \in 1..N, bodies[i].id = bodies[j].id PROVE i = j
      BY <1>6 DEF Distinct
  <2>1. PICK m, a : m \in DOMAIN durable /\ a \in DOMAIN durable[m].events /\
          rows[i] = <<m, a>> /\ bodies[i] = durable[m].events[a]
        BY <1>1, <1>7
  <2>2. PICK n, b : n \in DOMAIN durable /\ b \in DOMAIN durable[n].events /\
          rows[j] = <<n, b>> /\ bodies[j] = durable[n].events[b]
        BY <1>1, <1>7
  <2>3. m = n /\ a = b
        BY <2>1, <2>2 DEF DecisionInv, IdsOnce
  <2> QED
      BY <1>3, <2>1, <2>2, <2>3
<1>11. ToSet(bodies) = {EventAt(p) : p \in P}
      BY <1>3, <1>6, <1>7 DEF ToSet
<1> QED
    BY <1>4, <1>5, <1>9, <1>10, <1>11

\* The events with the ids of a decision's events are that decision's events.
LEMMA NamedAreOwn ==
  ASSUME DecisionInv, NEW m \in DOMAIN durable
  PROVE  Named(IdsIn(durable[m].events)) = ToSet(durable[m].events)
<1> DEFINE events == durable[m].events
           ids == IdsIn(events)
<1>1. ASSUME NEW p \in Stored, EventAt(p).id \in ids
      PROVE  EventAt(p) \in ToSet(events)
  <2>1. PICK n, a : n \in DOMAIN durable /\ a \in DOMAIN durable[n].events /\ p = <<n, a>>
        BY DEF Stored
  <2>2. EventAt(p) = durable[n].events[a]
        BY <2>1 DEF EventAt
  <2>3. PICK b \in DOMAIN events : EventAt(p).id = events[b].id
        BY <1>1 DEF IdsIn
  <2>4. n = m /\ a = b
        BY <2>1, <2>2, <2>3 DEF DecisionInv, IdsOnce
  <2> QED
      BY <2>2, <2>4 DEF ToSet
<1>2. ASSUME NEW k \in DOMAIN events
      PROVE  <<m, k>> \in Stored /\ EventAt(<<m, k>>) = events[k] /\ events[k].id \in ids
      BY DEF Stored, EventAt, IdsIn
<1>3. Named(ids) \subseteq ToSet(events)
      BY <1>1 DEF Named
<1>4. ToSet(events) \subseteq Named(ids)
  <2> SUFFICES ASSUME NEW k \in DOMAIN events PROVE events[k] \in Named(ids)
      BY DEF ToSet
  <2> QED
      BY <1>2 DEF Named
<1> QED
    BY <1>3, <1>4

\* Stamps are those of a batch when they pair the same fields and stamps.
LEMMA StampsAreFacts ==
  ASSUME NEW events, Timed(events), Distinct(events),
         NEW said, said = [f \in DOMAIN said |-> said[f]]
  PROVE  said = Provenance(events) <=>
           {<<f, said[f]>> : f \in DOMAIN said}
             = {<<fact[1], fact[3]>> : fact \in FactsIn(ToSet(events))}
<1> DEFINE F == Folded(events, "actual")
           mine == Provenance(events)
           Facts == FactsIn(ToSet(events))
<1>1. mine = [f \in DOMAIN F |-> F[f].stamp]
      BY DEF Provenance
<1>2. Facts = {<<f, F[f].value, F[f].stamp>> : f \in DOMAIN F}
      BY FoldedFacts
<1> HIDE DEF F, mine, Facts
<1>3. DOMAIN mine = DOMAIN F
      BY <1>1
<1> DEFINE Pairs == {<<fact[1], fact[3]>> : fact \in Facts}
           Said == {<<f, said[f]>> : f \in DOMAIN said}
<1>4. ASSUME NEW f \in DOMAIN F PROVE <<f, mine[f]>> \in Pairs
  <2> DEFINE fact == <<f, F[f].value, F[f].stamp>>
  <2>1. fact \in Facts /\ fact[1] = f /\ fact[3] = mine[f]
        BY <1>1, <1>2
  <2> HIDE DEF fact
  <2> QED
      BY <2>1
<1>5. ASSUME NEW x \in Pairs PROVE \E f \in DOMAIN F : x = <<f, mine[f]>>
  <2>1. PICK fact \in Facts : x = <<fact[1], fact[3]>>
        OBVIOUS
  <2>2. PICK f \in DOMAIN F : fact = <<f, F[f].value, F[f].stamp>>
        BY <1>2
  <2>3. fact[1] = f /\ fact[3] = mine[f]
        BY <1>1, <2>2
  <2> QED
      BY <2>1, <2>3
<1> HIDE DEF Pairs
<1>6. ASSUME said = mine PROVE Said = Pairs
  <2>1. DOMAIN said = DOMAIN F
        BY <1>3, <1>6
  <2>2. Said \subseteq Pairs
        BY <1>4, <1>6, <2>1
  <2>3. ASSUME NEW x \in Pairs PROVE x \in Said
        BY <1>5, <1>6, <2>1
  <2> QED
      BY <2>2, <2>3
<1>7. ASSUME Said = Pairs PROVE said = mine
  <2>1. ASSUME NEW f \in DOMAIN said PROVE f \in DOMAIN F /\ said[f] = mine[f]
    <3>1. <<f, said[f]>> \in Pairs
          BY <1>7
    <3>2. PICK g \in DOMAIN F : <<f, said[f]>> = <<g, mine[g]>>
          BY <1>5, <3>1
    <3> QED
        BY <3>2
  <2>2. ASSUME NEW f \in DOMAIN F PROVE f \in DOMAIN said
    <3>1. <<f, mine[f]>> \in Said
          BY <1>4, <1>7
    <3>2. PICK g \in DOMAIN said : <<f, mine[f]>> = <<g, said[g]>>
          BY <3>1
    <3> QED
        BY <3>2
  <2>3. DOMAIN said = DOMAIN F
        BY <2>1, <2>2
  <2>4. mine = [f \in DOMAIN F |-> mine[f]]
        BY <1>1
  <2> HIDE DEF Said
  <2> QED
      BY <2>1, <2>3, <2>4
<1> QED
    BY <1>6, <1>7 DEF Pairs, mine, Facts

\* So are the fields a batch estimates.
LEMMA EstimatesAreFacts ==
  ASSUME NEW events, Timed(events), Distinct(events)
  PROVE  EstimatedFields(events) =
           {fact[1] : fact \in {x \in FactsIn(ToSet(events)) : x[3] = "estimated"}}
<1> DEFINE F == Folded(events, "actual")
           mine == Provenance(events)
           Facts == FactsIn(ToSet(events))
           Guessed == {fact[1] : fact \in {x \in Facts : x[3] = "estimated"}}
<1>1. mine = [f \in DOMAIN F |-> F[f].stamp]
      BY DEF Provenance
<1>2. Facts = {<<f, F[f].value, F[f].stamp>> : f \in DOMAIN F}
      BY FoldedFacts
<1>3. EstimatedFields(events) = {f \in DOMAIN mine : mine[f] = "estimated"}
      BY DEF EstimatedFields
<1> HIDE DEF F, mine, Facts
<1>4. ASSUME NEW f \in DOMAIN mine, mine[f] = "estimated" PROVE f \in Guessed
  <2> DEFINE fact == <<f, F[f].value, F[f].stamp>>
  <2>1. fact \in Facts /\ fact[1] = f /\ fact[3] = "estimated"
        BY <1>1, <1>2, <1>4
  <2> HIDE DEF fact
  <2> QED
      BY <2>1
<1>5. ASSUME NEW x \in Facts, x[3] = "estimated"
      PROVE  x[1] \in DOMAIN mine /\ mine[x[1]] = "estimated"
  <2>1. PICK f \in DOMAIN F : x = <<f, F[f].value, F[f].stamp>>
        BY <1>2
  <2> QED
      BY <1>1, <1>5, <2>1
<1>6. EstimatedFields(events) \subseteq Guessed
      BY <1>3, <1>4
<1>7. Guessed \subseteq EstimatedFields(events)
      BY <1>3, <1>5
<1> QED
    BY <1>6, <1>7 DEF Facts

\* Something of every event of a batch is one value exactly when there are
\* events and they agree on it.
LEMMA OneEpisode ==
  ASSUME NEW events, Timed(events)
  PROVE  Cardinality({events[n].episode : n \in DOMAIN events}) = 1 <=>
           /\ ToSet(events) # {}
           /\ \A ev, o \in ToSet(events) : ev.episode = o.episode
<1> DEFINE D == DOMAIN events
           episodeOf == [n \in D |-> events[n].episode]
           T == {events[n].episode : n \in D}
<1>1. IsFiniteSet(D)
      BY BatchShape
<1>2. episodeOf \in Surjection(D, T)
      BY DEF Surjection
<1>3. IsFiniteSet(T)
  <2> HIDE DEF D, episodeOf, T
  <2> QED
      BY <1>1, <1>2, FS_Surjection
<1>4. Cardinality(T) = 1 <=> \E x : T = {x}
  <2> HIDE DEF T
  <2> QED
      BY <1>3, FS_Singleton
<1>5. ASSUME NEW x, T = {x}
      PROVE  ToSet(events) # {} /\ \A ev, o \in ToSet(events) : ev.episode = o.episode
  <2>1. \A n \in D : events[n].episode = x
        BY <1>5
  <2>2. \E n \in D : TRUE
        BY <1>5
  <2> QED
      BY <2>1, <2>2 DEF ToSet
<1>6. ASSUME ToSet(events) # {}, \A ev, o \in ToSet(events) : ev.episode = o.episode
      PROVE  \E x : T = {x}
  <2>1. PICK n \in D : TRUE
        BY <1>6 DEF ToSet
  <2>2. \A k \in D : events[k].episode = events[n].episode
        BY <1>6 DEF ToSet
  <2>3. T = {events[n].episode}
        BY <2>1, <2>2
  <2> QED
      BY <2>3
<1> QED
    BY <1>4, <1>5, <1>6

\* The replay of a decision tells a true summary from a false one, no matter
\* what else is on the ledger.
LEMMA ReplayTells ==
  ASSUME DecisionInv, NEW m \in DOMAIN durable, durable[m].summary # NoSummary, NEW build
  PROVE  ReconstructDecision(m, build) <=> SummaryTrue(durable[m].summary, build)
<1> DEFINE summary == durable[m].summary
           ids == ToSet(summary.sources)
           bodies == Fetched(ids)
           C == Cited(summary)
           facts == FactsIn(C)
           told == {fact[1] : fact \in {x \in facts : x[3] = "estimated"}}
<1>1. summary \in Summaries \ {NoSummary}
      BY DEF DecisionInv, WrittenWell
<1>2. /\ summary.sources \in Seq(Nat)
      /\ summary.provenance # Absent =>
           summary.provenance = [f \in DOMAIN summary.provenance |-> summary.provenance[f]]
      BY <1>1, DecisionAssumption
<1>3. Timed(bodies) /\ Distinct(bodies) /\ ToSet(bodies) = C
  <2>1. Named(ids) = C
        BY DEF Named, Cited
  <2> QED
      BY <2>1, FetchedIsNamed
<1>4. summary # NoSummary
      OBVIOUS
<1> HIDE DEF summary, bodies, C
<1>5. IdsIn(bodies) = {ev.id : ev \in C}
  <2>1. C = {bodies[n] : n \in DOMAIN bodies}
        BY <1>3 DEF ToSet
  <2> QED
      BY <2>1 DEF IdsIn
<1>6. summary.sources # <<>> => ids # {}
  <2>1. summary.sources # <<>> => 1 \in DOMAIN summary.sources
        BY <1>2
  <2> QED
      BY <2>1 DEF ToSet
<1>7. Cardinality({bodies[n].episode : n \in DOMAIN bodies}) = 1 <=>
        C # {} /\ \A ev, o \in C : ev.episode = o.episode
      BY <1>3, OneEpisode
<1>8. ASSUME C # {}
      PROVE  {bodies[n].reducer : n \in DOMAIN bodies} = {build} <=>
               \A ev \in C : ev.reducer = build
  <2>1. C = {bodies[n] : n \in DOMAIN bodies}
        BY <1>3 DEF ToSet
  <2> QED
      BY <1>8, <2>1
<1>9. ASSUME summary.provenance # Absent
      PROVE  summary.provenance = Provenance(bodies) <=>
               {<<f, summary.provenance[f]>> : f \in DOMAIN summary.provenance}
                 = {<<fact[1], fact[3]>> : fact \in facts}
  <2> DEFINE said == summary.provenance
  <2>1. said = [f \in DOMAIN said |-> said[f]]
        BY <1>2, <1>9
  <2> HIDE DEF said
  <2>2. said = Provenance(bodies) <=>
          {<<f, said[f]>> : f \in DOMAIN said}
            = {<<fact[1], fact[3]>> : fact \in FactsIn(ToSet(bodies))}
        BY <1>3, <2>1, StampsAreFacts
  <2> QED
      BY <1>3, <2>2 DEF said
<1>10. EstimatedFields(bodies) = told
  <2>1. EstimatedFields(bodies) =
          {fact[1] : fact \in {x \in FactsIn(ToSet(bodies)) : x[3] = "estimated"}}
        BY <1>3, EstimatesAreFacts
  <2> QED
      BY <1>3, <2>1
<1> DEFINE Pairs == {<<fact[1], fact[3]>> : fact \in facts}
           Said == {<<f, summary.provenance[f]>> : f \in DOMAIN summary.provenance}
           CIds == {ev.id : ev \in C}
           Episodes1 == Cardinality({bodies[n].episode : n \in DOMAIN bodies}) = 1
           Reducers1 == {bodies[n].reducer : n \in DOMAIN bodies} = {build}
           AllOne == \A ev, o \in C : ev.episode = o.episode
           AllBuilt == \A ev \in C : ev.reducer = build
<1>11. ReconstructDecision(m, build) <=>
        /\ summary # NoSummary /\ summary.sources # <<>>
        /\ ids \subseteq IdsIn(bodies)
        /\ Episodes1
        /\ Lists(summary.sources, IdsIn(bodies))
        /\ summary.provenance = Absent \/ summary.provenance = Provenance(bodies)
        /\ summary.estimated = Absent \/ Lists(summary.estimated, EstimatedFields(bodies))
        /\ summary.provenance # Absent \/ summary.estimated # Absent
        /\ Reducers1
      BY Zenon DEF ReconstructDecision, summary, bodies
<1>12. SummaryTrue(summary, build) <=>
        /\ summary.sources # <<>> /\ Lists(summary.sources, CIds)
        /\ AllOne /\ AllBuilt
        /\ summary.provenance # Absent \/ summary.estimated # Absent
        /\ summary.provenance # Absent => Said = Pairs
        /\ summary.estimated # Absent => Lists(summary.estimated, told)
      BY Zenon DEF SummaryTrue, C
<1>13. \A keys : Lists(summary.sources, keys) => ids = keys
      BY DEF Lists
<1>14. CIds # {} => C # {}
      OBVIOUS
<1>15. IdsIn(bodies) = CIds
      BY <1>5
<1>16. Episodes1 <=> C # {} /\ AllOne
      BY <1>7
<1>17. C # {} => (Reducers1 <=> AllBuilt)
      BY <1>8
<1>18. summary.provenance # Absent => (summary.provenance = Provenance(bodies) <=> Said = Pairs)
      BY <1>9
<1> HIDE DEF Pairs, Said, CIds, Episodes1, Reducers1, AllOne, AllBuilt, told, ids
<1>19. Lists(summary.sources, CIds) /\ summary.sources # <<>> => ids \subseteq CIds /\ C # {}
      BY <1>6, <1>13, <1>14
<1>20. ReconstructDecision(m, build) <=> SummaryTrue(summary, build)
      BY <1>4, <1>10, <1>11, <1>12, <1>15, <1>16, <1>17, <1>18, <1>19
<1> QED
    BY <1>20 DEF summary

LEMMA InvSupportsDecisions == DecisionInv => DecisionsSupported
<1> SUFFICES ASSUME DecisionInv, NEW m \in 1..Len(durable)
             PROVE  LET d == durable[m]
                    IN /\ d.episode = NoEpisode => d.override
                       /\ d.episode # NoEpisode /\ d.events # <<>> =>
                            /\ \A n \in DOMAIN d.events : d.events[n].episode = d.episode.id
                            /\ FactsOf(d.episode) = FactsIn(ToSet(d.events))
                            /\ Judgment(d.episode).roots \subseteq
                                 {<<"episode">>, <<"reason">>}
                                 \cup {<<"actual", fact[1]>> : fact \in FactsIn(ToSet(d.events))}
                       /\ d.summary # NoSummary =>
                            /\ \A build \in Builds :
                                 ReconstructDecision(m, build) <=> SummaryTrue(d.summary, build)
                            /\ ToSet(d.summary.sources) = IdsIn(d.events) =>
                                 Cited(d.summary) = ToSet(d.events)
    BY Zenon DEF DecisionsSupported
<1> DEFINE d == durable[m]
<1>1. m \in DOMAIN durable
      BY DEF DecisionInv
<1>2. WrittenWell(d)
      BY <1>1 DEF DecisionInv
<1>3. ASSUME d.summary # NoSummary, NEW build \in Builds
      PROVE  ReconstructDecision(m, build) <=> SummaryTrue(d.summary, build)
      BY <1>1, <1>3, ReplayTells
<1>4. ASSUME ToSet(d.summary.sources) = IdsIn(d.events)
      PROVE  Cited(d.summary) = ToSet(d.events)
  <2>1. Cited(d.summary) = Named(ToSet(d.summary.sources))
        BY DEF Cited, Named
  <2> QED
      BY <1>1, <1>4, <2>1, NamedAreOwn
<1> HIDE DEF d
<1>5. d.episode = NoEpisode => d.override
      BY <1>2 DEF WrittenWell
<1>6. ASSUME d.episode # NoEpisode, d.events # <<>>
      PROVE  /\ \A n \in DOMAIN d.events : d.events[n].episode = d.episode.id
             /\ FactsOf(d.episode) = FactsIn(ToSet(d.events))
             /\ Judgment(d.episode).roots \subseteq
                  {<<"episode">>, <<"reason">>}
                  \cup {<<"actual", fact[1]>> : fact \in FactsIn(ToSet(d.events))}
  <2>1. Timed(d.events) /\ EventsAdmitted(d.events) /\ Attested(d.episode, d.events)
        BY <1>2, <1>6 DEF WrittenWell
  <2>2. Distinct(d.events)
        BY <2>1 DEF Distinct, EventsAdmitted
  <2>3. \A n \in DOMAIN d.events : d.events[n].episode = d.episode.id
        BY <2>1 DEF Attested
  <2> QED
      BY <2>1, <2>2, <2>3, AssembledFacts
<1> QED
    BY <1>3, <1>4, <1>5, <1>6 DEF d

\* Whatever anybody offers the ledger, in whatever order and under whatever
\* environment: what is durable is supported by its events, and its replay
\* tells a true summary from a false one (append_decision,
\* verify_governed_decision, reconstruct_decision).
THEOREM DecisionsAlwaysSupported == DecisionSpec => []DecisionsSupported
BY DecisionInitially, DecisionStep, InvSupportsDecisions, PTL DEF DecisionSpec
=============================================================================

--------------------------- MODULE AttestationKeys ---------------------------
(* Signed authorization claims: governance/authorized_by_attestation.py     *)
(* (key set, envelopes, verification), the ledger's _authorized_by_sig and  *)
(* _ensure_attestation_policy_marker, and the part of verify_chain that     *)
(* judges signatures.                                                       *)
(*                                                                          *)
(* Operators rotate, retire and lose keys and switch enforcement while      *)
(* ledger processes write; somebody who can write the table but holds no    *)
(* trusted key changes rows and repairs their hashes, so that only the      *)
(* signatures and the policy marker can tell.  An HMAC is the record of     *)
(* what it was computed from; its holder cannot change a component of it.   *)
(* The content of a row besides its claim is either what was written or     *)
(* something else.                                                          *)
EXTENDS Naturals, Sequences, FiniteSets, SequencesExt, FiniteSetsExt

CONSTANTS
  Keys,       \* attestation keys
  Names,      \* identities an authorized_by may claim
  NoName,     \* authorized_by is NULL: the row claims nobody
  NoKey,      \* no key configured
  NoSig,      \* authorized_by_sig is NULL
  MaxSigned,  \* bound: rows
  MaxForged   \* bound: rows changed behind the ledger's back

ASSUME KeysAssumption ==
  /\ NoKey \notin Keys
  /\ NoName \notin Names
  /\ MaxSigned \in Nat /\ MaxForged \in Nat

VARIABLES
  current, previous, retired,  \* the configured keys
  override,                    \* the development override is set
  leaked,                      \* keys somebody else holds as well
  signed,                      \* the rows, with what was written (`was`)
  forged                       \* changes so far

keyVars == <<current, previous, retired, override, leaked, signed, forged>>

-----------------------------------------------------------------------------
(* The key set.                                                             *)

Trusted == ({current} \ {NoKey}) \cup previous
Retired == retired \ Trusted
EnforcementRequired == ~override

-----------------------------------------------------------------------------
(* Signatures.  The position stands for previous_hash and record_kind,      *)
(* which every payload covers; only abv3 covers the row's content.          *)

Mac(key, tag, name, place, content) ==
  [key |-> key, name |-> name, place |-> place,
   content |-> IF tag = "abv3" THEN {content} ELSE {}]

\* The legacy envelope carries no fingerprint.
Envelope(key, tag, name, place, content) ==
  [tag |-> tag, fp |-> IF tag = "legacy" THEN NoKey ELSE key,
   mac |-> Mac(key, tag, name, place, content)]

\* sign_authorized_by: nothing to sign without a claim or a key; abv3 for the
\* writers that hand in a content prehash.
SignAuthorizedBy(key, tag, name, place, content) ==
  IF name = NoName \/ key = NoKey THEN NoSig ELSE Envelope(key, tag, name, place, content)

\* verify_authorized_by_signature: a fingerprint selects the one key to try,
\* a legacy signature is tried under every key, trusted ones first.
SignatureStatus(row, place) ==
  LET sig == row.sig
      Matches(k) == sig.mac = Mac(k, sig.tag, row.name, place, row.content)
      Under(ks)  == IF sig.fp = NoKey THEN \E k \in ks : Matches(k) ELSE Matches(sig.fp)
  IN IF row.name = NoName THEN "absent"
     ELSE IF sig = NoSig THEN "unattested"
     ELSE IF Trusted \cup Retired = {} THEN "unverifiable"
     ELSE IF sig.fp # NoKey /\ sig.fp \notin Trusted \cup Retired THEN "unknown_key"
     ELSE IF sig.fp \notin Retired /\ Under(Trusted) THEN "ok"
     ELSE IF sig.fp \notin Trusted /\ Under(Retired) THEN "retired_key"
     ELSE "invalid"

Markers == {i \in DOMAIN signed : signed[i].kind = "policy"}

\* Seeded fault: enforcement is dated from the newest marker.
EnforcedSinceNewest(i) == Markers # {} /\ i > Max(Markers)

\* policy_from_row: the first marker, whichever keys came after.
EnforcedSince(i) == Markers # {} /\ i > Min(Markers)

\* The violations verify_chain reports of a row's signature.  Without any
\* key at hand signatures are not looked at.
Reported(i) ==
  LET status == SignatureStatus(signed[i], i)
  IN /\ signed[i].kind = "claim"
     /\ \/ /\ Trusted \cup Retired # {}
           /\ \/ status \in {"invalid", "unknown_key"}
              \/ status = "retired_key" /\ EnforcementRequired
        \/ EnforcedSince(i) /\ signed[i].name # NoName /\ signed[i].sig = NoSig

-----------------------------------------------------------------------------
KeysInit ==
  /\ current \in {NoKey} \cup Keys
  /\ previous = {} /\ retired = {} /\ leaked = {}
  /\ override \in BOOLEAN
  /\ signed = <<>>
  /\ forged = 0

\* A ledger process starts: the marker is appended unless the newest one
\* names the current key already.
StartLedger ==
  /\ EnforcementRequired
  /\ current # NoKey
  /\ Markers # {} => signed[Max(Markers)].name # current
  /\ Len(signed) < MaxSigned
  /\ signed' = Append(signed, [kind |-> "policy", name |-> current])
  /\ UNCHANGED <<current, previous, retired, override, leaked, forged>>

\* A row, with an authorization claim or without: refused when enforcement is
\* on and no signature can be produced for its claim.
WriteClaim(name, tag) ==
  LET place == Len(signed) + 1
      sig   == SignAuthorizedBy(current, tag, name, place, "written")
  IN /\ Len(signed) < MaxSigned
     /\ EnforcementRequired /\ name # NoName => sig # NoSig
     /\ signed' = Append(signed, [kind |-> "claim", name |-> name, content |-> "written",
                                  sig |-> sig, was |-> [name |-> name, sig |-> sig]])
     /\ UNCHANGED <<current, previous, retired, override, leaked, forged>>

\* Rotation as documented: the old key becomes a PREVIOUS key.
RotateKey(k) ==
  /\ k \notin Trusted \cup retired
  /\ current' = k
  /\ previous' = Trusted
  /\ UNCHANGED <<retired, override, leaked, signed, forged>>

RetireKey(k) ==
  /\ k \in previous \ {current}
  /\ previous' = previous \ {k}
  /\ retired' = retired \cup {k}
  /\ UNCHANGED <<current, override, leaked, signed, forged>>

LeakKey(k) ==
  /\ k \notin leaked
  /\ leaked' = leaked \cup {k}
  /\ UNCHANGED <<current, previous, retired, override, signed, forged>>

SwitchOverride ==
  /\ override' = ~override
  /\ UNCHANGED <<current, previous, retired, leaked, signed, forged>>

\* What can be put in place of a signature without a secret key: nothing, a
\* signature seen elsewhere, or one made with a leaked key.
Forgeries(name, content, place) ==
  {NoSig} \cup {signed[i].was.sig : i \in DOMAIN signed \ Markers}
          \cup {Envelope(k, tag, name, place, content) :
                  k \in leaked, tag \in {"legacy", "abv2", "abv3"}}

Forge(i, name, content) ==
  /\ forged < MaxForged
  /\ signed[i].kind = "claim"
  /\ \E sig \in Forgeries(name, content, i) :
       signed' = [signed EXCEPT ![i].name = name, ![i].content = content, ![i].sig = sig]
  /\ forged' = forged + 1
  /\ UNCHANGED <<current, previous, retired, override, leaked>>

KeysNext ==
  \/ StartLedger
  \/ \E name \in Names \cup {NoName}, tag \in {"abv2", "abv3"} : WriteClaim(name, tag)
  \/ \E k \in Keys : RotateKey(k) \/ RetireKey(k) \/ LeakKey(k)
  \/ SwitchOverride
  \/ \E i \in DOMAIN signed, name \in Names \cup {NoName}, content \in {"written", "other"} :
       Forge(i, name, content)

KeysSpec == KeysInit /\ [][KeysNext]_keyVars

-----------------------------------------------------------------------------
KeysTypeOK ==
  /\ current \in Keys \cup {NoKey}
  /\ previous \subseteq Keys /\ retired \subseteq Keys /\ leaked \subseteq Keys
  /\ override \in BOOLEAN
  /\ Len(signed) <= MaxSigned /\ forged \in 0 .. MaxForged

\* The claim of a row, or the content of a row signed as abv3, is no longer
\* what was written.
Falsified(i) ==
  LET row == signed[i]
  IN \/ row.name # row.was.name
     \/ row.was.sig # NoSig /\ row.was.sig.tag = "abv3" /\ row.content # "written"

\* Claims hold (authorized_by_attestation, verify_chain): however keys were
\* rotated and retired, a row that nobody touched and whose key is still
\* trusted is never reported, and once attestation has been enforced from
\* some row on, a falsified row after it that still claims somebody is
\* reported: one stripped of its signature under any configuration of the
\* verifier, any other while a key is configured, no leaked key is still
\* trusted and enforcement is on.
ClaimsHold ==
  \A i \in DOMAIN signed \ Markers :
    LET row == signed[i] IN
    /\ row.sig = row.was.sig /\ ~Falsified(i) /\ row.sig # NoSig =>
         (Reported(i) => row.sig.fp \notin Trusted)
    /\ /\ Falsified(i) /\ row.name # NoName /\ \E m \in Markers : m < i
       /\ \/ row.sig = NoSig
          \/ EnforcementRequired /\ Trusted # {} /\ leaked \cap Trusted = {}
       => Reported(i)

-----------------------------------------------------------------------------
(* What the repository says and verification does not keep.                 *)

\* "The authorized_by string on the row has not been altered since it was
\* written": with attestation enforced since before the row, keys configured
\* and none of them leaked, a row verify_chain has nothing to say of carries
\* the claim it was written with.  A claim set to NULL is ABSENT, whatever
\* signature is left beside it.
ClaimUnaltered ==
  \A i \in DOMAIN signed \ Markers :
    /\ \E m \in Markers : m < i
    /\ EnforcementRequired /\ Trusted # {} /\ leaked \cap Trusted = {}
    /\ ~Reported(i)
    => signed[i].name = signed[i].was.name
=============================================================================

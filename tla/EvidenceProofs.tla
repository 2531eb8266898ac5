--------------------------- MODULE EvidenceProofs ---------------------------
(* Proofs about the parts that report on the record: obligations and their  *)
(* reviews, the rotated log, what a counterparty is told, and what the       *)
(* lenses of a regulatory deck found.                                       *)
EXTENDS Obligations, LogRotation, ContractRetention, ContractEgress,
        RegulatoryDeck, FiniteSetTheorems, WellFoundedInduction, TLAPS

-----------------------------------------------------------------------------
(* Sequences.                                                               *)

\* SetToSeq lists every element of a finite set, and lists it once.
LEMMA SetToSeqLists ==
  ASSUME NEW S, IsFiniteSet(S)
  PROVE  /\ SetToSeq(S) \in Seq(S)
         /\ \A i, j \in 1..Len(SetToSeq(S)) : SetToSeq(S)[i] = SetToSeq(S)[j] => i = j
         /\ \A x \in S : \E i \in 1..Len(SetToSeq(S)) : SetToSeq(S)[i] = x
<1> DEFINE n == Cardinality(S)
<1>1. n \in Nat /\ ExistsBijection(1..n, S)
      BY FS_CardinalityType
<1>2. PICK b : b \in Bijection(1..n, S)
      BY <1>1 DEF ExistsBijection
<1>3. b \in [1..n -> S] /\ \A i, j \in 1..n : b[i] = b[j] => i = j
      BY <1>2 DEF Bijection, Injection, IsInjective
<1>4. IsInjective(b)
      BY <1>3 DEF IsInjective
<1> DEFINE q == SetToSeq(S)
<1>5. q \in [1..n -> S] /\ IsInjective(q)
      BY <1>3, <1>4 DEF SetToSeq
<1> HIDE DEF q
<1>6. \A i, j \in 1..n : q[i] = q[j] => i = j
      BY <1>5 DEF IsInjective
<1>7. q \in Injection(1..n, S)
      BY <1>5 DEF Injection
<1>8. Cardinality(1..n) = n
      BY <1>1, FS_Interval
<1>9. q \in Surjection(1..n, S)
      BY <1>7, <1>8, FS_Injection
<1>10. \A x \in S : \E i \in 1..n : q[i] = x
      BY <1>9 DEF Surjection
<1>11. q \in Seq(S) /\ Len(q) = n
      BY <1>1, <1>5
<1> QED
    BY <1>6, <1>10, <1>11 DEF q

IsSequence(s) == \E S : s \in Seq(S)

LEMMA NumberedIsSequence ==
  ASSUME NEW n \in Nat, NEW S, NEW s \in [1..n -> S] PROVE s \in Seq(S) /\ Len(s) = n
OBVIOUS

LEMMA JoinedSequence ==
  ASSUME NEW s, IsSequence(s), NEW t, IsSequence(t)
  PROVE  /\ Len(s) \in Nat /\ Len(t) \in Nat
         /\ IsSequence(s \o t) /\ Len(s \o t) = Len(s) + Len(t)
         /\ \A k \in 1..Len(s) : (s \o t)[k] = s[k]
         /\ \A k \in 1..Len(t) : (s \o t)[Len(s) + k] = t[k]
<1>1. PICK S : s \in Seq(S)
      BY DEF IsSequence
<1>2. PICK T : t \in Seq(T)
      BY DEF IsSequence
<1>3. s \in Seq(S \cup T) /\ t \in Seq(S \cup T)
      BY <1>1, <1>2
<1> QED
    BY <1>3 DEF IsSequence

LEMMA AppendIsJoin ==
  ASSUME NEW s, IsSequence(s), NEW e
  PROVE  IsSequence(<<e>>) /\ Len(<<e>>) = 1 /\ Append(s, e) = s \o <<e>>
<1>1. PICK S : s \in Seq(S)
      BY DEF IsSequence
<1>2. s \in Seq(S \cup {e}) /\ e \in S \cup {e}
      BY <1>1
<1>3. <<e>> \in Seq({e}) /\ Len(<<e>>) = 1
      OBVIOUS
<1>4. Append(s, e) = s \o <<e>>
      BY <1>2
<1> QED
    BY <1>3, <1>4 DEF IsSequence

LEMMA AppendedRow ==
  ASSUME NEW s, IsSequence(s), NEW e
  PROVE  /\ Len(s) \in Nat /\ IsSequence(Append(s, e)) /\ Len(Append(s, e)) = Len(s) + 1
         /\ \A k \in 1..Len(s) : Append(s, e)[k] = s[k]
         /\ Append(s, e)[Len(s) + 1] = e
<1>1. PICK t : t = <<e>>
      OBVIOUS
<1>2. IsSequence(t) /\ Len(t) = 1 /\ Append(s, e) = s \o t /\ t[1] = e
      BY <1>1, AppendIsJoin
<1>3. /\ Len(s) \in Nat /\ IsSequence(s \o t) /\ Len(s \o t) = Len(s) + Len(t)
      /\ \A k \in 1..Len(s) : (s \o t)[k] = s[k]
      /\ \A k \in 1..Len(t) : (s \o t)[Len(s) + k] = t[k]
  <2>1. IsSequence(t)
        BY <1>2
  <2> QED
      BY <2>1, JoinedSequence
<1>4. 1 \in 1..Len(t)
      BY <1>2
<1>5. (s \o t)[Len(s) + 1] = t[1]
      BY <1>3, <1>4
<1> QED
    BY <1>2, <1>3, <1>5

-----------------------------------------------------------------------------
(* Obligations (Obligations.tla).                                           *)

\* A request holds what it read: rows that had arrived and were readable,
\* obligations that had a row.  Others commit before it appends, so what it
\* read is a part of what is there by then.
RequestBacked(r) ==
  /\ r.step = "derive" => r.rows \subseteq arrived \cap Readable /\ r.known \subseteq Known
  /\ r.step = "append" => r.of \in Known

RequestsBacked == \A c \in Clients : client[c] # Idle => RequestBacked(client[c])

StartsOpen(d) ==
  \E k \in RowsOf(d) : chain[k].state = "OPEN" /\ \A n \in RowsOf(d) : k <= n

OwedInv ==
  /\ arrived \subseteq Decisions
  /\ IsSequence(chain)
  /\ DOMAIN client = Clients
  /\ RequestsBacked
  /\ derived \subseteq Known
  /\ Known \subseteq arrived \cap Readable
  /\ \A d \in Known : StartsOpen(d)

\* Rows are appended for obligations that have one, or open a new one once.
Added(rows) ==
  /\ IsSequence(rows)
  /\ \A i \in 1..Len(rows) : rows[i].of \in Decisions
  /\ \A i \in 1..Len(rows) : rows[i].of \notin Known =>
       /\ rows[i].state = "OPEN"
       /\ \A j \in 1..Len(rows) : rows[j].of = rows[i].of => j = i

LEMMA ChainGrows ==
  ASSUME IsSequence(chain), NEW rows, Added(rows), chain' = chain \o rows
  PROVE  /\ IsSequence(chain')
         /\ Known' = Known \cup {rows[i].of : i \in 1..Len(rows)}
         /\ (\A d \in Known : StartsOpen(d)) => (\A d \in Known : StartsOpen(d))'
<1>1. /\ Len(chain) \in Nat /\ Len(rows) \in Nat
      /\ IsSequence(chain') /\ Len(chain') = Len(chain) + Len(rows)
      /\ \A k \in 1..Len(chain) : chain'[k] = chain[k]
      /\ \A k \in 1..Len(rows) : chain'[Len(chain) + k] = rows[k]
      BY JoinedSequence DEF Added
<1>2. PICK m \in Nat : m = Len(chain)
      BY <1>1
<1>3. PICK n \in Nat : n = Len(rows)
      BY <1>1
<1>4. \A k \in 1..(m + n) : k \notin 1..m => k - m \in 1..n /\ chain'[k] = rows[k - m]
  <2> SUFFICES ASSUME NEW k \in 1..(m + n), k \notin 1..m
               PROVE  k - m \in 1..n /\ chain'[k] = rows[k - m]
      OBVIOUS
  <2>1. k - m \in 1..n /\ m + (k - m) = k
        OBVIOUS
  <2> QED
      BY <1>1, <1>2, <1>3, <2>1
<1>5. \A d : \A k : k \in RowsOf(d)' <=>
               \/ k \in RowsOf(d)
               \/ k \in (m + 1)..(m + n) /\ rows[k - m].of = d
  <2> SUFFICES ASSUME NEW d, NEW k
               PROVE  k \in RowsOf(d)' <=>
                        \/ k \in RowsOf(d)
                        \/ k \in (m + 1)..(m + n) /\ rows[k - m].of = d
      OBVIOUS
  <2>1. k \in RowsOf(d)' <=> k \in 1..(m + n) /\ chain'[k].of = d
        BY <1>1, <1>2, <1>3 DEF RowsOf
  <2>2. k \in RowsOf(d) <=> k \in 1..m /\ chain[k].of = d
        BY <1>2 DEF RowsOf
  <2>3. CASE k \in 1..m
        BY <1>1, <1>2, <2>1, <2>2, <2>3
  <2>4. CASE k \notin 1..m
    <3>1. k \in 1..(m + n) <=> k \in (m + 1)..(m + n)
          BY <2>4
    <3> QED
        BY <1>4, <2>1, <2>2, <2>4, <3>1
  <2> QED
      BY <2>3, <2>4
<1>6. Known' = Known \cup {rows[i].of : i \in 1..n}
  <2>1. ASSUME NEW d \in Known' PROVE d \in Known \cup {rows[i].of : i \in 1..n}
    <3>1. d \in Decisions /\ \E k : k \in RowsOf(d)'
          BY <2>1 DEF Known
    <3>2. PICK k : k \in RowsOf(d)'
          BY <3>1
    <3>3. CASE k \in RowsOf(d)
          BY <3>1, <3>3 DEF Known
    <3>4. CASE k \in (m + 1)..(m + n) /\ rows[k - m].of = d
      <4>1. k - m \in 1..n
            BY <1>1, <3>4
      <4> QED
          BY <3>4, <4>1
    <3> QED
        BY <1>5, <3>2, <3>3, <3>4
  <2>2. ASSUME NEW d \in Known PROVE d \in Known'
    <3>1. d \in Decisions /\ \E k : k \in RowsOf(d)
          BY <2>2 DEF Known
    <3>2. \E k : k \in RowsOf(d)'
          BY <1>5, <3>1
    <3> QED
        BY <3>1, <3>2 DEF Known
  <2>3. ASSUME NEW i \in 1..n PROVE rows[i].of \in Known'
    <3>1. m + i \in (m + 1)..(m + n) /\ (m + i) - m = i
          OBVIOUS
    <3>2. m + i \in RowsOf(rows[i].of)'
          BY <1>5, <3>1
    <3> QED
        BY <1>3, <3>2 DEF Known, Added
  <2> QED
      BY <2>1, <2>2, <2>3
<1>7. ASSUME \A d \in Known : StartsOpen(d), NEW d \in Known'
      PROVE  StartsOpen(d)'
  <2>1. CASE d \in Known
    <3>1. PICK k \in RowsOf(d) : chain[k].state = "OPEN" /\ \A x \in RowsOf(d) : k <= x
          BY <1>7, <2>1 DEF StartsOpen
    <3>2. k \in 1..m
          BY <1>2 DEF RowsOf
    <3>3. k \in RowsOf(d)' /\ chain'[k].state = "OPEN"
          BY <1>1, <1>2, <1>5, <3>1, <3>2
    <3>4. ASSUME NEW x \in RowsOf(d)' PROVE k <= x
      <4>1. x \in RowsOf(d) \/ x \in (m + 1)..(m + n)
            BY <1>5
      <4>2. CASE x \in RowsOf(d)
            BY <3>1, <4>2
      <4>3. CASE x \in (m + 1)..(m + n)
            BY <3>2, <4>3
      <4> QED
          BY <4>1, <4>2, <4>3
    <3> QED
        BY <3>3, <3>4 DEF StartsOpen
  <2>2. CASE d \notin Known
    <3>1. d \in Decisions /\ \E k : k \in RowsOf(d)'
          BY DEF Known
    <3>2. RowsOf(d) = {}
          BY <2>2, <3>1 DEF Known
    <3>3. PICK k : k \in RowsOf(d)'
          BY <3>1
    <3>4. k \in (m + 1)..(m + n) /\ rows[k - m].of = d
          BY <1>5, <3>2, <3>3
    <3>5. PICK i \in 1..n : i = k - m
          BY <3>4
    <3>6. rows[i].state = "OPEN" /\ \A j \in 1..n : rows[j].of = d => j = i
          BY <1>3, <2>2, <3>4, <3>5 DEF Added
    <3>7. chain'[k].state = "OPEN"
      <4>1. k \in 1..(m + n) /\ k \notin 1..m
            BY <3>4
      <4> QED
          BY <1>4, <3>5, <3>6, <4>1
    <3>8. ASSUME NEW x \in RowsOf(d)' PROVE k <= x
      <4>1. x \in (m + 1)..(m + n) /\ rows[x - m].of = d
            BY <1>5, <3>2
      <4>2. x - m \in 1..n
            BY <4>1
      <4>3. x - m = i
            BY <3>6, <4>1, <4>2
      <4> QED
          BY <3>4, <3>5, <4>1, <4>3
    <3> QED
        BY <3>3, <3>7, <3>8 DEF StartsOpen
  <2> QED
      BY <2>1, <2>2
<1> QED
    BY <1>1, <1>3, <1>6, <1>7

\* What a request read stays true while decisions arrive and rows are added.
LEMMA BackedStays ==
  ASSUME arrived \subseteq arrived', declares' = declares, Known \subseteq Known',
         NEW r, RequestBacked(r)
  PROVE  RequestBacked(r)'
<1>1. Readable' = Readable
      BY DEF Readable, Declaring
<1> QED
    BY <1>1 DEF RequestBacked

\* One client's turn, of which only the request it takes up is known.
LEMMA TurnBacked ==
  ASSUME RequestsBacked, DOMAIN client = Clients,
         arrived \subseteq arrived', declares' = declares, Known \subseteq Known',
         NEW c \in Clients, NEW r, r # Idle => RequestBacked(r)', Turn(c, r)
  PROVE  RequestsBacked' /\ DOMAIN client' = Clients
<1>1. DOMAIN client' = Clients /\ client'[c] = r
      /\ \A x \in Clients : x # c => client'[x] = client[x]
      BY DEF Turn
<1>2. ASSUME NEW x \in Clients, client'[x] # Idle PROVE RequestBacked(client[x])'
  <2>1. PICK q : q = client'[x]
        OBVIOUS
  <2>2. RequestBacked(q)'
    <3>1. CASE x = c
          BY <1>1, <1>2, <2>1, <3>1
    <3>2. CASE x # c
      <4>1. q = client[x] /\ RequestBacked(client[x])
            BY <1>1, <1>2, <2>1, <3>2 DEF RequestsBacked
      <4>2. RequestBacked(q)
            BY <4>1
      <4> QED
          BY <4>2, BackedStays
    <3> QED
        BY <3>1, <3>2
  <2> QED
      BY <2>1, <2>2
<1> QED
    BY <1>1, <1>2 DEF RequestsBacked

\* A step that leaves the chain alone.
LEMMA ChainKept ==
  ASSUME OwedInv, UNCHANGED <<declares, chain, derived>>,
         arrived \subseteq arrived', arrived' \subseteq Decisions,
         RequestsBacked', DOMAIN client' = Clients
  PROVE  OwedInv'
<1>1. Readable' = Readable
      BY DEF Readable, Declaring
<1>2. \A d : RowsOf(d)' = RowsOf(d)
      BY DEF RowsOf
<1>3. Known' = Known
      BY <1>2 DEF Known
<1>4. \A d : StartsOpen(d)' <=> StartsOpen(d)
      BY <1>2 DEF StartsOpen
<1> QED
    BY <1>1, <1>3, <1>4 DEF OwedInv

LEMMA KnownKept ==
  ASSUME UNCHANGED chain PROVE Known' = Known
BY DEF Known, RowsOf

\* A request that reads, or that ends without having appended.
LEMMA QuietTurn ==
  ASSUME OwedInv, UNCHANGED <<declares, arrived, chain, derived>>,
         NEW c \in Clients, NEW r, r # Idle => RequestBacked(r), Turn(c, r)
  PROVE  OwedInv'
<1>1. Known' = Known
      BY KnownKept
<1>2. r # Idle => RequestBacked(r)'
      BY <1>1, BackedStays
<1>3. RequestsBacked' /\ DOMAIN client' = Clients
      BY <1>1, <1>2, TurnBacked DEF OwedInv
<1> QED
    BY <1>3, ChainKept DEF OwedInv

LEMMA LookKeepsOwed ==
  ASSUME OwedInv, UNCHANGED <<declares, arrived, chain, derived>>,
         NEW c \in Clients, NEW d, NEW body, NEW rest, TransitionLook(c, d, body, rest)
  PROVE  OwedInv'
<1> DEFINE r == [step |-> "append", of |-> d, body |-> body, rest |-> rest]
<1>1. CASE StateIs(d, "OPEN") /\ Valid(body)
  <2>1. Turn(c, r)
        BY <1>1 DEF TransitionLook
  <2>2. r.step = "append" /\ r.of = d /\ d \in Known
        BY <1>1 DEF StateIs
  <2> HIDE DEF r
  <2>3. RequestBacked(r)
        BY <2>2 DEF RequestBacked
  <2> QED
      BY <2>1, <2>3, QuietTurn
<1>2. CASE ~(StateIs(d, "OPEN") /\ Valid(body))
      BY <1>2, QuietTurn DEF TransitionLook
<1> QED
    BY <1>1, <1>2

\* derive_obligations commits: what it read is on the chain by now, because
\* it was known then, or because it is appended now.
LEMMA DeriveKeepsOwed ==
  ASSUME OwedInv, UNCHANGED declares, NEW c \in Clients, DeriveAppend(c)
  PROVE  OwedInv'
<1> DEFINE read == client[c].rows
           known == client[c].known
           new == SetToSeq(read \ known)
           rows == [k \in DOMAIN new |-> RowFor(new[k], Opening)]
<1>1. read \subseteq arrived \cap Readable /\ known \subseteq Known
      BY DEF OwedInv, RequestsBacked, RequestBacked, DeriveAppend
<1>2. Turn(c, Idle) /\ UNCHANGED arrived
      BY DEF DeriveAppend
<1>3. CASE UNCHANGED <<chain, derived>>
      BY <1>2, <1>3, QuietTurn
<1>4. CASE chain' = chain \o rows /\ derived' = derived \cup read
  <2>1. IsFiniteSet(read \ known)
    <3>1. read \ known \in SUBSET Decisions
          BY <1>1 DEF OwedInv
    <3> QED
        BY <3>1, ObligationAssumption, FS_Subset
  <2> PICK S : S = read \ known
      OBVIOUS
  <2>2. PICK q : q = SetToSeq(S)
        OBVIOUS
  <2> HIDE DEF read, known
  <2>3. /\ q \in Seq(read \ known)
        /\ \A i, j \in 1..Len(q) : q[i] = q[j] => i = j
        /\ \A x \in read \ known : \E i \in 1..Len(q) : q[i] = x
    <3>1. IsFiniteSet(S)
          BY <2>1
    <3>2. /\ q \in Seq(S)
          /\ \A i, j \in 1..Len(q) : q[i] = q[j] => i = j
          /\ \A x \in S : \E i \in 1..Len(q) : q[i] = x
      <4>1. /\ SetToSeq(S) \in Seq(S)
            /\ \A i, j \in 1..Len(SetToSeq(S)) : SetToSeq(S)[i] = SetToSeq(S)[j] => i = j
            /\ \A x \in S : \E i \in 1..Len(SetToSeq(S)) : SetToSeq(S)[i] = x
            BY <3>1, SetToSeqLists, Zenon
      <4> QED
          BY <2>2, <4>1, Zenon
    <3> QED
        BY <3>2
  <2>4. PICK s : s = [k \in DOMAIN q |-> RowFor(q[k], Opening)]
        OBVIOUS
  <2>5. chain' = chain \o s
        BY <1>4, <2>2, <2>4
  <2>6. PICK n \in Nat : n = Len(q)
        BY <2>3
  <2>7. DOMAIN q = 1..n /\ \A i \in 1..n : q[i] \in read \ known
        BY <2>3, <2>6
  <2>8. DOMAIN s = 1..n /\ \A i \in 1..n : s[i].of = q[i] /\ s[i].state = "OPEN"
        BY <2>4, <2>7 DEF RowFor, Opening
  <2>9. s \in Seq({RowFor(x, Opening) : x \in read \ known}) /\ Len(s) = n
        BY <2>4, <2>6, <2>7
  <2>10. \A i \in 1..n : s[i].of \in Decisions
        BY <1>1, <2>7, <2>8 DEF OwedInv
  <2>11. Added(s)
    <3>1. IsSequence(s)
          BY <2>9 DEF IsSequence
    <3>2. \A i, j \in 1..n : q[i] = q[j] => i = j
          BY <2>3, <2>6
    <3>3. \A i \in 1..n : \A j \in 1..n : s[j].of = s[i].of => j = i
          BY <2>8, <3>2
    <3>4. /\ \A i \in 1..n : s[i].of \in Decisions
          /\ \A i \in 1..n : s[i].state = "OPEN"
          BY <2>8, <2>10
    <3> QED
        BY <2>9, <3>1, <3>3, <3>4 DEF Added
  <2>12. /\ IsSequence(chain') /\ Known' = Known \cup {s[i].of : i \in 1..n}
         /\ (\A d \in Known : StartsOpen(d))'
        BY <2>5, <2>9, <2>11, ChainGrows DEF OwedInv
  <2>13. {s[i].of : i \in 1..n} = read \ known
        BY <2>3, <2>6, <2>7, <2>8
  <2>14. Readable' = Readable
        BY DEF Readable, Declaring
  <2>15. Known' = Known \cup (read \ known)
        BY <2>12, <2>13
  <2>16. derived' \subseteq Known' /\ Known' \subseteq arrived' \cap Readable'
        BY <1>1, <1>2, <1>4, <2>14, <2>15 DEF OwedInv
  <2>17. RequestsBacked' /\ DOMAIN client' = Clients
        BY <1>2, <2>15, TurnBacked DEF OwedInv
  <2> QED
      BY <1>2, <2>12, <2>16, <2>17 DEF OwedInv
<1> QED
    BY <1>3, <1>4 DEF DeriveAppend

LEMMA TransitionKeepsOwed ==
  ASSUME OwedInv, UNCHANGED declares, NEW c \in Clients, TransitionAppend(c)
  PROVE  OwedInv'
<1>1. PICK row : row = RowFor(client[c].of, client[c].body)
      OBVIOUS
<1>2. row.of \in Known
      BY <1>1 DEF OwedInv, RequestsBacked, RequestBacked, TransitionAppend, RowFor
<1>3. PICK s : s = <<row>>
      OBVIOUS
<1>4. IsSequence(s) /\ Len(s) = 1 /\ chain' = chain \o s /\ s[1] = row
      BY <1>1, <1>3, AppendIsJoin DEF OwedInv, TransitionAppend
<1>5. Added(s)
      BY <1>2, <1>4 DEF Added, Known
<1>6. /\ IsSequence(chain') /\ Known' = Known \cup {s[i].of : i \in 1..1}
      /\ (\A d \in Known : StartsOpen(d))'
      BY <1>4, <1>5, ChainGrows DEF OwedInv
<1>7. Known' = Known
      BY <1>2, <1>4, <1>6
<1>8. PICK r : r = IF client[c].rest = {} THEN Idle
                   ELSE [step |-> "sweep", todo |-> client[c].rest]
      OBVIOUS
<1>9. Turn(c, r) /\ UNCHANGED <<arrived, derived>>
      BY <1>8 DEF TransitionAppend
<1>10. r # Idle => RequestBacked(r)'
      BY <1>8 DEF RequestBacked
<1>11. RequestsBacked' /\ DOMAIN client' = Clients
      BY <1>7, <1>9, <1>10, TurnBacked DEF OwedInv
<1>12. Readable' = Readable
      BY DEF Readable, Declaring
<1> QED
    BY <1>6, <1>7, <1>9, <1>11, <1>12 DEF OwedInv

LEMMA OwedStep == OwedInv /\ [ObligationNext]_obligationVars => OwedInv'
<1> SUFFICES ASSUME OwedInv, [ObligationNext]_obligationVars PROVE OwedInv'
    OBVIOUS
<1>1. ASSUME ObligationNext, NEW d \in Decisions, Arrive(d) \/ DeclareReplacement(d)
      PROVE  OwedInv'
  <2>1. /\ UNCHANGED <<declares, chain, derived, client>>
        /\ arrived \subseteq arrived' /\ arrived' \subseteq Decisions
        BY <1>1 DEF ObligationNext, Arrive, DeclareReplacement, OwedInv
  <2>2. Known' = Known
        BY <2>1, KnownKept
  <2>3. RequestsBacked'
    <3> SUFFICES ASSUME NEW c \in Clients, client'[c] # Idle
                 PROVE  RequestBacked(client[c])'
        BY DEF RequestsBacked
    <3>1. PICK r : r = client[c]
          OBVIOUS
    <3>2. RequestBacked(r)
          BY <2>1, <3>1 DEF OwedInv, RequestsBacked
    <3>3. RequestBacked(r)'
          BY <2>1, <2>2, <3>2, BackedStays
    <3>4. client'[c] = r
          BY <2>1, <3>1
    <3> QED
        BY <3>3, <3>4
  <2> QED
      BY <2>1, <2>3, ChainKept DEF OwedInv
<1>2. ASSUME ObligationNext, NEW c \in Clients, DeriveRead(c) PROVE OwedInv'
  <2>1. PICK r : r = [step |-> "derive", rows |-> arrived \cap Readable, known |-> Known]
        OBVIOUS
  <2>2. RequestBacked(r)
        BY <2>1 DEF RequestBacked
  <2> QED
      BY <1>2, <2>1, <2>2, QuietTurn DEF DeriveRead, ObligationNext
<1>3. ASSUME ObligationNext, NEW c \in Clients, DeriveAppend(c) PROVE OwedInv'
      BY <1>3, DeriveKeepsOwed DEF ObligationNext
<1>4. ASSUME ObligationNext, NEW c \in Clients, NEW d \in Decisions, NEW body \in Bodies,
             AskTransition(c, d, body)
      PROVE  OwedInv'
      BY <1>4, LookKeepsOwed DEF AskTransition, ObligationNext
<1>5. ASSUME ObligationNext, NEW c \in Clients, TransitionAppend(c) PROVE OwedInv'
      BY <1>5, TransitionKeepsOwed DEF ObligationNext
<1>6. ASSUME ObligationNext, NEW c \in Clients, GiveUp(c) \/ DropReview(c) PROVE OwedInv'
      BY <1>6, QuietTurn DEF GiveUp, DropReview, ObligationNext
<1>7. ASSUME ObligationNext, NEW c \in Clients, SweepSuperseded(c) PROVE OwedInv'
  <2>1. PICK todo : Turn(c, [step |-> "sweep", todo |-> todo])
        BY <1>7 DEF SweepSuperseded
  <2>2. PICK r : r = [step |-> "sweep", todo |-> todo]
        OBVIOUS
  <2>3. RequestBacked(r)
        BY <2>2 DEF RequestBacked
  <2> QED
      BY <1>7, <2>1, <2>2, <2>3, QuietTurn DEF SweepSuperseded, ObligationNext
<1>8. ASSUME ObligationNext, NEW c \in Clients, SweepPost(c) PROVE OwedInv'
  <2>1. PICK d, rest : TransitionLook(c, d, Superseded, rest)
        BY <1>8 DEF SweepPost
  <2> QED
      BY <1>8, <2>1, LookKeepsOwed DEF SweepPost, ObligationNext
<1>9. ASSUME ObligationNext, NEW c \in Clients, FetchResolved(c) PROVE OwedInv'
  <2>1. PICK r : r = [step |-> "review", seen |-> Resolved]
        OBVIOUS
  <2>2. RequestBacked(r)
        BY <2>1 DEF RequestBacked
  <2> QED
      BY <1>9, <2>1, <2>2, QuietTurn DEF FetchResolved, ObligationNext
<1>10. ASSUME ObligationNext, NEW c \in Clients, RecordReview(c) PROVE OwedInv'
      BY <1>10, QuietTurn DEF RecordReview, ObligationNext
<1>11. CASE UNCHANGED obligationVars
  <2>1. UNCHANGED <<declares, arrived, chain, derived, client>>
        BY <1>11 DEF obligationVars
  <2>2. Known' = Known /\ Readable' = Readable
        BY <2>1, KnownKept DEF Readable, Declaring
  <2>3. RequestsBacked'
        BY <2>1, <2>2 DEF OwedInv, RequestsBacked, RequestBacked
  <2> QED
      BY <2>1, <2>3, ChainKept DEF OwedInv
<1> QED
    BY <1>1, <1>2, <1>3, <1>4, <1>5, <1>6, <1>7, <1>8, <1>9, <1>10, <1>11 DEF ObligationNext

\* What is owed is witnessed, for any decisions, requests and interleaving of
\* them: a finished derivation leaves every readable declaration it read on
\* the chain, nothing else gets there, and every obligation starts OPEN
\* (twin_receiver.derive_obligations, transition_obligation).
THEOREM OwedIsRemembered == ObligationSpec => []NothingOwedForgotten
<1>1. ObligationInit => OwedInv
  <2> SUFFICES ASSUME ObligationInit PROVE OwedInv
      OBVIOUS
  <2>1. chain = <<>> /\ derived = {} /\ arrived = {}
        BY DEF ObligationInit
  <2>2. IsSequence(chain) /\ Len(chain) = 0
    <3>1. <<>> \in Seq({})
          OBVIOUS
    <3> QED
        BY <2>1, <3>1 DEF IsSequence
  <2>3. Known = {}
        BY <2>2 DEF Known, RowsOf
  <2>4. DOMAIN client = Clients /\ \A c \in Clients : client[c] = Idle
        BY DEF ObligationInit
  <2> QED
      BY <2>1, <2>2, <2>3, <2>4 DEF OwedInv, RequestsBacked
<1>2. OwedInv => NothingOwedForgotten
      BY DEF OwedInv, NothingOwedForgotten, StartsOpen
<1> QED
    BY <1>1, <1>2, OwedStep, PTL DEF ObligationSpec

-----------------------------------------------------------------------------
(* Cohort reviews (Obligations.tla).                                        *)

\* SkipsReported of one review.
SkipsTold(review) ==
  \A r \in review.seen :
    LET why == Why(review, r) IN
    /\ r \in review.dim4 \/ why \cap {"outcome", "estimate"} # {}
    /\ r \in review.dim6 \/ why \cap {"outcome", "geography"} # {}
    /\ Testable(r) /\ r \notin review.dim5 => why \cap {"estimate", "material"} # {}
    /\ r \in review.dim4 \cup review.dim6 => r.state = "RESOLVED" /\ r.favorable # "none"

SeenResolved(q) == q.step = "review" => \A r \in q.seen : r.state = "RESOLVED"

ReviewInv ==
  /\ DOMAIN client = Clients
  /\ \A c \in Clients : client[c] # Idle => SeenResolved(client[c])
  /\ IsSequence(reviews)
  /\ \A k \in 1..Len(reviews) : SkipsTold(reviews[k])

LEMMA ReviewTellsSkips ==
  ASSUME NEW seen, \A r \in seen : r.state = "RESOLVED", NEW found
  PROVE  SkipsTold(Review(seen, found))
<1> DEFINE v == Review(seen, found)
<1>1. /\ v.seen = seen
      /\ v.dim4 = Dimension4(seen, found.estimated)
      /\ v.dim5 = Dimension5(seen, found.estimated, found.material)
      /\ v.dim6 = Dimension6(seen, found.estimated, found.located)
      /\ v.skipped = Skipped(seen, found.estimated, found.material, found.located)
      BY DEF Review
<1> HIDE DEF v
<1>2. ASSUME NEW r \in seen
      PROVE  /\ ~Testable(r) => <<r, "outcome">> \in v.skipped
             /\ Testable(r) /\ r.of \notin found.estimated => <<r, "estimate">> \in v.skipped
             /\ r.of \in found.estimated /\ r.of \notin found.material =>
                  <<r, "material">> \in v.skipped
             /\ Testable(r) /\ r.of \notin found.located => <<r, "geography">> \in v.skipped
      BY <1>1 DEF Skipped
<1>3. ASSUME NEW r \in seen
      PROVE  /\ r \in v.dim4 <=> Testable(r) /\ r.of \in found.estimated
             /\ r \in v.dim5 <=> r.of \in found.estimated /\ r.of \in found.material
             /\ r \in v.dim6 <=> Testable(r) /\ r.of \in found.located
      BY <1>1 DEF Dimension4, Dimension5, Dimension6
<1>4. SkipsTold(v)
  <2> SUFFICES ASSUME NEW r \in seen, NEW why, why = Why(v, r)
               PROVE  /\ r \in v.dim4 \/ why \cap {"outcome", "estimate"} # {}
                      /\ r \in v.dim6 \/ why \cap {"outcome", "geography"} # {}
                      /\ Testable(r) /\ r \notin v.dim5 =>
                           why \cap {"estimate", "material"} # {}
                      /\ r \in v.dim4 \cup v.dim6 =>
                           r.state = "RESOLVED" /\ r.favorable # "none"
      BY <1>1 DEF SkipsTold
  <2>1. /\ ~Testable(r) => "outcome" \in why
        /\ Testable(r) /\ r.of \notin found.estimated => "estimate" \in why
        /\ r.of \in found.estimated /\ r.of \notin found.material => "material" \in why
        /\ Testable(r) /\ r.of \notin found.located => "geography" \in why
        BY <1>2 DEF Why
  <2>2. r.state = "RESOLVED" /\ (Testable(r) => r.favorable # "none")
        BY DEF Testable
  <2>3. r \in v.dim4 \/ why \cap {"outcome", "estimate"} # {}
        BY <1>3, <2>1
  <2>4. Testable(r) /\ r \notin v.dim5 => why \cap {"estimate", "material"} # {}
        BY <1>3, <2>1
  <2>5. r \in v.dim6 \/ why \cap {"outcome", "geography"} # {}
        BY <1>3, <2>1
  <2>6. r \in v.dim4 \cup v.dim6 => r.state = "RESOLVED" /\ r.favorable # "none"
        BY <1>3, <2>2
  <2> QED
      BY <2>3, <2>4, <2>5, <2>6
<1> QED
    BY <1>4 DEF v

LEMMA TurnSeen ==
  ASSUME ReviewInv, NEW c \in Clients, NEW q, q # Idle => SeenResolved(q), Turn(c, q)
  PROVE  /\ DOMAIN client' = Clients
         /\ \A x \in Clients : client'[x] # Idle => SeenResolved(client'[x])
BY DEF ReviewInv, Turn

LEMMA ReviewsKept ==
  ASSUME ReviewInv, UNCHANGED reviews, NEW c \in Clients, NEW q,
         q # Idle => SeenResolved(q), Turn(c, q)
  PROVE  ReviewInv'
BY TurnSeen DEF ReviewInv

LEMMA ReviewStep == ReviewInv /\ [ObligationNext]_obligationVars => ReviewInv'
<1> SUFFICES ASSUME ReviewInv, [ObligationNext]_obligationVars PROVE ReviewInv'
    OBVIOUS
<1>1. ASSUME NEW d \in Decisions, Arrive(d) \/ DeclareReplacement(d) PROVE ReviewInv'
      BY <1>1 DEF Arrive, DeclareReplacement, ReviewInv
<1>2. ASSUME NEW c \in Clients, DeriveRead(c) PROVE ReviewInv'
  <2>1. PICK q : q = [step |-> "derive", rows |-> arrived \cap Readable, known |-> Known]
        OBVIOUS
  <2>2. SeenResolved(q)
        BY <2>1 DEF SeenResolved
  <2> QED
      BY <1>2, <2>1, <2>2, ReviewsKept DEF DeriveRead
<1>3. ASSUME NEW c \in Clients, DeriveAppend(c) \/ GiveUp(c) \/ DropReview(c) PROVE ReviewInv'
      BY <1>3, ReviewsKept DEF DeriveAppend, GiveUp, DropReview
<1>4. ASSUME NEW c \in Clients, NEW d, NEW body, NEW rest, TransitionLook(c, d, body, rest),
             UNCHANGED reviews
      PROVE  ReviewInv'
  <2>1. PICK q : q = [step |-> "append", of |-> d, body |-> body, rest |-> rest]
        OBVIOUS
  <2>2. SeenResolved(q)
        BY <2>1 DEF SeenResolved
  <2>3. Turn(c, q) \/ Turn(c, Idle)
        BY <1>4, <2>1 DEF TransitionLook
  <2> QED
      BY <1>4, <2>2, <2>3, ReviewsKept
<1>5. ASSUME NEW c \in Clients, NEW d \in Decisions, NEW body \in Bodies, AskTransition(c, d, body)
      PROVE  ReviewInv'
      BY <1>4, <1>5 DEF AskTransition
<1>6. ASSUME NEW c \in Clients, TransitionAppend(c) PROVE ReviewInv'
  <2>1. PICK q : q = [step |-> "sweep", todo |-> client[c].rest]
        OBVIOUS
  <2>2. SeenResolved(q)
        BY <2>1 DEF SeenResolved
  <2>3. Turn(c, q) \/ Turn(c, Idle)
        BY <1>6, <2>1 DEF TransitionAppend
  <2> QED
      BY <1>6, <2>2, <2>3, ReviewsKept DEF TransitionAppend
<1>7. ASSUME NEW c \in Clients, SweepSuperseded(c) PROVE ReviewInv'
  <2>1. PICK todo : Turn(c, [step |-> "sweep", todo |-> todo])
        BY <1>7 DEF SweepSuperseded
  <2>2. PICK q : q = [step |-> "sweep", todo |-> todo]
        OBVIOUS
  <2>3. SeenResolved(q)
        BY <2>2 DEF SeenResolved
  <2> QED
      BY <1>7, <2>1, <2>2, <2>3, ReviewsKept DEF SweepSuperseded
<1>8. ASSUME NEW c \in Clients, SweepPost(c) PROVE ReviewInv'
  <2>1. PICK d, rest : TransitionLook(c, d, Superseded, rest)
        BY <1>8 DEF SweepPost
  <2> QED
      BY <1>4, <1>8, <2>1 DEF SweepPost
<1>9. ASSUME NEW c \in Clients, FetchResolved(c) PROVE ReviewInv'
  <2>1. PICK q : q = [step |-> "review", seen |-> Resolved]
        OBVIOUS
  <2>2. SeenResolved(q)
        BY <2>1 DEF SeenResolved, Resolved, StateIs
  <2> QED
      BY <1>9, <2>1, <2>2, ReviewsKept DEF FetchResolved
<1>10. ASSUME NEW c \in Clients, RecordReview(c) PROVE ReviewInv'
  <2>1. \A r \in client[c].seen : r.state = "RESOLVED"
        BY <1>10 DEF RecordReview, ReviewInv, SeenResolved
  <2>2. PICK found : reviews' = Append(reviews, Review(client[c].seen, found))
        BY <1>10 DEF RecordReview, ChainReview
  <2>3. PICK v : v = Review(client[c].seen, found)
        OBVIOUS
  <2>4. SkipsTold(v)
        BY <2>1, <2>3, ReviewTellsSkips
  <2>5. /\ Len(reviews) \in Nat /\ IsSequence(reviews') /\ Len(reviews') = Len(reviews) + 1
        /\ \A k \in 1..Len(reviews) : reviews'[k] = reviews[k]
        /\ reviews'[Len(reviews) + 1] = v
        BY <2>2, <2>3, AppendedRow DEF ReviewInv
  <2>6. \A k \in 1..Len(reviews') : SkipsTold(reviews'[k])
        BY <2>4, <2>5 DEF ReviewInv
  <2>7. Turn(c, Idle)
        BY <1>10 DEF RecordReview
  <2> QED
      BY <2>5, <2>6, <2>7, TurnSeen DEF ReviewInv
<1>11. CASE UNCHANGED obligationVars
      BY <1>11 DEF obligationVars, ReviewInv
<1> QED
    BY <1>1, <1>2, <1>3, <1>5, <1>6, <1>7, <1>8, <1>9, <1>10, <1>11 DEF ObligationNext

\* What a recorded review leaves out of dimensions 4 and 6 it reports with a
\* reason of theirs, and out of dimension 5 with one of its own where the
\* outcome is usable, for any cohort and whatever the look-ups find
\* (obligation_sweep.assemble_cohort).
THEOREM SkipsAreTold == ObligationSpec => []SkipsReported
<1>1. ObligationInit => ReviewInv
  <2> SUFFICES ASSUME ObligationInit PROVE ReviewInv
      OBVIOUS
  <2>1. <<>> \in Seq({})
        OBVIOUS
  <2>2. reviews = <<>>
        BY DEF ObligationInit
  <2>3. IsSequence(reviews)
        BY <2>1, <2>2 DEF IsSequence
  <2>4. 1..Len(reviews) = {}
        BY <2>2
  <2>5. DOMAIN client = Clients /\ \A c \in Clients : client[c] = Idle
        BY DEF ObligationInit
  <2> QED
      BY <2>3, <2>4, <2>5 DEF ReviewInv
<1>2. ReviewInv => SkipsReported
      BY DEF ReviewInv, SkipsTold, SkipsReported
<1> QED
    BY <1>1, <1>2, ReviewStep, PTL DEF ObligationSpec

-----------------------------------------------------------------------------
(* The rotated log (LogRotation.tla).                                       *)

\* Fewer numbers than there are lie below one of them ...
LEMMA RankIsBelow ==
  ASSUME NEW D, D \subseteq Nat, IsFiniteSet(D), NEW c \in D
  PROVE  /\ IsFiniteSet({d \in D : d < c})
         /\ Cardinality({d \in D : d < c}) \in 0..(Cardinality(D) - 1)
<1> DEFINE n == Cardinality(D)
           below == {d \in D : d < c}
<1>1. n \in Nat
      BY FS_CardinalityType
<1>2. below \in SUBSET D /\ below # D
      OBVIOUS
<1>3. IsFiniteSet(below) /\ Cardinality(below) <= n /\ Cardinality(below) # n
      BY <1>2, FS_Subset
<1>4. Cardinality(below) \in Nat
      BY <1>3, FS_CardinalityType
<1> QED
    BY <1>1, <1>3, <1>4

\* ... and not equally many below two.
LEMMA RanksApart ==
  ASSUME NEW D, D \subseteq Nat, IsFiniteSet(D), NEW c \in D, NEW e \in D,
         Cardinality({d \in D : d < c}) = Cardinality({d \in D : d < e})
  PROVE  c = e
<1> DEFINE Below(x) == {d \in D : d < x}
<1>1. ASSUME NEW x \in D, NEW y \in D, x < y
      PROVE  Cardinality(Below(x)) # Cardinality(Below(y))
  <2>1. Below(x) \in SUBSET Below(y)
    <3>1. \A d \in D : d < x => d < y
          BY <1>1
    <3> QED
        BY <3>1
  <2>2. x \in Below(y) /\ x \notin Below(x)
        BY <1>1
  <2>3. IsFiniteSet(Below(y))
        BY RankIsBelow
  <2> QED
      BY <2>1, <2>2, <2>3, FS_Subset
<1>2. c \in Nat /\ e \in Nat /\ ~(c < e) /\ ~(e < c)
      BY <1>1
<1> QED
    BY <1>2

\* Of n numbers, the one with i - 1 below it exists for every i up to n.
LEMMA RanksAreTaken ==
  ASSUME NEW D, D \subseteq Nat, IsFiniteSet(D), NEW i \in 1..Cardinality(D)
  PROVE  \E c \in D : Cardinality({d \in D : d < c}) = i - 1
<1> DEFINE n == Cardinality(D)
           rank == [c \in D |-> Cardinality({d \in D : d < c})]
<1>1. n \in Nat
      BY FS_CardinalityType
<1>2. rank \in Injection(D, 0..(n - 1))
  <2>1. ASSUME NEW c \in D
        PROVE  Cardinality({d \in D : d < c}) \in 0..(n - 1)
        BY RankIsBelow
  <2>2. rank \in [D -> 0..(n - 1)]
        BY <2>1
  <2>3. ASSUME NEW c \in D, NEW e \in D, rank[c] = rank[e] PROVE c = e
    <3>1. Cardinality({d \in D : d < c}) = Cardinality({d \in D : d < e})
          BY <2>3
    <3> HIDE DEF rank
    <3> QED
        BY <3>1, RanksApart
  <2> QED
      BY <2>2, <2>3 DEF Injection, IsInjective
<1>3. IsFiniteSet(0..(n - 1)) /\ Cardinality(0..(n - 1)) = n
  <2>1. 0 \in Int /\ n - 1 \in Int
        BY <1>1
  <2>2. /\ IsFiniteSet(0..(n - 1))
        /\ Cardinality(0..(n - 1)) = IF 0 > n - 1 THEN 0 ELSE (n - 1) - 0 + 1
        BY <2>1, FS_Interval
  <2> HIDE DEF n
  <2> QED
      BY <1>1, <2>2
<1>4. rank \in Surjection(D, 0..(n - 1))
      BY <1>2, <1>3, FS_Injection
<1>5. i - 1 \in 0..(n - 1)
      BY <1>1
<1>6. PICK c \in D : rank[c] = i - 1
      BY <1>4, <1>5 DEF Surjection
<1> QED
    BY <1>6

\* The number with all others below it is the greatest.
LEMMA GreatestChunk ==
  ASSUME NEW D, D \subseteq Nat, IsFiniteSet(D), D # {}
  PROVE  Max(D) \in D /\ \A d \in D : d <= Max(D)
<1> DEFINE n == Cardinality(D)
<1>1. n \in Nat /\ n # 0
      BY FS_CardinalityType, FS_EmptySet
<1>2. PICK c \in D : Cardinality({d \in D : d < c}) = n - 1
  <2>1. n \in 1..n
        BY <1>1
  <2> QED
      BY <2>1, RanksAreTaken
<1>3. IsFiniteSet(D \ {c}) /\ Cardinality(D \ {c}) = n - 1
      BY FS_RemoveElement
<1>4. {d \in D : d < c} \in SUBSET (D \ {c})
      OBVIOUS
<1>5. D \ {c} = {d \in D : d < c}
      BY <1>2, <1>3, <1>4, FS_Subset
<1>6. \A d \in D : c >= d
      BY <1>5
<1> QED
    BY <1>6 DEF Max

Covers(head, pairs) == \A p \in pairs : \E i \in 1..Len(head) : head[i] = p

\* The fold over the chunk files is over all files on disk and no others.
LEMMA HeadIsOnDisk ==
  ASSUME DOMAIN chunks \subseteq Nat, IsFiniteSet(DOMAIN chunks)
  PROVE  /\ IsSequence(ComputedHead)
         /\ \A i \in 1..Len(ComputedHead) : ComputedHead[i] \in OnDisk
         /\ Covers(ComputedHead, OnDisk)
<1> DEFINE n == Cardinality(DOMAIN chunks)
<1>1. n \in Nat
      BY FS_CardinalityType
<1>2. DOMAIN ChunkList = 1..n
      BY DEF ChunkList
<1>3. ASSUME NEW i \in 1..n PROVE ChunkList[i] \in DOMAIN chunks
      BY RanksAreTaken DEF ChunkList
<1>4. DOMAIN ComputedHead = 1..n
      BY <1>2 DEF ComputedHead
<1>5. ASSUME NEW i \in 1..n PROVE ComputedHead[i] \in OnDisk
      BY <1>2, <1>3 DEF ComputedHead, OnDisk
<1>6. ComputedHead = [i \in 1..n |-> ComputedHead[i]]
      BY <1>2 DEF ComputedHead
<1>7. ComputedHead \in [1..n -> OnDisk]
      BY <1>5, <1>6
<1>8. ComputedHead \in Seq(OnDisk) /\ Len(ComputedHead) = n
      BY <1>1, <1>7
<1>9. ASSUME NEW c \in DOMAIN chunks PROVE \E i \in 1..n : ComputedHead[i] = <<c, chunks[c]>>
  <2>1. PICK k : k = Cardinality({d \in DOMAIN chunks : d < c})
        OBVIOUS
  <2>2. k \in 0..(n - 1)
        BY <2>1, RankIsBelow
  <2>3. k + 1 \in 1..n /\ (k + 1) - 1 = k
        BY <1>1, <2>2
  <2>4. ChunkList[k + 1] =
          CHOOSE e \in DOMAIN chunks : Cardinality({d \in DOMAIN chunks : d < e}) = (k + 1) - 1
        BY <2>3 DEF ChunkList
  <2>5. PICK e \in DOMAIN chunks :
          e = ChunkList[k + 1] /\ Cardinality({d \in DOMAIN chunks : d < e}) = k
        BY <2>1, <2>3, <2>4
  <2>6. e = c
        BY <2>1, <2>5, RanksApart
  <2>7. ComputedHead[k + 1] = <<c, chunks[c]>>
        BY <1>2, <2>3, <2>5, <2>6 DEF ComputedHead
  <2> QED
      BY <2>3, <2>7
<1>10. Covers(ComputedHead, OnDisk)
      BY <1>8, <1>9 DEF Covers, OnDisk
<1> QED
    BY <1>5, <1>8, <1>10 DEF IsSequence

LEMMA CoversMore ==
  ASSUME NEW head, IsSequence(head), NEW pairs, Covers(head, pairs), NEW p
  PROVE  IsSequence(Append(head, p)) /\ Covers(Append(head, p), pairs \cup {p})
<1> DEFINE h == Append(head, p)
<1>1. /\ Len(head) \in Nat /\ IsSequence(h) /\ Len(h) = Len(head) + 1
      /\ \A k \in 1..Len(head) : h[k] = head[k]
      /\ h[Len(head) + 1] = p
      BY AppendedRow
<1> HIDE DEF h
<1>2. Covers(h, pairs \cup {p})
      BY <1>1 DEF Covers
<1> QED
    BY <1>1, <1>2 DEF h

FilesShape ==
  /\ DOMAIN chunks \subseteq Nat /\ IsFiniteSet(DOMAIN chunks)
  /\ harmed \in [chunks : Nat, manifest : Nat]
  /\ returned \subseteq Nat \X Slices

EngineShape(e) ==
  \/ e = [at |-> "down"] \/ e = [at |-> "stuck"]
  \/ \E i, h : i \in Nat /\ e = [at |-> "idle", index |-> i, prev |-> h]
  \/ \E a, i, h, x :
       /\ a \in {"writing", "chunked", "recorded"} /\ i \in Nat /\ x \in Slices
       /\ e = [at |-> a, index |-> i, prev |-> h, slice |-> x]

\* A manager that is up folds on over every slice that was acknowledged, and
\* writes only chunks after them, unless one was started on spoiled files.
Vouches(head, index) == Covers(head, returned) /\ \A p \in returned : p[1] < index

EngineVouches(e) ==
  e.at \in {"idle", "writing", "chunked", "recorded"} =>
    IsSequence(e.prev) /\ (bereft = FALSE => Vouches(e.prev, e.index))

Deleted == harmed.manifest > 0

EngineWrote(e) ==
  /\ e.at = "writing" /\ harmed.chunks = 0 => e.index \in DOMAIN chunks
  /\ e.at \in {"chunked", "recorded"} /\ harmed.chunks = 0 => <<e.index, e.slice>> \in OnDisk
  /\ e.at = "recorded" =>
       \/ manifest = {[last |-> e.index, head |-> Append(e.prev, <<e.index, e.slice>>)]}
       \/ manifest = {} /\ Deleted
  /\ e.at = "stuck" => returned = {} \/ Deleted

ManifestCovers(m) ==
  m.last \in Nat /\ IsSequence(m.head) /\ (bereft = FALSE => Vouches(m.head, m.last + 1))

Unspoiled == harmed.chunks = 0 => bereft = FALSE /\ returned \subseteq OnDisk

RotationInv ==
  /\ FilesShape /\ bereft \in BOOLEAN
  /\ EngineShape(engine) /\ EngineVouches(engine) /\ EngineWrote(engine)
  /\ manifest = {} => returned = {} \/ Deleted
  /\ manifest = {} \/ \E m : manifest = {m} /\ ManifestCovers(m)
  /\ Unspoiled

LEMMA IdleShape ==
  ASSUME NEW i \in Nat, NEW h PROVE EngineShape([at |-> "idle", index |-> i, prev |-> h])
BY DEF EngineShape

LEMMA FlushShape ==
  ASSUME NEW a \in {"writing", "chunked", "recorded"}, NEW i \in Nat, NEW h, NEW x \in Slices
  PROVE  EngineShape([at |-> a, index |-> i, prev |-> h, slice |-> x])
BY DEF EngineShape

LEMMA VouchedByInv == RotationInv => ManifestVouches
<1> SUFFICES ASSUME RotationInv PROVE ManifestVouches
    OBVIOUS
<1>1. ASSUME VerifyOk, manifest # {}, ~bereft PROVE returned \subseteq OnDisk
  <2>1. PICK m : manifest = {m} /\ ManifestCovers(m)
        BY <1>1 DEF RotationInv
  <2>2. m.head = ComputedHead
        BY <1>1, <2>1 DEF VerifyOk
  <2>3. bereft = FALSE
        BY <1>1 DEF RotationInv
  <2>4. Covers(ComputedHead, returned)
        BY <2>1, <2>2, <2>3 DEF ManifestCovers, Vouches
  <2>5. \A i \in 1..Len(ComputedHead) : ComputedHead[i] \in OnDisk
        BY HeadIsOnDisk DEF RotationInv, FilesShape
  <2> QED
      BY <2>4, <2>5 DEF Covers
<1>2. harmed.chunks = 0 => returned \subseteq OnDisk
      BY DEF RotationInv, Unspoiled
<1>3. engine.at = "stuck" => returned = {} \/ harmed.manifest > 0
      BY DEF RotationInv, EngineWrote, Deleted
<1> QED
    BY <1>1, <1>2, <1>3 DEF ManifestVouches

\* What the resumed manager folds on from covers what was acknowledged.
LEMMA ResumedVouches ==
  ASSUME RotationInv, NEW e \in ResumeState,
         bereft' = (bereft \/ (manifest = {} /\ ~(returned \subseteq OnDisk)))
  PROVE  /\ EngineShape(e) /\ e.at = "idle" /\ IsSequence(e.prev)
         /\ bereft' = FALSE => Vouches(e.prev, e.index)
<1>1. CASE manifest # {}
  <2>1. PICK m : manifest = {m} /\ ManifestCovers(m)
        BY <1>1 DEF RotationInv
  <2>2. e = [at |-> "idle", index |-> m.last + 1, prev |-> m.head]
        BY <1>1, <2>1 DEF ResumeState, EngineAt
  <2>3. e.at = "idle" /\ e.index = m.last + 1 /\ e.prev = m.head /\ m.last \in Nat
        BY <2>1, <2>2 DEF ManifestCovers
  <2>4. EngineShape(e)
    <3>1. m.last + 1 \in Nat
          BY <2>3
    <3> QED
        BY <2>2, <3>1, IdleShape
  <2>5. bereft' = bereft
        BY <1>1 DEF RotationInv
  <2> QED
      BY <2>1, <2>3, <2>4, <2>5 DEF ManifestCovers
<1>2. CASE manifest = {}
  <2>1. bereft' = FALSE => returned \subseteq OnDisk
        BY <1>2
  <2>2. CASE DOMAIN chunks = {}
    <3>1. e = [at |-> "idle", index |-> 0, prev |-> <<>>]
          BY <1>2, <2>2 DEF ResumeState, EngineAt
    <3>2. <<>> \in Seq({})
          OBVIOUS
    <3>3. EngineShape(e) /\ e.at = "idle" /\ e.prev = <<>>
          BY <3>1 DEF EngineShape
    <3>4. bereft' = FALSE => returned = {}
          BY <2>1, <2>2 DEF OnDisk
    <3> QED
        BY <3>2, <3>3, <3>4 DEF IsSequence, Covers, Vouches
  <2>3. CASE DOMAIN chunks # {}
    <3>1. e = [at |-> "idle", index |-> Max(DOMAIN chunks) + 1, prev |-> ComputedHead]
          BY <1>2, <2>3 DEF ResumeState, EngineAt
    <3>2. Max(DOMAIN chunks) \in Nat /\ \A c \in DOMAIN chunks : c \in Nat /\ c <= Max(DOMAIN chunks)
          BY <2>3, GreatestChunk DEF RotationInv, FilesShape
    <3>3. /\ EngineShape(e) /\ e.at = "idle" /\ e.prev = ComputedHead
          /\ e.index = Max(DOMAIN chunks) + 1
      <4>1. Max(DOMAIN chunks) + 1 \in Nat
            BY <3>2
      <4>2. EngineShape(e)
            BY <3>1, <4>1, IdleShape
      <4> QED
          BY <3>1, <4>2
    <3>4. IsSequence(ComputedHead) /\ Covers(ComputedHead, OnDisk)
          BY HeadIsOnDisk DEF RotationInv, FilesShape
    <3>5. ASSUME bereft' = FALSE PROVE Vouches(e.prev, e.index)
      <4>1. Covers(ComputedHead, returned)
            BY <2>1, <3>4, <3>5 DEF Covers
      <4>2. ASSUME NEW p \in returned PROVE p[1] < e.index
        <5>1. PICK c \in DOMAIN chunks : p = <<c, chunks[c]>>
              BY <2>1, <3>5 DEF OnDisk
        <5>2. p[1] = c
              BY <5>1
        <5> QED
            BY <3>2, <3>3, <5>2
      <4> QED
          BY <3>3, <4>1, <4>2 DEF Vouches
    <3> QED
        BY <3>3, <3>4, <3>5
  <2> QED
      BY <2>2, <2>3
<1> QED
    BY <1>1, <1>2

\* A write to a chunk after every acknowledged one leaves those alone.
LEMMA WriteKeepsReturned ==
  ASSUME FilesShape, Unspoiled, NEW i \in Nat, bereft = FALSE => \A p \in returned : p[1] < i,
         NEW x, chunks' = WriteFile(i, x), UNCHANGED <<harmed, returned, bereft>>
  PROVE  FilesShape' /\ <<i, x>> \in OnDisk' /\ Unspoiled'
<1>1. DOMAIN chunks' = DOMAIN chunks \cup {i}
      BY DEF WriteFile
<1>2. chunks'[i] = x /\ \A c \in DOMAIN chunks : c # i => chunks'[c] = chunks[c]
      BY DEF WriteFile
<1>3. IsFiniteSet(DOMAIN chunks \cup {i})
      BY FS_AddElement DEF FilesShape
<1>4. FilesShape'
      BY <1>1, <1>3 DEF FilesShape
<1>5. <<i, x>> \in OnDisk'
      BY <1>1, <1>2 DEF OnDisk
<1>6. ASSUME harmed.chunks = 0, NEW p \in returned PROVE p \in OnDisk'
  <2>1. bereft = FALSE /\ returned \subseteq OnDisk
        BY <1>6 DEF Unspoiled
  <2>2. PICK c \in DOMAIN chunks : p = <<c, chunks[c]>>
        BY <1>6, <2>1 DEF OnDisk
  <2>3. c \in Nat /\ c < i
        BY <2>1, <2>2 DEF FilesShape
  <2>4. c \in DOMAIN chunks' /\ chunks'[c] = chunks[c]
        BY <1>1, <1>2, <2>3
  <2> QED
      BY <2>2, <2>4 DEF OnDisk
<1>7. Unspoiled'
      BY <1>6 DEF Unspoiled
<1> QED
    BY <1>4, <1>5, <1>7

\* A step that changes no file.
LEMMA EngineMoves ==
  ASSUME RotationInv, UNCHANGED <<chunks, manifest, returned, harmed, bereft>>,
         NEW e, engine' = e, EngineShape(e), EngineVouches(e), EngineWrote(e)
  PROVE  RotationInv'
<1>1. OnDisk' = OnDisk /\ (Deleted' <=> Deleted)
      BY DEF OnDisk, Deleted
<1>2. FilesShape'
      BY DEF RotationInv, FilesShape
<1>3. \A h, i : Vouches(h, i)' <=> Vouches(h, i)
      BY DEF Vouches
<1>4. EngineVouches(e)' /\ EngineWrote(e)'
      BY <1>1, <1>3 DEF EngineVouches, EngineWrote
<1>5. \A m : ManifestCovers(m)' <=> ManifestCovers(m)
      BY <1>3 DEF ManifestCovers
<1>6. EngineShape(engine)' /\ EngineVouches(engine)' /\ EngineWrote(engine)'
      BY <1>4
<1>7. Unspoiled'
      BY <1>1 DEF RotationInv, Unspoiled
<1> QED
    BY <1>1, <1>2, <1>5, <1>6, <1>7 DEF RotationInv

\* A manager in the middle of a flush.
LEMMA FlushingEngine ==
  ASSUME RotationInv, engine.at \in {"writing", "chunked", "recorded"}
  PROVE  \E i, h, x :
           /\ i \in Nat /\ x \in Slices
           /\ engine = [at |-> engine.at, index |-> i, prev |-> h, slice |-> x]
           /\ IsSequence(h) /\ (bereft = FALSE => Vouches(h, i))
<1>1. PICK a, i, h, x :
        /\ a \in {"writing", "chunked", "recorded"} /\ i \in Nat /\ x \in Slices
        /\ engine = [at |-> a, index |-> i, prev |-> h, slice |-> x]
      BY DEF RotationInv, EngineShape
<1>2. engine.at = a /\ engine.prev = h /\ engine.index = i
      BY <1>1
<1>3. IsSequence(h) /\ (bereft = FALSE => Vouches(h, i))
      BY <1>2 DEF RotationInv, EngineVouches
<1> QED
    BY <1>1, <1>2, <1>3

LEMMA StartKeepsInv == RotationInv /\ StartManager => RotationInv'
<1> SUFFICES ASSUME RotationInv, StartManager PROVE RotationInv'
    OBVIOUS
<1>1. /\ bereft' = (bereft \/ (manifest = {} /\ ~(returned \subseteq OnDisk)))
      /\ UNCHANGED <<chunks, manifest, returned, harmed>>
      BY DEF StartManager
<1>2. bereft' \in BOOLEAN /\ (bereft' = FALSE => bereft = FALSE)
      BY <1>1 DEF RotationInv
<1>3. FilesShape' /\ OnDisk' = OnDisk /\ (Deleted' <=> Deleted)
      BY <1>1 DEF RotationInv, FilesShape, OnDisk, Deleted
<1>4. \A h, i : Vouches(h, i)' <=> Vouches(h, i)
      BY <1>1 DEF Vouches
<1>5. \A m : ManifestCovers(m) => ManifestCovers(m)'
      BY <1>2, <1>4 DEF ManifestCovers
<1>6. Unspoiled'
  <2>1. harmed.chunks = 0 => bereft = FALSE /\ returned \subseteq OnDisk
        BY DEF RotationInv, Unspoiled
  <2>2. bereft = FALSE /\ returned \subseteq OnDisk => bereft' = FALSE
        BY <1>1
  <2> QED
      BY <1>1, <1>3, <2>1, <2>2 DEF Unspoiled
<1>7. EngineShape(engine)' /\ EngineVouches(engine)' /\ EngineWrote(engine)'
  <2>1. CASE ResumeState = {}
    <3>1. PICK e : e = [at |-> "stuck"]
          OBVIOUS
    <3>2. engine' = e
          BY <2>1, <3>1 DEF StartManager
    <3>3. manifest = {}
          BY <2>1 DEF ResumeState
    <3>4. returned = {} \/ Deleted
          BY <3>3 DEF RotationInv
    <3>5. e.at = "stuck"
          BY <3>1
    <3>6. EngineShape(e) /\ EngineVouches(e)' /\ EngineWrote(e)'
          BY <1>1, <1>3, <3>1, <3>4, <3>5 DEF EngineShape, EngineVouches, EngineWrote
    <3> QED
        BY <3>2, <3>6
  <2>2. CASE ResumeState # {}
    <3>1. PICK e \in ResumeState : engine' = e
          BY <2>2 DEF StartManager
    <3>2. /\ EngineShape(e) /\ e.at = "idle" /\ IsSequence(e.prev)
          /\ bereft' = FALSE => Vouches(e.prev, e.index)
          BY <1>1, ResumedVouches
    <3>3. EngineVouches(e)' /\ EngineWrote(e)'
          BY <1>4, <3>2 DEF EngineVouches, EngineWrote
    <3> QED
        BY <3>1, <3>2, <3>3
  <2> QED
      BY <2>1, <2>2
<1> QED
    BY <1>1, <1>2, <1>3, <1>5, <1>6, <1>7 DEF RotationInv

LEMMA OpenKeepsInv ==
  ASSUME RotationInv, NEW x \in Slices, FlushOpen(x) PROVE RotationInv'
<1>1. engine.at = "idle"
      BY DEF FlushOpen
<1>2. PICK i, h : i \in Nat /\ engine = [at |-> "idle", index |-> i, prev |-> h]
      BY <1>1 DEF RotationInv, EngineShape
<1> i \in Nat
    BY <1>2
<1>3. engine.index = i /\ engine.prev = h
      BY <1>2
<1>4. IsSequence(h) /\ (bereft = FALSE => Vouches(h, i))
      BY <1>1, <1>3 DEF RotationInv, EngineVouches
<1>5. PICK e : e = [at |-> "writing", index |-> i, prev |-> h, slice |-> x]
      OBVIOUS
<1>6. /\ engine' = e /\ chunks' = WriteFile(i, TornChunk)
      /\ UNCHANGED <<manifest, returned, harmed, bereft>>
      BY <1>3, <1>5 DEF FlushOpen
<1>7. e.at = "writing" /\ e.index = i /\ e.prev = h
      BY <1>5
<1>8. FilesShape' /\ Unspoiled'
  <2>1. bereft = FALSE => \A p \in returned : p[1] < i
        BY <1>4 DEF Vouches
  <2> QED
      BY <1>6, <2>1, WriteKeepsReturned DEF RotationInv
<1>9. (\A g, j : Vouches(g, j)' <=> Vouches(g, j)) /\ (Deleted' <=> Deleted)
      BY <1>6 DEF Vouches, Deleted
<1>10. EngineShape(e) /\ EngineVouches(e)' /\ EngineWrote(e)'
  <2>1. EngineShape(e)
        BY <1>5, FlushShape
  <2>2. i \in DOMAIN chunks'
        BY <1>6 DEF WriteFile
  <2>3. EngineVouches(e)' /\ EngineWrote(e)'
        BY <1>4, <1>6, <1>7, <1>9, <2>2 DEF EngineVouches, EngineWrote
  <2> QED
      BY <2>1, <2>3
<1>11. \A m : ManifestCovers(m)' <=> ManifestCovers(m)
      BY <1>6, <1>9 DEF ManifestCovers
<1>12. EngineShape(engine)' /\ EngineVouches(engine)' /\ EngineWrote(engine)'
      BY <1>6, <1>10
<1> QED
    BY <1>6, <1>8, <1>9, <1>11, <1>12 DEF RotationInv

LEMMA ChunkKeepsInv ==
  ASSUME RotationInv, FlushChunk PROVE RotationInv'
<1>1. PICK i, h, x :
        /\ i \in Nat /\ x \in Slices
        /\ engine = [at |-> engine.at, index |-> i, prev |-> h, slice |-> x]
        /\ IsSequence(h) /\ (bereft = FALSE => Vouches(h, i))
      BY FlushingEngine DEF FlushChunk
<1> i \in Nat /\ x \in Slices
    BY <1>1
<1>2. engine.at = "writing" /\ engine.index = i /\ engine.prev = h /\ engine.slice = x
      BY <1>1 DEF FlushChunk
<1>3. PICK e : e = [at |-> "chunked", index |-> i, prev |-> h, slice |-> x]
      OBVIOUS
<1>4. /\ engine' = e /\ UNCHANGED <<manifest, returned, harmed, bereft>>
      /\ i \in DOMAIN chunks => chunks' = WriteFile(i, x)
      /\ i \notin DOMAIN chunks => chunks' = chunks
      BY <1>1, <1>2, <1>3 DEF FlushChunk
<1>5. e.at = "chunked" /\ e.index = i /\ e.prev = h /\ e.slice = x
      BY <1>3
<1>6. FilesShape' /\ Unspoiled' /\ (harmed.chunks = 0 => <<i, x>> \in OnDisk')
  <2>1. CASE i \in DOMAIN chunks
    <3>1. bereft = FALSE => \A p \in returned : p[1] < i
          BY <1>1 DEF Vouches
    <3> QED
        BY <1>4, <2>1, <3>1, WriteKeepsReturned DEF RotationInv
  <2>2. CASE i \notin DOMAIN chunks
    <3>1. chunks' = chunks
          BY <1>4, <2>2
    <3>2. harmed.chunks # 0
          BY <1>2, <2>2 DEF RotationInv, EngineWrote, OnDisk
    <3> QED
        BY <1>4, <3>1, <3>2 DEF RotationInv, FilesShape, Unspoiled
  <2> QED
      BY <2>1, <2>2
<1>7. EngineShape(e)
      BY <1>3 DEF EngineShape
<1>8. (\A g, j : Vouches(g, j)' <=> Vouches(g, j)) /\ (Deleted' <=> Deleted)
      BY <1>4 DEF Vouches, Deleted
<1>9. EngineVouches(e)'
      BY <1>1, <1>4, <1>5, <1>8 DEF EngineVouches
<1>10. EngineWrote(e)'
      BY <1>4, <1>5, <1>6 DEF EngineWrote
<1>11. \A m : ManifestCovers(m)' <=> ManifestCovers(m)
      BY <1>4, <1>8 DEF ManifestCovers
<1>12. EngineShape(engine)' /\ EngineVouches(engine)' /\ EngineWrote(engine)'
      BY <1>4, <1>7, <1>9, <1>10
<1> QED
    BY <1>4, <1>6, <1>8, <1>11, <1>12 DEF RotationInv

LEMMA ManifestKeepsInv ==
  ASSUME RotationInv, FlushManifest PROVE RotationInv'
<1>1. PICK i, h, x :
        /\ i \in Nat /\ x \in Slices
        /\ engine = [at |-> engine.at, index |-> i, prev |-> h, slice |-> x]
        /\ IsSequence(h) /\ (bereft = FALSE => Vouches(h, i))
      BY FlushingEngine DEF FlushManifest
<1> i \in Nat /\ x \in Slices
    BY <1>1
<1>2. engine.at = "chunked" /\ engine.index = i /\ engine.prev = h /\ engine.slice = x
      BY <1>1 DEF FlushManifest
<1>3. PICK e : e = [at |-> "recorded", index |-> i, prev |-> h, slice |-> x]
      OBVIOUS
<1>4. PICK m : m = [last |-> i, head |-> Append(h, <<i, x>>)]
      OBVIOUS
<1>5. engine' = e /\ manifest' = {m} /\ UNCHANGED <<chunks, returned, harmed, bereft>>
      BY <1>1, <1>2, <1>3, <1>4 DEF FlushManifest, NewHead
<1>6. e.at = "recorded" /\ e.index = i /\ e.prev = h /\ e.slice = x
      BY <1>3
<1>7. OnDisk' = OnDisk /\ \A g, j : Vouches(g, j)' <=> Vouches(g, j)
      BY <1>5 DEF OnDisk, Vouches
<1>8. FilesShape' /\ Unspoiled'
      BY <1>5, <1>7 DEF RotationInv, FilesShape, Unspoiled
<1>9. ManifestCovers(m)'
  <2>1. m.head = Append(h, <<i, x>>) /\ m.last = i
        BY <1>4
  <2>2. IsSequence(m.head)
        BY <1>1, <2>1, AppendedRow
  <2>3. ASSUME bereft = FALSE PROVE Vouches(m.head, i + 1)
    <3>1. Covers(m.head, returned \cup {<<i, x>>})
          BY <1>1, <2>1, <2>3, CoversMore DEF Vouches
    <3>2. ASSUME NEW p \in returned PROVE p[1] < i + 1
      <4>1. p[1] \in Nat /\ p[1] < i
            BY <1>1, <2>3 DEF RotationInv, FilesShape, Vouches
      <4> QED
          BY <4>1
    <3> QED
        BY <3>1, <3>2 DEF Covers, Vouches
  <2> QED
      BY <1>5, <1>7, <2>1, <2>2, <2>3 DEF ManifestCovers
<1>10. EngineShape(e)
      BY <1>3 DEF EngineShape
<1>11. EngineVouches(e)'
      BY <1>1, <1>5, <1>6, <1>7 DEF EngineVouches
<1>12. EngineWrote(e)'
  <2>1. harmed.chunks = 0 => <<i, x>> \in OnDisk
        BY <1>2 DEF RotationInv, EngineWrote
  <2> QED
      BY <1>4, <1>5, <1>6, <1>7, <2>1 DEF EngineWrote
<1>13. EngineShape(engine)' /\ EngineVouches(engine)' /\ EngineWrote(engine)'
      BY <1>5, <1>10, <1>11, <1>12
<1> QED
    BY <1>5, <1>8, <1>9, <1>13 DEF RotationInv

LEMMA ReturnKeepsInv ==
  ASSUME RotationInv, FlushReturn PROVE RotationInv'
<1>1. PICK i, h, x :
        /\ i \in Nat /\ x \in Slices
        /\ engine = [at |-> engine.at, index |-> i, prev |-> h, slice |-> x]
        /\ IsSequence(h) /\ (bereft = FALSE => Vouches(h, i))
      BY FlushingEngine DEF FlushReturn
<1> i \in Nat /\ x \in Slices
    BY <1>1
<1>2. engine.at = "recorded" /\ engine.index = i /\ engine.prev = h /\ engine.slice = x
      BY <1>1 DEF FlushReturn
<1>3. PICK g : g = Append(h, <<i, x>>)
      OBVIOUS
<1>4. PICK e : e = [at |-> "idle", index |-> i + 1, prev |-> g]
      OBVIOUS
<1>5. /\ engine' = e /\ returned' = returned \cup {<<i, x>>}
      /\ UNCHANGED <<chunks, manifest, harmed, bereft>>
      BY <1>2, <1>3, <1>4 DEF FlushReturn, NewHead, EngineAt
<1>6. e.at = "idle" /\ e.index = i + 1 /\ e.prev = g
      BY <1>4
<1>7. OnDisk' = OnDisk /\ (Deleted' <=> Deleted)
      BY <1>5 DEF OnDisk, Deleted
<1>8. FilesShape'
      BY <1>5 DEF RotationInv, FilesShape
<1>9. IsSequence(g)
      BY <1>1, <1>3, AppendedRow
<1>10. ASSUME bereft = FALSE PROVE Vouches(g, i + 1)'
  <2>1. Covers(g, returned')
        BY <1>1, <1>3, <1>5, <1>10, CoversMore DEF Vouches
  <2>2. ASSUME NEW p \in returned' PROVE p[1] < i + 1
    <3>1. p[1] \in Nat
          BY <1>8 DEF FilesShape
    <3>2. p[1] < i \/ p[1] = i
          BY <1>1, <1>5, <1>10 DEF Vouches
    <3> QED
        BY <3>1, <3>2
  <2> QED
      BY <2>1, <2>2 DEF Vouches
<1>11. PICK m : m = [last |-> i, head |-> g]
      OBVIOUS
<1>12. manifest = {m} \/ (manifest = {} /\ Deleted)
      BY <1>2, <1>3, <1>11 DEF RotationInv, EngineWrote
<1>13. ManifestCovers(m)'
  <2>1. m.last = i /\ m.head = g
        BY <1>11
  <2> QED
      BY <1>5, <1>9, <1>10, <2>1 DEF ManifestCovers
<1>14. Unspoiled'
      BY <1>2, <1>5, <1>7 DEF RotationInv, Unspoiled, EngineWrote
<1>15. EngineShape(e)
  <2>1. i + 1 \in Nat
        OBVIOUS
  <2> QED
      BY <1>4, <2>1, IdleShape
<1>16. EngineVouches(e)' /\ EngineWrote(e)'
      BY <1>5, <1>6, <1>9, <1>10 DEF EngineVouches, EngineWrote
<1>17. EngineShape(engine)' /\ EngineVouches(engine)' /\ EngineWrote(engine)'
      BY <1>5, <1>15, <1>16
<1>18. /\ manifest' = {} => returned' = {} \/ Deleted'
       /\ manifest' = {} \/ \E q : manifest' = {q} /\ ManifestCovers(q)'
      BY <1>5, <1>7, <1>12, <1>13
<1> QED
    BY <1>5, <1>8, <1>14, <1>17, <1>18 DEF RotationInv

LEMMA RaiseKeepsInv ==
  ASSUME RotationInv, FlushRaises PROVE RotationInv'
<1>1. PICK i, h, x :
        /\ i \in Nat /\ x \in Slices
        /\ engine = [at |-> engine.at, index |-> i, prev |-> h, slice |-> x]
        /\ IsSequence(h) /\ (bereft = FALSE => Vouches(h, i))
      BY FlushingEngine DEF FlushRaises
<1> i \in Nat /\ x \in Slices
    BY <1>1
<1>2. engine.index = i /\ engine.prev = h
      BY <1>1
<1>3. PICK e : e = [at |-> "idle", index |-> i, prev |-> h]
      OBVIOUS
<1>4. e.at = "idle" /\ e.index = i /\ e.prev = h
      BY <1>3
<1>5. EngineShape(e) /\ EngineVouches(e) /\ EngineWrote(e)
      BY <1>1, <1>3, <1>4 DEF EngineShape, EngineVouches, EngineWrote
<1> QED
    BY <1>2, <1>3, <1>5, EngineMoves DEF FlushRaises, EngineAt

LEMMA HarmKeepsInv ==
  ASSUME RotationInv, NEW c \in DOMAIN chunks, Harm(c) PROVE RotationInv'
<1>1. DOMAIN chunks' \in SUBSET (DOMAIN chunks)
      BY DEF Harm, WriteFile
<1>2. /\ harmed' = [chunks |-> harmed.chunks + 1, manifest |-> harmed.manifest]
      /\ harmed.chunks \in Nat /\ harmed.manifest \in Nat
      /\ UNCHANGED <<manifest, engine, returned, bereft>>
      BY DEF Harm, RotationInv, FilesShape
<1>3. /\ harmed' \in [chunks : Nat, manifest : Nat] /\ harmed'.chunks # 0
      /\ harmed'.manifest = harmed.manifest
      BY <1>2
<1>4. IsFiniteSet(DOMAIN chunks')
      BY <1>1, FS_Subset DEF RotationInv, FilesShape
<1>5. FilesShape' /\ Unspoiled' /\ (Deleted' <=> Deleted)
      BY <1>1, <1>2, <1>3, <1>4 DEF RotationInv, FilesShape, Unspoiled, Deleted
<1>6. \A g, j : Vouches(g, j)' <=> Vouches(g, j)
      BY <1>2 DEF Vouches
<1>7. EngineShape(engine)' /\ EngineVouches(engine)'
      BY <1>2, <1>6 DEF RotationInv, EngineVouches
<1>8. EngineWrote(engine)'
      BY <1>2, <1>3, <1>5 DEF RotationInv, EngineWrote
<1>9. \A m : ManifestCovers(m)' <=> ManifestCovers(m)
      BY <1>2, <1>6 DEF ManifestCovers
<1> QED
    BY <1>2, <1>5, <1>7, <1>8, <1>9 DEF RotationInv

LEMMA DeleteKeepsInv ==
  ASSUME RotationInv, DeleteManifest PROVE RotationInv'
<1>1. /\ harmed' = [chunks |-> harmed.chunks, manifest |-> harmed.manifest + 1]
      /\ harmed.chunks \in Nat /\ harmed.manifest \in Nat /\ manifest' = {}
      /\ UNCHANGED <<chunks, engine, returned, bereft>>
      BY DEF DeleteManifest, RotationInv, FilesShape
<1>2. harmed' \in [chunks : Nat, manifest : Nat] /\ harmed'.chunks = harmed.chunks /\ Deleted'
      BY <1>1 DEF Deleted
<1>3. FilesShape' /\ OnDisk' = OnDisk
      BY <1>1, <1>2 DEF RotationInv, FilesShape, OnDisk
<1>4. Unspoiled'
      BY <1>1, <1>2, <1>3 DEF RotationInv, Unspoiled
<1>5. \A g, j : Vouches(g, j)' <=> Vouches(g, j)
      BY <1>1 DEF Vouches
<1>6. EngineShape(engine)' /\ EngineVouches(engine)'
      BY <1>1, <1>5 DEF RotationInv, EngineVouches
<1>7. EngineWrote(engine)'
      BY <1>1, <1>2, <1>3 DEF RotationInv, EngineWrote
<1> QED
    BY <1>1, <1>2, <1>3, <1>4, <1>6, <1>7 DEF RotationInv

LEMMA RotationStep == RotationInv /\ [RotationNext]_rotationVars => RotationInv'
<1> SUFFICES ASSUME RotationInv, [RotationNext]_rotationVars PROVE RotationInv'
    OBVIOUS
<1>1. CASE ManagerDies
  <2>1. PICK e : e = [at |-> "down"]
        OBVIOUS
  <2>2. e.at = "down"
        BY <2>1
  <2>3. EngineShape(e) /\ EngineVouches(e) /\ EngineWrote(e)
        BY <2>1, <2>2 DEF EngineShape, EngineVouches, EngineWrote
  <2> QED
      BY <1>1, <2>1, <2>3, EngineMoves DEF ManagerDies
<1>2. CASE UNCHANGED rotationVars
  <2>1. PICK e : e = engine
        OBVIOUS
  <2>2. EngineShape(e) /\ EngineVouches(e) /\ EngineWrote(e)
        BY <2>1 DEF RotationInv
  <2> QED
      BY <1>2, <2>1, <2>2, EngineMoves DEF rotationVars
<1> QED
    BY <1>1, <1>2, StartKeepsInv, OpenKeepsInv, ChunkKeepsInv, ManifestKeepsInv, ReturnKeepsInv,
       RaiseKeepsInv, HarmKeepsInv, DeleteKeepsInv DEF RotationNext

\* The manifest vouches for every acknowledged slice, for any number of
\* chunks, deaths and harmed files: what flush() returned for stays on disk
\* while nobody changes the chunk files, even if the manifest is deleted;
\* verify() over a manifest notices when somebody did, unless a manager was
\* started without one on the changed files; and no manager is stuck after a
\* flush() that returned unless the manifest was deleted
\* (log_rotation_v1.flush, _resume_state, verify).
THEOREM ManifestAlwaysVouches == RotationSpec => []ManifestVouches
<1>1. RotationInit => RotationInv
  <2> SUFFICES ASSUME RotationInit PROVE RotationInv
      OBVIOUS
  <2>1. /\ DOMAIN chunks = {} /\ manifest = {} /\ returned = {} /\ bereft = FALSE
        /\ harmed = [chunks |-> 0, manifest |-> 0]
        BY DEF RotationInit
  <2>2. FilesShape /\ Unspoiled
        BY <2>1, FS_EmptySet DEF FilesShape, Unspoiled
  <2>3. engine = [at |-> "down"] /\ engine.at = "down"
        BY DEF RotationInit
  <2>4. EngineShape(engine) /\ EngineVouches(engine) /\ EngineWrote(engine)
        BY <2>3 DEF EngineShape, EngineVouches, EngineWrote
  <2> QED
      BY <2>1, <2>2, <2>4 DEF RotationInv
<1> QED
    BY <1>1, RotationStep, VouchedByInv, PTL DEF RotationSpec

-----------------------------------------------------------------------------
(* What a counterparty is told (ContractRetention.tla).                     *)

LEMMA LesserOfTwo ==
  ASSUME NEW a \in Nat, NEW b \in Nat
  PROVE  Min({a, b}) = IF a <= b THEN a ELSE b
<1> DEFINE m == IF a <= b THEN a ELSE b
<1>1. m \in {a, b} /\ \A y \in {a, b} : m <= y
      OBVIOUS
<1>2. \A x \in {a, b} : (\A y \in {a, b} : x <= y) => x = m
      OBVIOUS
<1> HIDE DEF m
<1>3. Min({a, b}) = m
      BY <1>1, <1>2 DEF Min
<1> QED
    BY <1>3 DEF m

LEMMA PrefixOf ==
  ASSUME NEW s, IsSequence(s), NEW n \in Nat, n <= Len(s)
  PROVE  /\ IsSequence(SubSeq(s, 1, n)) /\ Len(SubSeq(s, 1, n)) = n
         /\ \A i \in 1..n : SubSeq(s, 1, n)[i] = s[i]
<1>1. PICK S : s \in Seq(S)
      BY DEF IsSequence
<1>2. SubSeq(s, 1, n) \in Seq(S) /\ Len(SubSeq(s, 1, n)) = n
      BY <1>1
<1>3. \A i \in 1..n : SubSeq(s, 1, n)[i] = s[i]
      BY <1>1
<1> QED
    BY <1>2, <1>3 DEF IsSequence

LEMMA SequenceDomain ==
  ASSUME NEW s, IsSequence(s) PROVE Len(s) \in Nat /\ DOMAIN s = 1..Len(s)
BY DEF IsSequence

\* Removing an element moves the ones after it up by one.
LEMMA RemovedFrom ==
  ASSUME NEW s, IsSequence(s), NEW i \in 1..Len(s)
  PROVE  /\ IsSequence(RemoveAt(s, i)) /\ Len(RemoveAt(s, i)) = Len(s) - 1
         /\ \A k \in 1..(Len(s) - 1) : RemoveAt(s, i)[k] = IF k < i THEN s[k] ELSE s[k + 1]
<1>1. PICK S : s \in Seq(S)
      BY DEF IsSequence
<1>2. PICK n \in Nat : n = Len(s)
      BY <1>1
<1> DEFINE a == SubSeq(s, 1, i - 1)
           b == SubSeq(s, i + 1, Len(s))
<1>3. a \in Seq(S) /\ Len(a) = i - 1 /\ \A k \in 1..(i - 1) : a[k] = s[k]
      BY <1>1
<1>4. b \in Seq(S) /\ Len(b) = n - i
  <2>1. CASE i < n
        BY <1>1, <1>2, <2>1
  <2>2. CASE i = n
        BY <1>1, <1>2, <2>2
  <2> QED
      BY <1>2, <2>1, <2>2
<1>5. \A k \in 1..(n - i) : b[k] = s[i + k]
      BY <1>1, <1>2
<1>6. RemoveAt(s, i) = a \o b
      BY DEF RemoveAt
<1> HIDE DEF a, b
<1>7. IsSequence(a) /\ IsSequence(b)
      BY <1>3, <1>4 DEF IsSequence
<1>8. /\ IsSequence(a \o b) /\ Len(a \o b) = n - 1
      /\ \A k \in 1..(i - 1) : (a \o b)[k] = a[k]
      /\ \A k \in 1..(n - i) : (a \o b)[(i - 1) + k] = b[k]
  <2>1. PICK p, q, t : p = Len(a) /\ q = Len(b) /\ t = a \o b
        OBVIOUS
  <2>2. p = i - 1 /\ q = n - i
        BY <1>3, <1>4, <2>1
  <2>3. /\ IsSequence(t) /\ Len(t) = p + q
        /\ \A k \in 1..p : t[k] = a[k]
        /\ \A k \in 1..q : t[p + k] = b[k]
        BY <1>7, <2>1, JoinedSequence
  <2>4. p + q = n - 1
        BY <1>2, <2>2
  <2> QED
      BY <2>1, <2>2, <2>3, <2>4
<1>9. ASSUME NEW k \in 1..(n - 1) PROVE (a \o b)[k] = IF k < i THEN s[k] ELSE s[k + 1]
  <2>1. CASE k < i
        BY <1>2, <1>3, <1>8, <2>1
  <2>2. CASE ~(k < i)
    <3>1. PICK d \in 1..(n - i) : k = (i - 1) + d
      <4>1. k - (i - 1) \in 1..(n - i) /\ k = (i - 1) + (k - (i - 1))
            BY <1>2, <2>2
      <4> QED
          BY <4>1
    <3>2. (a \o b)[k] = s[i + d]
          BY <1>5, <1>8, <3>1
    <3>3. i + d = k + 1
          BY <1>2, <3>1
    <3> QED
        BY <2>2, <3>2, <3>3
  <2> QED
      BY <2>1, <2>2
<1> QED
    BY <1>2, <1>6, <1>8, <1>9

LEMMA SliceIsPrefix ==
  ASSUME IsSequence(holdings)
  PROVE  \E n \in Nat :
           /\ SliceRead = SubSeq(holdings, 1, n)
           /\ n <= ReadLimit /\ n <= Len(holdings) /\ (n = ReadLimit \/ n = Len(holdings))
           /\ IsSequence(SliceRead) /\ Len(SliceRead) = n
           /\ \A i \in 1..n : SliceRead[i] = holdings[i]
<1>1. Len(holdings) \in Nat /\ ReadLimit \in Nat
      BY SequenceDomain, RetentionAssumption
<1>2. PICK n \in Nat : n = IF ReadLimit <= Len(holdings) THEN ReadLimit ELSE Len(holdings)
      BY <1>1
<1>3. SliceRead = SubSeq(holdings, 1, n)
      BY <1>1, <1>2, LesserOfTwo DEF SliceRead
<1>4. n <= ReadLimit /\ n <= Len(holdings) /\ (n = ReadLimit \/ n = Len(holdings))
      BY <1>1, <1>2
<1>5. /\ IsSequence(SliceRead) /\ Len(SliceRead) = n
      /\ \A i \in 1..n : SliceRead[i] = holdings[i]
      BY <1>3, <1>4, PrefixOf
<1> QED
    BY <1>3, <1>4, <1>5

\* A row hash is given out once, so two rows with one hash are one row, or one
\* of them was edited under it.
TellsApart(S) ==
  /\ \A r \in S : /\ r = [kind |-> r.kind, id |-> r.id, on |-> r.on, scope |-> r.scope,
                          hash |-> r.hash]
                  /\ r.hash \in 1..serial
  /\ \A r, q \in S : r.hash = q.hash => r = q \/ r.hash \in edited

\* The rows there are and the ones the receipt was issued over are among rows
\* their hashes tell apart.
PartitionInv ==
  /\ serial \in Nat
  /\ \E S : holdings \in Seq(S) /\ covered \in Seq(S) /\ TellsApart(S)

\* The receipt is over the rows that were read.
ReceiptInv == receipt = NoReceipt \/ (receipt = Receipt(covered) /\ Len(covered) <= ReadLimit)

\* The rows the sweep read first are still the first ones.
SweepInv ==
  /\ tampered \in Nat
  /\ swept.at = "ingests" /\ tampered = 0 => swept.mark \in Nat /\ swept.mark <= Len(holdings)

FindingsHonest ==
  tampered = 0 =>
    \A f \in findings : f.status \in {"not_deleted", "WITHIN_TERM"} =>
      ~ \E i \in DOMAIN OfKind(SubSeq(holdings, 1, f.mark), "deletion") :
          LET r == OfKind(SubSeq(holdings, 1, f.mark), "deletion")[i]
          IN r.id = f.id /\ r.scope = f.scope

RetentionInv == PartitionInv /\ ReceiptInv /\ SweepInv /\ FindingsHonest

LEMMA PartitionLists ==
  ASSUME PartitionInv PROVE IsSequence(holdings) /\ IsSequence(covered)
BY DEF PartitionInv, IsSequence

LEMMA ReceiptVerifies ==
  ASSUME PartitionInv, ReceiptInv, receipt # NoReceipt
  PROVE  VerifyContinuity(receipt, SliceRead) = "CONTINUOUS" <=>
           Len(covered) <= Len(holdings) /\ \A i \in DOMAIN covered : InPlace(i)
<1>1. PICK n \in Nat : n = Len(covered) /\ DOMAIN covered = 1..n
      BY PartitionLists, SequenceDomain
<1>2. /\ n <= ReadLimit /\ receipt.count = n
      /\ receipt.head = [i \in 1..n |-> covered[i].hash]
      BY <1>1 DEF ReceiptInv, Receipt, PartitionHead
<1>3. PICK m \in Nat :
        /\ m <= ReadLimit /\ m <= Len(holdings) /\ (m = ReadLimit \/ m = Len(holdings))
        /\ IsSequence(SliceRead) /\ Len(SliceRead) = m
        /\ \A i \in 1..m : SliceRead[i] = holdings[i]
      BY PartitionLists, SliceIsPrefix
<1>4. Len(holdings) \in Nat /\ ReadLimit \in Nat
      BY PartitionLists, SequenceDomain, RetentionAssumption
<1>5. n <= m <=> n <= Len(holdings)
      BY <1>2, <1>3, <1>4
<1>6. ASSUME n <= m
      PROVE  PartitionHead(SubSeq(SliceRead, 1, n)) = [i \in 1..n |-> holdings[i].hash]
  <2>1. PICK t : t = SubSeq(SliceRead, 1, n)
        OBVIOUS
  <2>2. IsSequence(t) /\ Len(t) = n /\ \A i \in 1..n : t[i] = SliceRead[i]
        BY <1>3, <1>6, <2>1, PrefixOf
  <2>3. DOMAIN t = 1..n
        BY <2>2, SequenceDomain
  <2>4. \A i \in 1..n : t[i] = holdings[i]
        BY <1>3, <1>6, <2>2
  <2> QED
      BY <2>1, <2>3, <2>4 DEF PartitionHead
<1>7. VerifyContinuity(receipt, SliceRead) = "CONTINUOUS" <=>
        n <= m /\ PartitionHead(SubSeq(SliceRead, 1, n)) = receipt.head
      BY <1>2, <1>3 DEF VerifyContinuity
<1>8. PICK S : holdings \in Seq(S) /\ covered \in Seq(S) /\ TellsApart(S)
      BY DEF PartitionInv
<1>9. ASSUME n <= m
      PROVE  [i \in 1..n |-> holdings[i].hash] = receipt.head <=> \A i \in 1..n : InPlace(i)
  <2>1. 1..n \subseteq 1..Len(holdings)
        BY <1>3, <1>4, <1>9
  <2>2. ASSUME NEW i \in 1..n PROVE holdings[i] \in S /\ covered[i] \in S
        BY <1>1, <1>8, <2>1
  <2>3. ASSUME NEW i \in 1..n PROVE holdings[i].hash = covered[i].hash <=> InPlace(i)
    <3>1. holdings[i].hash = covered[i].hash =>
            holdings[i] = covered[i] \/ covered[i].hash \in edited
          BY <1>8, <2>2 DEF TellsApart
    <3> QED
        BY <3>1 DEF InPlace
  <2>4. [i \in 1..n |-> holdings[i].hash] = receipt.head <=>
          \A i \in 1..n : holdings[i].hash = covered[i].hash
        BY <1>2
  <2> QED
      BY <2>3, <2>4
<1> QED
    BY <1>1, <1>5, <1>6, <1>7, <1>9

LEMMA HonestByInv == RetentionInv => AttestationHonest
<1> SUFFICES ASSUME RetentionInv PROVE AttestationHonest
    OBVIOUS
<1>1. receipt # NoReceipt =>
        (VerifyContinuity(receipt, SliceRead) = "CONTINUOUS" <=>
           Len(covered) <= Len(holdings) /\ \A i \in DOMAIN covered : InPlace(i))
      BY ReceiptVerifies DEF RetentionInv
<1> QED
    BY <1>1 DEF RetentionInv, FindingsHonest, AttestationHonest

\* Reading a prefix finds a part of what reading everything finds.
LEMMA PrefixReads ==
  ASSUME NEW s, IsSequence(s), NEW n \in Nat, n <= Len(s), NEW kind,
         NEW i \in DOMAIN OfKind(SubSeq(s, 1, n), kind)
  PROVE  /\ i \in DOMAIN OfKind(s, kind)
         /\ OfKind(SubSeq(s, 1, n), kind)[i] = OfKind(s, kind)[i]
<1> DEFINE t == SubSeq(s, 1, n)
           Found(q) == {k \in DOMAIN q : q[k].kind = kind}
<1>1. Len(s) \in Nat /\ DOMAIN s = 1..Len(s) /\ DOMAIN t = 1..n /\ \A k \in 1..n : t[k] = s[k]
      BY PrefixOf, SequenceDomain
<1> HIDE DEF t
<1>2. /\ i \in Found(t) /\ Cardinality({j \in Found(t) : j <= i}) <= ReadLimit
      /\ OfKind(t, kind)[i] = t[i]
      BY DEF OfKind, t
<1>3. i \in 1..n /\ i \in Found(s) /\ t[i] = s[i]
      BY <1>1, <1>2
<1>4. {j \in Found(t) : j <= i} = {j \in Found(s) : j <= i}
      BY <1>1, <1>3
<1>5. i \in DOMAIN OfKind(s, kind) /\ OfKind(s, kind)[i] = s[i]
      BY <1>2, <1>3, <1>4 DEF OfKind
<1> QED
    BY <1>2, <1>3, <1>5 DEF t

\* An ingest is reported as undeleted only if no deletion of it was read.
LEMMA UndeletedHasNoDeletion ==
  ASSUME NEW ingests, NEW deletions, NEW now, NEW mark,
         NEW f \in Assess(ingests, deletions, now, mark),
         f.status \in {"not_deleted", "WITHIN_TERM"}
  PROVE  /\ f.mark = mark
         /\ ~ \E i \in DOMAIN deletions : deletions[i].id = f.id /\ deletions[i].scope = f.scope
<1>1. PICK id, scope :
        f = [id |-> id, scope |-> scope, mark |-> mark,
             status |-> RetentionStatus(ingests, deletions, id, scope, now)]
      BY DEF Assess
<1>2. /\ f.id = id /\ f.scope = scope /\ f.mark = mark
      /\ f.status = RetentionStatus(ingests, deletions, id, scope, now)
      BY <1>1
<1> DEFINE gone == {i \in RowsFor(deletions, id) : deletions[i].scope = scope}
<1>3. gone = {}
  <2> HIDE DEF gone
  <2>1. gone # {} => f.status \notin {"not_deleted", "WITHIN_TERM"}
        BY <1>2 DEF RetentionStatus, gone
  <2> QED
      BY <2>1
<1> QED
    BY <1>2, <1>3 DEF RowsFor

\* A row with a hash of its own may join rows that are told apart.
LEMMA NewRowTells ==
  ASSUME serial \in Nat, serial' = serial + 1, edited' = edited, NEW S, TellsApart(S), NEW r,
         r = [kind |-> r.kind, id |-> r.id, on |-> r.on, scope |-> r.scope, hash |-> r.hash],
         r.hash = serial + 1
  PROVE  TellsApart(S \cup {r})'
<1>1. \A q \in S : q.hash \in 1..serial' /\ q.hash # serial + 1
      BY DEF TellsApart
<1>2. r.hash \in 1..serial'
      OBVIOUS
<1>3. ASSUME NEW q \in S \cup {r}
      PROVE  /\ q = [kind |-> q.kind, id |-> q.id, on |-> q.on, scope |-> q.scope,
                     hash |-> q.hash]
             /\ q.hash \in 1..serial'
      BY <1>1, <1>2 DEF TellsApart
<1>4. ASSUME NEW p \in S \cup {r}, NEW q \in S \cup {r}, p.hash = q.hash
      PROVE  p = q \/ p.hash \in edited'
      BY <1>1, <1>4 DEF TellsApart
<1> QED
    BY <1>3, <1>4 DEF TellsApart

LEMMA GrowthKeepsInv ==
  ASSUME RetentionInv, NEW kind, NEW id, NEW on, NEW scope, Chained(kind, id, on, scope),
         findings' = {}, UNCHANGED <<swept, receipt, covered, tampered, edited>>
  PROVE  RetentionInv'
<1>1. PICK r : r = [kind |-> kind, id |-> id, on |-> on, scope |-> scope, hash |-> serial + 1]
      OBVIOUS
<1>2. serial \in Nat /\ serial' = serial + 1 /\ holdings' = Append(holdings, r)
      BY <1>1 DEF RetentionInv, PartitionInv, Chained
<1>3. PICK S : holdings \in Seq(S) /\ covered \in Seq(S) /\ TellsApart(S)
      BY DEF RetentionInv, PartitionInv
<1>4. TellsApart(S \cup {r})'
      BY <1>1, <1>2, <1>3, NewRowTells
<1>5. /\ holdings' \in Seq(S \cup {r}) /\ covered' \in Seq(S \cup {r})
      /\ Len(holdings) \in Nat /\ Len(holdings') = Len(holdings) + 1
      BY <1>2, <1>3
<1>6. PartitionInv'
      BY <1>2, <1>4, <1>5 DEF PartitionInv
<1>7. ReceiptInv'
      BY DEF RetentionInv, ReceiptInv, Receipt, PartitionHead
<1>8. SweepInv'
      BY <1>5 DEF RetentionInv, SweepInv
<1>9. FindingsHonest'
      BY DEF FindingsHonest
<1> QED
    BY <1>6, <1>7, <1>8, <1>9 DEF RetentionInv

\* A step of the clock or of the sweep.
LEMMA ReadingKeepsInv ==
  ASSUME RetentionInv, UNCHANGED <<holdings, receipt, serial, covered, tampered, edited>>,
         SweepInv', FindingsHonest'
  PROVE  RetentionInv'
<1>1. PartitionInv'
      BY DEF RetentionInv, PartitionInv, TellsApart
<1>2. ReceiptInv'
      BY DEF RetentionInv, ReceiptInv, Receipt, PartitionHead
<1> QED
    BY <1>1, <1>2 DEF RetentionInv

LEMMA SweepDeletionsKeepsInv ==
  ASSUME RetentionInv, SweepDeletions PROVE RetentionInv'
<1>1. UNCHANGED <<holdings, receipt, serial, covered, tampered, edited>> /\ swept.at = "ingests"
      BY DEF SweepDeletions
<1>2. SweepInv'
      BY <1>1 DEF RetentionInv, SweepInv, SweepDeletions, NotSweeping
<1>3. FindingsHonest'
  <2> SUFFICES ASSUME tampered = 0, NEW f \in findings',
                      f.status \in {"not_deleted", "WITHIN_TERM"},
                      NEW i \in DOMAIN OfKind(SubSeq(holdings, 1, f.mark), "deletion"),
                      LET r == OfKind(SubSeq(holdings, 1, f.mark), "deletion")[i]
                      IN r.id = f.id /\ r.scope = f.scope
               PROVE  FALSE
      BY <1>1 DEF FindingsHonest
  <2>1. IsSequence(holdings) /\ swept.mark \in Nat /\ swept.mark <= Len(holdings)
        BY <1>1, PartitionLists DEF RetentionInv, SweepInv
  <2>2. f \in Assess(swept.rows, OfKind(holdings, "deletion"), date, swept.mark)
        BY DEF SweepDeletions
  <2>3. /\ f.mark = swept.mark
        /\ ~ \E k \in DOMAIN OfKind(holdings, "deletion") :
               /\ OfKind(holdings, "deletion")[k].id = f.id
               /\ OfKind(holdings, "deletion")[k].scope = f.scope
        BY <2>2, UndeletedHasNoDeletion
  <2>4. /\ i \in DOMAIN OfKind(holdings, "deletion")
        /\ OfKind(SubSeq(holdings, 1, f.mark), "deletion")[i] = OfKind(holdings, "deletion")[i]
        BY <2>1, <2>3, PrefixReads
  <2> QED
      BY <2>3, <2>4
<1> QED
    BY <1>1, <1>2, <1>3, ReadingKeepsInv

LEMMA AttestKeepsInv ==
  ASSUME RetentionInv, BuildAttestation PROVE RetentionInv'
<1>1. UNCHANGED <<holdings, swept, serial, tampered, edited>> /\ covered' = SliceRead
      BY DEF BuildAttestation
<1>2. SweepInv'
      BY <1>1 DEF RetentionInv, SweepInv
<1>3. IsSequence(holdings)
      BY PartitionLists DEF RetentionInv
<1>4. PICK n \in Nat :
        /\ SliceRead = SubSeq(holdings, 1, n)
        /\ n <= ReadLimit /\ n <= Len(holdings)
        /\ IsSequence(SliceRead) /\ Len(SliceRead) = n
        /\ \A i \in 1..n : SliceRead[i] = holdings[i]
      BY <1>3, SliceIsPrefix
<1>5. PartitionInv'
  <2>1. PICK S : holdings \in Seq(S) /\ TellsApart(S)
        BY DEF RetentionInv, PartitionInv
  <2>2. SubSeq(holdings, 1, n) \in Seq(S)
        BY <1>4, <2>1
  <2>3. covered' \in Seq(S) /\ holdings' \in Seq(S) /\ TellsApart(S)'
        BY <1>1, <1>4, <2>1, <2>2 DEF TellsApart
  <2> QED
      BY <1>1, <2>3 DEF RetentionInv, PartitionInv
<1>6. ReceiptInv'
  <2>1. receipt' = Receipt(covered')
        BY <1>1 DEF BuildAttestation
  <2>2. Len(covered') <= ReadLimit
        BY <1>1, <1>4
  <2> QED
      BY <2>1, <2>2 DEF ReceiptInv, Receipt, PartitionHead
<1>7. FindingsHonest'
  <2> SUFFICES ASSUME NEW f \in findings',
                      f.status \in {"not_deleted", "WITHIN_TERM"},
                      NEW i \in DOMAIN OfKind(SubSeq(holdings, 1, f.mark), "deletion"),
                      LET r == OfKind(SubSeq(holdings, 1, f.mark), "deletion")[i]
                      IN r.id = f.id /\ r.scope = f.scope
               PROVE  FALSE
      BY <1>1 DEF FindingsHonest
  <2>1. PICK t : t = SliceRead
        OBVIOUS
  <2>2. f \in Assess(OfKind(t, "ingest"), OfKind(t, "deletion"), date, n)
        BY <1>4, <2>1 DEF BuildAttestation
  <2>3. /\ f.mark = n
        /\ ~ \E k \in DOMAIN OfKind(t, "deletion") :
               OfKind(t, "deletion")[k].id = f.id /\ OfKind(t, "deletion")[k].scope = f.scope
        BY <2>2, UndeletedHasNoDeletion
  <2>4. t = SubSeq(holdings, 1, f.mark)
        BY <1>4, <2>1, <2>3
  <2> QED
      BY <2>3, <2>4
<1> QED
    BY <1>2, <1>5, <1>6, <1>7 DEF RetentionInv

\* Once the table was changed behind the ledger's back, only the hashes speak.
LEMMA TamperingKeepsRest ==
  ASSUME RetentionInv, tampered' = tampered + 1, findings' = {},
         UNCHANGED <<swept, receipt, covered>>
  PROVE  ReceiptInv' /\ SweepInv' /\ FindingsHonest'
<1>1. tampered \in Nat /\ tampered' \in Nat /\ tampered' # 0
      BY DEF RetentionInv, SweepInv
<1>2. ReceiptInv'
      BY DEF RetentionInv, ReceiptInv, Receipt, PartitionHead
<1> QED
    BY <1>1, <1>2 DEF SweepInv, FindingsHonest

LEMMA OneRow == ASSUME NEW S, NEW r \in S PROVE <<r>> \in Seq(S)
OBVIOUS

\* Whatever is done to the list, its rows are old ones and the forged one.
LEMMA AlteredRows ==
  ASSUME NEW S, NEW n \in Nat, NEW s \in Seq(S), n = Len(s), NEW i \in 1..n, NEW r \in S
  PROVE  /\ [s EXCEPT ![i] = r] \in Seq(S)
         /\ \A j \in 1..n : [s EXCEPT ![i] = s[j], ![j] = s[i]] \in Seq(S)
         /\ RemoveAt(s, i) \in Seq(S)
         /\ InsertAt(s, i, r) \in Seq(S)
<1>1. s \in [1..n -> S]
      OBVIOUS
<1>2. [s EXCEPT ![i] = r] \in Seq(S)
  <2>1. [s EXCEPT ![i] = r] \in [1..n -> S]
        BY <1>1
  <2> QED
      BY <2>1, NumberedIsSequence
<1>3. ASSUME NEW j \in 1..n PROVE [s EXCEPT ![i] = s[j], ![j] = s[i]] \in Seq(S)
  <2>1. s[i] \in S /\ s[j] \in S
        BY <1>1
  <2>2. [s EXCEPT ![i] = s[j], ![j] = s[i]] \in [1..n -> S]
        BY <1>1, <2>1
  <2> QED
      BY <2>2, NumberedIsSequence
<1>4. SubSeq(s, 1, i - 1) \in Seq(S)
      OBVIOUS
<1>5. SubSeq(s, i + 1, Len(s)) \in Seq(S)
  <2>1. CASE i < n
        BY <2>1
  <2>2. CASE i = n
        BY <2>2
  <2> QED
      BY <2>1, <2>2
<1>6. SubSeq(s, i, Len(s)) \in Seq(S)
      OBVIOUS
<1>7. RemoveAt(s, i) \in Seq(S)
  <2>1. PICK a, b : a = SubSeq(s, 1, i - 1) /\ b = SubSeq(s, i + 1, Len(s))
        OBVIOUS
  <2>2. a \o b \in Seq(S)
        BY <1>4, <1>5, <2>1
  <2> QED
      BY <2>1, <2>2 DEF RemoveAt
<1>8. InsertAt(s, i, r) \in Seq(S)
  <2>1. PICK a, b : a = SubSeq(s, 1, i - 1) /\ b = SubSeq(s, i, Len(s))
        OBVIOUS
  <2>2. PICK u : u = <<r>> /\ u \in Seq(S)
        BY OneRow
  <2>3. a \o u \in Seq(S)
        BY <1>4, <2>1, <2>2
  <2>4. (a \o u) \o b \in Seq(S)
        BY <1>6, <2>1, <2>3
  <2> QED
      BY <2>1, <2>2, <2>4 DEF InsertAt
<1> QED
    BY <1>2, <1>3, <1>7, <1>8

LEMMA TamperKeepsInv ==
  ASSUME RetentionInv, NEW i \in DOMAIN holdings, Tamper(i) PROVE RetentionInv'
<1>1. PICK S : holdings \in Seq(S) /\ covered \in Seq(S) /\ TellsApart(S)
      BY DEF RetentionInv, PartitionInv
<1>2. PICK n \in Nat : n = Len(holdings) /\ DOMAIN holdings = 1..n
      BY <1>1
<1>3. PICK q : q = holdings[i] /\ q \in S
      BY <1>1, <1>2
<1>4. PICK r : r = [q EXCEPT !.hash = serial + 1]
      OBVIOUS
<1>5. q = [kind |-> q.kind, id |-> q.id, on |-> q.on, scope |-> q.scope, hash |-> q.hash]
      BY <1>1, <1>3 DEF TellsApart
<1>6. r = [kind |-> q.kind, id |-> q.id, on |-> q.on, scope |-> q.scope, hash |-> serial + 1]
      BY <1>4, <1>5
<1>7. serial \in Nat /\ serial' = serial + 1 /\ UNCHANGED <<covered, edited>>
      BY DEF RetentionInv, PartitionInv, Tamper
<1>8. TellsApart(S \cup {r})'
      BY <1>1, <1>6, <1>7, NewRowTells
<1>9. holdings' \in Seq(S \cup {r}) /\ covered' \in Seq(S \cup {r})
  <2>1. holdings \in Seq(S \cup {r}) /\ i \in 1..n /\ r \in S \cup {r}
        BY <1>1, <1>2
  <2>2. /\ [holdings EXCEPT ![i] = r] \in Seq(S \cup {r})
        /\ \A j \in 1..n :
             [holdings EXCEPT ![i] = holdings[j], ![j] = holdings[i]] \in Seq(S \cup {r})
        /\ RemoveAt(holdings, i) \in Seq(S \cup {r})
        /\ InsertAt(holdings, i, r) \in Seq(S \cup {r})
        BY <1>2, <2>1, AlteredRows
  <2>3. r = [holdings[i] EXCEPT !.hash = serial + 1]
        BY <1>3, <1>4
  <2>4. \/ holdings' = [holdings EXCEPT ![i] = r]
        \/ holdings' = RemoveAt(holdings, i)
        \/ holdings' = InsertAt(holdings, i, r)
        \/ \E j \in 1..n : holdings' = [holdings EXCEPT ![i] = holdings[j], ![j] = holdings[i]]
        BY <1>2, <2>3, Zenon DEF Tamper, Altered
  <2>5. holdings' \in Seq(S \cup {r})
        BY <2>2, <2>4, Zenon
  <2>6. covered' \in Seq(S \cup {r})
        BY <1>1, <1>7
  <2> QED
      BY <2>5, <2>6
<1>10. PartitionInv'
      BY <1>7, <1>8, <1>9 DEF PartitionInv
<1> QED
    BY <1>10, TamperingKeepsRest DEF Tamper, RetentionInv

LEMMA EditKeepsInv ==
  ASSUME RetentionInv, NEW i \in DOMAIN holdings, NEW on, EditUnderHash(i, on)
  PROVE  RetentionInv'
<1>1. PICK S : holdings \in Seq(S) /\ covered \in Seq(S) /\ TellsApart(S)
      BY DEF RetentionInv, PartitionInv
<1>2. PICK n \in Nat : n = Len(holdings) /\ DOMAIN holdings = 1..n
      BY <1>1
<1>3. PICK q : q = holdings[i] /\ q \in S
      BY <1>1, <1>2
<1>4. PICK r : r = [q EXCEPT !.on = on]
      OBVIOUS
<1>5. q = [kind |-> q.kind, id |-> q.id, on |-> q.on, scope |-> q.scope, hash |-> q.hash]
      BY <1>1, <1>3 DEF TellsApart
<1>6. r = [kind |-> q.kind, id |-> q.id, on |-> on, scope |-> q.scope, hash |-> q.hash]
      BY <1>4, <1>5
<1>7. UNCHANGED <<serial, covered>> /\ edited' = edited \cup {q.hash}
      BY <1>3 DEF EditUnderHash
<1>8. TellsApart(S \cup {r})'
  <2>1. ASSUME NEW p \in S \cup {r}
        PROVE  /\ p = [kind |-> p.kind, id |-> p.id, on |-> p.on, scope |-> p.scope,
                       hash |-> p.hash]
               /\ p.hash \in 1..serial'
    <3>1. CASE p \in S
          BY <1>1, <1>7, <3>1 DEF TellsApart
    <3>2. CASE p = r
      <4>1. q.hash \in 1..serial
            BY <1>1, <1>3 DEF TellsApart
      <4> QED
          BY <1>6, <1>7, <3>2, <4>1
    <3> QED
        BY <3>1, <3>2
  <2>2. r.hash = q.hash
        BY <1>6
  <2>3. ASSUME NEW p \in S \cup {r}, NEW t \in S \cup {r}, p.hash = t.hash
        PROVE  p = t \/ p.hash \in edited'
    <3>1. CASE p \in S /\ t \in S
          BY <1>1, <1>7, <2>3, <3>1 DEF TellsApart
    <3>2. CASE p = r \/ t = r
          BY <1>7, <2>2, <2>3, <3>2
    <3> QED
        BY <3>1, <3>2
  <2> QED
      BY <2>1, <2>3 DEF TellsApart
<1>9. holdings' \in Seq(S \cup {r}) /\ covered' \in Seq(S \cup {r})
  <2>1. holdings' = [holdings EXCEPT ![i] = r]
        BY <1>3, <1>4 DEF EditUnderHash
  <2>2. holdings \in Seq(S \cup {r}) /\ i \in 1..n /\ r \in S \cup {r}
        BY <1>1, <1>2
  <2>3. [holdings EXCEPT ![i] = r] \in Seq(S \cup {r})
        BY <1>2, <2>2, AlteredRows
  <2> QED
      BY <1>1, <1>7, <2>1, <2>3
<1>10. PartitionInv'
      BY <1>7, <1>8, <1>9 DEF RetentionInv, PartitionInv
<1> QED
    BY <1>10, TamperingKeepsRest DEF EditUnderHash, RetentionInv

LEMMA RetentionStep == RetentionInv /\ [RetentionNext]_retentionVars => RetentionInv'
<1> SUFFICES ASSUME RetentionInv, [RetentionNext]_retentionVars PROVE RetentionInv'
    OBVIOUS
<1>1. CASE DatePasses
  <2>1. SweepInv' /\ FindingsHonest'
        BY <1>1 DEF DatePasses, RetentionInv, SweepInv, FindingsHonest
  <2> QED
      BY <1>1, <2>1, ReadingKeepsInv DEF DatePasses
<1>2. ASSUME NEW id \in Ingests, NEW on \in Times, RecordIngest(id, on) PROVE RetentionInv'
      BY <1>2, GrowthKeepsInv DEF RecordIngest
<1>3. ASSUME NEW id \in Ingests, NEW scope \in Scopes, NEW on \in Times,
             RecordDeletion(id, scope, on)
      PROVE  RetentionInv'
      BY <1>3, GrowthKeepsInv DEF RecordDeletion
<1>4. CASE SweepIngests
  <2>1. Len(holdings) \in Nat /\ tampered \in Nat
        BY PartitionLists, SequenceDomain DEF RetentionInv, SweepInv
  <2>2. SweepInv'
        BY <1>4, <2>1 DEF SweepIngests, SweepInv
  <2>3. FindingsHonest'
        BY <1>4 DEF SweepIngests, FindingsHonest
  <2> QED
      BY <1>4, <2>2, <2>3, ReadingKeepsInv DEF SweepIngests
<1>5. CASE UNCHANGED retentionVars
  <2>1. SweepInv' /\ FindingsHonest'
        BY <1>5 DEF retentionVars, RetentionInv, SweepInv, FindingsHonest
  <2> QED
      BY <1>5, <2>1, ReadingKeepsInv DEF retentionVars
<1> QED
    BY <1>1, <1>2, <1>3, <1>4, <1>5, SweepDeletionsKeepsInv, AttestKeepsInv, TamperKeepsInv,
       EditKeepsInv
    DEF RetentionNext

\* What a counterparty is told is what the record says, for any terms, rows,
\* read limit and number of changes behind the ledger's back: no ingest is
\* reported undeleted over a deletion that was on the chain when its row was
\* read, and a receipt verifies exactly when every row it covers is in its
\* place, as it was or edited under its old hash (contract_retention.sweep,
\* contract_attestation.build_attestation, verify_continuity).
THEOREM AttestationsAreHonest == RetentionSpec => []AttestationHonest
<1>1. RetentionInit => RetentionInv
  <2> SUFFICES ASSUME RetentionInit PROVE RetentionInv
      OBVIOUS
  <2>1. /\ holdings = <<>> /\ serial = 0 /\ receipt = NoReceipt /\ tampered = 0
        /\ findings = {} /\ swept = NotSweeping /\ covered = <<>>
        BY DEF RetentionInit
  <2>2. holdings \in Seq({}) /\ covered \in Seq({}) /\ TellsApart({})
        BY <2>1 DEF TellsApart
  <2>3. PartitionInv
        BY <2>1, <2>2 DEF PartitionInv
  <2>4. ReceiptInv /\ SweepInv /\ FindingsHonest
        BY <2>1 DEF ReceiptInv, SweepInv, FindingsHonest, NotSweeping
  <2> QED
      BY <2>3, <2>4 DEF RetentionInv
<1> QED
    BY <1>1, RetentionStep, HonestByInv, PTL DEF RetentionSpec

-----------------------------------------------------------------------------
(* Egress under a contract (ContractEgress.tla).                            *)

Stamped(rows) ==
  /\ IsSequence(rows)
  /\ \A i \in 1..Len(rows) : rows[i].kind = "approval" => rows[i].body \in ApprovalBodies

\* An approval that is live at a time has no revocation in effect by then:
\* whatever was recorded after the revocation, its time is what is compared.
LEMMA LiveIsUnrevoked ==
  ASSUME NEW rows, Stamped(rows), NEW id, NEW when,
         ApprovalLiveAt(LatestApproval(rows, id), when) = "PASS"
  PROVE  ~RevokedBy(rows, id, when)
<1> DEFINE ends == EndsGiven(rows, id)
           own == OwnRows(rows, id)
           a == LatestApproval(rows, id)
<1>1. Len(rows) \in Nat /\ DOMAIN rows = 1..Len(rows)
      BY SequenceDomain DEF Stamped
<1>2. \A i \in DOMAIN ApprovalRows(rows) : i \in 1..Len(rows) /\ rows[i].kind = "approval"
      BY <1>1 DEF ApprovalRows
<1>3. {i \in own : rows[i].body["ended"] # NoTime} = ends
      BY DEF OwnRows, EndsGiven
<1>4. a.ended = IF ends = {} THEN NoTime ELSE rows[Max(ends)].body["ended"]
  <2>1. a.ended = Merged(rows, own, "ended")
        BY DEF LatestApproval
  <2> QED
      BY <1>3, <2>1 DEF Merged
<1> HIDE DEF a, own
<1>5. /\ Parses(when) /\ a.ended # Garbled
      /\ ~(Parses(a.ended) /\ when >= a.ended)
      BY DEF ApprovalLiveAt, a
<1>6. ASSUME ends # {} PROVE a.ended \in Days \cup {NoTime, Garbled} /\ a.ended # NoTime
  <2>1. ends \in SUBSET (1..Len(rows))
        BY <1>2 DEF EndsGiven
  <2>2. IsFiniteSet(1..Len(rows))
        BY <1>1, FS_Interval
  <2>3. IsFiniteSet(ends) /\ ends \subseteq Nat
        BY <1>1, <2>1, <2>2, FS_Subset
  <2>4. PICK k \in ends : k = Max(ends)
        BY <1>6, <2>3, GreatestChunk
  <2>5. k \in 1..Len(rows) /\ rows[k].kind = "approval" /\ rows[k].body.ended # NoTime
        BY <1>2 DEF EndsGiven
  <2>6. rows[k].body \in ApprovalBodies
        BY <2>5 DEF Stamped
  <2>7. rows[k].body \in [since : Days \cup {NoTime, Garbled}, until : Days \cup {NoTime, Garbled},
                          ended : Days \cup {NoTime, Garbled}]
        BY <2>6, EgressAssumption
  <2> HIDE DEF ends
  <2>8. a.ended = rows[k].body.ended
        BY <1>4, <1>6, <2>4
  <2>9. rows[k].body.ended \in Days \cup {NoTime, Garbled}
        BY <2>7
  <2> QED
      BY <2>5, <2>8, <2>9
<1>7. ASSUME ends # {} PROVE Parses(a.ended) /\ ~(when >= a.ended)
      BY <1>5, <1>6, <1>7 DEF Parses
<1>8. ends # {} => rows[Max(ends)].body.ended = a.ended
      BY <1>4
<1> HIDE DEF ends
<1>9. ASSUME ends # {} PROVE ~(~Parses(rows[Max(ends)].body.ended) \/ when >= rows[Max(ends)].body.ended)
      BY <1>7, <1>8, <1>9
<1> QED
    BY <1>9 DEF RevokedBy, ends

\* The rows a request read stay the first ones of the partition.
RequestInv ==
  /\ asking.at \in {"read", "decided"} => asking.seen \in Nat /\ asking.seen <= Len(partition)
  /\ asking.at = "decided" /\ asking.decision = "AUTHORIZED" /\ asking.seen > 0 =>
       ~RevokedBy(SubSeq(partition, 1, asking.seen), asking.req.ref, asking.when)

GrantInv(g) ==
  /\ g.row \in 1..Len(partition)
  /\ partition[g.row].kind = "egress" /\ partition[g.row].decision = "AUTHORIZED"
  /\ g.seen \in Nat /\ g.seen <= Len(partition)
  /\ g.seen > 0 => ~RevokedBy(SubSeq(partition, 1, g.seen), partition[g.row].ref, g.when)

EgressInv ==
  /\ Stamped(partition)
  /\ RequestInv
  /\ \A g \in granted : GrantInv(g)

LEMMA PrefixStamped ==
  ASSUME NEW rows, Stamped(rows), NEW n \in Nat, n <= Len(rows) PROVE Stamped(SubSeq(rows, 1, n))
<1>1. PICK t : t = SubSeq(rows, 1, n)
      OBVIOUS
<1>2. IsSequence(t) /\ Len(t) = n /\ \A i \in 1..n : t[i] = rows[i]
      BY <1>1, PrefixOf DEF Stamped
<1>3. Len(rows) \in Nat
      BY SequenceDomain DEF Stamped
<1>4. 1..n \subseteq 1..Len(rows)
      BY <1>3
<1>5. Stamped(t)
      BY <1>2, <1>4 DEF Stamped
<1> QED
    BY <1>1, <1>5

LEMMA BackedByInv == EgressInv => EgressBacked
<1> SUFFICES ASSUME EgressInv PROVE EgressBacked
    OBVIOUS
<1>1. PICK read : read = Reading(partition)
      OBVIOUS
<1>2. Stamped(read)
  <2>1. PICK m \in Nat : m = Len(partition)
        BY SequenceDomain DEF EgressInv, Stamped
  <2>2. PICK n \in Nat : n = (IF m < RowLimit THEN m ELSE RowLimit) /\ n <= m
        BY EgressAssumption
  <2>3. read = SubSeq(partition, 1, n)
        BY <1>1, <2>1, <2>2 DEF Reading
  <2> QED
      BY <2>1, <2>2, <2>3, PrefixStamped DEF EgressInv
<1>3. ASSUME NEW i \in AgainstRevocation(read, read), ApprovalFinding(read, i) = "PASS"
      PROVE  FALSE
  <2>1. RevokedBy(read, read[i].ref, read[i].at)
        BY DEF AgainstRevocation
  <2>2. ApprovalLiveAt(LatestApproval(read, read[i].ref), read[i].at) = "PASS"
        BY <1>3 DEF ApprovalFinding
  <2> QED
      BY <1>2, <2>1, <2>2, LiveIsUnrevoked
<1>4. \A g \in granted :
        /\ partition[g.row].kind = "egress" /\ partition[g.row].decision = "AUTHORIZED"
        /\ g.seen > 0 =>
             ~RevokedBy(SubSeq(partition, 1, g.seen), partition[g.row].ref, g.when)
      BY DEF EgressInv, GrantInv
<1> QED
    BY <1>1, <1>3, <1>4 DEF EgressBacked

LEMMA EvaluateKeepsInv ==
  ASSUME EgressInv, EvaluateEgress PROVE EgressInv'
<1>1. PICK req, seen, lenses, when :
        req = asking.req /\ seen = asking.seen /\ lenses = asking.lenses /\ when = When(asking.req)
      OBVIOUS
<1>2. PICK approval : approval = LatestApproval(SubSeq(partition, 1, seen), req.ref)
      OBVIOUS
<1>3. PICK needed : needed = IF \E lens \in lenses : Needs(lens, req) THEN seen ELSE 0
      OBVIOUS
<1>4. PICK decision : decision = Decision(req, lenses, approval, when)
      OBVIOUS
<1>5. /\ asking' = [at |-> "decided", req |-> req, seen |-> needed, when |-> when,
                    decision |-> decision]
      /\ UNCHANGED <<partition, granted>>
      BY <1>1, <1>2, <1>3, <1>4 DEF EvaluateEgress
<1>6. seen \in Nat /\ seen <= Len(partition)
      BY <1>1 DEF EvaluateEgress, EgressInv, RequestInv
<1>7. Len(partition) \in Nat
      BY SequenceDomain DEF EgressInv, Stamped
<1>8. needed \in Nat /\ needed <= Len(partition)
      BY <1>3, <1>6, <1>7
<1>9. ASSUME decision = "AUTHORIZED", needed > 0
      PROVE  ~RevokedBy(SubSeq(partition, 1, needed), req.ref, when)
  <2>1. PICK lens \in lenses : Needs(lens, req)
        BY <1>3, <1>9
  <2>2. needed = seen
        BY <1>3, <2>1
  <2>3. ApprovalLiveAt(approval, when) = "PASS"
        BY <1>4, <1>9, <2>1 DEF Decision
  <2>4. Stamped(SubSeq(partition, 1, seen))
        BY <1>6, PrefixStamped DEF EgressInv
  <2> QED
      BY <1>2, <2>2, <2>3, <2>4, LiveIsUnrevoked
<1>10. RequestInv'
  <2>1. /\ asking'.at = "decided" /\ asking'.seen = needed /\ asking'.decision = decision
        /\ asking'.req = req /\ asking'.when = when
        BY <1>5
  <2> QED
      BY <1>5, <1>8, <1>9, <2>1 DEF RequestInv
<1>11. \A g \in granted' : GrantInv(g)'
      BY <1>5 DEF EgressInv, GrantInv
<1> QED
    BY <1>5, <1>10, <1>11 DEF EgressInv

\* A row is added: what was read and granted before is where it was.
LEMMA RowKeepsInv ==
  ASSUME EgressInv, NEW row, row.kind = "approval" => row.body \in ApprovalBodies,
         partition' = Append(partition, row)
  PROVE  /\ Stamped(partition')
         /\ UNCHANGED asking => RequestInv'
         /\ \A g \in granted : GrantInv(g)'
         /\ Len(partition) \in Nat /\ Len(partition') = Len(partition) + 1
         /\ partition'[Len(partition) + 1] = row
         /\ \A n \in Nat : n <= Len(partition) => SubSeq(partition', 1, n) = SubSeq(partition, 1, n)
<1>1. IsSequence(partition)
      BY DEF EgressInv, Stamped
<1>2. PICK m \in Nat : m = Len(partition)
      BY <1>1, SequenceDomain
<1>3. /\ IsSequence(partition') /\ Len(partition') = m + 1
      /\ \A k \in 1..m : partition'[k] = partition[k]
      /\ partition'[m + 1] = row
      BY <1>1, <1>2, AppendedRow
<1>4. Stamped(partition')
  <2>1. ASSUME NEW k \in 1..(m + 1), partition'[k].kind = "approval"
        PROVE  partition'[k].body \in ApprovalBodies
    <3>1. CASE k = m + 1
          BY <1>3, <2>1, <3>1
    <3>2. CASE k # m + 1
      <4>1. k \in 1..m
            BY <3>2
      <4> QED
          BY <1>2, <1>3, <2>1, <4>1 DEF EgressInv, Stamped
    <3> QED
        BY <3>1, <3>2
  <2> QED
      BY <1>3, <2>1 DEF Stamped
<1>5. ASSUME NEW n \in Nat, n <= m PROVE SubSeq(partition', 1, n) = SubSeq(partition, 1, n)
  <2>1. PICK s, t : s = SubSeq(partition, 1, n) /\ t = SubSeq(partition', 1, n)
        OBVIOUS
  <2>2. IsSequence(s) /\ Len(s) = n /\ \A k \in 1..n : s[k] = partition[k]
        BY <1>1, <1>2, <1>5, <2>1, PrefixOf
  <2>3. IsSequence(t) /\ Len(t) = n /\ \A k \in 1..n : t[k] = partition'[k]
    <3>1. n <= Len(partition')
          BY <1>3, <1>5
    <3> QED
        BY <1>3, <2>1, <3>1, PrefixOf
  <2>4. \A k \in 1..n : s[k] = t[k]
        BY <1>3, <1>5, <2>2, <2>3
  <2>5. s = t
    <3>1. PICK S, T : s \in Seq(S) /\ t \in Seq(T)
          BY <2>2, <2>3 DEF IsSequence
    <3>2. s \in Seq(S \cup T) /\ t \in Seq(S \cup T)
          BY <3>1
    <3> QED
        BY <2>2, <2>3, <2>4, <3>2
  <2> QED
      BY <2>1, <2>5
<1>6. UNCHANGED asking => RequestInv'
  <2> SUFFICES ASSUME UNCHANGED asking PROVE RequestInv'
      OBVIOUS
  <2>1. asking.at \in {"read", "decided"} => asking.seen \in Nat /\ asking.seen <= m
        BY <1>2 DEF EgressInv, RequestInv
  <2>2. asking.at \in {"read", "decided"} => asking.seen <= m + 1
        BY <2>1
  <2>3. asking.at = "decided" =>
          SubSeq(partition', 1, asking.seen) = SubSeq(partition, 1, asking.seen)
        BY <1>5, <2>1
  <2> QED
      BY <1>3, <2>1, <2>2, <2>3 DEF EgressInv, RequestInv
<1>7. ASSUME NEW g \in granted PROVE GrantInv(g)'
  <2>1. GrantInv(g)
        BY DEF EgressInv
  <2>2. g.row \in 1..m /\ g.seen \in Nat /\ g.seen <= m
        BY <1>2, <2>1 DEF GrantInv
  <2>3. g.row \in 1..(m + 1) /\ g.seen <= m + 1
        BY <2>2
  <2>4. partition'[g.row] = partition[g.row]
        BY <1>3, <2>2
  <2>5. SubSeq(partition', 1, g.seen) = SubSeq(partition, 1, g.seen)
        BY <1>5, <2>2
  <2> QED
      BY <1>3, <2>1, <2>2, <2>3, <2>4, <2>5 DEF GrantInv
<1> QED
    BY <1>2, <1>3, <1>4, <1>5, <1>6, <1>7

LEMMA ChainEgressKeepsInv ==
  ASSUME EgressInv, ChainEgress \/ AnchorUnavailable PROVE EgressInv'
<1> USE DEF ChainEgress, AnchorUnavailable, CommitEgress
<1>1. PICK row : row = EgressRow(asking.req, asking.decision)
      OBVIOUS
<1>2. row.kind = "egress" /\ row.decision = asking.decision /\ row.ref = asking.req.ref
      BY <1>1 DEF EgressRow
<1>3. partition' = Append(partition, row)
      BY <1>1
<1>4. PICK m \in Nat : m = Len(partition)
      BY SequenceDomain DEF EgressInv, Stamped
<1>5. /\ Stamped(partition') /\ Len(partition') = m + 1 /\ partition'[m + 1] = row
      /\ \A g \in granted : GrantInv(g)'
      /\ \A n \in Nat : n <= m => SubSeq(partition', 1, n) = SubSeq(partition, 1, n)
      BY <1>2, <1>3, <1>4, RowKeepsInv
<1>6. RequestInv'
      BY DEF ChainEgress, Vacant, RequestInv
<1>7. ASSUME asking.decision = "AUTHORIZED", NEW g,
             g = [row |-> Len(partition) + 1, seen |-> asking.seen, when |-> asking.when]
      PROVE  GrantInv(g)'
  <2>1. g.row = m + 1 /\ g.seen = asking.seen /\ g.when = asking.when
        BY <1>4, <1>7
  <2>2. asking.seen \in Nat /\ asking.seen <= m
        BY <1>4 DEF ChainEgress, EgressInv, RequestInv
  <2>3. asking.seen > 0 =>
          ~RevokedBy(SubSeq(partition, 1, asking.seen), asking.req.ref, asking.when)
        BY <1>7 DEF ChainEgress, EgressInv, RequestInv
  <2>4. SubSeq(partition', 1, g.seen) = SubSeq(partition, 1, asking.seen)
        BY <1>5, <2>1, <2>2
  <2>5. m + 1 \in 1..(m + 1) /\ asking.seen <= m + 1
        BY <2>2
  <2>6. partition'[g.row] = row
        BY <1>5, <2>1
  <2>7. g.row \in 1..Len(partition') /\ g.seen \in Nat /\ g.seen <= Len(partition')
        BY <1>5, <2>1, <2>2, <2>5
  <2>8. partition'[g.row].kind = "egress" /\ partition'[g.row].decision = "AUTHORIZED"
        BY <1>2, <1>7, <2>6
  <2>9. g.seen > 0 =>
          ~RevokedBy(SubSeq(partition', 1, g.seen), partition'[g.row].ref, g.when)
        BY <1>2, <2>1, <2>3, <2>4, <2>6
  <2> QED
      BY <2>7, <2>8, <2>9 DEF GrantInv
<1>8. \A g \in granted' : GrantInv(g)'
      BY <1>5, <1>7 DEF ChainEgress
<1> QED
    BY <1>5, <1>6, <1>8 DEF EgressInv

LEMMA EgressStep == EgressInv /\ [EgressNext]_egressVars => EgressInv'
<1> SUFFICES ASSUME EgressInv, [EgressNext]_egressVars PROVE EgressInv'
    OBVIOUS
<1>1. ASSUME UNCHANGED <<partition, granted>>, RequestInv' PROVE EgressInv'
      BY <1>1 DEF EgressInv, GrantInv
<1>2. ASSUME UNCHANGED <<partition, asking, granted>> PROVE EgressInv'
  <2>1. RequestInv'
        BY <1>2 DEF EgressInv, RequestInv
  <2> QED
      BY <1>1, <1>2, <2>1
<1>3. ASSUME NEW id \in Approvals, NEW state \in {"granted", "revoked"},
             NEW body \in ApprovalBodies, RecordApproval(id, state, body)
      PROVE  EgressInv'
  <2>1. PICK row : row = [kind |-> "approval", id |-> id, state |-> state, body |-> body]
        OBVIOUS
  <2>2. row.kind = "approval" /\ row.body = body
        BY <2>1
  <2>3. partition' = Append(partition, row) /\ UNCHANGED <<asking, granted>>
        BY <1>3, <2>1 DEF RecordApproval
  <2>4. Stamped(partition') /\ RequestInv' /\ \A g \in granted : GrantInv(g)'
        BY <2>2, <2>3, RowKeepsInv
  <2> QED
      BY <2>3, <2>4 DEF EgressInv
<1>8. CASE RecordOther
  <2>1. PICK row : row = [kind |-> "other"]
        OBVIOUS
  <2>2. row.kind # "approval"
        BY <2>1
  <2>3. partition' = Append(partition, row) /\ UNCHANGED <<asking, granted>>
        BY <1>8, <2>1 DEF RecordOther
  <2>4. Stamped(partition') /\ RequestInv' /\ \A g \in granted : GrantInv(g)'
        BY <2>2, <2>3, RowKeepsInv
  <2> QED
      BY <2>3, <2>4 DEF EgressInv
<1>4. ASSUME NEW req \in Asks, ReadApprovals(req) PROVE EgressInv'
  <2>1. Len(partition) \in Nat
        BY SequenceDomain DEF EgressInv, Stamped
  <2>2. RequestInv'
        BY <1>4, <2>1 DEF ReadApprovals, RequestInv
  <2> QED
      BY <1>1, <1>4, <2>2 DEF ReadApprovals
<1>5. CASE LedgerUnavailable
  <2>1. RequestInv'
        BY <1>5 DEF LedgerUnavailable, Vacant, RequestInv
  <2> QED
      BY <1>1, <1>5, <2>1 DEF LedgerUnavailable
<1>6. CASE DayPasses \/ \E lens \in Lenses : RegisterLens(lens)
      BY <1>2, <1>6 DEF DayPasses, RegisterLens
<1>7. CASE UNCHANGED egressVars
      BY <1>2, <1>7 DEF egressVars
<1> QED
    BY <1>3, <1>4, <1>5, <1>6, <1>7, <1>8, EvaluateKeepsInv, ChainEgressKeepsInv
    DEF EgressNext

\* An authorization is backed by the record, for any contracts, approvals and
\* interleaving of grants, revocations and requests: it has its row, no
\* revocation the request could read and that was in effect is undone by a
\* later grant, and a standing check passes none that raced one it reads
\* (contract_egress.request_egress, check_subcontractor_approvals).
THEOREM EgressIsBacked == EgressSpec => []EgressBacked
<1>1. EgressInit => EgressInv
  <2> SUFFICES ASSUME EgressInit PROVE EgressInv
      OBVIOUS
  <2>1. partition = <<>> /\ granted = {} /\ asking = Vacant
        BY DEF EgressInit
  <2>2. <<>> \in Seq({})
        OBVIOUS
  <2>3. IsSequence(partition) /\ 1..Len(partition) = {}
        BY <2>1, <2>2 DEF IsSequence
  <2>4. Stamped(partition)
        BY <2>3 DEF Stamped
  <2>5. RequestInv
        BY <2>1 DEF RequestInv, Vacant
  <2> QED
      BY <2>1, <2>4, <2>5 DEF EgressInv
<1> QED
    BY <1>1, EgressStep, BackedByInv, PTL DEF EgressSpec

-----------------------------------------------------------------------------
(* The regulatory deck (RegulatoryDeck.tla): what its operators compute.    *)

\* A set of numbers that is not empty has a least one.
LEMMA LeastNumber ==
  ASSUME NEW S \in SUBSET Nat, S # {}
  PROVE  Min(S) \in S /\ \A m \in S : Min(S) <= m
<1> DEFINE Under == {ss \in Nat \X Nat : ss[1] < ss[2]}
<1>1. IsWellFoundedOn(Under, Nat)
      BY NatLessThanWellFounded, Zenon DEF OpToRel
<1>2. PICK k \in S : \A m \in S : ~(<<m, k>> \in Under)
      BY <1>1, WFMin
<1>3. \A m \in S : ~(m < k)
      BY <1>2
<1>4. \E x \in S : \A y \in S : x =< y
      BY <1>3
<1> QED
    BY <1>4 DEF Min

\* The recursive function of FlattenSeq, for the first m sequences.
FlattensTo(s, m, g) == g = [i \in 1..m |-> IF i = 1 THEN s[i] ELSE g[i - 1] \o s[i]]

LEMMA FlattenExists ==
  ASSUME NEW s, NEW n \in Nat
  PROVE  \E g : FlattensTo(s, n, g)
<1> DEFINE Missing == {m \in Nat : ~ \E g : FlattensTo(s, m, g)}
<1>1. SUFFICES ASSUME n \in Missing PROVE FALSE
      OBVIOUS
<1>2. Missing \in SUBSET Nat /\ Missing # {}
      BY <1>1
<1> DEFINE m == Min(Missing)
<1>3. m \in Missing /\ \A k \in Missing : m <= k
      BY <1>2, LeastNumber
<1> HIDE DEF m
<1>4. m \in Nat /\ ~ \E g : FlattensTo(s, m, g)
      BY <1>3
<1>5. m # 0
  <2> DEFINE h == [k \in 1..0 |-> k]
  <2>1. FlattensTo(s, 0, h)
        BY DEF FlattensTo
  <2> QED
      BY <1>4, <2>1
<1>6. m - 1 \in Nat /\ m - 1 \notin Missing
      BY <1>3, <1>4, <1>5
<1>7. PICK g : FlattensTo(s, m - 1, g)
      BY <1>6
<1> DEFINE Next(i, f) == IF i = 1 THEN s[i] ELSE f[i - 1] \o s[i]
           h == [k \in 1..m |-> IF k = m THEN Next(m, g) ELSE g[k]]
<1>8. ASSUME NEW k \in 1..m PROVE h[k] = Next(k, h)
  <2>1. CASE k = 1
    <3>1. CASE k = m
          BY <2>1, <3>1
    <3>2. CASE k # m
      <4>1. 1 \in 1..(m - 1)
            BY <1>4, <2>1, <3>2
      <4>2. g[1] = s[1]
            BY <1>7, <4>1 DEF FlattensTo
      <4> QED
          BY <2>1, <3>2, <4>2
    <3> QED
        BY <3>1, <3>2
  <2>2. CASE k # 1
    <3>1. k - 1 \in 1..m /\ k - 1 # m
          BY <1>4, <2>2
    <3>2. h[k - 1] = g[k - 1]
          BY <3>1
    <3>3. Next(k, h) = g[k - 1] \o s[k]
          BY <2>2, <3>2
    <3>4. CASE k = m
          BY <2>2, <3>3, <3>4
    <3>5. CASE k # m
      <4>1. k \in 1..(m - 1)
            BY <1>4, <3>5
      <4>2. g[k] = g[k - 1] \o s[k]
            BY <1>7, <2>2, <4>1 DEF FlattensTo
      <4> QED
          BY <3>3, <3>5, <4>2
    <3> QED
        BY <3>4, <3>5
  <2> QED
      BY <2>1, <2>2
<1>9. FlattensTo(s, m, h)
  <2> HIDE DEF Next
  <2>1. h = [k \in 1..m |-> h[k]]
        OBVIOUS
  <2> HIDE DEF h
  <2>2. h = [k \in 1..m |-> Next(k, h)]
        BY <1>8, <2>1
  <2> QED
      BY <2>2, Zenon DEF FlattensTo, Next
<1> QED
    BY <1>4, <1>9

\* Sequences over T, one after the other, are a sequence over T.
LEMMA FlattenedFrom ==
  ASSUME NEW T, NEW n \in Nat, NEW s \in [1..n -> Seq(T)]
  PROVE  FlattenSeq(s) \in Seq(T)
<1>1. Len(s) = n /\ s \in Seq(Seq(T))
      BY NumberedIsSequence
<1>2. CASE n = 0
  <2>1. s = <<>>
        BY <1>1, <1>2
  <2>2. FlattenSeq(s) = s
        BY <1>1, <1>2 DEF FlattenSeq
  <2>3. <<>> \in Seq(T)
        OBVIOUS
  <2> QED
      BY <2>1, <2>2, <2>3
<1>3. CASE n # 0
  <2> DEFINE g == CHOOSE x : FlattensTo(s, n, x)
  <2>1. FlattensTo(s, n, g)
        BY FlattenExists
  <2>2. FlattenSeq(s) = g[n]
        BY <1>1, <1>3 DEF FlattenSeq, FlattensTo
  <2> HIDE DEF g
  <2>3. \A i \in 1..n : g[i] = IF i = 1 THEN s[i] ELSE g[i - 1] \o s[i]
        BY <2>1 DEF FlattensTo
  <2> DEFINE Wrong == {i \in 1..n : g[i] \notin Seq(T)}
  <2>4. ASSUME Wrong # {} PROVE FALSE
    <3> DEFINE m == Min(Wrong)
    <3>1. Wrong \in SUBSET Nat
          OBVIOUS
    <3>2. m \in Wrong /\ \A k \in Wrong : m <= k
          BY <2>4, <3>1, LeastNumber
    <3> HIDE DEF m
    <3>3. m \in 1..n /\ g[m] \notin Seq(T)
          BY <3>2
    <3>4. m # 1
          BY <2>3, <3>3
    <3>5. m - 1 \in 1..n /\ m - 1 \notin Wrong
          BY <3>2, <3>3, <3>4
    <3>6. g[m - 1] \in Seq(T) /\ s[m] \in Seq(T)
          BY <3>3, <3>5
    <3>7. g[m] = g[m - 1] \o s[m]
          BY <2>3, <3>3, <3>4
    <3> QED
        BY <3>3, <3>6, <3>7
  <2> QED
      BY <1>3, <2>2, <2>4
<1> QED
    BY <1>2, <1>3

-----------------------------------------------------------------------------
(* The strictest claim.                                                     *)

LEMMA RankIsNumber ==
  ASSUME NEW t \in Tiers PROVE Rank(t) \in Nat
BY DEF Tiers, Rank

\* One step of the walk over the claims.
BestStep(claims, first, l, prior) ==
  IF l = first THEN claims[l]
  ELSE IF l \in DOMAIN claims
          /\ ResolveTierConflict(prior.tier, claims[l].tier) # prior.tier
  THEN claims[l] ELSE prior

BestTo(claims, first, m, g) ==
  g = [l \in first .. m |-> BestStep(claims, first, l, g[l - 1])]

LEMMA BestExists ==
  ASSUME NEW claims, NEW first \in Nat, NEW n \in Nat
  PROVE  \E g : BestTo(claims, first, n, g)
<1> DEFINE Missing == {m \in Nat : ~ \E g : BestTo(claims, first, m, g)}
<1>1. SUFFICES ASSUME n \in Missing PROVE FALSE
      OBVIOUS
<1>2. Missing \in SUBSET Nat /\ Missing # {}
      BY <1>1
<1> DEFINE m == Min(Missing)
<1>3. m \in Missing /\ \A k \in Missing : m <= k
      BY <1>2, LeastNumber
<1> HIDE DEF m
<1>4. m \in Nat /\ ~ \E g : BestTo(claims, first, m, g)
      BY <1>3
<1>5. m > first
  <2> DEFINE h == [l \in first .. m |-> claims[l]]
  <2>1. ASSUME m <= first PROVE FALSE
    <3>1. \A l \in first .. m : l = first
          BY <1>4, <2>1
    <3>2. \A l \in first .. m : BestStep(claims, first, l, h[l - 1]) = claims[l]
          BY <3>1 DEF BestStep
    <3>3. BestTo(claims, first, m, h)
          BY <3>2 DEF BestTo
    <3> QED
        BY <1>4, <3>3
  <2> QED
      BY <1>4, <2>1
<1>6. m - 1 \in Nat /\ m - 1 \notin Missing
      BY <1>3, <1>4, <1>5
<1>7. PICK g : BestTo(claims, first, m - 1, g)
      BY <1>6
<1> DEFINE h == [l \in first .. m |->
                   IF l = m THEN BestStep(claims, first, m, g[m - 1]) ELSE g[l]]
<1>8. ASSUME NEW l \in first .. m PROVE h[l] = BestStep(claims, first, l, h[l - 1])
  <2>1. CASE l = m
    <3>1. m - 1 \in first .. m /\ m - 1 # m
          BY <1>4, <1>5
    <3>2. h[m - 1] = g[m - 1]
          BY <3>1
    <3> QED
        BY <2>1, <3>2
  <2>2. CASE l # m
    <3>1. l \in first .. (m - 1)
          BY <1>4, <2>2
    <3>2. h[l] = g[l]
          BY <2>2
    <3>3. g[l] = BestStep(claims, first, l, g[l - 1])
          BY <1>7, <3>1 DEF BestTo
    <3>4. CASE l = first
          BY <3>2, <3>3, <3>4 DEF BestStep
    <3>5. CASE l # first
      <4>1. l - 1 \in first .. m /\ l - 1 # m
            BY <1>4, <2>2, <3>5
      <4>2. h[l - 1] = g[l - 1]
            BY <4>1
      <4> QED
          BY <3>2, <3>3, <4>2
    <3> QED
        BY <3>4, <3>5
  <2> QED
      BY <2>1, <2>2
<1>9. BestTo(claims, first, m, h)
      BY <1>8, Zenon DEF BestTo
<1> QED
    BY <1>4, <1>9

\* Up to l, the walk holds the claim of some lens, and none is stricter.
Strictest(claims, l, best) ==
  /\ \E c \in DOMAIN claims : best = claims[c]
  /\ \A c \in DOMAIN claims : c <= l => Rank(claims[c].tier) <= Rank(best.tier)

LEMMA BestStepKeeps ==
  ASSUME NEW claims, DOMAIN claims \subseteq Nat,
         \A c \in DOMAIN claims : claims[c].tier \in Tiers,
         NEW first \in Nat, NEW l \in Nat, l > first,
         NEW prior, Strictest(claims, l - 1, prior)
  PROVE  Strictest(claims, l, BestStep(claims, first, l, prior))
<1> DEFINE new == BestStep(claims, first, l, prior)
<1>1. \A c \in DOMAIN claims : Rank(claims[c].tier) \in Nat
      BY RankIsNumber
<1>2. Rank(prior.tier) \in Nat
      BY <1>1 DEF Strictest
<1>3. \A c \in DOMAIN claims : c <= l => c = l \/ c <= l - 1
      OBVIOUS
<1>4. l # first
      OBVIOUS
<1>5. CASE l \in DOMAIN claims /\ ResolveTierConflict(prior.tier, claims[l].tier) # prior.tier
  <2>1. new = claims[l]
        BY <1>4, <1>5 DEF BestStep
  <2>2. Rank(prior.tier) < Rank(claims[l].tier)
        BY <1>1, <1>2, <1>5 DEF ResolveTierConflict
  <2> HIDE DEF new
  <2>3. ASSUME NEW c \in DOMAIN claims, c <= l PROVE Rank(claims[c].tier) <= Rank(new.tier)
    <3>1. CASE c = l
          BY <1>1, <2>1, <3>1
    <3>2. CASE c <= l - 1
      <4>1. Rank(claims[c].tier) <= Rank(prior.tier)
            BY <3>2 DEF Strictest
      <4> QED
          BY <1>1, <1>2, <1>5, <2>1, <2>2, <4>1
    <3> QED
        BY <1>3, <2>3, <3>1, <3>2
  <2>4. Strictest(claims, l, new)
        BY <1>5, <2>1, <2>3 DEF Strictest
  <2> QED
      BY <2>4 DEF new
<1>6. CASE ~(l \in DOMAIN claims /\ ResolveTierConflict(prior.tier, claims[l].tier) # prior.tier)
  <2>1. new = prior
        BY <1>4, <1>6 DEF BestStep
  <2>2. l \in DOMAIN claims => Rank(claims[l].tier) <= Rank(prior.tier)
        BY <1>1, <1>2, <1>6 DEF ResolveTierConflict
  <2> HIDE DEF new
  <2>3. \A c \in DOMAIN claims : c <= l => Rank(claims[c].tier) <= Rank(prior.tier)
        BY <1>3, <2>2 DEF Strictest
  <2>4. Strictest(claims, l, new)
        BY <2>1, <2>3 DEF Strictest
  <2> QED
      BY <2>4 DEF new
<1> QED
    BY <1>5, <1>6

\* The winner's tier is at least as strict as every claim.
LEMMA WinnerIsStrictest ==
  ASSUME NEW claims, DOMAIN claims \subseteq Nat, IsFiniteSet(DOMAIN claims), DOMAIN claims # {},
         \A c \in DOMAIN claims : claims[c].tier \in Tiers
  PROVE  /\ \E c \in DOMAIN claims : Winner(claims) = claims[c]
         /\ \A c \in DOMAIN claims : Rank(claims[c].tier) <= Rank(Winner(claims).tier)
<1> DEFINE D == DOMAIN claims
           first == Min(D)
           last == Max(D)
           g == CHOOSE x : BestTo(claims, first, last, x)
<1>1. first \in D /\ \A c \in D : first <= c
      BY LeastNumber
<1>2. last \in D /\ \A c \in D : c <= last
      BY GreatestChunk
<1>3. first \in Nat /\ last \in Nat /\ first <= last
      BY <1>1, <1>2
<1>4. BestTo(claims, first, last, g)
      BY <1>3, BestExists
<1>5. Winner(claims) = g[last]
      BY DEF Winner, BestTo, BestStep
<1> HIDE DEF first, last, g
<1>6. \A l \in first .. last : g[l] = BestStep(claims, first, l, g[l - 1])
      BY <1>4 DEF BestTo
<1> DEFINE Wrong == {l \in first .. last : ~Strictest(claims, l, g[l])}
<1>7. ASSUME Wrong # {} PROVE FALSE
  <2> DEFINE m == Min(Wrong)
  <2>1. Wrong \in SUBSET Nat
        BY <1>3
  <2>2. m \in Wrong /\ \A k \in Wrong : m <= k
        BY <1>7, <2>1, LeastNumber
  <2> HIDE DEF m
  <2>3. m \in first .. last /\ ~Strictest(claims, m, g[m])
        BY <2>2
  <2>4. m \in Nat /\ first <= m
        BY <1>3, <2>3
  <2>5. CASE m = first
    <3>1. g[m] = claims[first]
          BY <1>6, <2>3, <2>5 DEF BestStep
    <3>2. \A c \in D : c <= m => c = first
          BY <1>1, <1>3, <2>5
    <3>3. Rank(claims[first].tier) \in Nat
          BY <1>1, RankIsNumber
    <3> QED
        BY <1>1, <2>3, <3>1, <3>2, <3>3 DEF Strictest
  <2>6. CASE m # first
    <3>1. m > first /\ m - 1 \in first .. last /\ m - 1 \notin Wrong
          BY <1>3, <2>2, <2>3, <2>6
    <3>2. Strictest(claims, m - 1, g[m - 1])
          BY <3>1
    <3>3. Strictest(claims, m, BestStep(claims, first, m, g[m - 1]))
          BY <1>3, <2>4, <3>1, <3>2, BestStepKeeps
    <3> QED
        BY <1>6, <2>3, <3>3
  <2> QED
      BY <2>5, <2>6
<1>8. last \in first .. last
      BY <1>3
<1>9. Strictest(claims, last, g[last])
      BY <1>7, <1>8
<1> QED
    BY <1>2, <1>5, <1>9 DEF Strictest

\* What may be found: by a lens in an episode, by comparing lenses, or by a
\* lens in its cohort.
FoundIn(checks) ==
  [lens : Regs, action : {"flag", "block"}, tier : Tiers \cup {NoTier}, check : checks]

FindingRows == FoundIn({"review", "conflict", "cohort"})

\* The places where a tier is claimed, and those of one lens among them.
Claiming(found, places) == {i \in places : found[i].tier # NoTier}

ClaimsBy(found, places, lens) == {i \in Claiming(found, places) : found[i].lens = lens}

LEMMA LastClaim ==
  ASSUME NEW found \in Seq(FindingRows), NEW places \in SUBSET DOMAIN found,
         NEW i \in Claiming(found, places)
  PROVE  Max(ClaimsBy(found, places, found[i].lens)) \in Claiming(found, places)
<1> DEFINE S == ClaimsBy(found, places, found[i].lens)
<1>1. S # {} /\ S \subseteq Claiming(found, places)
      BY DEF ClaimsBy
<1>2. PICK n \in Nat : DOMAIN found = 1..n
      OBVIOUS
<1>3. IsFiniteSet(1..n)
  <2>1. 1 \in Int /\ n \in Int
        OBVIOUS
  <2> QED
      BY <2>1, FS_Interval
<1>4. S \in SUBSET (1..n)
      BY <1>1, <1>2 DEF Claiming
<1>5. IsFiniteSet(S) /\ S \subseteq Nat
      BY <1>3, <1>4, FS_Subset
<1> HIDE DEF S
<1>6. Max(S) \in S
      BY <1>1, <1>5, GreatestChunk
<1> QED
    BY <1>1, <1>6 DEF S

\* Every claim is one of the findings at these places, and names a tier.
LEMMA ClaimsAreFindings ==
  ASSUME NEW found \in Seq(FindingRows), NEW places \in SUBSET DOMAIN found
  PROVE  LET claims == Claims(found, places)
         IN /\ DOMAIN claims \subseteq Nat /\ IsFiniteSet(DOMAIN claims)
            /\ \A c \in DOMAIN claims : claims[c].tier \in Tiers
            /\ \A c \in DOMAIN claims : \E i \in places : claims[c] = found[i]
<1> DEFINE claiming == Claiming(found, places)
           named == {found[i].lens : i \in claiming}
           claims == Claims(found, places)
<1>1. claims = [c \in named |-> found[Max(ClaimsBy(found, places, c))]]
      BY DEF Claims, Claiming, ClaimsBy
<1>2. PICK n \in Nat : DOMAIN found = 1..n
      OBVIOUS
<1>3. IsFiniteSet(1..n)
  <2>1. 1 \in Int /\ n \in Int
        OBVIOUS
  <2> QED
      BY <2>1, FS_Interval
<1>4. claiming \in SUBSET (1..n) /\ claiming \subseteq places
      BY <1>2 DEF Claiming
<1>5. IsFiniteSet(claiming)
      BY <1>3, <1>4, FS_Subset
<1>6. \A i \in DOMAIN found : found[i] \in FindingRows
      OBVIOUS
<1>7. \A i \in claiming : found[i].lens \in Regs /\ found[i].tier \in Tiers
      BY <1>2, <1>4, <1>6 DEF FindingRows, FoundIn, Claiming
<1>8. \A c \in named : Max(ClaimsBy(found, places, c)) \in claiming
      BY LastClaim
<1> HIDE DEF claims, claiming
<1>9. IsFiniteSet(named)
  <2> DEFINE lensOf == [i \in claiming |-> found[i].lens]
  <2>1. lensOf \in Surjection(claiming, named)
        BY DEF Surjection
  <2> QED
      BY <1>5, <2>1, FS_Surjection
<1>10. named \subseteq Nat
      BY <1>7, DeckAssumption
<1> HIDE DEF named
<1>11. DOMAIN claims = named /\ \A c \in named : claims[c] = found[Max(ClaimsBy(found, places, c))]
      BY <1>1
<1>12. \A c \in named : \E i \in claiming : claims[c] = found[i]
      BY <1>8, <1>11
<1> QED
    BY <1>4, <1>7, <1>9, <1>10, <1>11, <1>12 DEF claims

\* The claims at some places do not depend on what is found at others.
LEMMA ClaimsOfSame ==
  ASSUME NEW f \in Seq(FindingRows), NEW places \in SUBSET DOMAIN f,
         NEW g, \A i \in places : f[i] = g[i]
  PROVE  Claims(g, places) = Claims(f, places)
<1> DEFINE claiming == Claiming(f, places)
<1>1. claiming = Claiming(g, places) /\ \A i \in claiming : f[i] = g[i]
      BY DEF Claiming
<1>2. \A c : ClaimsBy(f, places, c) = ClaimsBy(g, places, c)
      BY <1>1 DEF ClaimsBy
<1>3. {f[i].lens : i \in claiming} = {g[i].lens : i \in claiming}
      BY <1>1
<1> DEFINE named == {f[i].lens : i \in claiming}
<1>4. Claims(f, places) = [c \in named |-> f[Max(ClaimsBy(f, places, c))]]
      BY DEF Claims, Claiming, ClaimsBy
<1>5. Claims(g, places) = [c \in {g[i].lens : i \in Claiming(g, places)} |->
                            g[Max(ClaimsBy(g, places, c))]]
      BY DEF Claims, Claiming, ClaimsBy
<1>6. \A c \in named : Max(ClaimsBy(f, places, c)) \in claiming
      BY LastClaim
<1> HIDE DEF claiming
<1>7. Claims(g, places) = [c \in named |-> g[Max(ClaimsBy(f, places, c))]]
  <2>1. Claims(g, places) = [c \in named |-> g[Max(ClaimsBy(g, places, c))]]
        BY <1>1, <1>3, <1>5
  <2> QED
      BY <1>2, <2>1
<1>8. \A c \in named : f[Max(ClaimsBy(f, places, c))] = g[Max(ClaimsBy(f, places, c))]
      BY <1>1, <1>6
<1> HIDE DEF named
<1> QED
    BY <1>4, <1>7, <1>8

\* Where the lenses disagree, what is found says the strictest tier.
LEMMA ConflictIsStrictest ==
  ASSUME NEW found \in Seq(FindingRows)
  PROVE  /\ TierConflicts(found) \in Seq(FoundIn({"conflict"}))
         /\ \A i \in DOMAIN TierConflicts(found) :
              LET claims == Claims(found, DOMAIN found)
              IN \A c \in DOMAIN claims :
                   Rank(claims[c].tier) <= Rank(TierConflicts(found)[i].tier)
<1> DEFINE claims == Claims(found, DOMAIN found)
           tiers == {claims[l].tier : l \in DOMAIN claims}
           row == [lens |-> Winner(claims).lens, action |-> "flag",
                   tier |-> Winner(claims).tier, check |-> "conflict"]
<1>1. TierConflicts(found) = IF Cardinality(tiers) < 2 THEN <<>> ELSE <<row>>
      BY DEF TierConflicts
<1>2. /\ DOMAIN claims \subseteq Nat /\ IsFiniteSet(DOMAIN claims)
      /\ \A c \in DOMAIN claims : claims[c].tier \in Tiers
      /\ \A c \in DOMAIN claims : \E i \in DOMAIN found : claims[c] = found[i]
  <2>1. DOMAIN found \in SUBSET DOMAIN found
        OBVIOUS
  <2> QED
      BY <2>1, ClaimsAreFindings
<1> HIDE DEF claims
<1>3. CASE Cardinality(tiers) < 2
  <2>1. TierConflicts(found) = <<>>
        BY <1>1, <1>3
  <2> QED
      BY <2>1
<1>4. CASE ~(Cardinality(tiers) < 2)
  <2>1. DOMAIN claims # {}
    <3>1. ASSUME DOMAIN claims = {} PROVE FALSE
      <4>1. tiers = {}
            BY <3>1
      <4>2. Cardinality(tiers) = 0
            BY <4>1, FS_EmptySet
      <4> QED
          BY <1>4, <4>2
    <3> QED
        BY <3>1
  <2>2. /\ \E c \in DOMAIN claims : Winner(claims) = claims[c]
        /\ \A c \in DOMAIN claims : Rank(claims[c].tier) <= Rank(Winner(claims).tier)
        BY <1>2, <2>1, WinnerIsStrictest
  <2>3. Winner(claims).lens \in Regs /\ Winner(claims).tier \in Tiers
    <3>1. PICK c \in DOMAIN claims : Winner(claims) = claims[c]
          BY <2>2
    <3>2. PICK i \in DOMAIN found : claims[c] = found[i]
          BY <1>2
    <3>3. found[i] \in FindingRows
          OBVIOUS
    <3>4. found[i].lens \in Regs
          BY <3>3 DEF FindingRows, FoundIn
    <3> QED
        BY <1>2, <3>1, <3>2, <3>4
  <2>4. row \in FoundIn({"conflict"}) /\ row.tier = Winner(claims).tier
        BY <2>3 DEF FoundIn
  <2> HIDE DEF row
  <2>5. TierConflicts(found) = <<row>>
        BY <1>1, <1>4
  <2>6. <<row>> \in Seq(FoundIn({"conflict"})) /\ \A i \in DOMAIN <<row>> : <<row>>[i] = row
        BY <2>4
  <2>7. \A i \in DOMAIN TierConflicts(found) : TierConflicts(found)[i].tier = Winner(claims).tier
        BY <2>4, <2>5, <2>6
  <2> QED
      BY <2>2, <2>5, <2>6, <2>7 DEF claims
<1> QED
    BY <1>3, <1>4

LensEntries == [lens : Regs, mode : {"observer", "live"}]

\* What the live lenses report of an episode.
LEMMA LiveAreReviews ==
  ASSUME NEW d, inserted[d] \in Seq(LensEntries),
         NEW asked \in [Regs -> Reviews]
  PROVE  LiveFindings(d, asked) \in Seq(FoundIn({"review"}))
<1> DEFINE q == inserted[d]
           T == FoundIn({"review"})
           part(e) == IF e.mode = "live" THEN Reported(e.lens, asked[e.lens]) ELSE <<>>
           s == [i \in DOMAIN q |-> part(q[i])]
<1>1. PICK n \in Nat : DOMAIN q = 1..n
      OBVIOUS
<1>2. ASSUME NEW lens \in Regs, NEW review \in Seq(Findings) PROVE Reported(lens, review) \in Seq(T)
  <2>1. PICK m \in Nat : DOMAIN review = 1..m
        OBVIOUS
  <2>2. ASSUME NEW i \in 1..m
        PROVE  [lens |-> lens, action |-> review[i].action, tier |-> review[i].tier,
                check |-> "review"] \in T
    <3>1. review[i] \in Findings
          BY <2>1
    <3>2. review[i].action \in {"flag", "block"} /\ review[i].tier \in Tiers \cup {NoTier}
          BY <3>1 DEF Findings
    <3> QED
        BY <3>2 DEF FoundIn
  <2>3. Reported(lens, review) \in [1..m -> T]
        BY <2>1, <2>2 DEF Reported
  <2> QED
      BY <2>3, NumberedIsSequence
<1>3. ASSUME NEW i \in 1..n PROVE part(q[i]) \in Seq(T)
  <2>1. q[i] \in LensEntries
        BY <1>1
  <2>2. q[i].lens \in Regs
        BY <2>1 DEF LensEntries
  <2>3. asked[q[i].lens] \in Seq(Findings)
        BY <2>2, DeckAssumption
  <2>4. Reported(q[i].lens, asked[q[i].lens]) \in Seq(T)
        BY <1>2, <2>2, <2>3
  <2>5. <<>> \in Seq(T)
        OBVIOUS
  <2> QED
      BY <2>4, <2>5
<1>4. LiveFindings(d, asked) = FlattenSeq(s)
      BY DEF LiveFindings
<1> HIDE DEF part, q
<1>5. s \in [1..n -> Seq(T)]
      BY <1>1, <1>3
<1> QED
    BY <1>4, <1>5, FlattenedFrom

LEMMA EscalationsAreFlags ==
  ASSUME NEW d, inserted[d] \in Seq(LensEntries), NEW flagged
  PROVE  Escalations(d, flagged) \in Seq(FoundIn({"cohort"}))
<1> DEFINE q == inserted[d]
           T == FoundIn({"cohort"})
           row(e) == [lens |-> e.lens, action |-> "flag", tier |-> NoTier, check |-> "cohort"]
           part(e) == IF e.mode = "live" /\ e.lens \in flagged THEN <<row(e)>> ELSE <<>>
           s == [i \in DOMAIN q |-> part(q[i])]
<1>1. PICK n \in Nat : DOMAIN q = 1..n
      OBVIOUS
<1>2. ASSUME NEW i \in 1..n PROVE part(q[i]) \in Seq(T)
  <2>1. q[i] \in LensEntries
        BY <1>1
  <2>2. row(q[i]) \in T
        BY <2>1 DEF FoundIn, LensEntries
  <2> HIDE DEF row, T
  <2>3. <<row(q[i])>> \in Seq(T) /\ <<>> \in Seq(T)
        BY <2>2
  <2> QED
      BY <2>3
<1>3. Escalations(d, flagged) = FlattenSeq(s)
      BY DEF Escalations
<1> HIDE DEF part, q
<1>4. s \in [1..n -> Seq(T)]
      BY <1>1, <1>2
<1> QED
    BY <1>3, <1>4, FlattenedFrom

-----------------------------------------------------------------------------
(* The inductive invariant: what is true of each deck, and of the ledger.   *)

Judging == {"review", "conflicts", "cohort"}

Entering == [at : {"bound", "entering"}, lens : Regs, mode : {"observer", "live"}]

Leaving == [at : {"leaving"}, lens : Regs]

Reviewing == [at : Judging, found : Seq(FindingRows), told : Nat]

Operations == {Free} \cup Entering \cup Leaving \cup Reviewing

Outcomes == {NoVerdict} \cup [kind : {"judged", "blocked"}, found : Seq(FindingRows)]

DeckShape ==
  /\ inserted \in [Decks -> Seq(LensEntries)]
  /\ opened \in [Regs -> Nat] /\ closed \in [Regs -> Nat] /\ missed \in [Regs -> Nat]
  /\ disclosed \in [Decks -> Seq(FindingRows)]
  /\ busy \in [Decks -> Operations]
  /\ verdicts \in [Decks -> Outcomes]

LensesOf(q) == {q[i].lens : i \in DOMAIN q}

ReviewPlaces(found) == {i \in DOMAIN found : found[i].check = "review"}

\* A conflict among the findings names a tier as strict as every claim.
ConflictsStrict(found) ==
  LET claims == Claims(found, ReviewPlaces(found))
  IN \A i \in DOMAIN found : found[i].check = "conflict" =>
       \A lens \in DOMAIN claims : Rank(claims[lens].tier) <= Rank(found[i].tier)

\* What a judge() in progress has disclosed is what it has told of its findings.
Telling(b, t) ==
  /\ b.told <= Len(b.found) /\ Len(t) = b.told
  /\ \A i \in 1..b.told : t[i] = b.found[i]
  /\ b.at = "review" => \A i \in DOMAIN b.found : b.found[i].check = "review"
  /\ ConflictsStrict(b.found)

\* What a judge() came to is what it has disclosed.
OutcomeTold(v, t) ==
  /\ t = v.found
  /\ v.kind = "judged" => \A i \in DOMAIN v.found : v.found[i].action = "flag"
  /\ ConflictsStrict(v.found)

\* A deck with the lenses q, busy with b, with disclosures t and verdict v.
DeckSound(q, b, t, v) ==
  /\ \A i, j \in DOMAIN q : q[i].lens = q[j].lens => i = j
  /\ b.at \in {"bound", "entering"} => b.lens \notin LensesOf(q)
  /\ b.at \in Judging => v = NoVerdict /\ Telling(b, t)
  /\ v # NoVerdict => OutcomeTold(v, t)

DecksSound == \A d \in Decks : DeckSound(inserted[d], busy[d], disclosed[d], verdicts[d])

\* A deck holds a lens from the commit of its insertion on, though it is
\* not active yet, to the commit of its removal.
Holds(q, b, lens) ==
  \/ lens \in LensesOf(q) /\ ~(b.at = "leaving" /\ b.lens = lens)
  \/ b.at = "entering" /\ b.lens = lens

Holders(lens) == {d \in Decks : Holds(inserted[d], busy[d], lens)}

\* The insertions on the ledger without a removal that was carried out.
Balance(lens) == opened[lens] - (closed[lens] - missed[lens])

LedgerOpen == \A lens \in Regs : Balance(lens) >= Cardinality(Holders(lens))

DeckInv == DeckShape /\ DecksSound /\ LedgerOpen

\* Deck d changes, the others do not.
Changes(d, q, b, t, v) ==
  /\ inserted' = [inserted EXCEPT ![d] = q] /\ busy' = [busy EXCEPT ![d] = b]
  /\ disclosed' = [disclosed EXCEPT ![d] = t] /\ verdicts' = [verdicts EXCEPT ![d] = v]

LEMMA OneDeckChanges ==
  ASSUME DeckInv, NEW d \in Decks,
         NEW q \in Seq(LensEntries), NEW b \in Operations,
         NEW t \in Seq(FindingRows), NEW v \in Outcomes,
         Changes(d, q, b, t, v), DeckSound(q, b, t, v)
  PROVE  /\ inserted' \in [Decks -> Seq(LensEntries)] /\ busy' \in [Decks -> Operations]
         /\ disclosed' \in [Decks -> Seq(FindingRows)] /\ verdicts' \in [Decks -> Outcomes]
         /\ DecksSound'
         /\ \A lens : \A x \in Decks : x # d => (x \in Holders(lens)' <=> x \in Holders(lens))
         /\ \A lens : d \in Holders(lens)' <=> Holds(q, b, lens)
<1>1. /\ inserted \in [Decks -> Seq(LensEntries)] /\ busy \in [Decks -> Operations]
      /\ disclosed \in [Decks -> Seq(FindingRows)] /\ verdicts \in [Decks -> Outcomes]
      BY DEF DeckInv, DeckShape
<1>2. inserted' \in [Decks -> Seq(LensEntries)] /\ busy' \in [Decks -> Operations]
      BY <1>1 DEF Changes
<1>3. disclosed' \in [Decks -> Seq(FindingRows)] /\ verdicts' \in [Decks -> Outcomes]
      BY <1>1 DEF Changes
<1>4. inserted'[d] = q /\ busy'[d] = b /\ disclosed'[d] = t /\ verdicts'[d] = v
      BY <1>1 DEF Changes
<1>5. \A x \in Decks : x # d => /\ inserted'[x] = inserted[x] /\ busy'[x] = busy[x]
                                /\ disclosed'[x] = disclosed[x] /\ verdicts'[x] = verdicts[x]
      BY <1>1 DEF Changes
<1>6. DecksSound'
  <2>1. ASSUME NEW x \in Decks
        PROVE  DeckSound(inserted'[x], busy'[x], disclosed'[x], verdicts'[x])
    <3>1. CASE x = d
          BY <1>4, <3>1
    <3>2. CASE x # d
      <4>1. DeckSound(inserted[x], busy[x], disclosed[x], verdicts[x])
            BY DEF DeckInv, DecksSound
      <4> QED
          BY <1>5, <3>2, <4>1
    <3> QED
        BY <3>1, <3>2
  <2> QED
      BY <2>1 DEF DecksSound
<1>7. ASSUME NEW lens, NEW x \in Decks, x # d
      PROVE  x \in Holders(lens)' <=> x \in Holders(lens)
  <2>1. x \in Holders(lens)' <=> Holds(inserted'[x], busy'[x], lens)
        BY DEF Holders
  <2>2. x \in Holders(lens) <=> Holds(inserted[x], busy[x], lens)
        BY DEF Holders
  <2> QED
      BY <1>5, <1>7, <2>1, <2>2
<1>8. ASSUME NEW lens PROVE d \in Holders(lens)' <=> Holds(q, b, lens)
  <2>1. d \in Holders(lens)' <=> Holds(inserted'[d], busy'[d], lens)
        BY DEF Holders
  <2> QED
      BY <1>4, <2>1
<1> QED
    BY <1>2, <1>3, <1>6, <1>7, <1>8

LEMMA HoldersFinite ==
  ASSUME NEW lens
  PROVE  /\ IsFiniteSet(Holders(lens)) /\ Cardinality(Holders(lens)) \in Nat
         /\ Holders(lens) \subseteq Decks /\ Holders(lens)' \subseteq Decks
         /\ \A S \in SUBSET Holders(lens) : Cardinality(S) \in Nat
                                            /\ Cardinality(S) <= Cardinality(Holders(lens))
<1>1. Holders(lens) \in SUBSET Decks /\ Holders(lens)' \in SUBSET Decks
      BY DEF Holders
<1>2. IsFiniteSet(Holders(lens))
      BY <1>1, DeckAssumption, FS_Subset
<1>3. Cardinality(Holders(lens)) \in Nat
      BY <1>2, FS_CardinalityType
<1>4. ASSUME NEW S \in SUBSET Holders(lens)
      PROVE  Cardinality(S) \in Nat /\ Cardinality(S) <= Cardinality(Holders(lens))
  <2>1. IsFiniteSet(S) /\ Cardinality(S) <= Cardinality(Holders(lens))
        BY <1>2, FS_Subset
  <2> QED
      BY <2>1, FS_CardinalityType
<1> QED
    BY <1>1, <1>2, <1>3, <1>4

LEMMA BalanceType ==
  ASSUME DeckInv, NEW lens \in Regs
  PROVE  Balance(lens) \in Int /\ Balance(lens) >= Cardinality(Holders(lens))
<1>1. opened[lens] \in Nat /\ closed[lens] \in Nat /\ missed[lens] \in Nat
      BY DEF DeckInv, DeckShape
<1>2. Balance(lens) >= Cardinality(Holders(lens))
      BY DEF DeckInv, LedgerOpen
<1> QED
    BY <1>1, <1>2 DEF Balance

\* A step of one deck.  The balance of a lens may fall by one when the deck
\* stops holding it, and has to rise by one when the deck begins to.
LEMMA DeckMoves ==
  ASSUME DeckInv, NEW d \in Decks,
         NEW q \in Seq(LensEntries), NEW b \in Operations,
         NEW t \in Seq(FindingRows), NEW v \in Outcomes,
         Changes(d, q, b, t, v), DeckSound(q, b, t, v),
         opened' \in [Regs -> Nat], closed' \in [Regs -> Nat], missed' \in [Regs -> Nat],
         \A lens \in Regs :
           \/ /\ Balance(lens)' = Balance(lens)
              /\ Holds(q, b, lens) => Holds(inserted[d], busy[d], lens)
           \/ Balance(lens)' = Balance(lens) + 1
           \/ /\ Balance(lens)' = Balance(lens) - 1
              /\ Holds(inserted[d], busy[d], lens) /\ ~Holds(q, b, lens)
  PROVE  DeckInv'
<1>1. /\ inserted' \in [Decks -> Seq(LensEntries)] /\ busy' \in [Decks -> Operations]
      /\ disclosed' \in [Decks -> Seq(FindingRows)] /\ verdicts' \in [Decks -> Outcomes]
      /\ DecksSound'
      /\ \A lens : \A x \in Decks : x # d => (x \in Holders(lens)' <=> x \in Holders(lens))
      /\ \A lens : d \in Holders(lens)' <=> Holds(q, b, lens)
      BY OneDeckChanges
<1>2. ASSUME NEW lens \in Regs
      PROVE  Balance(lens)' >= Cardinality(Holders(lens)')
  <2>1. PICK H : H = Holders(lens)
        OBVIOUS
  <2>2. PICK K : K = Holders(lens)'
        OBVIOUS
  <2>3. PICK m : m = Balance(lens)
        OBVIOUS
  <2>4. PICK n : n = Balance(lens)'
        OBVIOUS
  <2>5. m \in Int /\ m >= Cardinality(H)
        BY <2>1, <2>3, BalanceType
  <2>6. /\ IsFiniteSet(H) /\ Cardinality(H) \in Nat /\ H \subseteq Decks /\ K \subseteq Decks
        /\ \A S \in SUBSET H : Cardinality(S) \in Nat /\ Cardinality(S) <= Cardinality(H)
        BY <2>1, <2>2, HoldersFinite
  <2>7. d \in H <=> Holds(inserted[d], busy[d], lens)
        BY <2>1 DEF Holders
  <2>8. \A x \in Decks : x # d => (x \in K <=> x \in H)
        BY <1>1, <2>1, <2>2
  <2>9. d \in K <=> Holds(q, b, lens)
        BY <1>1, <2>2
  <2>10. CASE n = m /\ (d \in K => d \in H)
    <3>1. K \in SUBSET H
          BY <2>6, <2>8, <2>10
    <3>2. Cardinality(K) \in Nat /\ Cardinality(K) <= Cardinality(H)
          BY <2>6, <3>1
    <3>3. n >= Cardinality(K)
          BY <2>5, <2>6, <2>10, <3>2
    <3> QED
        BY <2>2, <2>4, <3>3
  <2>11. CASE n = m + 1
    <3>1. H \cup {d} = K \/ K \in SUBSET H
      <4>1. CASE d \in K
            BY <2>6, <2>8, <4>1
      <4>2. CASE d \notin K
            BY <2>6, <2>8, <4>2
      <4> QED
          BY <4>1, <4>2
    <3>2. Cardinality(H \cup {d}) = IF d \in H THEN Cardinality(H) ELSE Cardinality(H) + 1
          BY <2>6, FS_AddElement
    <3>3. Cardinality(K) \in Nat /\ Cardinality(K) <= Cardinality(H) + 1
      <4>1. CASE H \cup {d} = K
        <5>1. Cardinality(K) = Cardinality(H) \/ Cardinality(K) = Cardinality(H) + 1
              BY <3>2, <4>1
        <5> QED
            BY <2>6, <5>1
      <4>2. CASE K \in SUBSET H
        <5>1. Cardinality(K) \in Nat /\ Cardinality(K) <= Cardinality(H)
              BY <2>6, <4>2
        <5> QED
            BY <2>6, <5>1
      <4> QED
          BY <3>1, <4>1, <4>2
    <3> QED
        BY <2>2, <2>4, <2>5, <2>6, <2>11, <3>3
  <2>12. CASE n = m - 1 /\ d \in H /\ d \notin K
    <3>1. K = H \ {d}
          BY <2>6, <2>8, <2>12
    <3>2. Cardinality(H \ {d}) = IF d \in H THEN Cardinality(H) - 1 ELSE Cardinality(H)
          BY <2>6, FS_RemoveElement
    <3>3. Cardinality(K) = Cardinality(H) - 1
          BY <2>12, <3>1, <3>2
    <3> QED
        BY <2>2, <2>4, <2>5, <2>6, <2>12, <3>3
  <2> QED
      BY <2>3, <2>4, <2>7, <2>9, <2>10, <2>11, <2>12
<1>3. LedgerOpen'
      BY <1>2 DEF LedgerOpen
<1> QED
    BY <1>1, <1>3 DEF DeckInv, DeckShape

\* A step that records nothing about lenses and lets no deck hold more.
LEMMA QuietStep ==
  ASSUME DeckInv, NEW d \in Decks,
         NEW q \in Seq(LensEntries), NEW b \in Operations,
         NEW t \in Seq(FindingRows), NEW v \in Outcomes,
         Changes(d, q, b, t, v), DeckSound(q, b, t, v),
         UNCHANGED <<opened, closed, missed>>,
         \A lens \in Regs : Holds(q, b, lens) => Holds(inserted[d], busy[d], lens)
  PROVE  DeckInv'
<1>1. opened' \in [Regs -> Nat] /\ closed' \in [Regs -> Nat] /\ missed' \in [Regs -> Nat]
      BY DEF DeckInv, DeckShape
<1>2. \A lens \in Regs : Balance(lens)' = Balance(lens)
      BY DEF Balance
<1> QED
    BY <1>1, <1>2, DeckMoves

-----------------------------------------------------------------------------
(* Every step of a deck keeps the invariant.                                *)

\* What a deck is before a step.
LEMMA DeckBefore ==
  ASSUME DeckInv, NEW d \in Decks
  PROVE  /\ inserted[d] \in Seq(LensEntries) /\ busy[d] \in Operations
         /\ disclosed[d] \in Seq(FindingRows) /\ verdicts[d] \in Outcomes
         /\ inserted = [inserted EXCEPT ![d] = inserted[d]]
         /\ busy = [busy EXCEPT ![d] = busy[d]]
         /\ disclosed = [disclosed EXCEPT ![d] = disclosed[d]]
         /\ verdicts = [verdicts EXCEPT ![d] = verdicts[d]]
         /\ DeckSound(inserted[d], busy[d], disclosed[d], verdicts[d])
<1>1. /\ inserted \in [Decks -> Seq(LensEntries)] /\ busy \in [Decks -> Operations]
      /\ disclosed \in [Decks -> Seq(FindingRows)] /\ verdicts \in [Decks -> Outcomes]
      BY DEF DeckInv, DeckShape
<1>2. DeckSound(inserted[d], busy[d], disclosed[d], verdicts[d])
      BY DEF DeckInv, DecksSound
<1>3. /\ inserted = [inserted EXCEPT ![d] = inserted[d]]
      /\ busy = [busy EXCEPT ![d] = busy[d]]
      BY <1>1
<1>4. /\ disclosed = [disclosed EXCEPT ![d] = disclosed[d]]
      /\ verdicts = [verdicts EXCEPT ![d] = verdicts[d]]
      BY <1>1
<1> QED
    BY <1>1, <1>2, <1>3, <1>4

LEMMA OperationKinds ==
  ASSUME NEW b \in Operations
  PROVE  /\ b.at \in {"bound", "entering"} => b \in Entering
         /\ b.at = "leaving" => b \in Leaving
         /\ b.at \in Judging => b \in Reviewing
         /\ Free \in Operations /\ Free.at = "idle"
<1>1. Free.at = "idle"
      BY DEF Free
<1>2. \A x \in Entering : x.at \in {"bound", "entering"}
      BY DEF Entering
<1>3. \A x \in Reviewing : x.at \in Judging
      BY DEF Reviewing
<1>4. b = Free \/ b \in Entering \/ b \in Leaving \/ b \in Reviewing
      BY DEF Operations
<1>5. /\ "idle" \notin Judging /\ "bound" \notin Judging /\ "entering" \notin Judging
      /\ "leaving" \notin Judging
      BY DEF Judging
<1>6. Free \in Operations
      BY DEF Operations
<1>7. \A x \in Leaving : x.at = "leaving"
      BY DEF Leaving
<1> QED
    BY <1>1, <1>2, <1>3, <1>4, <1>5, <1>6, <1>7

LEMMA InsertBindKeeps ==
  ASSUME DeckInv, NEW d \in Decks, NEW lens \in Regs, NEW mode \in {"observer", "live"},
         InsertBind(d, lens, mode)
  PROVE  DeckInv'
<1> DEFINE q == inserted[d]
           t == disclosed[d]
           v == verdicts[d]
           b == [at |-> "bound", lens |-> lens, mode |-> mode]
<1>1. /\ busy' = [busy EXCEPT ![d] = b] /\ lens \notin LensesOf(q)
      /\ busy[d].at = "idle"
      /\ UNCHANGED <<inserted, opened, closed, missed, disclosed, verdicts>>
      BY DEF InsertBind, Steps, Active, LensesOf
<1>2. b \in Operations /\ b.at = "bound" /\ b.lens = lens
      BY DEF Operations, Entering
<1> HIDE DEF b
<1>3. Changes(d, q, b, t, v)
      BY <1>1, DeckBefore DEF Changes
<1>4. DeckSound(q, b, t, v)
  <2>1. DeckSound(q, busy[d], t, v)
        BY DeckBefore
  <2>2. b.at \notin Judging
        BY <1>2 DEF Judging
  <2> QED
      BY <1>1, <1>2, <2>1, <2>2 DEF DeckSound
<1>5. \A l \in Regs : Holds(q, b, l) => Holds(q, busy[d], l)
      BY <1>1, <1>2 DEF Holds
<1>6. q \in Seq(LensEntries) /\ t \in Seq(FindingRows) /\ v \in Outcomes
      BY DeckBefore
<1>7. UNCHANGED <<opened, closed, missed>>
      BY <1>1
<1> HIDE DEF q, t, v
<1>8. \A l \in Regs : Holds(q, b, l) => Holds(inserted[d], busy[d], l)
      BY <1>5 DEF q
<1> QED
    BY <1>2, <1>3, <1>4, <1>6, <1>7, <1>8, QuietStep

LEMMA InsertEventKeeps ==
  ASSUME DeckInv, NEW d \in Decks, InsertEvent(d)
  PROVE  DeckInv'
<1> DEFINE q == inserted[d]
           t == disclosed[d]
           v == verdicts[d]
           b == [busy[d] EXCEPT !.at = "entering"]
           L == busy[d].lens
<1>1. /\ busy[d].at = "bound" /\ opened' = [opened EXCEPT ![L] = @ + 1]
      /\ busy' = [busy EXCEPT ![d] = b]
      /\ UNCHANGED <<inserted, closed, missed, disclosed, verdicts>>
      BY DEF InsertEvent, Steps
<1>2. busy[d] \in Entering
      BY <1>1, DeckBefore, OperationKinds
<1>3. b \in Entering /\ b.at = "entering" /\ b.lens = L /\ L \in Regs
      BY <1>2 DEF Entering
<1>4. b \in Operations
      BY <1>3 DEF Operations
<1> HIDE DEF b
<1>5. Changes(d, q, b, t, v)
      BY <1>1, DeckBefore DEF Changes
<1>6. DeckSound(q, b, t, v)
  <2>1. DeckSound(q, busy[d], t, v)
        BY DeckBefore
  <2>2. b.at \notin Judging
        BY <1>3 DEF Judging
  <2> QED
      BY <1>1, <1>3, <2>1, <2>2 DEF DeckSound
<1>7. q \in Seq(LensEntries) /\ t \in Seq(FindingRows) /\ v \in Outcomes
      BY DeckBefore
<1> HIDE DEF q, t, v
<1>8. /\ opened \in [Regs -> Nat] /\ closed \in [Regs -> Nat] /\ missed \in [Regs -> Nat]
      BY DEF DeckInv, DeckShape
<1>9. /\ opened' \in [Regs -> Nat] /\ closed' \in [Regs -> Nat] /\ missed' \in [Regs -> Nat]
      BY <1>1, <1>3, <1>8
<1>10. ASSUME NEW lens \in Regs
       PROVE  \/ Balance(lens)' = Balance(lens) /\ (Holds(q, b, lens) => Holds(q, busy[d], lens))
              \/ Balance(lens)' = Balance(lens) + 1
  <2>1. /\ opened[lens] \in Nat /\ closed[lens] \in Nat /\ missed[lens] \in Nat
        /\ closed'[lens] = closed[lens] /\ missed'[lens] = missed[lens]
        BY <1>1, <1>8
  <2>2. CASE lens = L
    <3>1. opened'[lens] = opened[lens] + 1
          BY <1>1, <1>8, <2>2
    <3>2. Balance(lens)' = Balance(lens) + 1
          BY <2>1, <3>1 DEF Balance
    <3> QED
        BY <3>2
  <2>3. CASE lens # L
    <3>1. opened'[lens] = opened[lens]
          BY <1>1, <1>8, <2>3
    <3>2. Balance(lens)' = Balance(lens)
          BY <2>1, <3>1 DEF Balance
    <3>3. Holds(q, b, lens) => Holds(q, busy[d], lens)
          BY <1>1, <1>3, <2>3 DEF Holds
    <3> QED
        BY <3>2, <3>3
  <2> QED
      BY <2>2, <2>3
<1> QED
    BY <1>4, <1>5, <1>6, <1>7, <1>9, <1>10, DeckMoves DEF q

LEMMA InsertActivateKeeps ==
  ASSUME DeckInv, NEW d \in Decks, InsertActivate(d)
  PROVE  DeckInv'
<1> DEFINE e == [lens |-> busy[d].lens, mode |-> busy[d].mode]
           q == Append(inserted[d], e)
           t == disclosed[d]
           v == verdicts[d]
           L == busy[d].lens
<1>1. /\ busy[d].at = "entering" /\ busy' = [busy EXCEPT ![d] = Free]
      /\ inserted' = [inserted EXCEPT ![d] = q]
      /\ UNCHANGED <<opened, closed, missed, disclosed, verdicts>>
      BY DEF InsertActivate, Steps, Enters
<1>2. busy[d] \in Entering
      BY <1>1, DeckBefore, OperationKinds
<1>3. e \in LensEntries /\ e.lens = L /\ L \in Regs
      BY <1>2 DEF Entering, LensEntries
<1> HIDE DEF e
<1>4. /\ inserted[d] \in Seq(LensEntries) /\ t \in Seq(FindingRows) /\ v \in Outcomes
      /\ DeckSound(inserted[d], busy[d], t, v) /\ Free \in Operations /\ Free.at = "idle"
      BY DeckBefore, OperationKinds
<1>5. PICK p : p = inserted[d]
      OBVIOUS
<1>6. PICK n \in Nat : n = Len(p)
      BY <1>4, <1>5
<1>7. /\ q \in Seq(LensEntries) /\ DOMAIN p = 1..n /\ DOMAIN q = 1..(n + 1)
      /\ q[n + 1] = e /\ \A i \in 1..n : q[i] = p[i]
      BY <1>3, <1>4, <1>5, <1>6
<1> HIDE DEF q
<1>8. \A i \in DOMAIN q : i = n + 1 \/ i \in DOMAIN p
      BY <1>7
<1>9. L \notin LensesOf(p)
      BY <1>1, <1>4, <1>5 DEF DeckSound
<1>10. \A i \in DOMAIN p : p[i].lens # L
      BY <1>9 DEF LensesOf
<1>11. \A i, j \in DOMAIN q : q[i].lens = q[j].lens => i = j
  <2>1. \A i, j \in DOMAIN p : p[i].lens = p[j].lens => i = j
        BY <1>4, <1>5 DEF DeckSound
  <2> QED
      BY <1>3, <1>7, <1>8, <1>10, <2>1
<1>12. \A l \in Regs : Holds(q, Free, l) => Holds(p, busy[d], l)
  <2> SUFFICES ASSUME NEW l \in Regs, Holds(q, Free, l) PROVE Holds(p, busy[d], l)
      OBVIOUS
  <2>1. PICK i \in DOMAIN q : q[i].lens = l
        BY <1>4 DEF Holds, LensesOf
  <2>2. CASE i = n + 1
        BY <1>1, <1>3, <1>7, <2>1, <2>2 DEF Holds
  <2>3. CASE i \in DOMAIN p
    <3>1. l \in LensesOf(p)
          BY <1>7, <2>1, <2>3 DEF LensesOf
    <3> QED
        BY <1>1, <3>1 DEF Holds
  <2> QED
      BY <1>8, <2>2, <2>3
<1>13. DeckSound(q, Free, t, v)
  <2>1. v # NoVerdict => OutcomeTold(v, t)
        BY <1>4 DEF DeckSound
  <2>2. Free.at \notin Judging /\ Free.at \notin {"bound", "entering"}
        BY <1>4 DEF Judging
  <2> QED
      BY <1>11, <2>1, <2>2 DEF DeckSound
<1>14. Changes(d, q, Free, t, v)
      BY <1>1, DeckBefore DEF Changes
<1>15. UNCHANGED <<opened, closed, missed>>
      BY <1>1
<1> HIDE DEF t, v
<1> QED
    BY <1>4, <1>5, <1>7, <1>12, <1>13, <1>14, <1>15, QuietStep

LEMMA RemoveEventKeeps ==
  ASSUME DeckInv, NEW d \in Decks, NEW L \in Regs, RemoveEvent(d, L)
  PROVE  DeckInv'
<1> DEFINE q == inserted[d]
           t == disclosed[d]
           v == verdicts[d]
           b == [at |-> "leaving", lens |-> L]
<1>1. /\ busy[d].at = "idle" /\ L \in LensesOf(q)
      /\ closed' = [closed EXCEPT ![L] = @ + 1] /\ busy' = [busy EXCEPT ![d] = b]
      /\ UNCHANGED <<inserted, opened, missed, disclosed, verdicts>>
      BY DEF RemoveEvent, Steps, Active, LensesOf
<1>2. b \in Operations /\ b.at = "leaving" /\ b.lens = L
      BY DEF Operations, Leaving
<1> HIDE DEF b
<1>3. Changes(d, q, b, t, v)
      BY <1>1, DeckBefore DEF Changes
<1>4. DeckSound(q, b, t, v)
  <2>1. DeckSound(q, busy[d], t, v)
        BY DeckBefore
  <2>2. b.at \notin Judging
        BY <1>2 DEF Judging
  <2> QED
      BY <1>1, <1>2, <2>1, <2>2 DEF DeckSound
<1>5. q \in Seq(LensEntries) /\ t \in Seq(FindingRows) /\ v \in Outcomes
      BY DeckBefore
<1> HIDE DEF q, t, v
<1>6. /\ opened \in [Regs -> Nat] /\ closed \in [Regs -> Nat] /\ missed \in [Regs -> Nat]
      BY DEF DeckInv, DeckShape
<1>7. /\ opened' \in [Regs -> Nat] /\ closed' \in [Regs -> Nat] /\ missed' \in [Regs -> Nat]
      BY <1>1, <1>6
<1>8. ASSUME NEW lens \in Regs
      PROVE  \/ Balance(lens)' = Balance(lens) /\ (Holds(q, b, lens) => Holds(q, busy[d], lens))
             \/ Balance(lens)' = Balance(lens) - 1 /\ Holds(q, busy[d], lens) /\ ~Holds(q, b, lens)
  <2>1. /\ opened[lens] \in Nat /\ closed[lens] \in Nat /\ missed[lens] \in Nat
        /\ opened'[lens] = opened[lens] /\ missed'[lens] = missed[lens]
        BY <1>1, <1>6
  <2>2. CASE lens = L
    <3>1. closed'[lens] = closed[lens] + 1
          BY <1>1, <1>6, <2>2
    <3>2. Balance(lens)' = Balance(lens) - 1
          BY <2>1, <3>1 DEF Balance
    <3>3. Holds(q, busy[d], lens) /\ ~Holds(q, b, lens)
          BY <1>1, <1>2, <2>2 DEF Holds
    <3> QED
        BY <3>2, <3>3
  <2>3. CASE lens # L
    <3>1. closed'[lens] = closed[lens]
          BY <1>1, <1>6, <2>3
    <3>2. Balance(lens)' = Balance(lens)
          BY <2>1, <3>1 DEF Balance
    <3>3. Holds(q, b, lens) => Holds(q, busy[d], lens)
          BY <1>1, <1>2 DEF Holds
    <3> QED
        BY <3>2, <3>3
  <2> QED
      BY <2>2, <2>3
<1> QED
    BY <1>2, <1>3, <1>4, <1>5, <1>7, <1>8, DeckMoves DEF q

LEMMA RemoveLensKeeps ==
  ASSUME DeckInv, NEW d \in Decks, RemoveLens(d)
  PROVE  DeckInv'
<1> DEFINE t == disclosed[d]
           v == verdicts[d]
           b == busy[d]
           L == busy[d].lens
<1>1. PICK p : p = inserted[d]
      OBVIOUS
<1>2. /\ b.at = "leaving" /\ busy' = [busy EXCEPT ![d] = Free]
      /\ UNCHANGED <<opened, closed, missed, disclosed, verdicts>>
      BY DEF RemoveLens, Steps
<1>3. PICK k \in DOMAIN p : /\ p[k].lens = L
                            /\ inserted' = [inserted EXCEPT ![d] = RemoveAt(p, k)]
      BY <1>1 DEF RemoveLens
<1>4. /\ p \in Seq(LensEntries) /\ t \in Seq(FindingRows) /\ v \in Outcomes /\ b \in Operations
      /\ DeckSound(p, b, t, v)
      BY <1>1, DeckBefore
<1>5. PICK n \in Nat : n = Len(p) /\ DOMAIN p = 1..n
      BY <1>4
<1>6. PICK q : q = RemoveAt(p, k)
      OBVIOUS
<1>7. IsSequence(q) /\ Len(q) = n - 1
      /\ \A i \in 1..(n - 1) : q[i] = IF i < k THEN p[i] ELSE p[i + 1]
  <2>1. IsSequence(p)
        BY <1>4 DEF IsSequence
  <2> QED
      BY <1>5, <1>6, <2>1, RemovedFrom
<1>8. DOMAIN q = 1..(n - 1)
      BY <1>7 DEF IsSequence
<1> DEFINE old(i) == IF i < k THEN i ELSE i + 1
<1>9. /\ \A i \in 1..(n - 1) : old(i) \in 1..n /\ old(i) # k /\ q[i] = p[old(i)]
      /\ \A i, j \in 1..(n - 1) : old(i) = old(j) => i = j
      BY <1>5, <1>7
<1> HIDE DEF old
<1>10. \A i \in 1..n : p[i] \in LensEntries
      BY <1>4, <1>5
<1>11. q \in Seq(LensEntries)
  <2>1. \A i \in 1..(n - 1) : q[i] \in LensEntries
        BY <1>9, <1>10
  <2>2. q = [i \in 1..(n - 1) |-> q[i]]
        BY <1>7, <1>8 DEF IsSequence
  <2>3. q \in [1..(n - 1) -> LensEntries]
        BY <2>1, <2>2
  <2>4. n - 1 \in Nat
        BY <1>5
  <2> QED
      BY <2>3, <2>4, NumberedIsSequence
<1>12. \A i, j \in 1..n : p[i].lens = p[j].lens => i = j
      BY <1>4, <1>5 DEF DeckSound
<1>13. \A i, j \in DOMAIN q : q[i].lens = q[j].lens => i = j
      BY <1>8, <1>9, <1>12
<1>14. L \notin LensesOf(q) /\ LensesOf(q) \subseteq LensesOf(p)
  <2>1. \A i \in 1..(n - 1) : q[i].lens # L
        BY <1>3, <1>5, <1>9, <1>12
  <2>2. \A i \in 1..(n - 1) : \E j \in 1..n : q[i].lens = p[j].lens
        BY <1>9
  <2>3. L \notin LensesOf(q)
        BY <1>8, <2>1 DEF LensesOf
  <2>4. LensesOf(q) \subseteq LensesOf(p)
    <3>1. \A j \in 1..n : p[j].lens \in LensesOf(p)
          BY <1>5 DEF LensesOf
    <3>2. \A i \in 1..(n - 1) : q[i].lens \in LensesOf(p)
          BY <2>2, <3>1
    <3>3. LensesOf(q) = {q[i].lens : i \in 1..(n - 1)}
          BY <1>8 DEF LensesOf
    <3> QED
        BY <3>2, <3>3
  <2> QED
      BY <2>3, <2>4
<1>15. Free \in Operations /\ Free.at = "idle"
      BY <1>4, OperationKinds
<1>16. DeckSound(q, Free, t, v)
  <2>1. v # NoVerdict => OutcomeTold(v, t)
        BY <1>4 DEF DeckSound
  <2>2. Free.at \notin Judging /\ Free.at \notin {"bound", "entering"}
        BY <1>15 DEF Judging
  <2> QED
      BY <1>13, <2>1, <2>2 DEF DeckSound
<1>17. Changes(d, q, Free, t, v)
      BY <1>2, <1>3, <1>6, DeckBefore DEF Changes
<1>18. \A l \in Regs : Holds(q, Free, l) => Holds(p, b, l)
      BY <1>2, <1>14, <1>15 DEF Holds
<1>19. \A l \in Regs : Holds(q, Free, l) => Holds(inserted[d], busy[d], l)
      BY <1>1, <1>18 DEF b
<1>20. UNCHANGED <<opened, closed, missed>>
      BY <1>2
<1> HIDE DEF b, t, v
<1> QED
    BY <1>4, <1>11, <1>15, <1>16, <1>17, <1>19, <1>20, QuietStep

\* A step of judge(), of a failed write or of a death: the lenses of the
\* deck stay or go, and none is about to enter.
LEMMA JudgingStep ==
  ASSUME DeckInv, NEW d \in Decks, NEW q \in {inserted[d], <<>>},
         NEW b \in {Free} \cup Reviewing, NEW t \in Seq(FindingRows), NEW v \in Outcomes,
         Changes(d, q, b, t, v), UNCHANGED <<opened, closed, missed>>,
         q = <<>> \/ busy[d].at # "leaving",
         b.at \in Judging => v = NoVerdict /\ Telling(b, t),
         v # NoVerdict => OutcomeTold(v, t)
  PROVE  DeckInv'
<1>1. /\ inserted[d] \in Seq(LensEntries)
      /\ DeckSound(inserted[d], busy[d], disclosed[d], verdicts[d])
      BY DeckBefore
<1>2. q \in Seq(LensEntries) /\ LensesOf(q) \subseteq LensesOf(inserted[d])
  <2>1. <<>> \in Seq(LensEntries) /\ LensesOf(<<>>) = {}
        BY DEF LensesOf
  <2> QED
      BY <1>1, <2>1
<1>3. \A i, j \in DOMAIN q : q[i].lens = q[j].lens => i = j
  <2>1. DOMAIN <<>> = {}
        OBVIOUS
  <2> QED
      BY <1>1, <2>1 DEF DeckSound
<1>4. b \in Operations /\ b.at \notin {"bound", "entering"}
  <2>1. Free.at = "idle"
        BY DEF Free
  <2>2. \A x \in Reviewing : x.at \in Judging
        BY DEF Reviewing
  <2>3. "bound" \notin Judging /\ "entering" \notin Judging
        BY DEF Judging
  <2> QED
      BY <2>1, <2>2, <2>3 DEF Operations
<1>5. DeckSound(q, b, t, v)
      BY <1>3, <1>4 DEF DeckSound
<1>6. \A lens \in Regs : Holds(q, b, lens) => Holds(inserted[d], busy[d], lens)
  <2>1. q = <<>> => LensesOf(q) = {}
        BY DEF LensesOf
  <2> QED
      BY <1>2, <1>4, <2>1 DEF Holds
<1> QED
    BY <1>2, <1>4, <1>5, <1>6, QuietStep

LEMMA BeginJudgeKeeps ==
  ASSUME DeckInv, NEW d \in Decks, NEW asked \in [Regs -> Reviews], BeginJudge(d, asked)
  PROVE  DeckInv'
<1> DEFINE found == LiveFindings(d, asked)
           b == [at |-> "review", found |-> found, told |-> 0]
<1>1. inserted[d] \in Seq(LensEntries)
      BY DeckBefore
<1>2. found \in Seq(FoundIn({"review"}))
      BY <1>1, LiveAreReviews
<1>3. \A row \in FoundIn({"review"}) : row \in FindingRows /\ row.check = "review"
      BY DEF FoundIn, FindingRows
<1>4. /\ busy' = [busy EXCEPT ![d] = b] /\ disclosed' = [disclosed EXCEPT ![d] = <<>>]
      /\ verdicts' = [verdicts EXCEPT ![d] = NoVerdict] /\ busy[d].at = "idle"
      /\ UNCHANGED <<inserted, opened, closed, missed>>
      BY DEF BeginJudge, Steps
<1> HIDE DEF found
<1>5. found \in Seq(FindingRows) /\ \A i \in DOMAIN found : found[i].check = "review"
  <2>1. PICK n \in Nat : n = Len(found) /\ DOMAIN found = 1..n
        BY <1>2
  <2>2. \A i \in 1..n : found[i] \in FoundIn({"review"})
        BY <1>2, <2>1
  <2>3. found = [i \in 1..n |-> found[i]]
        BY <1>2, <2>1
  <2>4. found \in [1..n -> FindingRows]
        BY <1>3, <2>2, <2>3
  <2> QED
      BY <1>3, <2>1, <2>2, <2>4, NumberedIsSequence
<1>6. b \in Reviewing /\ b.at = "review" /\ b.found = found /\ b.told = 0
      BY <1>5 DEF Reviewing, Judging
<1> HIDE DEF b
<1>7. Telling(b, <<>>)
  <2>1. ConflictsStrict(found)
        BY <1>5 DEF ConflictsStrict
  <2>2. 0 <= Len(found) /\ Len(<<>>) = 0 /\ 1..0 = {}
        BY <1>5
  <2> QED
      BY <1>5, <1>6, <2>1, <2>2 DEF Telling
<1>8. Changes(d, inserted[d], b, <<>>, NoVerdict)
      BY <1>4, DeckBefore DEF Changes
<1>9. <<>> \in Seq(FindingRows) /\ NoVerdict \in Outcomes
      BY DEF Outcomes
<1>10. UNCHANGED <<opened, closed, missed>> /\ busy[d].at # "leaving"
      BY <1>4
<1> QED
    BY <1>6, <1>7, <1>8, <1>9, <1>10, JudgingStep

LEMMA DiscloseKeeps ==
  ASSUME DeckInv, NEW d \in Decks, Disclose(d)
  PROVE  DeckInv'
<1> DEFINE o == busy[d]
           u == disclosed[d]
           v == verdicts[d]
           t == Append(u, o.found[o.told + 1])
           b == [o EXCEPT !.told = @ + 1]
<1>1. /\ o.at \in Judging /\ o.told < Len(o.found)
      /\ disclosed' = [disclosed EXCEPT ![d] = t] /\ busy' = [busy EXCEPT ![d] = b]
      /\ UNCHANGED <<inserted, opened, closed, missed, verdicts>>
      BY DEF Disclose, Steps, Judging
<1>2. /\ o \in Operations /\ u \in Seq(FindingRows) /\ v \in Outcomes
      /\ DeckSound(inserted[d], o, u, v)
      BY DeckBefore
<1>3. o \in Reviewing
      BY <1>1, <1>2, OperationKinds
<1>4. v = NoVerdict /\ Telling(o, u)
      BY <1>1, <1>2 DEF DeckSound
<1>5. o.found \in Seq(FindingRows) /\ o.told \in Nat
      BY <1>3 DEF Reviewing
<1>6. /\ b \in Reviewing /\ b.at = o.at /\ b.found = o.found /\ b.told = o.told + 1
      BY <1>3 DEF Reviewing
<1>7. Changes(d, inserted[d], b, t, v)
      BY <1>1, DeckBefore DEF Changes
<1>8. PICK found : found = o.found
      OBVIOUS
<1>9. PICK k \in Nat : k = o.told
      BY <1>5
<1>10. Len(u) = k /\ \A i \in 1..k : u[i] = found[i]
      BY <1>4, <1>8, <1>9 DEF Telling
<1>11. found \in Seq(FindingRows) /\ k < Len(found)
      BY <1>1, <1>5, <1>8, <1>9
<1>12. found[k + 1] \in FindingRows
      BY <1>11
<1>13. t = Append(u, found[k + 1])
      BY <1>8, <1>9
<1> HIDE DEF t, b, o, u, v
<1>14. /\ t \in Seq(FindingRows) /\ Len(t) = k + 1 /\ t[k + 1] = found[k + 1]
       /\ \A i \in 1..k : t[i] = u[i]
      BY <1>2, <1>10, <1>12, <1>13
<1>15. Telling(b, t)
  <2>1. b.told <= Len(b.found) /\ Len(t) = b.told
        BY <1>6, <1>8, <1>9, <1>11, <1>14
  <2>2. \A i \in 1..(k + 1) : t[i] = found[i]
        BY <1>10, <1>14
  <2>3. \A i \in 1..b.told : t[i] = b.found[i]
        BY <1>6, <1>8, <1>9, <2>2
  <2>4. /\ b.at = "review" => \A i \in DOMAIN b.found : b.found[i].check = "review"
        /\ ConflictsStrict(b.found)
        BY <1>4, <1>6 DEF Telling
  <2> QED
      BY <2>1, <2>3, <2>4 DEF Telling
<1>16. UNCHANGED <<opened, closed, missed>> /\ busy[d].at # "leaving"
      BY <1>1 DEF Judging, o
<1> QED
    BY <1>2, <1>4, <1>6, <1>7, <1>14, <1>15, <1>16, JudgingStep

\* The findings of one check are findings.
LEMMA FoundAreRows ==
  ASSUME NEW kind \in {"conflict", "cohort"}, NEW more \in Seq(FoundIn({kind}))
  PROVE  more \in Seq(FindingRows)
<1>1. \A row \in FoundIn({kind}) : row \in FindingRows
      BY DEF FoundIn, FindingRows
<1>2. PICK m \in Nat : m = Len(more) /\ DOMAIN more = 1..m
      OBVIOUS
<1>3. \A i \in 1..m : more[i] \in FoundIn({kind})
      BY <1>2
<1>4. more = [i \in 1..m |-> more[i]]
      BY <1>2
<1>5. more \in [1..m -> FindingRows]
      BY <1>1, <1>3, <1>4
<1> QED
    BY <1>5, NumberedIsSequence

\* Findings of another kind behind those of the lenses change no claim.
LEMMA FoundGrows ==
  ASSUME NEW found \in Seq(FindingRows), NEW kind \in {"conflict", "cohort"},
         NEW more \in Seq(FoundIn({kind}))
  PROVE  LET all == found \o more
         IN /\ all \in Seq(FindingRows) /\ Len(all) >= Len(found)
            /\ \A i \in 1..Len(found) : all[i] = found[i]
            /\ \A i \in DOMAIN all : i \notin DOMAIN found =>
                 all[i].check = kind /\ \E j \in DOMAIN more : all[i] = more[j]
            /\ ReviewPlaces(all) = ReviewPlaces(found)
            /\ Claims(all, ReviewPlaces(all)) = Claims(found, ReviewPlaces(found))
<1> DEFINE all == found \o more
<1>1. \A row \in FoundIn({kind}) : row \in FindingRows /\ row.check = kind
      BY DEF FoundIn, FindingRows
<1>2. PICK n \in Nat : n = Len(found) /\ DOMAIN found = 1..n
      OBVIOUS
<1>3. PICK m \in Nat : m = Len(more) /\ DOMAIN more = 1..m
      OBVIOUS
<1>4. \A i \in 1..m : more[i] \in FoundIn({kind})
      BY <1>3
<1>5. more \in Seq(FindingRows)
      BY FoundAreRows
<1>6. /\ all \in Seq(FindingRows) /\ DOMAIN all = 1..(n + m) /\ Len(all) = n + m
      /\ \A i \in 1..n : all[i] = found[i] /\ \A j \in 1..m : all[n + j] = more[j]
      BY <1>2, <1>3, <1>5
<1> HIDE DEF all
<1>7. \A i \in 1..(n + m) : i \notin 1..n => i - n \in 1..m /\ n + (i - n) = i
      OBVIOUS
<1>8. /\ \A i \in 1..n : all[i] = found[i]
      /\ \A i \in 1..(n + m) : i \notin 1..n => \E j \in 1..m : all[i] = more[j]
  <2>1. \A i \in 1..n : all[i] = found[i]
        BY <1>6
  <2>2. ASSUME NEW i \in 1..(n + m), i \notin 1..n PROVE \E j \in 1..m : all[i] = more[j]
    <3>1. i - n \in 1..m /\ n + (i - n) = i
          BY <1>7, <2>2
    <3>2. n \in 1..n \/ n = 0
          OBVIOUS
    <3>3. all[n + (i - n)] = more[i - n]
          BY <1>2, <1>3, <1>5, <3>1 DEF all
    <3> QED
        BY <3>1, <3>3
  <2> QED
      BY <2>1, <2>2
<1>9. \A i \in 1..(n + m) : i \notin 1..n => all[i].check = kind
      BY <1>1, <1>4, <1>8
<1>10. ReviewPlaces(all) = ReviewPlaces(found)
  <2>1. \A i \in ReviewPlaces(all) : i \in 1..n /\ found[i].check = "review"
        BY <1>6, <1>8, <1>9 DEF ReviewPlaces
  <2>2. \A i \in ReviewPlaces(found) : i \in 1..(n + m) /\ all[i].check = "review"
        BY <1>2, <1>8 DEF ReviewPlaces
  <2> QED
      BY <1>2, <1>6, <2>1, <2>2 DEF ReviewPlaces
<1>11. Claims(all, ReviewPlaces(found)) = Claims(found, ReviewPlaces(found))
  <2>1. ReviewPlaces(found) \in SUBSET DOMAIN found
        BY DEF ReviewPlaces
  <2>2. \A i \in ReviewPlaces(found) : found[i] = all[i]
        BY <1>2, <1>8, <2>1
  <2> QED
      BY <2>1, <2>2, ClaimsOfSame
<1>12. Len(all) >= Len(found)
      BY <1>2, <1>6
<1> QED
    BY <1>2, <1>3, <1>6, <1>8, <1>9, <1>10, <1>11, <1>12 DEF all

\* The next part of judge() goes on with more findings, once all are told.
LEMMA NextPartKeeps ==
  ASSUME DeckInv, NEW d \in Decks, NEW part \in {"conflicts", "cohort"},
         NEW more \in Seq(FindingRows),
         busy[d].at \in Judging, busy[d].told = Len(busy[d].found),
         busy' = [busy EXCEPT ![d] = [busy[d] EXCEPT !.at = part, !.found = @ \o more]],
         UNCHANGED <<inserted, opened, closed, missed, disclosed, verdicts>>,
         ConflictsStrict(busy[d].found \o more)
  PROVE  DeckInv'
<1> DEFINE o == busy[d]
           t == disclosed[d]
           v == verdicts[d]
           b == [o EXCEPT !.at = part, !.found = @ \o more]
<1>1. /\ o \in Operations /\ t \in Seq(FindingRows) /\ v \in Outcomes
      /\ DeckSound(inserted[d], o, t, v)
      BY DeckBefore
<1>2. o \in Reviewing
      BY <1>1, OperationKinds
<1>3. v = NoVerdict /\ Telling(o, t)
      BY <1>1 DEF DeckSound
<1>4. o.found \in Seq(FindingRows) /\ o.told \in Nat
      BY <1>2 DEF Reviewing
<1>5. PICK found : found = o.found
      OBVIOUS
<1>6. PICK all : all = found \o more
      OBVIOUS
<1>7. /\ all \in Seq(FindingRows) /\ Len(all) >= Len(found)
      /\ \A i \in 1..Len(found) : all[i] = found[i]
  <2>1. found \in Seq(FindingRows)
        BY <1>4, <1>5
  <2>2. /\ found \o more \in Seq(FindingRows) /\ Len(found \o more) >= Len(found)
        /\ \A i \in 1..Len(found) : (found \o more)[i] = found[i]
        BY <2>1
  <2> QED
      BY <1>6, <2>2
<1>8. b = [o EXCEPT !.at = part, !.found = all]
      BY <1>2, <1>5, <1>6 DEF Reviewing
<1>9. b \in Reviewing /\ b.at = part /\ b.found = all /\ b.told = o.told
      BY <1>2, <1>7, <1>8 DEF Reviewing, Judging
<1>10. Changes(d, inserted[d], b, t, v)
      BY DeckBefore DEF Changes
<1>11. ConflictsStrict(all)
      BY <1>5, <1>6
<1>12. o.told = Len(found) /\ Len(found) \in Nat /\ Len(all) \in Nat
      BY <1>4, <1>5, <1>7
<1>13. Len(t) = o.told /\ \A i \in 1..o.told : t[i] = found[i]
      BY <1>3, <1>5 DEF Telling
<1> HIDE DEF b, o, t, v
<1>14. Telling(b, t)
  <2>1. b.told <= Len(b.found) /\ Len(t) = b.told
        BY <1>7, <1>9, <1>12, <1>13
  <2>2. \A i \in 1..b.told : t[i] = b.found[i]
        BY <1>7, <1>9, <1>12, <1>13
  <2>3. b.at # "review"
        BY <1>9
  <2> QED
      BY <1>9, <1>11, <2>1, <2>2, <2>3 DEF Telling
<1>15. UNCHANGED <<opened, closed, missed>> /\ busy[d].at # "leaving"
      BY DEF Judging
<1> QED
    BY <1>1, <1>3, <1>9, <1>10, <1>14, <1>15, JudgingStep

LEMMA FindConflictsKeeps ==
  ASSUME DeckInv, NEW d \in Decks, FindConflicts(d)
  PROVE  DeckInv'
<1>1. PICK found : found = busy[d].found
      OBVIOUS
<1>2. /\ busy[d].at = "review" /\ busy[d].told = Len(found)
      BY <1>1 DEF FindConflicts, AllTold
<1>3. busy[d].at \in Judging
      BY <1>2 DEF Judging
<1>4. busy[d] \in Reviewing
      BY <1>3, DeckBefore, OperationKinds
<1>5. found \in Seq(FindingRows)
      BY <1>1, <1>4 DEF Reviewing
<1>6. \A i \in DOMAIN found : found[i].check = "review"
  <2>1. DeckSound(inserted[d], busy[d], disclosed[d], verdicts[d])
        BY DeckBefore
  <2>2. Telling(busy[d], disclosed[d])
        BY <1>3, <2>1 DEF DeckSound
  <2> QED
      BY <1>1, <1>2, <2>2 DEF Telling
<1>7. PICK more : more = TierConflicts(found)
      OBVIOUS
<1>8. /\ more \in Seq(FoundIn({"conflict"}))
      /\ \A i \in DOMAIN more :
           \A c \in DOMAIN Claims(found, DOMAIN found) :
             Rank(Claims(found, DOMAIN found)[c].tier) <= Rank(more[i].tier)
      BY <1>5, <1>7, ConflictIsStrictest
<1>9. PICK all : all = found \o more
      OBVIOUS
<1>10. /\ \A i \in 1..Len(found) : all[i] = found[i]
       /\ \A i \in DOMAIN all : i \notin DOMAIN found => \E j \in DOMAIN more : all[i] = more[j]
       /\ Claims(all, ReviewPlaces(all)) = Claims(found, ReviewPlaces(found))
      BY <1>5, <1>8, <1>9, FoundGrows
<1>11. ReviewPlaces(found) = DOMAIN found
      BY <1>6 DEF ReviewPlaces
<1>12. DOMAIN found = 1..Len(found)
      BY <1>5
<1>13. ConflictsStrict(all)
  <2> SUFFICES ASSUME NEW i \in DOMAIN all, all[i].check = "conflict",
                      NEW c \in DOMAIN Claims(found, DOMAIN found)
               PROVE  Rank(Claims(found, DOMAIN found)[c].tier) <= Rank(all[i].tier)
      BY <1>10, <1>11, Zenon DEF ConflictsStrict
  <2>1. i \notin DOMAIN found
        BY <1>6, <1>10, <1>12
  <2>2. PICK j \in DOMAIN more : all[i] = more[j]
        BY <1>10, <2>1
  <2> QED
      BY <1>8, <2>2
<1>14. /\ busy' = [busy EXCEPT ![d] = [busy[d] EXCEPT !.at = "conflicts", !.found = @ \o more]]
       /\ UNCHANGED <<inserted, opened, closed, missed, disclosed, verdicts>>
  <2>1. busy' = [busy EXCEPT ![d] = [busy[d] EXCEPT !.at = "conflicts",
                                                    !.found = @ \o TierConflicts(@)]]
        BY DEF FindConflicts, Steps
  <2>2. [busy[d] EXCEPT !.at = "conflicts", !.found = @ \o TierConflicts(@)]
          = [busy[d] EXCEPT !.at = "conflicts", !.found = @ \o more]
        BY <1>1, <1>4, <1>7 DEF Reviewing
  <2> QED
      BY <2>1, <2>2 DEF FindConflicts
<1>15. more \in Seq(FindingRows)
      BY <1>8, FoundAreRows
<1> QED
    BY <1>1, <1>2, <1>3, <1>9, <1>13, <1>14, <1>15, NextPartKeeps

LEMMA EscalateKeeps ==
  ASSUME DeckInv, NEW d \in Decks, NEW flagged, EscalateCohort(d, flagged)
  PROVE  DeckInv'
<1>1. PICK found : found = busy[d].found
      OBVIOUS
<1>2. /\ busy[d].at = "conflicts" /\ busy[d].told = Len(found)
      BY <1>1 DEF EscalateCohort, AllTold
<1>3. busy[d].at \in Judging
      BY <1>2 DEF Judging
<1>4. busy[d] \in Reviewing
      BY <1>3, DeckBefore, OperationKinds
<1>5. found \in Seq(FindingRows)
      BY <1>1, <1>4 DEF Reviewing
<1>6. ConflictsStrict(found)
  <2>1. DeckSound(inserted[d], busy[d], disclosed[d], verdicts[d])
        BY DeckBefore
  <2>2. Telling(busy[d], disclosed[d])
        BY <1>3, <2>1 DEF DeckSound
  <2> QED
      BY <1>1, <2>2 DEF Telling
<1>7. PICK more : more = Escalations(d, flagged)
      OBVIOUS
<1>8. more \in Seq(FoundIn({"cohort"}))
  <2>1. inserted[d] \in Seq(LensEntries)
        BY DeckBefore
  <2> QED
      BY <1>7, <2>1, EscalationsAreFlags
<1>9. PICK all : all = found \o more
      OBVIOUS
<1>10. /\ \A i \in 1..Len(found) : all[i] = found[i]
       /\ \A i \in DOMAIN all : i \notin DOMAIN found => all[i].check = "cohort"
       /\ Claims(all, ReviewPlaces(all)) = Claims(found, ReviewPlaces(found))
      BY <1>5, <1>8, <1>9, FoundGrows
<1>11. DOMAIN found = 1..Len(found)
      BY <1>5
<1>12. PICK claims : claims = Claims(found, ReviewPlaces(found))
      OBVIOUS
<1>13. ConflictsStrict(all)
  <2> SUFFICES ASSUME NEW i \in DOMAIN all, all[i].check = "conflict", NEW c \in DOMAIN claims
               PROVE  Rank(claims[c].tier) <= Rank(all[i].tier)
      BY <1>10, <1>12, Zenon DEF ConflictsStrict
  <2>1. i \in DOMAIN found
        BY <1>10
  <2>2. all[i] = found[i]
        BY <1>10, <1>11, <2>1
  <2> QED
      BY <1>6, <1>12, <2>1, <2>2 DEF ConflictsStrict
<1>14. /\ busy' = [busy EXCEPT ![d] = [busy[d] EXCEPT !.at = "cohort", !.found = @ \o more]]
       /\ UNCHANGED <<inserted, opened, closed, missed, disclosed, verdicts>>
      BY <1>7 DEF EscalateCohort, Steps
<1>15. more \in Seq(FindingRows)
      BY <1>8, FoundAreRows
<1> QED
    BY <1>1, <1>2, <1>3, <1>9, <1>13, <1>14, <1>15, NextPartKeeps

LEMMA ConcludeKeeps ==
  ASSUME DeckInv, NEW d \in Decks, Conclude(d)
  PROVE  DeckInv'
<1>1. PICK found : found = busy[d].found
      OBVIOUS
<1>2. busy[d].at = "cohort" /\ busy[d].told = Len(found)
      BY <1>1 DEF Conclude, AllTold
<1>3. busy[d].at \in Judging
      BY <1>2 DEF Judging
<1>4. busy[d] \in Reviewing
      BY <1>3, DeckBefore, OperationKinds
<1>5. found \in Seq(FindingRows)
      BY <1>1, <1>4 DEF Reviewing
<1> DEFINE t == disclosed[d]
           blocks == \E i \in DOMAIN found : found[i].action = "block"
           v == [kind |-> IF blocks THEN "blocked" ELSE "judged", found |-> found]
<1>6. t \in Seq(FindingRows) /\ DeckSound(inserted[d], busy[d], t, verdicts[d])
      BY DeckBefore
<1>7. Telling(busy[d], t)
      BY <1>3, <1>6 DEF DeckSound
<1>8. Len(t) = Len(found) /\ (\A i \in 1..Len(found) : t[i] = found[i]) /\ ConflictsStrict(found)
      BY <1>1, <1>2, <1>7 DEF Telling
<1>9. t = found
  <2> HIDE DEF t
  <2> QED
      BY <1>5, <1>6, <1>8
<1>10. \A i \in DOMAIN found : found[i].action \in {"flag", "block"}
  <2>1. \A i \in DOMAIN found : found[i] \in FindingRows
        BY <1>5
  <2> QED
      BY <2>1 DEF FindingRows, FoundIn
<1>11. /\ verdicts' = [verdicts EXCEPT ![d] = v] /\ busy' = [busy EXCEPT ![d] = Free]
       /\ UNCHANGED <<inserted, opened, closed, missed, disclosed>>
      BY <1>1 DEF Conclude, Steps
<1>12. /\ v \in Outcomes /\ v.found = found
       /\ v.kind = "judged" => ~blocks
      BY <1>5 DEF Outcomes
<1> HIDE DEF v, t
<1>13. OutcomeTold(v, t)
      BY <1>8, <1>9, <1>10, <1>12 DEF OutcomeTold
<1>14. Changes(d, inserted[d], Free, t, v)
      BY <1>11, DeckBefore DEF Changes, t
<1>15. Free.at \notin Judging
      BY DEF Free, Judging
<1>16. UNCHANGED <<opened, closed, missed>> /\ busy[d].at # "leaving"
      BY <1>2, <1>11
<1> QED
    BY <1>6, <1>12, <1>13, <1>14, <1>15, <1>16, JudgingStep

LEMMA WriteFailsKeeps ==
  ASSUME DeckInv, NEW d \in Decks, WriteFails(d)
  PROVE  DeckInv'
<1> DEFINE t == disclosed[d]
           v == verdicts[d]
<1>1. /\ t \in Seq(FindingRows) /\ v \in Outcomes
      /\ DeckSound(inserted[d], busy[d], t, v)
      BY DeckBefore
<1>2. /\ busy' = [busy EXCEPT ![d] = Free] /\ busy[d].at # "leaving"
      /\ UNCHANGED <<inserted, opened, closed, missed, disclosed, verdicts>>
      BY DEF WriteFails, Steps
<1>3. Changes(d, inserted[d], Free, t, v)
      BY <1>2, DeckBefore DEF Changes
<1>4. v # NoVerdict => OutcomeTold(v, t)
      BY <1>1 DEF DeckSound
<1>5. Free.at \notin Judging
      BY DEF Free, Judging
<1>6. UNCHANGED <<opened, closed, missed>> /\ busy[d].at # "leaving"
      BY <1>2
<1> HIDE DEF t, v
<1> QED
    BY <1>1, <1>3, <1>4, <1>5, <1>6, JudgingStep

LEMMA EventUnanchoredKeeps ==
  ASSUME DeckInv, NEW d \in Decks, EventUnanchored(d)
  PROVE  DeckInv'
<1> DEFINE q == inserted[d]
           t == disclosed[d]
           v == verdicts[d]
<1>1. /\ q \in Seq(LensEntries) /\ t \in Seq(FindingRows) /\ v \in Outcomes
      /\ DeckSound(q, busy[d], t, v)
      BY DeckBefore
<1>2. /\ busy' = [busy EXCEPT ![d] = Free] /\ busy[d].at \in {"entering", "leaving"}
      /\ UNCHANGED <<inserted, opened, closed, disclosed, verdicts>>
      BY DEF EventUnanchored, Steps
<1>3. Changes(d, q, Free, t, v)
      BY <1>2, DeckBefore DEF Changes
<1>4. v # NoVerdict => OutcomeTold(v, t)
      BY <1>1 DEF DeckSound
<1>5. Free \in Operations /\ Free.at = "idle" /\ Free.at \notin Judging
      BY <1>1, DeckBefore, OperationKinds DEF Judging
<1>6. CASE busy[d].at = "entering"
  <2>1. UNCHANGED <<opened, closed, missed>> /\ busy[d].at # "leaving"
        BY <1>2, <1>6 DEF EventUnanchored
  <2> HIDE DEF t, v
  <2> QED
      BY <1>1, <1>3, <1>4, <1>5, <2>1, JudgingStep DEF q
<1>7. CASE busy[d].at = "leaving"
  <2> DEFINE L == busy[d].lens
  <2>1. missed' = [missed EXCEPT ![L] = @ + 1]
        BY <1>7 DEF EventUnanchored
  <2>2. DeckSound(q, Free, t, v)
    <3>1. Free.at \notin {"bound", "entering"}
          BY <1>5
    <3> QED
        BY <1>1, <1>4, <1>5, <3>1 DEF DeckSound
  <2> HIDE DEF q, t, v
  <2>3. /\ opened \in [Regs -> Nat] /\ closed \in [Regs -> Nat] /\ missed \in [Regs -> Nat]
        BY DEF DeckInv, DeckShape
  <2>4. L \in Regs
    <3>1. busy[d] \in Leaving
          BY <1>7, DeckBefore, OperationKinds
    <3> QED
        BY <3>1 DEF Leaving
  <2>5. /\ opened' \in [Regs -> Nat] /\ closed' \in [Regs -> Nat] /\ missed' \in [Regs -> Nat]
        BY <1>2, <2>1, <2>3, <2>4
  <2>6. ASSUME NEW lens \in Regs
        PROVE  \/ Balance(lens)' = Balance(lens) /\ (Holds(q, Free, lens) => Holds(q, busy[d], lens))
               \/ Balance(lens)' = Balance(lens) + 1
    <3>1. /\ opened[lens] \in Nat /\ closed[lens] \in Nat /\ missed[lens] \in Nat
          /\ opened'[lens] = opened[lens] /\ closed'[lens] = closed[lens]
          BY <1>2, <2>3
    <3>2. CASE lens = L
      <4>1. missed'[lens] = missed[lens] + 1
            BY <2>1, <2>3, <3>2
      <4>2. Balance(lens)' = Balance(lens) + 1
            BY <3>1, <4>1 DEF Balance
      <4> QED
          BY <4>2
    <3>3. CASE lens # L
      <4>1. missed'[lens] = missed[lens]
            BY <2>1, <2>3, <3>3
      <4>2. Balance(lens)' = Balance(lens)
            BY <3>1, <4>1 DEF Balance
      <4>3. Holds(q, Free, lens) => Holds(q, busy[d], lens)
            BY <1>5, <3>3 DEF Holds
      <4> QED
          BY <4>2, <4>3
    <3> QED
        BY <3>2, <3>3
  <2> QED
      BY <1>1, <1>3, <1>5, <2>2, <2>5, <2>6, DeckMoves DEF q
<1> QED
    BY <1>2, <1>6, <1>7

LEMMA DiscloseUnanchoredKeeps ==
  ASSUME DeckInv, NEW d \in Decks, DiscloseUnanchored(d)
  PROVE  DeckInv'
<1> DEFINE o == busy[d]
           u == disclosed[d]
           v == verdicts[d]
           t == Append(u, o.found[o.told + 1])
<1>1. /\ o.at \in Judging /\ o.told < Len(o.found)
      /\ disclosed' = [disclosed EXCEPT ![d] = t] /\ busy' = [busy EXCEPT ![d] = Free]
      /\ UNCHANGED <<inserted, opened, closed, missed, verdicts>>
      BY DEF DiscloseUnanchored, Steps, Judging
<1>2. /\ o \in Operations /\ u \in Seq(FindingRows) /\ v \in Outcomes
      /\ DeckSound(inserted[d], o, u, v)
      BY DeckBefore
<1>3. o \in Reviewing
      BY <1>1, <1>2, OperationKinds
<1>4. v = NoVerdict
      BY <1>1, <1>2 DEF DeckSound
<1>5. o.found \in Seq(FindingRows) /\ o.told \in Nat
      BY <1>3 DEF Reviewing
<1>6. PICK row : row = o.found[o.told + 1]
      OBVIOUS
<1>7. row \in FindingRows
  <2>1. PICK found : found = o.found
        OBVIOUS
  <2>2. PICK k \in Nat : k = o.told
        BY <1>5
  <2>3. found \in Seq(FindingRows) /\ k < Len(found)
        BY <1>1, <1>5, <2>1, <2>2
  <2>4. found[k + 1] \in FindingRows
        BY <2>3
  <2> QED
      BY <1>6, <2>1, <2>2, <2>4
<1>8. t \in Seq(FindingRows)
  <2>1. t = Append(u, row)
        BY <1>6
  <2> HIDE DEF u, t
  <2> QED
      BY <1>2, <1>7, <2>1
<1>9. Changes(d, inserted[d], Free, t, v)
      BY <1>1, DeckBefore DEF Changes
<1>10. Free.at \notin Judging
      BY DEF Free, Judging
<1>11. UNCHANGED <<opened, closed, missed>> /\ busy[d].at # "leaving"
      BY <1>1 DEF Judging
<1> HIDE DEF o, u, v, t
<1> QED
    BY <1>2, <1>4, <1>8, <1>9, <1>10, <1>11, JudgingStep

LEMMA ProcessDiesKeeps ==
  ASSUME DeckInv, NEW d \in Decks, ProcessDies(d)
  PROVE  DeckInv'
<1>1. Changes(d, <<>>, Free, <<>>, NoVerdict) /\ UNCHANGED <<opened, closed, missed>>
      BY DEF ProcessDies, Changes
<1>2. Free.at \notin Judging
      BY DEF Free, Judging
<1>3. <<>> \in Seq(FindingRows) /\ NoVerdict \in Outcomes
      BY DEF Outcomes
<1> QED
    BY <1>1, <1>2, <1>3, JudgingStep

LEMMA DeckInitially == DeckInit => DeckInv
<1> SUFFICES ASSUME DeckInit PROVE DeckInv
    OBVIOUS
<1>1. /\ <<>> \in Seq(LensEntries) /\ <<>> \in Seq(FindingRows)
      /\ Free \in Operations /\ NoVerdict \in Outcomes
      BY DEF Operations, Outcomes
<1>2. DeckShape
      BY <1>1 DEF DeckInit, DeckShape
<1>3. \A d \in Decks : /\ inserted[d] = <<>> /\ busy[d] = Free
                       /\ disclosed[d] = <<>> /\ verdicts[d] = NoVerdict
      BY DEF DeckInit
<1>4. Free.at = "idle" /\ Free.at \notin Judging
      BY DEF Free, Judging
<1>5. DeckSound(<<>>, Free, <<>>, NoVerdict)
      BY <1>4 DEF DeckSound
<1>6. DecksSound
      BY <1>3, <1>5 DEF DecksSound
<1>7. ASSUME NEW lens \in Regs PROVE Balance(lens) >= Cardinality(Holders(lens))
  <2>1. ~Holds(<<>>, Free, lens)
        BY <1>4 DEF Holds, LensesOf
  <2>2. Holders(lens) = {}
        BY <1>3, <2>1 DEF Holders
  <2>3. Cardinality(Holders(lens)) = 0
        BY <2>2, FS_EmptySet
  <2>4. opened[lens] = 0 /\ closed[lens] = 0 /\ missed[lens] = 0
        BY DEF DeckInit
  <2> QED
      BY <2>3, <2>4 DEF Balance
<1>8. LedgerOpen
      BY <1>7 DEF LedgerOpen
<1> QED
    BY <1>2, <1>6, <1>8 DEF DeckInv

LEMMA DeckStep == DeckInv /\ [DeckNext]_deckVars => DeckInv'
<1> SUFFICES ASSUME DeckInv, [DeckNext]_deckVars PROVE DeckInv'
    OBVIOUS
<1>1. CASE UNCHANGED deckVars
  <2>1. DeckShape' /\ DecksSound'
        BY <1>1 DEF deckVars, DeckInv, DeckShape, DecksSound
  <2>2. \A lens : Holders(lens)' = Holders(lens)
        BY <1>1 DEF deckVars, Holders
  <2>3. LedgerOpen'
        BY <1>1, <2>2 DEF deckVars, DeckInv, LedgerOpen, Balance
  <2> QED
      BY <2>1, <2>3 DEF DeckInv
<1>2. CASE DeckNext
  <2>1. PICK d \in Decks :
          \/ \E lens \in Regs, mode \in {"observer", "live"} : InsertBind(d, lens, mode)
          \/ InsertEvent(d)
          \/ InsertActivate(d)
          \/ \E lens \in Regs : RemoveEvent(d, lens)
          \/ RemoveLens(d)
          \/ \E asked \in [Regs -> Reviews] : BeginJudge(d, asked)
          \/ Disclose(d)
          \/ FindConflicts(d)
          \/ \E flagged \in SUBSET Regs : EscalateCohort(d, flagged)
          \/ Conclude(d)
          \/ WriteFails(d)
          \/ EventUnanchored(d)
          \/ DiscloseUnanchored(d)
          \/ ProcessDies(d)
        BY <1>2, Zenon DEF DeckNext
  <2>2. CASE \E lens \in Regs, mode \in {"observer", "live"} : InsertBind(d, lens, mode)
        BY <2>2, InsertBindKeeps
  <2>3. CASE \E lens \in Regs : RemoveEvent(d, lens)
        BY <2>3, RemoveEventKeeps
  <2>4. CASE \E asked \in [Regs -> Reviews] : BeginJudge(d, asked)
        BY <2>4, BeginJudgeKeeps
  <2>5. CASE \E flagged \in SUBSET Regs : EscalateCohort(d, flagged)
        BY <2>5, EscalateKeeps
  <2> QED
      BY <2>1, <2>2, <2>3, <2>4, <2>5, InsertEventKeeps, InsertActivateKeeps,
         RemoveLensKeeps, DiscloseKeeps, FindConflictsKeeps, ConcludeKeeps, WriteFailsKeeps,
         EventUnanchoredKeeps, DiscloseUnanchoredKeeps, ProcessDiesKeeps
<1> QED
    BY <1>1, <1>2

LEMMA InvIsOnTheRecord == DeckInv => OnTheRecord
<1> SUFFICES ASSUME DeckInv PROVE OnTheRecord
    OBVIOUS
<1>1. ASSUME NEW lens \in Regs
      PROVE  opened[lens] - (closed[lens] - missed[lens]) >= Cardinality(ActsIn(lens))
  <2>1. PICK A : A = ActsIn(lens)
        OBVIOUS
  <2>2. A \in SUBSET Holders(lens)
        BY <2>1 DEF ActsIn, Active, Holders, Holds, LensesOf
  <2>3. /\ Cardinality(A) \in Nat /\ Cardinality(Holders(lens)) \in Nat
        /\ Cardinality(A) <= Cardinality(Holders(lens))
        BY <2>2, HoldersFinite
  <2>4. Balance(lens) \in Int /\ Balance(lens) >= Cardinality(Holders(lens))
        BY BalanceType
  <2>5. Balance(lens) >= Cardinality(A)
        BY <2>3, <2>4
  <2> QED
      BY <2>1, <2>5 DEF Balance
<1>2. ASSUME NEW d \in Decks, verdicts[d] # NoVerdict
      PROVE  LET found == verdicts[d].found
                 claims == Claims(found, {i \in DOMAIN found : found[i].check = "review"})
             IN /\ disclosed[d] = found
                /\ verdicts[d].kind = "judged" => \A i \in DOMAIN found : found[i].action = "flag"
                /\ \A i \in DOMAIN found : found[i].check = "conflict" =>
                     \A lens \in DOMAIN claims : Rank(claims[lens].tier) <= Rank(found[i].tier)
  <2>1. DeckSound(inserted[d], busy[d], disclosed[d], verdicts[d])
        BY DEF DeckInv, DecksSound
  <2>2. OutcomeTold(verdicts[d], disclosed[d])
        BY <1>2, <2>1 DEF DeckSound
  <2> QED
      BY <2>2, Zenon DEF OutcomeTold, ConflictsStrict, ReviewPlaces
<1> QED
    BY <1>1, <1>2, Zenon DEF OnTheRecord

\* However many processes, lenses and findings, failed writes, unsealed heads
\* and deaths: no lens acts in a deck without an insertion on the ledger that no
\* carried-out removal closes, no verdict is
\* reached that is not disclosed finding by finding, and of conflicting
\* claims the strictest is disclosed (RegulatoryDeck.insert, remove, judge).
THEOREM AlwaysOnTheRecord == DeckSpec => []OnTheRecord
BY DeckInitially, DeckStep, InvIsOnTheRecord, PTL DEF DeckSpec
=============================================================================

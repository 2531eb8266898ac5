---------------------------- MODULE LedgerProofs ----------------------------
(***************************************************************************)
(* Proofs about LedgerChain, for any number of writers, any requests and   *)
(* any length of the chain.                                                *)
(***************************************************************************)
EXTENDS LedgerChain, WellFoundedInduction, TLAPS

-----------------------------------------------------------------------------
(* The inductive invariant. *)

\* The advisory lock belongs to the writer between its lock and its commit.
LockHeld == \A w \in Writers : wpc[w] \in {"locked", "written"} <=> lock = w

\* A writer at work has a request that passed the checks before the lock.
HasRequest ==
  \A w \in Writers : wpc[w] # "idle" =>
    /\ request[w] \in Requests
    /\ EventsDistinct(request[w]) /\ ReplacesReal(request[w])

\* What a writer read under the lock still holds when it commits.
Prepared ==
  \A w \in Writers : wpc[w] = "written" =>
    rows[w] = NewRows(request[w]) /\ Admits(request[w])

\* A head is the hash of one of the first n rows.
Sealed(head, n) == \E i \in 1..n : HashAt(i) = head

\* What a writer has read for the anchor stays true of the growing chain.
SealSound ==
  \A w \in Writers :
    /\ wpc[w] = "committed" => Len(chain) > 0
    /\ wpc[w] = "counting" => Sealed(seal[w].head, Len(chain))
    /\ wpc[w] = "sealing" => /\ seal[w].entries \in 1..Len(chain)
                             /\ Sealed(seal[w].head, seal[w].entries)

ChainShape ==
  ChainIntact /\ OneBinding /\ MarkersAlternate /\ ReferencesReal /\ StreamsWhole

LedgerInv ==
  /\ LedgerTypeOK /\ LockHeld /\ HasRequest /\ Prepared
  /\ ChainShape /\ SealSound /\ AnchorNotAhead

-----------------------------------------------------------------------------
(* How a commit grows the chain. *)

\* The chain after a commit of the request r: its batch more, linked.
Grows(r) ==
  /\ Len(r.events) \in Nat
  /\ Len(chain') = Len(chain) + Len(r.events) + 1
  /\ \A i \in 1..Len(chain) : i \in 1..Len(chain') /\ chain'[i] = chain[i]
  /\ \A k \in 1..(Len(r.events) + 1) : chain'[Len(chain) + k] = NewRows(r)[k]

\* Rows keep their types.
LEMMA LinkType ==
  ASSUME NEW e \in Entry, NEW h \in Seq(Entry)
  PROVE  /\ Link(e, h) \in Row
         /\ HashOf(e, h) \in Seq(Entry)
         /\ Link(e, h).entry = e /\ Link(e, h).prev = h
         /\ Link(e, h).hash = HashOf(e, h)
<1>1. HashOf(e, h) \in Seq(Entry)
  BY DEF HashOf
<1> QED BY <1>1 DEF Link, Row

\* A batch is the request and an observed_event entry for each of its events.
LEMMA BatchType ==
  ASSUME NEW r \in Requests
  PROVE  /\ r \in Entry /\ r.kind \in RequestKinds
         /\ r.events \in Seq(EventIds) /\ Len(r.events) \in Nat
         /\ DOMAIN r.events = 1..Len(r.events)
         /\ r.events # <<>> => r.kind = "governance_decision"
         /\ \A k \in DOMAIN r.events : EventOf(r, k) \in Entry
         /\ Batch(r) \in Seq(Entry) /\ Len(Batch(r)) = Len(r.events) + 1
         /\ Batch(r)[1] = r
         /\ \A k \in DOMAIN r.events : Batch(r)[k + 1] = EventOf(r, k)
<1>1. Request(r)
  BY LedgerConstants
<1>2. r \in Entry /\ r.kind \in RequestKinds /\ (r.events # <<>> => r.kind = "governance_decision")
  BY <1>1 DEF Request
<1>3. r.events \in Seq(EventIds) /\ r.subject \in Subjects
  BY <1>2 DEF Entry
<1>4. Len(r.events) \in Nat /\ DOMAIN r.events = 1..Len(r.events)
      /\ \A k \in DOMAIN r.events : r.events[k] \in EventIds
  BY <1>3
<1>5. \A k \in DOMAIN r.events : EventOf(r, k) \in Entry
  BY <1>3, <1>4 DEF EventOf, Entry
<1> DEFINE m == Len(r.events)
<1>6. \A k \in 1..(m + 1) : (IF k = 1 THEN r ELSE EventOf(r, k - 1)) \in Entry
  BY <1>2, <1>4, <1>5
<1>7. Batch(r) \in [1..(m + 1) -> Entry]
  BY <1>6 DEF Batch
<1>8. Batch(r) \in Seq(Entry) /\ Len(Batch(r)) = m + 1
  BY <1>4, <1>7
<1>9. Batch(r)[1] = r
  BY <1>4 DEF Batch
<1>10. ASSUME NEW k \in DOMAIN r.events PROVE Batch(r)[k + 1] = EventOf(r, k)
  <2>1. k + 1 \in 1..(m + 1) /\ k + 1 # 1 /\ (k + 1) - 1 = k
    BY <1>4
  <2> QED BY <2>1 DEF Batch
<1> QED BY <1>2, <1>3, <1>4, <1>5, <1>8, <1>9, <1>10

\* The head of the chain is a hash.
LEMMA HeadType ==
  ASSUME LedgerTypeOK
  PROVE  LastHash \in Seq(Entry)
<1>1. chain \in Seq(Row)
  BY DEF LedgerTypeOK
<1>2. CASE Len(chain) = 0
  BY <1>2 DEF LastHash, HashAt, Genesis
<1>3. CASE Len(chain) # 0
  <2>1. chain[Len(chain)] \in Row
    BY <1>1, <1>3
  <2> QED BY <2>1, <1>3 DEF LastHash, HashAt, Row
<1> QED BY <1>2, <1>3

\* A prefix of a sequence, one longer.
LEMMA PrefixGrows ==
  ASSUME NEW S, NEW h \in Seq(S), NEW b \in Seq(S), NEW k \in 1..Len(b)
  PROVE  /\ h \o SubSeq(b, 1, k - 1) \in Seq(S)
         /\ h \o SubSeq(b, 1, k) = Append(h \o SubSeq(b, 1, k - 1), b[k])
         /\ h \o SubSeq(b, 1, 0) = h
<1>1. /\ SubSeq(b, 1, k - 1) \in Seq(S) /\ Len(SubSeq(b, 1, k - 1)) = k - 1
      /\ \A i \in 1..(k - 1) : SubSeq(b, 1, k - 1)[i] = b[i]
  OBVIOUS
<1>2. /\ SubSeq(b, 1, k) \in Seq(S) /\ Len(SubSeq(b, 1, k)) = k
      /\ \A i \in 1..k : SubSeq(b, 1, k)[i] = b[i]
  OBVIOUS
<1>3. SubSeq(b, 1, 0) = <<>>
  OBVIOUS
<1> DEFINE p == SubSeq(b, 1, k - 1)
           q == SubSeq(b, 1, k)
<1> HIDE DEF p, q
<1>4. q = Append(p, b[k])
  <2>1. /\ p \in Seq(S) /\ Len(p) = k - 1 /\ \A i \in 1..(k - 1) : p[i] = b[i]
        /\ q \in Seq(S) /\ Len(q) = k /\ \A i \in 1..k : q[i] = b[i]
    BY <1>1, <1>2 DEF p, q
  <2>2. /\ Append(p, b[k]) \in Seq(S) /\ Len(Append(p, b[k])) = k
        /\ \A i \in 1..k : Append(p, b[k])[i] = b[i]
    BY <2>1
  <2> QED BY <2>1, <2>2
<1>5. h \o Append(p, b[k]) = Append(h \o p, b[k])
  BY <1>1 DEF p
<1>6. h \o p \in Seq(S)
  BY <1>1 DEF p
<1>7. h \o <<>> = h
  OBVIOUS
<1> QED BY <1>3, <1>4, <1>5, <1>6, <1>7 DEF p, q

\* A function on 1..m is a sequence of that length.
LEMMA FunctionIsSequence ==
  ASSUME NEW S, NEW m \in Nat, NEW f \in [1..m -> S]
  PROVE  f \in Seq(S) /\ Len(f) = m
OBVIOUS

\* The places of a concatenation.
LEMMA ConcatPlaces ==
  ASSUME NEW S, NEW a \in Seq(S), NEW b \in Seq(S)
  PROVE  /\ Len(a \o b) = Len(a) + Len(b)
         /\ \A i \in 1..Len(a) : (a \o b)[i] = a[i]
         /\ \A k \in 1..Len(b) : (a \o b)[Len(a) + k] = b[k]
OBVIOUS

\* The rows of a write: typed, its batch, and each linked to the one before it.
LEMMA NewRowsType ==
  ASSUME LedgerTypeOK, NEW r \in Requests
  PROVE  /\ NewRows(r) \in Seq(Row) /\ Len(NewRows(r)) = Len(r.events) + 1
         /\ NewRows(r)[1].prev = LastHash
         /\ \A k \in 1..(Len(r.events) + 1) :
              /\ NewRows(r)[k].entry = Batch(r)[k]
              /\ NewRows(r)[k].hash = HashOf(NewRows(r)[k].entry, NewRows(r)[k].prev)
              /\ k # 1 => NewRows(r)[k].prev = NewRows(r)[k - 1].hash
<1> DEFINE m == Len(r.events) + 1
           Before(k) == LastHash \o SubSeq(Batch(r), 1, k - 1)
<1>1. m \in Nat /\ Batch(r) \in Seq(Entry) /\ Len(Batch(r)) = m /\ LastHash \in Seq(Entry)
      /\ m >= 1
  BY HeadType, BatchType
<1>2. ASSUME NEW k \in 1..m
      PROVE  /\ Batch(r)[k] \in Entry /\ Before(k) \in Seq(Entry)
             /\ HashOf(Batch(r)[k], Before(k)) = LastHash \o SubSeq(Batch(r), 1, k)
  <2>1. k \in 1..Len(Batch(r)) /\ Batch(r) \in Seq(Entry) /\ LastHash \in Seq(Entry)
    BY <1>1
  <2>2. Batch(r)[k] \in Entry
    BY <2>1
  <2>3. /\ LastHash \o SubSeq(Batch(r), 1, k - 1) \in Seq(Entry)
        /\ LastHash \o SubSeq(Batch(r), 1, k)
             = Append(LastHash \o SubSeq(Batch(r), 1, k - 1), Batch(r)[k])
    <3> DEFINE h == LastHash
               b == Batch(r)
    <3>1. h \in Seq(Entry) /\ b \in Seq(Entry) /\ k \in 1..Len(b)
      BY <2>1
    <3> HIDE DEF h, b
    <3>2. h \o SubSeq(b, 1, k - 1) \in Seq(Entry)
      BY <3>1, PrefixGrows
    <3>3. h \o SubSeq(b, 1, k) = Append(h \o SubSeq(b, 1, k - 1), b[k])
      BY <3>1, PrefixGrows
    <3> QED BY <3>2, <3>3, Zenon DEF h, b
  <2> QED BY <2>2, <2>3, Zenon DEF HashOf
<1>3. ASSUME NEW k \in 1..m
      PROVE  /\ NewRows(r)[k] = Link(Batch(r)[k], Before(k))
             /\ NewRows(r)[k] \in Row
             /\ NewRows(r)[k].entry = Batch(r)[k] /\ NewRows(r)[k].prev = Before(k)
             /\ NewRows(r)[k].hash = HashOf(Batch(r)[k], Before(k))
  <2>1. NewRows(r)[k] = Link(Batch(r)[k], Before(k))
    BY DEF NewRows
  <2>2. Batch(r)[k] \in Entry /\ Before(k) \in Seq(Entry)
    BY <1>2
  <2> HIDE DEF Before
  <2> QED BY <2>1, <2>2, LinkType
<1>4. NewRows(r) \in Seq(Row) /\ Len(NewRows(r)) = m
  <2>1. NewRows(r) \in [1..m -> Row]
    BY <1>3 DEF NewRows
  <2>2. m \in Nat
    BY <1>1
  <2> HIDE DEF m
  <2> QED BY <2>1, <2>2, FunctionIsSequence
<1>5. Before(1) = LastHash
  <2>1. 1 \in 1..Len(Batch(r)) /\ 1 - 1 = 0
    BY <1>1
  <2>2. LastHash \o SubSeq(Batch(r), 1, 0) = LastHash
    BY <1>1, <2>1, PrefixGrows, Zenon
  <2> QED BY <2>1, <2>2
<1>6. ASSUME NEW k \in 1..m, k # 1 PROVE NewRows(r)[k].prev = NewRows(r)[k - 1].hash
  <2>1. k - 1 \in 1..m
    BY <1>1, <1>6
  <2>2. NewRows(r)[k - 1].hash = LastHash \o SubSeq(Batch(r), 1, k - 1)
    BY <1>2, <1>3, <2>1
  <2> QED BY <1>3, <2>2
<1>7. NewRows(r)[1].prev = LastHash
  BY <1>1, <1>3, <1>5
<1> HIDE DEF Before
<1> QED BY <1>3, <1>4, <1>6, <1>7

\* A commit appends the prepared rows.
LEMMA CommitGrows ==
  ASSUME LedgerTypeOK, NEW r \in Requests, chain' = chain \o NewRows(r)
  PROVE  Grows(r)
<1>1. chain \in Seq(Row)
  BY DEF LedgerTypeOK
<1>2. NewRows(r) \in Seq(Row) /\ Len(NewRows(r)) = Len(r.events) + 1 /\ Len(r.events) \in Nat
  BY NewRowsType, BatchType
<1> DEFINE new == NewRows(r)
<1> HIDE DEF new
<1>3. /\ Len(chain') = Len(chain) + Len(new)
      /\ \A i \in 1..Len(chain) : chain'[i] = chain[i]
      /\ \A k \in 1..Len(new) : chain'[Len(chain) + k] = new[k]
  <2>1. new \in Seq(Row) /\ chain' = chain \o new
    BY <1>2 DEF new
  <2> QED BY <1>1, <2>1, ConcatPlaces
<1>4. Len(chain) \in Nat
  BY <1>1
<1> QED BY <1>2, <1>3, <1>4 DEF Grows, new

-----------------------------------------------------------------------------
(* Each property of the chain survives a commit. *)

\* The entries of the grown chain.
NewEntries(r) ==
  /\ Len(chain) \in Nat /\ Len(r.events) \in Nat
  /\ DOMAIN chain = 1..Len(chain)
  /\ DOMAIN chain' = 1..Len(chain')
  /\ Len(chain') = Len(chain) + Len(r.events) + 1
  /\ \A i \in 1..Len(chain) : i \in DOMAIN chain' /\ chain'[i].entry = chain[i].entry
  /\ chain'[Len(chain) + 1].entry = r
  /\ \A k \in 1..Len(r.events) : chain'[Len(chain) + 1 + k].entry = EventOf(r, k)

\* What a committed write adds to the chain: the requested entry and its event
\* entries; the rows before them stay.
LEMMA GrownEntries ==
  ASSUME LedgerTypeOK, chain' \in Seq(Row), NEW r \in Requests, Grows(r)
  PROVE  NewEntries(r)
<1>1. chain \in Seq(Row) /\ Len(chain) \in Nat
  BY DEF LedgerTypeOK
<1>2. Len(r.events) \in Nat /\ DOMAIN r.events = 1..Len(r.events)
  BY BatchType
<1>3. \A k \in 1..(Len(r.events) + 1) : chain'[Len(chain) + k].entry = Batch(r)[k]
  BY NewRowsType DEF Grows
<1>4. chain'[Len(chain) + 1].entry = r
  BY <1>2, <1>3, BatchType
<1>5. ASSUME NEW k \in 1..Len(r.events)
      PROVE  chain'[Len(chain) + 1 + k].entry = EventOf(r, k)
  <2>1. k + 1 \in 1..(Len(r.events) + 1) /\ Len(chain) + 1 + k = Len(chain) + (k + 1)
    BY <1>1, <1>2
  <2>2. Batch(r)[k + 1] = EventOf(r, k)
    BY <1>2, BatchType
  <2> QED BY <1>3, <2>1, <2>2
<1> QED BY <1>1, <1>2, <1>4, <1>5 DEF Grows, NewEntries

\* Links: the first new row continues the old head, every other the one before.
LEMMA IntactGrows ==
  ASSUME LedgerTypeOK, chain' \in Seq(Row), NEW r \in Requests, Grows(r),
         ChainIntact
  PROVE  ChainIntact'
<1> DEFINE n == Len(chain)
           m == Len(r.events) + 1
<1>1. n \in Nat /\ Len(chain') \in Nat /\ m \in Nat /\ m >= 1 /\ Len(chain') = n + m
  BY BatchType DEF LedgerTypeOK, Grows
<1>2. \A k \in 1..m : chain'[n + k] = NewRows(r)[k]
  BY DEF Grows
<1>3. /\ NewRows(r)[1].prev = LastHash
      /\ \A k \in 1..m :
           /\ NewRows(r)[k].hash = HashOf(NewRows(r)[k].entry, NewRows(r)[k].prev)
           /\ k # 1 => NewRows(r)[k].prev = NewRows(r)[k - 1].hash
  BY NewRowsType
<1>4. \A i \in 1..n :
        /\ chain'[i].prev = (IF i - 1 = 0 THEN Genesis ELSE chain'[i - 1].hash)
        /\ chain'[i].hash = HashOf(chain'[i].entry, chain'[i].prev)
  <2> TAKE i \in 1..n
  <2>1. /\ chain[i].prev = (IF i - 1 = 0 THEN Genesis ELSE chain[i - 1].hash)
        /\ chain[i].hash = HashOf(chain[i].entry, chain[i].prev)
    BY DEF ChainIntact, LinksHold, HashAt
  <2>2. chain'[i] = chain[i] /\ (i - 1 # 0 => chain'[i - 1] = chain[i - 1])
    BY <1>1 DEF Grows
  <2> QED BY <2>1, <2>2
<1>5. chain'[n + 1].prev = (IF n = 0 THEN Genesis ELSE chain'[n].hash)
  <2>1. chain'[n + 1].prev = LastHash
    BY <1>1, <1>2, <1>3
  <2>2. n # 0 => chain'[n] = chain[n]
    BY <1>1 DEF Grows
  <2> QED BY <2>1, <2>2 DEF LastHash, HashAt
<1>6. ASSUME NEW k \in 1..m
      PROVE  /\ chain'[n + k].prev = (IF n + k - 1 = 0 THEN Genesis ELSE chain'[n + k - 1].hash)
             /\ chain'[n + k].hash = HashOf(chain'[n + k].entry, chain'[n + k].prev)
  <2>1. chain'[n + k].hash = HashOf(chain'[n + k].entry, chain'[n + k].prev)
    BY <1>2, <1>3
  <2>2. CASE k = 1
    <3>1. n + k - 1 = n /\ n + k = n + 1
      BY <1>1, <2>2
    <3> QED BY <1>5, <2>1, <3>1
  <2>3. CASE k # 1
    <3>1. k - 1 \in 1..m /\ n + (k - 1) = n + k - 1 /\ n + k - 1 # 0
      BY <1>1, <2>3
    <3>2. chain'[n + k].prev = chain'[n + k - 1].hash
      BY <1>2, <1>3, <2>3, <3>1
    <3> QED BY <2>1, <3>1, <3>2
  <2> QED BY <2>2, <2>3
<1> SUFFICES ASSUME NEW i \in 1..Len(chain')
             PROVE  /\ chain'[i].prev = (IF i - 1 = 0 THEN Genesis ELSE chain'[i - 1].hash)
                    /\ chain'[i].hash = HashOf(chain'[i].entry, chain'[i].prev)
  BY DEF ChainIntact, LinksHold, HashAt
<1>7. CASE i \in 1..n
  BY <1>4, <1>7
<1>8. CASE i \notin 1..n
  <2>1. PICK k \in 1..m : i = n + k
    <3>1. i - n \in 1..m /\ i = n + (i - n)
      BY <1>1, <1>8
    <3> QED BY <3>1
  <2> QED BY <1>6, <2>1
<1> QED BY <1>7, <1>8

\* An id of the grown chain is an old row, the request, or one of its events.
IsOld(i) == i \in 1..Len(chain) /\ chain'[i].entry = chain[i].entry

IsRequest(i, r) == i = Len(chain) + 1 /\ chain'[i].entry = r

IsEvent(i, r) ==
  /\ i - Len(chain) - 1 \in DOMAIN r.events
  /\ chain'[i].entry = EventOf(r, i - Len(chain) - 1)
  /\ chain'[i].entry.kind = "observed_event"
  /\ chain'[i].entry.value = r.events[i - Len(chain) - 1]
  /\ chain'[i].entry.events = <<>>

\* Every id of the grown chain is old, the request's, or one of its events'.
LEMMA GrownCases ==
  ASSUME NEW r \in Requests, NewEntries(r), NEW i \in DOMAIN chain'
  PROVE  IsOld(i) \/ IsRequest(i, r) \/ IsEvent(i, r)
<1> DEFINE n == Len(chain)
           k == i - n - 1
<1>1. n \in Nat /\ i \in 1..Len(chain') /\ Len(r.events) \in Nat
      /\ Len(chain') = n + Len(r.events) + 1 /\ DOMAIN r.events = 1..Len(r.events)
  BY BatchType DEF NewEntries
<1>2. i \in 1..n \/ i = n + 1 \/ (k \in 1..Len(r.events) /\ n + 1 + k = i)
  BY <1>1
<1>3. CASE i \in 1..n
  BY <1>3 DEF NewEntries, IsOld
<1>4. CASE i = n + 1
  BY <1>4 DEF NewEntries, IsRequest
<1>5. CASE k \in 1..Len(r.events) /\ n + 1 + k = i
  <2>1. chain'[i].entry = EventOf(r, k)
    BY <1>5 DEF NewEntries
  <2> QED BY <1>1, <1>5, <2>1 DEF IsEvent, EventOf
<1> QED BY <1>2, <1>3, <1>4, <1>5

\* A write that bind_cassette_version admits keeps one binding per version.
LEMMA BindingGrows ==
  ASSUME NEW r \in Requests, NewEntries(r), BindsNew(r), OneBinding
  PROVE  OneBinding'
<1> DEFINE n == Len(chain)
<1>1. n \in Nat /\ DOMAIN chain = 1..n
  BY DEF NewEntries
<1> SUFFICES ASSUME NEW i \in DOMAIN chain', NEW k \in DOMAIN chain',
                    chain'[i].entry.kind = "cassette_binding",
                    chain'[k].entry.kind = "cassette_binding",
                    chain'[i].entry.subject = chain'[k].entry.subject
             PROVE  i = k
  BY DEF OneBinding, IsKind
<1>2. IsOld(i) \/ IsRequest(i, r)
  BY GrownCases DEF IsEvent
<1>3. IsOld(k) \/ IsRequest(k, r)
  BY GrownCases DEF IsEvent
<1>4. CASE IsOld(i) /\ IsOld(k)
  BY <1>1, <1>4 DEF IsOld, OneBinding, IsKind
<1>5. CASE IsRequest(i, r) /\ IsOld(k)
  BY <1>1, <1>5 DEF IsOld, IsRequest, BindsNew, IsKind
<1>6. CASE IsOld(i) /\ IsRequest(k, r)
  BY <1>1, <1>6 DEF IsOld, IsRequest, BindsNew, IsKind
<1>7. CASE IsRequest(i, r) /\ IsRequest(k, r)
  BY <1>7 DEF IsRequest
<1> QED BY <1>2, <1>3, <1>4, <1>5, <1>6, <1>7

\* A nonempty set of ids has a newest one.
LEMMA Newest ==
  ASSUME NEW n \in Nat, NEW S \in SUBSET (1..n), S # {}
  PROVE  \E i \in S : \A k \in S : k <= i
<1> DEFINE D == {d \in Nat : n - d \in S}
           R == OpToRel(<, Nat)
<1>1. \A i \in S : i \in Nat /\ n - i \in Nat /\ n - (n - i) = i
  OBVIOUS
<1>2. D # {}
  <2>1. PICK i \in S : TRUE
    OBVIOUS
  <2>2. n - i \in D
    BY <1>1, <2>1
  <2> QED BY <2>2
<1>3. D \subseteq Nat
  OBVIOUS
<1> HIDE DEF D
<1>4. \E x \in D : \A y \in D : ~ (<<y, x>> \in R)
  BY <1>2, <1>3, NatLessThanWellFounded, WFMin
<1>5. PICK d \in D : \A y \in D : ~ (<<y, d>> \in R)
  BY <1>4
<1>6. \A y \in D : ~ (y < d)
  BY <1>3, <1>5 DEF OpToRel
<1>7. n - d \in S /\ d \in Nat
  BY DEF D
<1>8. ASSUME NEW k \in S PROVE k <= n - d
  <2>1. n - k \in D
    BY <1>1 DEF D
  <2> QED BY <1>1, <1>6, <1>7, <2>1
<1> QED BY <1>7, <1>8

\* A write that record_attestation_policy admits keeps the markers alternating:
\* the newest old marker stands between an equal older one and the new row.
LEMMA MarkersGrow ==
  ASSUME NEW r \in Requests, NewEntries(r), MarksChange(r), MarkersAlternate
  PROVE  MarkersAlternate'
<1> DEFINE n == Len(chain)
           M == {m \in 1..n : chain[m].entry.kind = "attestation_policy"}
<1>1. n \in Nat /\ DOMAIN chain = 1..n
  BY DEF NewEntries
<1>2. \A m \in 1..n : m \in DOMAIN chain' /\ chain'[m].entry = chain[m].entry
  BY DEF NewEntries
<1>3. ASSUME NEW i \in M, r.kind = "attestation_policy",
             chain[i].entry.value = r.value
      PROVE  \E m \in M : i < m /\ chain[m].entry.value # r.value
  <2>1. M \in SUBSET (1..n) /\ M # {}
    OBVIOUS
  <2> HIDE DEF M
  <2>2. PICK m \in M : \A k \in M : k <= m
    BY <1>1, <2>1, Newest
  <2>3. IsNewestMarker(m)
    BY <1>1, <2>2 DEF IsNewestMarker, IsKind, M
  <2>4. chain[m].entry.value # r.value
    BY <1>1, <1>3, <2>1, <2>3 DEF MarksChange
  <2>5. i <= m /\ i # m /\ i \in Nat /\ m \in Nat
    BY <1>1, <1>3, <2>1, <2>2, <2>4
  <2> QED BY <2>2, <2>4, <2>5
<1> SUFFICES ASSUME NEW i \in DOMAIN chain', NEW k \in DOMAIN chain',
                    chain'[i].entry.kind = "attestation_policy",
                    chain'[k].entry.kind = "attestation_policy",
                    i < k, chain'[i].entry.value = chain'[k].entry.value
             PROVE  \E m \in (i + 1)..(k - 1) :
                      /\ m \in DOMAIN chain'
                      /\ chain'[m].entry.kind = "attestation_policy"
                      /\ chain'[m].entry.value # chain'[k].entry.value
  BY DEF MarkersAlternate, IsKind
<1>4. IsOld(k) \/ IsRequest(k, r)
  BY GrownCases DEF IsEvent
<1>5. IsOld(i) \/ IsRequest(i, r)
  BY GrownCases DEF IsEvent
<1>6. IsOld(i)
  BY <1>1, <1>4, <1>5 DEF IsOld, IsRequest
<1>7. CASE IsOld(k)
  <2>1. PICK m \in (i + 1)..(k - 1) : /\ IsKind(m, "attestation_policy")
                                      /\ chain[m].entry.value # chain[k].entry.value
    BY <1>1, <1>6, <1>7 DEF IsOld, IsKind, MarkersAlternate
  <2> QED BY <1>1, <1>2, <1>7, <2>1 DEF IsOld, IsKind
<1>8. CASE IsRequest(k, r)
  <2>1. i \in M /\ r.kind = "attestation_policy" /\ chain[i].entry.value = r.value
        /\ k = n + 1 /\ chain'[k].entry = r
    BY <1>6, <1>8 DEF IsOld, IsRequest
  <2>2. PICK m \in M : i < m /\ chain[m].entry.value # r.value
    BY <1>3, <2>1
  <2>3. m \in 1..n /\ i \in 1..n /\ chain[m].entry.kind = "attestation_policy"
    BY <2>1, <2>2
  <2>4. m \in (i + 1)..(k - 1)
    BY <1>1, <2>1, <2>2, <2>3
  <2> QED BY <1>2, <2>1, <2>2, <2>3, <2>4
<1> QED BY <1>4, <1>7, <1>8

\* A write whose reference was looked up under the lock keeps references real.
LEMMA ReferencesGrow ==
  ASSUME NEW r \in Requests, NewEntries(r), ReplacesReal(r), SupersedesReal(r), SelectsReal(r),
         NamesShadowRun(r), ReferencesReal
  PROVE  ReferencesReal'
<1> DEFINE n == Len(chain)
<1>1. n \in Nat /\ DOMAIN chain = 1..n
  BY DEF NewEntries
<1>2. \A m \in 1..n : m \in DOMAIN chain' /\ chain'[m].entry = chain[m].entry
  BY DEF NewEntries
<1>3. \A target \in Targets(r) : IsKind(r.ref, target)
  BY DEF Targets, ReplacesReal, SupersedesReal, SelectsReal, NamesShadowRun
<1> SUFFICES ASSUME NEW i \in DOMAIN chain', NEW target \in Targets(chain'[i].entry)
             PROVE  /\ chain'[i].entry.ref < i
                    /\ chain'[i].entry.ref \in DOMAIN chain'
                    /\ chain'[chain'[i].entry.ref].entry.kind = target
  BY DEF ReferencesReal, IsKind, Targets
<1>4. IsOld(i) \/ IsRequest(i, r)
  BY GrownCases DEF IsEvent, Targets
<1>5. CASE IsOld(i)
  <2>1. chain[i].entry.ref < i /\ IsKind(chain[i].entry.ref, target)
    BY <1>1, <1>5 DEF IsOld, ReferencesReal
  <2> QED BY <1>1, <1>2, <1>5, <2>1 DEF IsOld, IsKind
<1>6. CASE IsRequest(i, r)
  <2>1. IsKind(r.ref, target) /\ chain'[i].entry = r /\ i = n + 1
    BY <1>3, <1>6 DEF IsRequest
  <2> QED BY <1>1, <1>2, <2>1 DEF IsKind
<1> QED BY <1>4, <1>5, <1>6

\* A write the two unique indexes admit keeps the observation streams whole.
LEMMA StreamsGrow ==
  ASSUME NEW r \in Requests, NewEntries(r), EventsDistinct(r), EventsNew(r), SidNew(r),
         StreamsWhole
  PROVE  StreamsWhole'
<1> DEFINE n == Len(chain)
<1>1. n \in Nat /\ DOMAIN chain = 1..n /\ DOMAIN chain' = 1..Len(chain')
      /\ \A i \in 1..n : i \in DOMAIN chain' /\ chain'[i].entry = chain[i].entry
  BY DEF NewEntries
<1>2. r.kind # "observed_event"
  BY BatchType DEF RequestKinds
<1>3. ASSUME NEW i \in DOMAIN chain', NEW k \in DOMAIN chain'[i].entry.events
      PROVE  i + k \in DOMAIN chain' /\ chain'[i + k].entry = EventOf(chain'[i].entry, k)
  <2>1. IsOld(i) \/ IsRequest(i, r)
    BY <1>3, GrownCases DEF IsEvent
  <2>2. CASE IsOld(i)
    <3>1. i \in DOMAIN chain /\ chain'[i].entry = chain[i].entry
      BY <1>1, <2>2 DEF IsOld
    <3>2. i + k \in DOMAIN chain /\ chain[i + k].entry = EventOf(chain[i].entry, k)
      BY <1>3, <3>1 DEF StreamsWhole
    <3> QED BY <1>1, <3>1, <3>2
  <2>3. CASE IsRequest(i, r)
    <3>1. k \in 1..Len(r.events) /\ Len(r.events) \in Nat /\ i = n + 1
      BY <1>3, <2>3, BatchType DEF IsRequest
    <3>2. chain'[n + 1 + k].entry = EventOf(r, k) /\ Len(chain') = n + Len(r.events) + 1
      BY <3>1 DEF NewEntries
    <3> QED BY <1>1, <2>3, <3>1, <3>2 DEF IsRequest
  <2> QED BY <2>1, <2>2, <2>3
<1>4. ASSUME NEW j \in DOMAIN chain', chain'[j].entry.kind = "observed_event"
      PROVE  \E i \in 1..(j - 1) : j - i \in DOMAIN chain'[i].entry.events
  <2>1. IsOld(j) \/ IsEvent(j, r)
    BY <1>2, <1>4, GrownCases DEF IsRequest
  <2>2. CASE IsOld(j)
    <3>1. j \in DOMAIN chain /\ IsKind(j, "observed_event")
      BY <1>1, <1>4, <2>2 DEF IsOld, IsKind
    <3>2. PICK i \in 1..(j - 1) : j - i \in DOMAIN chain[i].entry.events
      BY <3>1 DEF StreamsWhole
    <3>3. i \in 1..n
      BY <1>1, <3>1, <3>2
    <3> QED BY <1>1, <3>2, <3>3
  <2>3. CASE IsEvent(j, r)
    <3>1. j - n - 1 \in 1..Len(r.events) /\ Len(r.events) \in Nat
      BY <2>3, BatchType DEF IsEvent
    <3>2. chain'[n + 1].entry = r
      BY DEF NewEntries
    <3>3. n + 1 \in 1..(j - 1) /\ j - (n + 1) = j - n - 1
      BY <1>1, <3>1
    <3>4. j - (n + 1) \in DOMAIN chain'[n + 1].entry.events
      BY <2>3, <3>2, <3>3 DEF IsEvent
    <3> QED BY <3>3, <3>4
  <2> QED BY <2>1, <2>2, <2>3
<1>5. ASSUME NEW i \in DOMAIN chain', NEW j \in DOMAIN chain',
             chain'[i].entry.kind = "observed_event", chain'[j].entry.kind = "observed_event",
             chain'[i].entry.value = chain'[j].entry.value
      PROVE  i = j
  <2>1. IsOld(i) \/ IsEvent(i, r)
    BY <1>2, <1>5, GrownCases DEF IsRequest
  <2>2. IsOld(j) \/ IsEvent(j, r)
    BY <1>2, <1>5, GrownCases DEF IsRequest
  <2>3. CASE IsOld(i) /\ IsOld(j)
    BY <1>1, <1>5, <2>3 DEF IsOld, StreamsWhole, IsKind
  <2>4. CASE IsEvent(i, r) /\ IsOld(j)
    BY <1>1, <1>5, <2>4 DEF IsOld, IsEvent, EventsNew, IsKind
  <2>5. CASE IsOld(i) /\ IsEvent(j, r)
    BY <1>1, <1>5, <2>5 DEF IsOld, IsEvent, EventsNew, IsKind
  <2>6. CASE IsEvent(i, r) /\ IsEvent(j, r)
    <3>1. i - n - 1 = j - n - 1
      BY <1>5, <2>6 DEF IsEvent, EventsDistinct
    <3> QED BY <1>1, <3>1
  <2> QED BY <2>1, <2>2, <2>3, <2>4, <2>5, <2>6
<1>6. ASSUME NEW i \in DOMAIN chain', NEW j \in DOMAIN chain',
             chain'[i].entry.kind = "governance_decision",
             chain'[j].entry.kind = "governance_decision",
             chain'[i].entry.value = chain'[j].entry.value, chain'[i].entry.value # NoSid
      PROVE  i = j
  <2>1. IsOld(i) \/ IsRequest(i, r)
    BY <1>6, GrownCases DEF IsEvent
  <2>2. IsOld(j) \/ IsRequest(j, r)
    BY <1>6, GrownCases DEF IsEvent
  <2>3. CASE IsOld(i) /\ IsOld(j)
    BY <1>1, <1>6, <2>3 DEF IsOld, StreamsWhole, IsKind
  <2>4. CASE IsRequest(i, r) /\ IsOld(j)
    BY <1>1, <1>6, <2>4 DEF IsOld, IsRequest, SidNew, IsKind
  <2>5. CASE IsOld(i) /\ IsRequest(j, r)
    BY <1>1, <1>6, <2>5 DEF IsOld, IsRequest, SidNew, IsKind
  <2>6. CASE IsRequest(i, r) /\ IsRequest(j, r)
    BY <2>6 DEF IsRequest
  <2> QED BY <2>1, <2>2, <2>3, <2>4, <2>5, <2>6
<1>7. (\A i \in DOMAIN chain : \A k \in DOMAIN chain[i].entry.events :
         i + k \in DOMAIN chain /\ chain[i + k].entry = EventOf(chain[i].entry, k))'
  BY <1>3 DEF EventOf
<1>8. (\A j \in DOMAIN chain : IsKind(j, "observed_event") =>
         \E i \in 1..(j - 1) : j - i \in DOMAIN chain[i].entry.events)'
  BY <1>4 DEF IsKind
<1> QED BY <1>5, <1>6, <1>7, <1>8 DEF StreamsWhole, IsKind

-----------------------------------------------------------------------------
(* Each step preserves the invariant. *)

\* An empty ledger satisfies the invariant.
LEMMA LedgerInitInv == LedgerInit => LedgerInv
<1> SUFFICES ASSUME LedgerInit PROVE LedgerInv
  OBVIOUS
<1>1. NoSeal \in Seal /\ NoSeal.entries = 0
  BY DEF NoSeal, Seal, Genesis
<1>2. LedgerTypeOK
  BY <1>1 DEF LedgerInit, LedgerTypeOK, Positions, Verdicts
<1>3. Len(chain) = 0 /\ DOMAIN chain = {}
  BY DEF LedgerInit
<1>4. ChainShape
  BY <1>3 DEF ChainShape, ChainIntact, LinksHold, OneBinding, MarkersAlternate,
       ReferencesReal, StreamsWhole
<1>5. LockHeld
  BY LedgerConstants DEF LedgerInit, LockHeld
<1>6. HasRequest /\ Prepared /\ SealSound /\ AnchorNotAhead
  BY <1>1 DEF LedgerInit, HasRequest, Prepared, SealSound, AnchorNotAhead
<1> QED BY <1>2, <1>4, <1>5, <1>6 DEF LedgerInv

\* What a step that leaves the chain alone keeps of the facts about it.
LEMMA SameChain ==
  ASSUME UNCHANGED chain, ChainShape
  PROVE  /\ ChainShape'
         /\ \A head, n : Sealed(head, n)' <=> Sealed(head, n)
         /\ \A r : Admits(r)' <=> Admits(r)
         /\ \A r : NewRows(r)' = NewRows(r)
         /\ LastHash' = LastHash
         /\ \A r : ReplacesReal(r)' <=> ReplacesReal(r)
         /\ \A r : EventsDistinct(r)' <=> EventsDistinct(r)
<1>1. ChainShape'
  BY DEF ChainShape, ChainIntact, LinksHold, OneBinding, MarkersAlternate,
     ReferencesReal, Targets, StreamsWhole, EventOf, IsKind, HashAt
<1>2. \A head, n : Sealed(head, n)' <=> Sealed(head, n)
  BY DEF Sealed, HashAt
<1>3. \A r : Admits(r)' <=> Admits(r)
  BY DEF Admits, EventsNew, SidNew, BindsNew, MarksChange, SupersedesReal, SelectsReal, NamesShadowRun,
     IsNewestMarker, IsKind
<1>4. LastHash' = LastHash
  BY DEF LastHash, HashAt
<1>5. \A r : NewRows(r)' = NewRows(r)
  BY <1>4 DEF NewRows, Batch, EventOf, Link, HashOf
<1>6. \A r : ReplacesReal(r)' <=> ReplacesReal(r)
  BY DEF ReplacesReal, IsKind
<1>7. \A r : EventsDistinct(r)' <=> EventsDistinct(r)
  BY DEF EventsDistinct
<1> QED BY <1>1, <1>2, <1>3, <1>4, <1>5, <1>6, <1>7

\* A call that goes on keeps the request it was validated with: the decision it
\* replaces stays where it is on a chain that only grows.
LEMMA RequestKept ==
  ASSUME HasRequest,
         \A i \in DOMAIN chain : i \in DOMAIN chain' /\ chain'[i].entry = chain[i].entry,
         \A w \in Writers : wpc'[w] # "idle" => wpc[w] # "idle" /\ request'[w] = request[w]
  PROVE  HasRequest'
<1> SUFFICES ASSUME NEW w \in Writers, wpc'[w] # "idle"
             PROVE  /\ request'[w] \in Requests
                    /\ EventsDistinct(request[w])' /\ ReplacesReal(request[w])'
  BY DEF HasRequest
<1>1. /\ request'[w] = request[w] /\ request[w] \in Requests
      /\ EventsDistinct(request[w]) /\ ReplacesReal(request[w])
  BY DEF HasRequest
<1>2. EventsDistinct(request[w])'
  BY <1>1 DEF EventsDistinct
<1>3. ReplacesReal(request[w])'
  BY <1>1 DEF ReplacesReal, IsKind
<1> QED BY <1>1, <1>2, <1>3

\* A call that only waits for the lock preserves the invariant.
LEMMA StartInv ==
  ASSUME LedgerInv, NEW w \in Writers, Start(w)
  PROVE  LedgerInv'
<1>1. PICK r \in Requests : /\ request' = [request EXCEPT ![w] = r]
                           /\ EventsDistinct(r) /\ ReplacesReal(r)
  BY DEF Start
<1>2. UNCHANGED <<chain, lock, rows, seal, anchor, seenRows, verdict>>
      /\ wpc[w] = "idle" /\ wpc' = [wpc EXCEPT ![w] = "waiting"]
  BY DEF Start, Goes
<1>3. LedgerTypeOK'
  BY <1>1, <1>2 DEF LedgerInv, LedgerTypeOK, Positions
<1>4. LockHeld'
  BY <1>1, <1>2 DEF LedgerInv, LedgerTypeOK, LockHeld
<1>6. HasRequest'
  <2>1. /\ \A q : ReplacesReal(q)' <=> ReplacesReal(q)
        /\ \A q : EventsDistinct(q)' <=> EventsDistinct(q)
    BY <1>2, SameChain DEF LedgerInv
  <2> SUFFICES ASSUME NEW v \in Writers, wpc'[v] # "idle"
               PROVE  /\ request'[v] \in Requests
                      /\ EventsDistinct(request[v])' /\ ReplacesReal(request[v])'
    BY DEF HasRequest
  <2>2. CASE v = w
    <3>1. request'[v] = r
      BY <1>1, <2>2 DEF LedgerInv, LedgerTypeOK
    <3>2. EventsDistinct(request[v])'
      BY <1>1, <3>1 DEF EventsDistinct
    <3>3. ReplacesReal(request[v])'
      BY <1>1, <1>2, <3>1 DEF ReplacesReal, IsKind
    <3> QED BY <3>1, <3>2, <3>3
  <2>3. CASE v # w
    <3>1. request'[v] = request[v] /\ wpc[v] # "idle"
      BY <1>1, <1>2, <2>3 DEF LedgerInv, LedgerTypeOK
    <3>2. request[v] \in Requests /\ EventsDistinct(request[v]) /\ ReplacesReal(request[v])
      BY <3>1 DEF LedgerInv, HasRequest
    <3>3. EventsDistinct(request[v])'
      BY <3>1, <3>2 DEF EventsDistinct
    <3>4. ReplacesReal(request[v])'
      BY <1>2, <3>1, <3>2 DEF ReplacesReal, IsKind
    <3> QED BY <3>1, <3>2, <3>3, <3>4
  <2> QED BY <2>2, <2>3
<1>5. ChainShape' /\ Prepared' /\ SealSound' /\ AnchorNotAhead'
  <2>1. ChainShape' /\ (\A head, n : Sealed(head, n)' <=> Sealed(head, n))
        /\ (\A q : Admits(q)' <=> Admits(q)) /\ (\A q : NewRows(q)' = NewRows(q))
    BY <1>2, SameChain DEF LedgerInv
  <2>2. Prepared'
    BY <1>1, <1>2, <2>1 DEF LedgerInv, LedgerTypeOK, Prepared
  <2>3. SealSound'
    BY <1>2, <2>1 DEF LedgerInv, LedgerTypeOK, SealSound
  <2>4. AnchorNotAhead'
    BY <1>2 DEF LedgerInv, AnchorNotAhead, HashAt
  <2> QED BY <2>1, <2>2, <2>3, <2>4
<1> QED BY <1>3, <1>4, <1>5, <1>6 DEF LedgerInv

\* Taking the free lock preserves the invariant: nobody else is inside.
LEMMA LockInv ==
  ASSUME LedgerInv, NEW w \in Writers, Lock(w)
  PROVE  LedgerInv'
<1>1. /\ UNCHANGED <<chain, request, rows, seal, anchor, seenRows, verdict>>
      /\ wpc[w] = "waiting" /\ wpc' = [wpc EXCEPT ![w] = "locked"]
      /\ lock = Nil /\ lock' = w
  BY DEF Lock, Goes
<1>2. LedgerTypeOK'
  BY <1>1 DEF LedgerInv, LedgerTypeOK, Positions
<1>3. LockHeld' /\ HasRequest'
  <2>1. LockHeld'
    BY <1>1, LedgerConstants DEF LedgerInv, LedgerTypeOK, LockHeld
  <2>2. \A v \in Writers : wpc'[v] # "idle" => wpc[v] # "idle" /\ request'[v] = request[v]
    BY <1>1 DEF LedgerInv, LedgerTypeOK
  <2> QED BY <1>1, <2>1, <2>2, RequestKept DEF LedgerInv
<1>4. ChainShape' /\ Prepared' /\ SealSound' /\ AnchorNotAhead'
  <2>1. ChainShape' /\ (\A head, n : Sealed(head, n)' <=> Sealed(head, n))
        /\ (\A q : Admits(q)' <=> Admits(q)) /\ (\A q : NewRows(q)' = NewRows(q))
    BY <1>1, SameChain DEF LedgerInv
  <2>2. Prepared'
    BY <1>1, <2>1 DEF LedgerInv, LedgerTypeOK, Prepared
  <2>3. SealSound'
    BY <1>1, <2>1 DEF LedgerInv, LedgerTypeOK, SealSound
  <2>4. AnchorNotAhead'
    BY <1>1 DEF LedgerInv, AnchorNotAhead, HashAt
  <2> QED BY <2>1, <2>2, <2>3, <2>4
<1> QED BY <1>2, <1>3, <1>4 DEF LedgerInv

\* Inserting under the lock preserves the invariant: the rows are prepared on
\* the head nobody else can move.
LEMMA InsertInv ==
  ASSUME LedgerInv, NEW w \in Writers, Insert(w)
  PROVE  LedgerInv'
<1>1. /\ UNCHANGED <<chain, lock, request, seal, anchor, seenRows, verdict>>
      /\ wpc[w] = "locked" /\ wpc' = [wpc EXCEPT ![w] = "written"]
      /\ Admits(request[w])
      /\ rows' = [rows EXCEPT ![w] = NewRows(request[w])]
  BY DEF Insert, Goes
<1>2. LedgerTypeOK'
  <2>1. request[w] \in Requests /\ LedgerTypeOK
    BY <1>1 DEF LedgerInv, HasRequest
  <2>2. NewRows(request[w]) \in Seq(Row)
    BY <2>1, NewRowsType
  <2> QED BY <1>1, <2>1, <2>2 DEF LedgerTypeOK, Positions
<1>3. LockHeld' /\ HasRequest'
  <2>1. LockHeld'
    BY <1>1 DEF LedgerInv, LedgerTypeOK, LockHeld
  <2>2. \A v \in Writers : wpc'[v] # "idle" => wpc[v] # "idle" /\ request'[v] = request[v]
    BY <1>1 DEF LedgerInv, LedgerTypeOK
  <2> QED BY <1>1, <2>1, <2>2, RequestKept DEF LedgerInv
<1>4. ChainShape' /\ Prepared' /\ SealSound' /\ AnchorNotAhead'
  <2>1. ChainShape' /\ (\A head, n : Sealed(head, n)' <=> Sealed(head, n))
        /\ (\A q : Admits(q)' <=> Admits(q)) /\ (\A q : NewRows(q)' = NewRows(q))
    BY <1>1, SameChain DEF LedgerInv
  <2>2. Prepared'
    BY <1>1, <2>1 DEF LedgerInv, LedgerTypeOK, Prepared
  <2>3. SealSound'
    BY <1>1, <2>1 DEF LedgerInv, LedgerTypeOK, SealSound
  <2>4. AnchorNotAhead'
    BY <1>1 DEF LedgerInv, AnchorNotAhead, HashAt
  <2> QED BY <2>1, <2>2, <2>3, <2>4
<1> QED BY <1>2, <1>3, <1>4 DEF LedgerInv

\* The commit preserves the invariant: the rows prepared under the lock still
\* extend the head and pass their admission rule.
LEMMA CommitInv ==
  ASSUME LedgerInv, NEW w \in Writers, Commit(w)
  PROVE  LedgerInv'
<1>1. /\ UNCHANGED <<request, rows, seal, anchor, seenRows, verdict>>
      /\ wpc[w] = "written" /\ wpc' = [wpc EXCEPT ![w] = "committed"]
      /\ chain' = chain \o rows[w]
      /\ lock' = Nil
  BY DEF Commit, Goes
<1> DEFINE r == request[w]
<1>2. /\ r \in Requests /\ rows[w] = NewRows(r) /\ Admits(r) /\ lock = w
      /\ EventsDistinct(r) /\ ReplacesReal(r)
  BY <1>1 DEF LedgerInv, HasRequest, Prepared, LockHeld
<1>3. LedgerTypeOK /\ ChainShape
  BY DEF LedgerInv
<1>4. chain' \in Seq(Row)
  BY <1>1, <1>2, <1>3, NewRowsType DEF LedgerTypeOK
<1>5. LedgerTypeOK'
  BY <1>1, <1>3, <1>4 DEF LedgerTypeOK, Positions
<1> HIDE DEF r
<1>6. Grows(r)
  BY <1>1, <1>2, <1>3, CommitGrows
<1>7. NewEntries(r)
  BY <1>2, <1>3, <1>4, <1>6, GrownEntries
<1>8. LockHeld'
  BY <1>1, <1>2, LedgerConstants DEF LedgerInv, LedgerTypeOK, LockHeld
<1>9. HasRequest'
  <2>1. \A i \in DOMAIN chain : i \in DOMAIN chain' /\ chain'[i].entry = chain[i].entry
    BY <1>7 DEF NewEntries
  <2>2. \A v \in Writers : wpc'[v] # "idle" => wpc[v] # "idle" /\ request'[v] = request[v]
    BY <1>1, <1>3 DEF LedgerTypeOK
  <2> QED BY <2>1, <2>2, RequestKept DEF LedgerInv
<1>10. Prepared'
  <2>1. \A v \in Writers : wpc'[v] # "written"
    BY <1>1, <1>2 DEF LedgerInv, LedgerTypeOK, LockHeld
  <2> QED BY <2>1 DEF Prepared
<1>11. ChainShape'
  <2>1. ChainIntact'
    BY <1>2, <1>3, <1>4, <1>6, IntactGrows DEF ChainShape
  <2>2. OneBinding'
    BY <1>2, <1>3, <1>7, BindingGrows DEF ChainShape, Admits
  <2>3. MarkersAlternate'
    BY <1>2, <1>3, <1>7, MarkersGrow DEF ChainShape, Admits
  <2>4. ReferencesReal'
    BY <1>2, <1>3, <1>7, ReferencesGrow DEF ChainShape, Admits
  <2>5. StreamsWhole'
    BY <1>2, <1>3, <1>7, StreamsGrow DEF ChainShape, Admits
  <2> QED BY <2>1, <2>2, <2>3, <2>4, <2>5 DEF ChainShape
<1>12. Len(chain) \in Nat /\ Len(chain') \in Nat /\ Len(chain') > Len(chain)
  BY <1>3, <1>4, <1>6 DEF LedgerTypeOK, Grows
<1>13. \A i \in 1..Len(chain) : i \in 1..Len(chain') /\ chain'[i] = chain[i]
  BY <1>6 DEF Grows
<1>14. SealSound'
  <2> SUFFICES ASSUME NEW v \in Writers
               PROVE  /\ wpc'[v] = "committed" => Len(chain') > 0
                      /\ wpc'[v] = "counting" =>
                           \E i \in 1..Len(chain') : HashAt(i)' = seal'[v].head
                      /\ wpc'[v] = "sealing" =>
                           /\ seal'[v].entries \in 1..Len(chain')
                           /\ \E i \in 1..seal'[v].entries : HashAt(i)' = seal'[v].head
    BY DEF SealSound, Sealed
  <2>1. wpc'[v] = "committed" => Len(chain') > 0
    BY <1>12
  <2>2. wpc'[v] # "committed" => wpc'[v] = wpc[v]
    BY <1>1, <1>3 DEF LedgerTypeOK
  <2>3. seal' = seal
    BY <1>1
  <2>4. CASE wpc'[v] = "counting"
    <3>1. PICK i \in 1..Len(chain) : HashAt(i) = seal[v].head
      BY <2>2, <2>4 DEF LedgerInv, SealSound, Sealed
    <3>2. i \in 1..Len(chain') /\ HashAt(i)' = seal[v].head
      BY <1>12, <1>13, <3>1 DEF HashAt
    <3> QED BY <2>3, <2>4, <3>2
  <2>5. CASE wpc'[v] = "sealing"
    <3>1. seal[v].entries \in 1..Len(chain)
      BY <2>2, <2>5 DEF LedgerInv, SealSound
    <3>2. PICK i \in 1..seal[v].entries : HashAt(i) = seal[v].head
      BY <2>2, <2>5 DEF LedgerInv, SealSound, Sealed
    <3>3. HashAt(i)' = seal[v].head /\ seal[v].entries \in 1..Len(chain')
      BY <1>12, <1>13, <3>1, <3>2 DEF HashAt
    <3> QED BY <2>3, <2>5, <3>2, <3>3
  <2> QED BY <2>1, <2>4, <2>5
<1>15. AnchorNotAhead'
  <2> SUFFICES ASSUME anchor.entries # 0
               PROVE  /\ anchor.entries <= Len(chain')
                      /\ \E i \in 1..anchor.entries : HashAt(i)' = anchor.head
    BY <1>1 DEF AnchorNotAhead
  <2>1. anchor.entries \in Nat /\ anchor.entries <= Len(chain)
    BY <1>3 DEF LedgerInv, AnchorNotAhead, LedgerTypeOK, Seal
  <2>2. PICK i \in 1..anchor.entries : HashAt(i) = anchor.head
    BY DEF LedgerInv, AnchorNotAhead
  <2>3. HashAt(i)' = anchor.head
    BY <1>12, <1>13, <2>1, <2>2 DEF HashAt
  <2> QED BY <1>12, <2>1, <2>2, <2>3
<1> QED BY <1>5, <1>8, <1>9, <1>10, <1>11, <1>14, <1>15 DEF LedgerInv

\* Returning to the pool forgets the request, the rows and the seal.
LEMMA LeavesInv ==
  ASSUME LedgerInv, NEW w \in Writers, Leaves(w),
         UNCHANGED <<chain, seenRows, verdict>>,
         lock' = (IF lock = w THEN Nil ELSE lock),
         anchor' \in Seal,
         anchor'.entries # 0 => /\ anchor'.entries <= Len(chain)
                                /\ \E i \in 1..anchor'.entries : HashAt(i) = anchor'.head
  PROVE  LedgerInv'
<1>1. /\ UNCHANGED <<chain, seenRows, verdict>>
      /\ wpc' = [wpc EXCEPT ![w] = "idle"]
      /\ request' = [request EXCEPT ![w] = Nil]
      /\ rows' = [rows EXCEPT ![w] = <<>>]
      /\ seal' = [seal EXCEPT ![w] = NoSeal]
  BY DEF Leaves
<1>2. LedgerTypeOK'
  <2>1. NoSeal \in Seal
    BY DEF NoSeal, Seal, Genesis
  <2> QED BY <1>1, <2>1 DEF LedgerInv, LedgerTypeOK, Positions
<1>3. LockHeld' /\ HasRequest'
  <2>1. LockHeld'
    BY <1>1, LedgerConstants DEF LedgerInv, LedgerTypeOK, LockHeld
  <2>2. \A v \in Writers : wpc'[v] # "idle" => wpc[v] # "idle" /\ request'[v] = request[v]
    BY <1>1 DEF LedgerInv, LedgerTypeOK
  <2> QED BY <1>1, <2>1, <2>2, RequestKept DEF LedgerInv
<1>4. ChainShape' /\ Prepared' /\ SealSound' /\ AnchorNotAhead'
  <2>1. ChainShape' /\ (\A head, n : Sealed(head, n)' <=> Sealed(head, n))
        /\ (\A q : Admits(q)' <=> Admits(q)) /\ (\A q : NewRows(q)' = NewRows(q))
    BY <1>1, SameChain DEF LedgerInv
  <2>2. Prepared'
    BY <1>1, <2>1 DEF LedgerInv, LedgerTypeOK, Prepared
  <2>3. SealSound'
    BY <1>1, <2>1 DEF LedgerInv, LedgerTypeOK, SealSound
  <2>4. AnchorNotAhead'
    BY <1>1 DEF AnchorNotAhead, HashAt
  <2> QED BY <2>1, <2>2, <2>3, <2>4
<1> QED BY <1>2, <1>3, <1>4 DEF LedgerInv

\* Reading the head outside the lock reads the hash of a committed row.
LEMMA AnchorHeadInv ==
  ASSUME LedgerInv, NEW w \in Writers, AnchorHead(w)
  PROVE  LedgerInv'
<1> DEFINE a == [head |-> LastHash, entries |-> 0]
<1>1. /\ UNCHANGED <<chain, lock, request, rows, anchor, seenRows, verdict>>
      /\ wpc[w] = "committed" /\ wpc' = [wpc EXCEPT ![w] = "counting"]
      /\ seal' = [seal EXCEPT ![w] = a]
  BY DEF AnchorHead, Goes
<1>2. LedgerTypeOK'
  <2>1. a \in Seal
    BY HeadType DEF LedgerInv, Seal
  <2> HIDE DEF a
  <2> QED BY <1>1, <2>1 DEF LedgerInv, LedgerTypeOK, Positions
<1>3. LockHeld' /\ HasRequest'
  <2>1. LockHeld'
    BY <1>1 DEF LedgerInv, LedgerTypeOK, LockHeld
  <2>2. \A v \in Writers : wpc'[v] # "idle" => wpc[v] # "idle" /\ request'[v] = request[v]
    BY <1>1 DEF LedgerInv, LedgerTypeOK
  <2> QED BY <1>1, <2>1, <2>2, RequestKept DEF LedgerInv
<1>4. ChainShape' /\ Prepared' /\ SealSound' /\ AnchorNotAhead'
  <2>1. ChainShape' /\ (\A head, n : Sealed(head, n)' <=> Sealed(head, n))
        /\ (\A q : Admits(q)' <=> Admits(q)) /\ (\A q : NewRows(q)' = NewRows(q))
    BY <1>1, SameChain DEF LedgerInv
  <2>2. Prepared'
    BY <1>1, <2>1 DEF LedgerInv, LedgerTypeOK, Prepared
  <2>3. Sealed(a.head, Len(chain))
    <3>1. Len(chain) > 0 /\ Len(chain) \in Nat
      BY <1>1 DEF LedgerInv, SealSound, LedgerTypeOK
    <3> QED BY <3>1 DEF Sealed, LastHash
  <2> HIDE DEF a
  <2>4. SealSound'
    BY <1>1, <2>1, <2>3 DEF LedgerInv, LedgerTypeOK, SealSound
  <2>5. AnchorNotAhead'
    BY <1>1 DEF LedgerInv, AnchorNotAhead, HashAt
  <2> QED BY <2>1, <2>2, <2>4, <2>5
<1> QED BY <1>2, <1>3, <1>4 DEF LedgerInv

\* Counting later than reading the head counts at least up to that row.
LEMMA AnchorCountInv ==
  ASSUME LedgerInv, NEW w \in Writers, AnchorCount(w)
  PROVE  LedgerInv'
<1> DEFINE a == [head |-> seal[w].head, entries |-> Len(chain)]
<1>1. /\ UNCHANGED <<chain, lock, request, rows, anchor, seenRows, verdict>>
      /\ wpc[w] = "counting" /\ wpc' = [wpc EXCEPT ![w] = "sealing"]
      /\ seal' = [seal EXCEPT ![w] = a]
  BY DEF AnchorCount, Goes
<1>2. LedgerTypeOK'
  <2>1. seal[w].head \in Seq(Entry) /\ Len(chain) \in Nat
    BY DEF LedgerInv, LedgerTypeOK, Seal
  <2>2. a \in Seal
    BY <2>1 DEF Seal
  <2> HIDE DEF a
  <2> QED BY <1>1, <2>2 DEF LedgerInv, LedgerTypeOK, Positions
<1>3. LockHeld' /\ HasRequest'
  <2>1. LockHeld'
    BY <1>1 DEF LedgerInv, LedgerTypeOK, LockHeld
  <2>2. \A v \in Writers : wpc'[v] # "idle" => wpc[v] # "idle" /\ request'[v] = request[v]
    BY <1>1 DEF LedgerInv, LedgerTypeOK
  <2> QED BY <1>1, <2>1, <2>2, RequestKept DEF LedgerInv
<1>4. ChainShape' /\ Prepared' /\ SealSound' /\ AnchorNotAhead'
  <2>1. ChainShape' /\ (\A head, n : Sealed(head, n)' <=> Sealed(head, n))
        /\ (\A q : Admits(q)' <=> Admits(q)) /\ (\A q : NewRows(q)' = NewRows(q))
    BY <1>1, SameChain DEF LedgerInv
  <2>2. Prepared'
    BY <1>1, <2>1 DEF LedgerInv, LedgerTypeOK, Prepared
  <2>3. Sealed(a.head, a.entries) /\ a.entries \in 1..Len(chain)
    <3>1. Sealed(seal[w].head, Len(chain)) /\ Len(chain) \in Nat
      BY <1>1 DEF LedgerInv, SealSound, LedgerTypeOK
    <3>2. Len(chain) > 0
      BY <3>1 DEF Sealed
    <3> QED BY <3>1, <3>2
  <2> HIDE DEF a
  <2>4. SealSound'
    BY <1>1, <2>1, <2>3 DEF LedgerInv, LedgerTypeOK, SealSound
  <2>5. AnchorNotAhead'
    BY <1>1 DEF LedgerInv, AnchorNotAhead, HashAt
  <2> QED BY <2>1, <2>2, <2>4, <2>5
<1> QED BY <1>2, <1>3, <1>4 DEF LedgerInv

\* A rollback preserves the invariant: it discards rows and frees the lock.
LEMMA RollbackInv ==
  ASSUME LedgerInv, NEW w \in Writers, Rollback(w)
  PROVE  LedgerInv'
<1>1. Leaves(w) /\ UNCHANGED <<chain, seenRows, verdict>> /\ anchor' = anchor
      /\ lock' = (IF lock = w THEN Nil ELSE lock)
  BY DEF Rollback
<1>2. anchor \in Seal /\ AnchorNotAhead
  BY DEF LedgerInv, LedgerTypeOK
<1> QED BY <1>1, <1>2, LeavesInv DEF AnchorNotAhead

\* A writer that anchors does not hold the lock.
LEMMA Unlocked ==
  ASSUME LedgerInv, NEW w \in Writers, wpc[w] \in {"committed", "counting", "sealing"},
         UNCHANGED lock
  PROVE  lock' = (IF lock = w THEN Nil ELSE lock)
BY DEF LedgerInv, LockHeld

\* Replacing the anchor file preserves the invariant: what was sealed is on the
\* chain, even when it is older than the anchor it replaces.
LEMMA AnchorWriteInv ==
  ASSUME LedgerInv, NEW w \in Writers, AnchorWrite(w)
  PROVE  LedgerInv'
<1>1. /\ wpc[w] = "sealing" /\ Leaves(w) /\ anchor' = seal[w]
      /\ UNCHANGED <<chain, seenRows, verdict>> /\ UNCHANGED lock
  BY DEF AnchorWrite
<1>2. lock' = (IF lock = w THEN Nil ELSE lock)
  BY <1>1, Unlocked
<1>3. /\ seal[w] \in Seal /\ seal[w].entries \in 1..Len(chain)
      /\ Sealed(seal[w].head, seal[w].entries)
  BY <1>1 DEF LedgerInv, LedgerTypeOK, SealSound
<1>4. /\ anchor'.entries <= Len(chain)
      /\ \E i \in 1..anchor'.entries : HashAt(i) = anchor'.head
  BY <1>1, <1>3 DEF Sealed
<1> QED BY <1>1, <1>2, <1>3, <1>4, LeavesInv

\* An anchor that is not written changes nothing else.
LEMMA AnchorLostInv ==
  ASSUME LedgerInv, NEW w \in Writers, AnchorLost(w)
  PROVE  LedgerInv'
<1>1. /\ wpc[w] \in {"committed", "counting", "sealing"}
      /\ Leaves(w) /\ UNCHANGED <<chain, seenRows, verdict>>
      /\ anchor' = anchor /\ UNCHANGED lock
  BY DEF AnchorLost
<1>2. lock' = (IF lock = w THEN Nil ELSE lock)
  BY <1>1, Unlocked
<1>3. anchor \in Seal /\ AnchorNotAhead
  BY DEF LedgerInv, LedgerTypeOK
<1> QED BY <1>1, <1>2, <1>3, LeavesInv DEF AnchorNotAhead

\* verify_chain only reads.
LEMMA VerifyInv ==
  ASSUME LedgerInv, UNCHANGED <<chain, writerVars, anchor>>,
         seenRows' \in Nat, verdict' \in Verdicts
  PROVE  LedgerInv'
<1>1. UNCHANGED <<chain, lock, wpc, request, rows, seal, anchor>>
  BY DEF writerVars
<1>2. LedgerTypeOK'
  BY <1>1 DEF LedgerInv, LedgerTypeOK
<1>3. LockHeld' /\ HasRequest'
  <2>1. LockHeld'
    BY <1>1 DEF LedgerInv, LockHeld
  <2>2. \A v \in Writers : wpc'[v] # "idle" => wpc[v] # "idle" /\ request'[v] = request[v]
    BY <1>1 DEF LedgerInv, LedgerTypeOK
  <2> QED BY <1>1, <2>1, <2>2, RequestKept DEF LedgerInv
<1>4. ChainShape' /\ Prepared' /\ SealSound' /\ AnchorNotAhead'
  <2>1. ChainShape' /\ (\A head, n : Sealed(head, n)' <=> Sealed(head, n))
        /\ (\A q : Admits(q)' <=> Admits(q)) /\ (\A q : NewRows(q)' = NewRows(q))
    BY <1>1, SameChain DEF LedgerInv
  <2>2. Prepared'
    BY <1>1, <2>1 DEF LedgerInv, Prepared
  <2>3. SealSound'
    BY <1>1, <2>1 DEF LedgerInv, SealSound
  <2>4. AnchorNotAhead'
    BY <1>1 DEF LedgerInv, AnchorNotAhead, HashAt
  <2> QED BY <2>1, <2>2, <2>3, <2>4
<1> QED BY <1>2, <1>3, <1>4 DEF LedgerInv

\* Every step of the ledger preserves the invariant.
LEMMA LedgerNextInv == LedgerInv /\ [LedgerNext]_ledgerVars => LedgerInv'
<1> SUFFICES ASSUME LedgerInv, [LedgerNext]_ledgerVars PROVE LedgerInv'
  OBVIOUS
<1>1. ASSUME NEW w \in Writers, WriteStep(w) PROVE LedgerInv'
  BY <1>1, StartInv, LockInv, InsertInv, CommitInv, RollbackInv, AnchorHeadInv,
     AnchorCountInv, AnchorWriteInv, AnchorLostInv DEF WriteStep
<1>2. CASE VerifyRead
  <2>1. Len(chain) \in Nat /\ verdict \in Verdicts
    BY DEF LedgerInv, LedgerTypeOK
  <2> QED BY <1>2, <2>1, VerifyInv DEF VerifyRead
<1>3. CASE VerifyAnchor
  <2>1. verdict' \in Verdicts
    BY <1>3 DEF VerifyAnchor, CheckHeadAnchor, Verdicts
  <2> QED BY <1>3, <2>1, VerifyInv DEF VerifyAnchor
<1>4. CASE UNCHANGED ledgerVars
  <2>1. UNCHANGED <<chain, writerVars, anchor, seenRows, verdict>>
    BY <1>4 DEF ledgerVars
  <2>2. seenRows \in Nat /\ verdict \in Verdicts
    BY DEF LedgerInv, LedgerTypeOK
  <2> QED BY <2>1, <2>2, VerifyInv
<1> QED BY <1>1, <1>2, <1>3, <1>4 DEF LedgerNext

-----------------------------------------------------------------------------
(* Theorems. *)

\* The invariant holds in every state the writers can reach.
THEOREM LedgerInvariant == LedgerSpec => []LedgerInv
<1> QED BY LedgerInitInv, LedgerNextInv, PTL DEF LedgerSpec

\* Every variable of the ledger keeps its type.
THEOREM LedgerTypeCorrect == LedgerSpec => []LedgerTypeOK
<1>1. LedgerInv => LedgerTypeOK
  BY DEF LedgerInv
<1> QED BY <1>1, LedgerInvariant, PTL

\* The hash chain never forks or breaks under concurrent writers, because each
\* reads the head and inserts under the advisory lock.
THEOREM ChainStaysIntact == LedgerSpec => []ChainIntact
<1>1. LedgerInv => ChainIntact
  BY DEF LedgerInv, ChainShape
<1> QED BY <1>1, LedgerInvariant, PTL

\* A cassette version is bound to content once, whoever loads it.
THEOREM VersionsBoundOnce == LedgerSpec => []OneBinding
<1>1. LedgerInv => OneBinding
  BY DEF LedgerInv, ChainShape
<1> QED BY <1>1, LedgerInvariant, PTL

\* Concurrent boots leave one enforcement marker per key change.
THEOREM MarkersChange == LedgerSpec => []MarkersAlternate
<1>1. LedgerInv => MarkersAlternate
  BY DEF LedgerInv, ChainShape
<1> QED BY <1>1, LedgerInvariant, PTL

\* Supersessions, human selections, replacements and shadow scores name real earlier rows.
THEOREM ReferencesHold == LedgerSpec => []ReferencesReal
<1>1. LedgerInv => ReferencesReal
  BY DEF LedgerInv, ChainShape
<1> QED BY <1>1, LedgerInvariant, PTL

\* A decision is followed by its whole observation stream, no event row stands
\* outside one, and no event_id or call_sid is recorded twice.
THEOREM StreamsStayWhole == LedgerSpec => []StreamsWhole
<1>1. LedgerInv => StreamsWhole
  BY DEF LedgerInv, ChainShape
<1> QED BY <1>1, LedgerInvariant, PTL

\* The external anchor never runs ahead of the committed rows.
THEOREM AnchorStaysBehind == LedgerSpec => []AnchorNotAhead
<1>1. LedgerInv => AnchorNotAhead
  BY DEF LedgerInv
<1> QED BY <1>1, LedgerInvariant, PTL

\* No step of any writer or verifier changes or removes a committed row.
THEOREM LedgerAppendOnly == LedgerSpec => AppendOnly
<1> DEFINE Kept == /\ Len(chain') >= Len(chain)
                   /\ \A i \in DOMAIN chain : chain'[i] = chain[i]
<1>1. LedgerInv /\ [LedgerNext]_ledgerVars => [Kept]_ledgerVars
  <2> SUFFICES ASSUME LedgerInv, LedgerNext PROVE Kept
    OBVIOUS
  <2>1. chain \in Seq(Row) /\ Len(chain) \in Nat /\ DOMAIN chain = 1..Len(chain)
    BY DEF LedgerInv, LedgerTypeOK
  <2>2. ASSUME NEW w \in Writers, Commit(w) PROVE Kept
    <3>1. /\ LedgerTypeOK /\ request[w] \in Requests
          /\ chain' = chain \o NewRows(request[w])
      BY <2>2 DEF LedgerInv, Commit, Goes, HasRequest, Prepared
    <3>2. Grows(request[w])
      BY <3>1, CommitGrows
    <3> QED BY <2>1, <3>2 DEF Grows
  <2>3. CASE chain' = chain
    BY <2>1, <2>3
  <2> QED BY <2>2, <2>3 DEF LedgerNext, WriteStep, Start, Lock, Insert, Rollback,
            AnchorHead, AnchorCount, AnchorWrite, AnchorLost, VerifyRead, VerifyAnchor
<1> QED BY <1>1, LedgerInvariant, PTL DEF LedgerSpec, AppendOnly

\* What a running verify_chain fetched is still there.
SeenBehind == seenRows <= Len(chain)

LEMMA SeenStaysBehind ==
  ASSUME LedgerInv, SeenBehind, [LedgerNext]_ledgerVars
  PROVE  SeenBehind'
<1>1. chain \in Seq(Row) /\ Len(chain) \in Nat /\ seenRows \in Nat
  BY DEF LedgerInv, LedgerTypeOK
<1>2. ASSUME NEW w \in Writers, Commit(w) PROVE SeenBehind'
  <2>1. /\ LedgerTypeOK /\ request[w] \in Requests
        /\ chain' = chain \o NewRows(request[w]) /\ seenRows' = seenRows
    BY <1>2 DEF LedgerInv, Commit, Goes, HasRequest, Prepared
  <2>2. NewRows(request[w]) \in Seq(Row)
    BY <2>1, NewRowsType
  <2>3. Len(chain') >= Len(chain) /\ Len(chain') \in Nat
    BY <1>1, <2>1, <2>2
  <2> QED BY <1>1, <2>1, <2>3 DEF SeenBehind
<1>3. CASE chain' = chain /\ seenRows' \in {seenRows, 0, Len(chain)}
  BY <1>1, <1>3 DEF SeenBehind
<1>4. CASE UNCHANGED ledgerVars
  BY <1>3, <1>4 DEF ledgerVars
<1> QED
  BY <1>2, <1>3, <1>4 DEF LedgerNext, WriteStep, Start, Lock, Insert, Rollback, AnchorHead,
     AnchorCount, AnchorWrite, AnchorLost, VerifyRead, VerifyAnchor

\* verify_chain reads its anchor late, and still raises no alarm about an honest
\* chain that concurrent commits and concurrent anchors do not explain.
THEOREM AlarmsAreExplained == LedgerSpec => AlarmsExplained
<1> DEFINE Told == seenRows # 0 /\ seenRows' = 0 =>
       /\ verdict' # "broken"
       /\ verdict' = "short" => Len(chain) > seenRows
       /\ verdict' = "mismatch" => \E i \in 1..seenRows : HashAt(i) = anchor.head
<1>1. LedgerInit => SeenBehind
  BY DEF LedgerInit, SeenBehind
<1>2. LedgerInv /\ SeenBehind /\ [LedgerNext]_ledgerVars => SeenBehind'
  BY SeenStaysBehind
<1>3. LedgerInv /\ SeenBehind /\ [LedgerNext]_ledgerVars => [Told]_ledgerVars
  <2> SUFFICES ASSUME LedgerInv, SeenBehind, LedgerNext, seenRows # 0, seenRows' = 0 PROVE Told
    OBVIOUS
  <2>1. VerifyAnchor
    BY DEF LedgerNext, WriteStep, Start, Lock, Insert, Commit, Rollback, AnchorHead,
       AnchorCount, AnchorWrite, AnchorLost, VerifyRead
  <2>2. /\ chain \in Seq(Row) /\ Len(chain) \in Nat /\ seenRows \in Nat \ {0}
        /\ anchor.entries \in Nat /\ seenRows <= Len(chain)
    BY DEF LedgerInv, LedgerTypeOK, Seal, SeenBehind
  <2>3. LinksHold(seenRows)
    <3>1. LinksHold(Len(chain))
      BY DEF LedgerInv, ChainShape, ChainIntact
    <3>2. 1..seenRows \subseteq 1..Len(chain)
      BY <2>2
    <3> QED BY <3>1, <3>2 DEF LinksHold
  <2>4. verdict' = CheckHeadAnchor(seenRows)
    BY <2>1, <2>3 DEF VerifyAnchor
  <2>5. anchor.entries # 0 =>
          anchor.entries <= Len(chain) /\ \E i \in 1..anchor.entries : HashAt(i) = anchor.head
    BY DEF LedgerInv, AnchorNotAhead
  <2>6. verdict' # "broken"
    BY <2>4 DEF CheckHeadAnchor
  <2>7. verdict' = "short" => Len(chain) > seenRows
    <3> SUFFICES ASSUME verdict' = "short" PROVE Len(chain) > seenRows
      OBVIOUS
    <3>1. anchor.entries > seenRows
      BY <2>2, <2>4 DEF CheckHeadAnchor
    <3> QED BY <2>2, <2>5, <3>1
  <2>8. verdict' = "mismatch" => \E i \in 1..seenRows : HashAt(i) = anchor.head
    <3> SUFFICES ASSUME verdict' = "mismatch" PROVE \E i \in 1..seenRows : HashAt(i) = anchor.head
      OBVIOUS
    <3>1. anchor.entries \in 1..seenRows
      BY <2>2, <2>4 DEF CheckHeadAnchor
    <3>2. 1..anchor.entries \subseteq 1..seenRows /\ anchor.entries # 0
      BY <2>2, <3>1
    <3> QED BY <2>5, <3>2
  <2> QED BY <2>6, <2>7, <2>8
<1> QED BY <1>1, <1>2, <1>3, LedgerInvariant, PTL DEF LedgerSpec, AlarmsExplained
=============================================================================

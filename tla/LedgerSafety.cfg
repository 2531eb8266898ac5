SPECIFICATION LedgerKeysSpec
CONSTANTS
  Writers = {w1, w2}
  Episode = Episode
  Version = Version
  Key1 = Key1
  Key2 = Key2
  Subjects = {Episode, Version}
  Values = {Key1, Key2, NoSid}
  NoSid = NoSid
  Event1 = Event1
  Event2 = Event2
  EventIds = {Event1, Event2}
  Requests <- AllRequests
  MaxRows = 2
  Nil = Nil
  Keys = {k1, k2}
  Names = {na, nb}
  NoName = NoName
  NoKey = NoKey
  NoSig = NoSig
  MaxSigned = 3
  MaxForged = 1
  Sources = {s1}
  Contents = {c1, c2}
  Gems = {g1, g2}
  Unregistered = {g2}
  MaxEntries = 3
  Open = Open
  Spent = Spent
  Batches <- MCBatches
  Episodes <- MCEpisodes
  NoEpisode = NoEpisode
  Summaries <- MCSummaries
  NoSummary = NoSummary
  Absent = Absent
  Builds = {"v0", "v1"}
  MaxDecisions = 2
SYMMETRY LedgerKeysSymmetry
INVARIANTS
  ChainIntact
  OneBinding
  MarkersAlternate
  ReferencesReal
  StreamsWhole
  AnchorNotAhead
  ClaimsHold
  LineageHolds
  DecisionsSupported
PROPERTIES
  AlarmsExplained

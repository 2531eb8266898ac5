SPECIFICATION EvidenceSpec
CONSTANTS
  NRows = 2
  Workers = {w1}
  Handlers = {h1, h2}
  Batch = 2
  MaxSeals = 3
  NoEntry = NoEntry
  Ids = {1, 2, 3}
  Sids = {2}
  SLA = 1
  Page = 2
  MaxAlter = 1
  NoRow = NoRow
  Replicas = {rp}
  Nonces = {n1, n2}
  Threads = {t1, t2}
  MaxTrail = 3
  MaxCrash = 1
  Torn = Torn
  NoReq = NoReq
  Entries = {1, 2, 3}
  MaxMigrations = 2
  Decisions = {d1, d2}
  Clients = {c1, c2}
  MaxChain = 3
  MaxReviews = 1
  Idle = Idle
  Lenses <- MCLenses
  Approvals = {a1}
  Purposes = {"p", "q"}
  Classes = {"subcontractor", "other"}
  LastDay = 1
  MaxPartition = 3
  RowLimit = 2
  NoTime = NoTime
  Garbled = Garbled
  ApprovalBodies <- MCApprovalBodies
  Asks <- MCAsks
  NoRef = NoRef
  Slices = {x, y}
  MaxChunks = 3
  MaxDeaths = 2
  MaxHarm = 2
  TornChunk = TornChunk
  Decks = {dk1, dk2}
  Judges = {dk1}
  Regs = {1, 2}
  Modes <- MCModes
  Reviews <- MCReviews
  MaxEvents = 2
INVARIANTS
  ShippedIsAccounted
  ReleasedOnRecord
  NothingOwedForgotten
  SkipsReported
  EgressBacked
  ManifestVouches
  OnTheRecord
PROPERTIES
  MigrationWhole
  VerdictHonest
CHECK_DEADLOCK FALSE

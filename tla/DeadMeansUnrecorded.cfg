SPECIFICATION WorkerSpec
CONSTANTS
  Jobs = {j1}
  Workers = {w1}
  ClaimIds = {c1, c2}
  Reasons = {"process_crash", "data_corruption", "db_connection_loss", "unclassified"}
  Budgets = {1}
  Lease = 1
  BaseBackoff = 1
  MaxBackoff = 1
  Jitter = 0
  DoneKeep = 1
  SweepSlack = 1
  Batch = 1
  MaxScan = 1
  TrailKeep = 1
  MaxAdmissions = 2
  MaxRequeues = 1
  Nil = Nil
  Payloads = {"governed"}
  RequireEvents = TRUE
  MaxCrashes = 1
SYMMETRY Symmetry
INVARIANTS
  DeadMeansUnrecorded

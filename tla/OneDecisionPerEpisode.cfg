SPECIFICATION WorkerSpec
CONSTANTS
  Jobs = {j1}
  Workers = {w1, w2}
  ClaimIds = {c1, c2, c3, c4}
  Reasons = {"process_crash", "data_corruption", "db_connection_loss", "unclassified"}
  Budgets = {2}
  Lease = 1
  BaseBackoff = 1
  MaxBackoff = 1
  Jitter = 0
  DoneKeep = 1
  SweepSlack = 1
  Batch = 1
  MaxScan = 1
  TrailKeep = 1
  MaxAdmissions = 2
  MaxRequeues = 1
  Nil = Nil
  Payloads = {"bare"}
  RequireEvents = FALSE
  MaxCrashes = 1
SYMMETRY Symmetry
INVARIANTS
  OneDecisionPerEpisode

SPECIFICATION ProgressSpec
CONSTANTS
  Jobs = {j1}
  Workers = {w1, w2}
  ClaimIds = {c1, c2, c3}
  Reasons = {"process_crash", "data_corruption", "db_connection_loss", "unclassified"}
  Budgets = {2}
  Lease = 1
  BaseBackoff = 1
  MaxBackoff = 1
  Jitter = 0
  DoneKeep = 0
  SweepSlack = 1
  Batch = 1
  MaxScan = 1
  TrailKeep = 1
  MaxAdmissions = 1
  MaxRequeues = 0
  Nil = Nil
  Payloads = {"governed", "malformed"}
  RequireEvents = TRUE
  MaxCrashes = 1
  Callers = {b1, b2, b3}
  FailureThreshold = 2
  SuccessThreshold = 2
  ResetTimeout = 2
  NoCaller = NoCaller
INVARIANTS
  ProbeAccounted
PROPERTIES
  EveryJobSettles
  BreakerRecovers

SPECIFICATION Spec
CONSTANTS
  Jobs = {j1, j2}
  Workers = {w1}
  ClaimIds = {c1, c2}
  Reasons = {"process_crash", "data_corruption", "unclassified"}
  Budgets = {1, 2}
  Lease = 1
  BaseBackoff = 1
  MaxBackoff = 1
  Jitter = 0
  DoneKeep = 2
  SweepSlack = 1
  Batch = 1
  MaxScan = 2
  TrailKeep = 1
  MaxAdmissions = 3
  MaxRequeues = 0
  Nil = Nil
SYMMETRY Symmetry
INVARIANTS
  AuditClean

SPECIFICATION Spec
CONSTANTS
  Jobs = {j1, j2}
  Workers = {w1, w2}
  ClaimIds = {c1, c2}
  Reasons = {"process_crash", "data_corruption", "unclassified"}
  Budgets = {1, 2}
  Lease = 1
  BaseBackoff = 1
  MaxBackoff = 1
  Jitter = 0
  DoneKeep = 1
  SweepSlack = 1
  Batch = 2
  MaxScan = 2
  TrailKeep = 1
  MaxAdmissions = 3
  MaxRequeues = 1
  Nil = Nil
SYMMETRY Symmetry
INVARIANTS
  OneStructure
  BudgetRespected
  DeadDiagnosed
  Accounting
PROPERTIES
  FencedForever
  LeaseRespected
  CompletedStays
  ImplementsLifecycle

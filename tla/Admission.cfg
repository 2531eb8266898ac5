SPECIFICATION AdmissionSpec
CONSTANTS
  Principals = {k1}
  Capacity = 5
  Rate = 2
  Cost = 3
  TTL = 3
  Requests = {r1, r2}
  Procs = {p1}
  Sids = {s1}
  BadKey = BadKey
  MaxAttempts = 2
  Window = 2
  MaxStall = 1
  QueueCapacity = 1
  Watermark = 50
  MaxDelay = 1
  Targets = {tg1, tg2}
  Selections = {"accept", "override"}
  NoAnswer = NoAnswer
  Ingests = {i1}
  Terms <- MCTerms
  NoCarveOut = NoCarveOut
  LastDate = 1
  MaxHoldings = 3
  ReadLimit = 2
  MaxTamper = 1
  Unparsed = Unparsed
SYMMETRY AdmissionSymmetry
INVARIANTS
  LazyEqualsEager
  RetryAfterHonest
  AttemptsBounded
  AcceptedIsKept
  BlockHolds
  AttestationHonest
PROPERTIES
  NotFoundHonest
CHECK_DEADLOCK FALSE

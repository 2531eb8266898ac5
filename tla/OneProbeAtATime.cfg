SPECIFICATION BreakerSpec
CONSTANTS
  Callers = {c1, c2, c3}
  FailureThreshold = 2
  SuccessThreshold = 2
  ResetTimeout = 2
  NoCaller = NoCaller
INVARIANT OneProbeAtATime

SPECIFICATION Spec
CONSTANTS
  None = None
  k1 = k1
  k2 = k2
  q1 = q1
  q2 = q2
  q3 = q3
  Key <- TwoKeys
  Request <- ThreeRequests
  Deployments <- Sound
  MaxFaults = 2
INVARIANTS
  ExecutedOnceInTurn
  LateRetryReplays
SYMMETRY Symmetry
CHECK_DEADLOCK FALSE

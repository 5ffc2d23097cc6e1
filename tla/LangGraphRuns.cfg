SPECIFICATION FairSpec
CONSTANTS
  r1 = r1
  r2 = r2
  x1 = x1
  x2 = x2
  w1 = w1
  w2 = w2
  s1 = s1
  s2 = s2
  Request = {r1, r2}
  Replica = {x1, x2}
  Worker = {w1, w2}
  Scope = {s1, s2}
  Default = s1
  Shared = Shared
  None = None
  Deployments <- MCDeployments
INVARIANTS
  HeldToolsWait
  EachItemOnce
  RunFollowsThread
PROPERTIES
  ApprovedRunsFinish
CHECK_DEADLOCK FALSE

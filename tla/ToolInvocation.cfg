SPECIFICATION Spec
CONSTANTS
  echo = echo
  w1 = w1
  w2 = w2
  Tool = {echo}
  Worker = {w1, w2}
  MaxCalls = 4
  Threshold = 2
  None = None
  Deployments <- Services
INVARIANTS
  EffectsWithinPolicy
  CircuitFollowsFailures
PROPERTIES
  AnsweredAndLogged
CHECK_DEADLOCK FALSE

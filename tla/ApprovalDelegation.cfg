SPECIFICATION FairSpec
CONSTANTS
  MaxRuns = 2
  MaxThreads = 2
  None = None
  Deployments <- CalmLocalAndFaulty
INVARIANTS
  OutcomeNeedsServiceDecision
  CopiesAgree
PROPERTIES
  DecidedShadowStays
  DecisionsReachTheirRuns
CHECK_DEADLOCK FALSE

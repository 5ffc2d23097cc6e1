SPECIFICATION Spec
CONSTANTS
  None = None
  r1 = r1
  w1 = w1
  w2 = w2
  Run <- OneRun
  Worker <- TwoWorkers
  Deployments <- OverlappingAndInTurn
INVARIANTS
  NoOutcomeWithoutDecision
  RunAgreesInTurn
PROPERTIES
  OnlyOverlapRevives
SYMMETRY Symmetry
CHECK_DEADLOCK FALSE

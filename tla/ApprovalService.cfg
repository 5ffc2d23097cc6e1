SPECIFICATION Spec
CONSTANTS
  None = None
  alice = alice
  bob = bob
  w1 = w1
  w2 = w2
  t1 = t1
  User <- TwoUsers
  TaskId <- OneTask
  Worker <- TwoWorkers
  Deployments <- OverlappingAndInTurn
INVARIANTS
  StoredRowsConsistent
  StoredHistoryConsistent
PROPERTIES
  OnlyStaleWritesUndo
  ImplementsLifecycle
SYMMETRY Symmetry
CHECK_DEADLOCK FALSE

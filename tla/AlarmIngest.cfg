SPECIFICATION FairStreamSpec
CONSTANTS
  MaxRecords = 3
  BatchMax = 2
  MaxRestarts = 2
  Streams <- HostileAndCalm
INVARIANTS
  OncePerLifeInOrder
PROPERTIES
  AlarmsArrive
CHECK_DEADLOCK FALSE

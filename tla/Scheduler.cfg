SPECIFICATION Spec
CONSTANTS
  a = a
  b = b
  s1 = s1
  s2 = s2
  Replica = {a, b}
  Schedule = {s1, s2}
  Minute = 4
  Cycle = 3
  Horizon = 1
  MaxTime = 15
  MaxRecent = 1
  None = None
  Gone = Gone
  Crons <- CronStrings
  Deployments <- Settings
SYMMETRY Symmetry
INVARIANTS
  EachSlotOnce
  OneReplicaTicks
  SuccessionInTime
  NoSlotMissed
CHECK_DEADLOCK FALSE

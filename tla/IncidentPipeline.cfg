SPECIFICATION AgentSpec
CONSTANTS
  w1 = w1
  w2 = w2
  h1 = h1
  h2 = h2
  Handler = {w1, w2}
  Hypothesis = {h1, h2}
  NoParent = NoParent
  Agents <- Rcas
INVARIANTS
  IncidentsFollowLinks
  KnowledgeIsEarned
  DiskKeepsUp
PROPERTIES
  RowsKeepTheirOwner
CHECK_DEADLOCK FALSE

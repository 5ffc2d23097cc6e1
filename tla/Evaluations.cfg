SPECIFICATION FairEvalSpec
CONSTANTS
    Requests = {1, 2, 3}
    Window = 2
    MaxEntries = 2
    MaxTime = 3
    Pages <- MCPages
    Permissions = {"knowledge:read"}
    TopKs <- MCTopKs
    Installations <- MCInstallations
    None = None
INVARIANT OnlyKnowledgeVerdictsCount
INVARIANT ToldIsStored
PROPERTY LimitHolds
PROPERTY EvaluationsSettle
CHECK_DEADLOCK FALSE

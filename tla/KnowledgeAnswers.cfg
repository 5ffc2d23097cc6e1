SPECIFICATION AnswersSpec
CONSTANTS
    Doc = {1, 2, 3}
    Words <- MCWords
    Title <- MCTitle
    Tags <- MCTags
    Parts <- MCParts
    Entities <- MCEntities
    Session = {1, 2}
    Thread = {1, 2}
    Questions <- MCQuestions
    Scopes <- MCScopes
    PageSize = 2
    TopK = 1
    Similarity <- MCSimilarity
    MergeMaxLen = 6
    MergeMaxBlocks = 3
    MaxChunkLen = 8
    Setups <- MCSetups
    NoRow = NoRow
INVARIANT AnswersRestOnEvidence
INVARIANT RefusalsAreTrue
INVARIANT FollowUpsShareOneAnswer
CHECK_DEADLOCK FALSE

SPECIFICATION Spec
CONSTANTS
    i1 = i1
    Missing = Missing
    Items = {i1}
    ToolCalls = {}
    Columns <- MCColumns
    Fields <- MCFields
    Values <- MCValues
    Accepted <- MCAccepted
    OpenRows <- MCOpenRows
    Commands <- MCCommands
    Drafts <- AllDrafts
    DraftFor <- MCDraftFor
    NoAnswer = NoAnswer
    Messages <- MCMessages
    Answers <- MCAnswers
    Texts <- SomeTexts
    Requests = {q1, q2, q3}
    MaxProposals = 2
    Limit = 5
    MaxInFlight = 2
    VaultMayFail = TRUE
SYMMETRY RequestSymmetry
INVARIANTS TypeOK Consented OutcomeExplained BatchStopsAtFailure SuccessIsTrue RepeatedOnlyByOverlap ProposalTellsTruth
PROPERTIES ImplementsAuditedTruth YesMeansLatest
CHECK_DEADLOCK FALSE

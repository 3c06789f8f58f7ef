SPECIFICATION Spec
CONSTANTS
    i1 = i1
    Missing = Missing
    Items = {i1}
    ToolCalls = {}
    Columns <- MCColumns
    Fields <- MCFields
    Values <- MCValues
    Accepted <- MCAccepted
    OpenRows <- MCOpenRows
    Commands <- MCCommands
    Drafts <- AllDrafts
    DraftFor <- MCDraftFor
    NoAnswer = NoAnswer
    Messages <- Orders
    Answers <- HalfRight
    Texts <- AllTexts
    Requests = {q1}
    MaxProposals = 2
    Limit = 5
    MaxInFlight = 1
    VaultMayFail = FALSE
INVARIANT NothingCreated
CHECK_DEADLOCK FALSE

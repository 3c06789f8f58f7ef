SPECIFICATION Spec
CONSTANTS
    i1 = i1
    Missing = Missing
    Items = {i1}
    ToolCalls = {}
    Columns <- MCColumns
    Fields <- MCFields
    Values <- MCValues
    Accepted <- MCAccepted
    OpenRows <- MCOpenRows
    Commands <- MCCommands
    Drafts <- AllDrafts
    DraftFor <- MCDraftFor
    NoAnswer = NoAnswer
    Messages <- OrdersAndWishes
    Answers <- OnlyNewTask
    Texts <- AllTexts
    Requests = {q1, q2, q3}
    MaxProposals = 1
    Limit = 5
    MaxInFlight = 2
    VaultMayFail = FALSE
INVARIANT ExecutedOnce
CHECK_DEADLOCK FALSE

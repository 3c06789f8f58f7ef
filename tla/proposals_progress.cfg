SPECIFICATION FairSpec
CONSTANTS
    i1 = i1
    Missing = Missing
    Items = {}
    ToolCalls = {}
    Columns <- MCColumns
    Fields <- MCFields
    Values <- MCValues
    Accepted <- MCAccepted
    OpenRows <- MCOpenRows
    Commands <- MCCommands
    Drafts <- GoodDrafts
    DraftFor <- MCDraftFor
    NoAnswer = NoAnswer
    Messages <- Wishes
    Answers <- PairOffered
    Texts <- PairTexts
    Requests = {q1, q2, q3}
    MaxProposals = 2
    Limit = 5
    MaxInFlight = 3
    VaultMayFail = FALSE
PROPERTIES RequestsEnd
CHECK_DEADLOCK FALSE

SPECIFICATION FairSpec
CONSTANTS
    Kinds = {"voice", "query", "other"}
    Routes = {"review_required"}
    MaxUpdates = 2
    MaxFaults = 1
    MaxReviews = 4
    PageSize = 1
    StartPage = 1
    PostExisting = FALSE
    Inputs = {k1}
    Commands = {"agent", "cancel"}
    Buttons = {"approve", "clarify"}
INVARIANTS GatewaysTypeOK ForgottenIsStored RepeatedOnlyByRestart CardsExplained ReportIsTrue
PROPERTIES QueueMoves PendingIsPosted
CHECK_DEADLOCK FALSE

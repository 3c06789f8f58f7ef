SPECIFICATION FairSpec
CONSTANTS
    Kinds = {"text"}
    Routes = {"ask_clarification"}
    MaxUpdates = 1
    MaxFaults = 0
    MaxReviews = 1
    PageSize = 1
    StartPage = 1
    PostExisting = TRUE
    Inputs = {k1}
    Commands = {}
    Buttons = {"approve"}
PROPERTY AskedInDiscord
CHECK_DEADLOCK FALSE

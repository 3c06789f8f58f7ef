SPECIFICATION Spec
CONSTANTS
    i1 = i1
    t1 = t1
    Missing = Missing
    NoCommand = NoCommand
    Items = {i1}
    ToolCalls = {t1}
    Columns <- MCColumns
    Fields <- MCFields
    Values <- MCValues
    Accepted <- MCAccepted
    Commands <- AllCommands
    Reviews = {r1}
    Requests = {q1, q2}
    MaxInFlight = 2
    VaultMayFail = TRUE
INVARIANTS TypeOK StatusExplained TruthIsBacked FailedFootprint FactRowsInVault CardTellsTruth
PROPERTIES ImplementsAuditedTruth
CHECK_DEADLOCK FALSE

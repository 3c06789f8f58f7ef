SPECIFICATION Spec
CONSTANTS
    Missing = Missing
    Items = {}
    ToolCalls = {}
    Columns = {}
    Fields = {}
    Values = {}
    Accepted = {}
    Commands <- MCCommands
    Drafts <- ManyDrafts
    Texts <- ManyTexts
    Agents = {"research", "deen-prayer"}
    Settings = {"owner_gated", "balanced", "bold"}
    Captures = {c1, c2}
    MaxInFlight = 2
    VaultMayFail = TRUE
SYMMETRY CaptureSymmetry
INVARIANTS TypeOK EvidenceFirst OnlySafeWorkIsApplied LedgersAgree
PROPERTIES ImplementsAuditedTruth
CHECK_DEADLOCK FALSE

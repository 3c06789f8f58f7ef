SPECIFICATION Spec
CONSTANTS
    Missing = Missing
    Items = {}
    ToolCalls = {}
    Columns = {}
    Fields = {}
    Values = {}
    Accepted = {}
    Commands <- MCCommands
    Drafts <- FewDrafts
    Texts = {}
    Agents = {"research"}
    Settings = {"owner_gated", "balanced", "bold"}
    Captures = {c1}
    MaxInFlight = 1
    VaultMayFail = FALSE
SYMMETRY CaptureSymmetry
INVARIANT EvidenceIsAccepted
CHECK_DEADLOCK FALSE

SPECIFICATION Spec
CONSTANTS
    Agents = {"capture-router", "orchestrator"}
    Routers = {"capture-router", "orchestrator"}
    ChatRouter = "orchestrator"
    Providers = {"p1", "p2"}
    Tools = {"mail"}
    Late = {"orchestrator"}
    YamlModels <- MCModels
    YamlProviders <- MCProviders
    YamlAutonomy <- MCAutonomy
    YamlEffect <- MCEffect
    YamlMode = "hybrid"
    AgentChanges <- MCAgentChanges
    ModelChanges <- MCModelChanges
    ProviderChanges <- MCProviderChanges
    Effects = {"allow"}
    SettingChanges <- MCSettingChanges
    Requests = {r1, r2, r3}
    Routes = {q1, q2}
    Tries <- MCTries
    MaxWork = 3
    MaxStarts = 2
SYMMETRY Symmetry
INVARIANTS ConfigTypeOK ChangesKept CalledWhenOn LastResort
PROPERTIES OneRowPerPair
CHECK_DEADLOCK FALSE

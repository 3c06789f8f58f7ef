SPECIFICATION Spec
CONSTANTS
    Missing = Missing
    c1 = c1
    t1 = t1
    Requests = {q1, q2, q3}
    Asks <- MCAsks
    Channels = {c1}
    Threads = {t1}
    Agents = {"orchestrator", "planner", "health"}
    Asked = {"planner", "health", "nobody"}
    Caps = {7}
    DefaultCap = 5
    MaxInFlight = 2
SYMMETRY RequestSymmetry
INVARIANTS TypeOK LastRunIsLatest OneSessionPerPlace RefusedOnlyByRace
PROPERTIES ChoicesStay CancelHitsLast
CHECK_DEADLOCK FALSE

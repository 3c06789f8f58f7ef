---------------------------- MODULE MCProviderRouting ----------------------------
(* Small instances of ProviderRouting for TLC.                                     *)
EXTENDS ProviderRouting, TLC

On1 == [enabled |-> "on", settings |-> Empty]

MCModels == "capture-router" :> [primary |-> "p1", secondary |-> "p2", fallback |-> "on", settings |-> Empty]
MCProviders == [p \in Providers |-> On1]
MCAutonomy == [a \in Agents |-> "owner_gated"]
MCEffect == <<"capture-router", "mail">> :> "ask"
MCTries == [p \in Providers |-> IF p = "p1" THEN 2 ELSE 1]

\* A change of each kind: a word that is normalized, two fields, a setting that hides a
\* column, keys of one JSON column.
MCAgentChanges == {[autonomy |-> "safe"], [autonomy |-> "explicit_owner_approval"],
                   [enabled |-> "off"], [display |-> "owner"]}
MCModelChanges == {[secondary |-> "none"], [settings |-> [temperature |-> "0"]],
                   [fallback |-> "off", settings |-> [budget |-> "1"]]}
MCProviderChanges == {[enabled |-> "off"], [enabled |-> "on"], [settings |-> [enabled |-> "on"]]}
MCSettingChanges == {[x \in {"router.mode"} |-> "agentic"],
                     [x \in {"router.mode"} |-> "deterministic"],
                     [x \in {"router.mode", "agent.default_iteration_cap"} |-> "odd"]}

Symmetry == Permutations(Requests) \cup Permutations(Routes)

===================================================================================

--------------------------- MODULE ProviderRouting ---------------------------
(***************************************************************************)
(* How the API finds a provider for a capture or a chat message            *)
(* (services/agentic_router.py, packages/providers/lifeos_providers/       *)
(* router.py), while the configuration changes (RuntimeConfig).            *)
(*                                                                         *)
(* All requests of the process share one dict, the cached YAML file: a     *)
(* route selects the provider rows, puts them into the dict when it is     *)
(* resumed, selects the model rows, puts them in too, and then calls the   *)
(* providers that the dict names at that moment.  The calls block the      *)
(* event loop: nothing else runs until the last one is answered.           *)
(***************************************************************************)
EXTENDS RuntimeConfig

CONSTANTS
    Routes,   \* captures and chat messages to be routed
    Routers,  \* the agents they are routed for
    ChatRouter,
    Tries,    \* [Providers -> Nat]: its models times its keys; 0: no key, or another protocol
    MaxWork   \* bound: requests and routes together

ASSUME RoutingAssumption ==
    /\ Routers \subseteq Agents /\ ChatRouter \in Routers
    /\ Tries \in [Providers -> Nat]
    /\ MaxWork \in Nat

VARIABLES
    cache,  \* the shared dict
    route   \* by route: what it selected, what it called, what came of it

routing == <<cache, route>>
vars == <<config, routing>>

\* settings_json goes over the columns, in provider and in model rows.
Payload(row) == Over(row.settings, row)
On(payload) == payload.enabled # "off"

ProviderRows(table) == [p \in {q \in Providers : Provider(q) \in DOMAIN table} |->
                           Payload(table[Provider(p)])]
ModelRows(table) == [a \in {b \in Agents : Model(b) \in DOMAIN table} |->
                        Payload(table[Model(a)])]
OnIn(rows) == {p \in DOMAIN rows : On(rows[p])}

File == [providers |-> [p \in Providers |-> Payload(YamlProviders[p])],
         models    |-> [a \in DOMAIN YamlModels |-> Payload(YamlModels[a])]]

Unrouted == [stage |-> "idle", agent |-> "none", mode |-> "none", rows |-> Empty,
             choices |-> <<>>, answers |-> <<>>, result |-> "none", seen |-> {}]

InFlight == {q \in Routes : route[q].stage \in {"providers", "models"}}

\* The providers a route may find in the dict: those that are on, and those that a
\* route which has not stored its rows yet has selected.
Findable ==
    OnIn(ProviderRows(db)) \cup
    UNION {OnIn(route[q].rows) : q \in {o \in InFlight : route[o].stage = "providers"}}

Working == {r \in Requests : req[r] # Idle} \cup {q \in Routes : route[q].stage # "idle"}

-----------------------------------------------------------------------------
(* ProviderRouter.                                                         *)

\* A reference to a provider gives one choice per model and key.
Ref(dict, p) ==
    IF p \in DOMAIN dict.providers /\ On(dict.providers[p])
    THEN [i \in 1..Tries[p] |-> p]
    ELSE <<>>

\* _choices_for_agent, less the choices complete_json skips.
ChoicesFor(dict, agent) ==
    IF agent \notin DOMAIN dict.models THEN <<>>
    ELSE LET model == dict.models[agent] IN
         Ref(dict, model.primary) \o
         (IF model.fallback = "on" THEN Ref(dict, model.secondary) ELSE <<>>)

\* HTTP and transport errors and answers that are not JSON are "error"; "odd" is JSON of
\* another shape, "useless" a completion that is no draft.
Answers == {"good", "useless", "odd", "error"}

\* Faulty: an error ends the route as well.
StoppedByAnything(answers, n) == TRUE

\* The loop goes on after errors only: an odd body raises out of it.
Stopped(answers, n) == answers[n] # "error"

\* complete_json: the choices in their order, as long as none has stopped it.
Called(answers) ==
    [n \in {k \in DOMAIN answers : \A m \in 1..(k - 1) : ~Stopped(answers, m)} |-> answers[n]]

\* What a route comes to: a draft of the provider, one of the local rules, or, for a
\* chat in agentic mode, the answer that planning is unavailable.
Result(agent, mode, called) ==
    LET last   == IF called = <<>> THEN "error" ELSE called[Len(called)]
        usable == {"good"} \cup (IF agent = ChatRouter THEN {"useless"} ELSE {})
    IN IF last \in usable THEN "provider"
       ELSE IF agent = ChatRouter /\ mode = "agentic" THEN "refused"
       ELSE "rules"

-----------------------------------------------------------------------------
(* A route.                                                                *)

\* The mode is read and, unless it is deterministic, the provider rows are selected.
StartRoute(q, agent) ==
    /\ Up /\ route[q] = Unrouted
    /\ route' = [route EXCEPT ![q] =
          IF RouterMode = "deterministic"
          THEN [Unrouted EXCEPT !.stage = "done", !.agent = agent, !.mode = RouterMode,
                                !.result = "rules"]
          ELSE [Unrouted EXCEPT !.stage = "providers", !.agent = agent, !.mode = RouterMode,
                                !.rows = ProviderRows(db), !.seen = Findable]]
    /\ UNCHANGED <<config, cache>>

\* Faulty: the dict is filled once and then trusted.
KnownProviders(rows) == cache.providers

\* No rows leave what the dict had.
NewProviders(rows) == IF rows = Empty THEN cache.providers ELSE rows

\* Resumed with the provider rows: they go into the dict, the model rows are selected.
GotProviders(q) ==
    /\ route[q].stage = "providers"
    /\ cache' = [cache EXCEPT !.providers = NewProviders(route[q].rows)]
    /\ route' = [route EXCEPT ![q].stage = "models", ![q].rows = ModelRows(db)]
    /\ UNCHANGED config

\* Resumed with the model rows: into the dict, and then the whole of complete_json.
GotModels(q) ==
    /\ route[q].stage = "models"
    /\ cache' = [cache EXCEPT !.models = IF route[q].rows = Empty THEN @ ELSE route[q].rows]
    /\ LET choices == ChoicesFor(cache', route[q].agent) IN
       \E answers \in [DOMAIN choices -> Answers] :
          route' = [route EXCEPT ![q].stage = "done", ![q].rows = Empty,
                                 ![q].choices = choices, ![q].answers = Called(answers),
                                 ![q].result = Result(route[q].agent, route[q].mode, Called(answers))]
    /\ UNCHANGED config

RouteStep ==
    \/ \E q \in Routes, agent \in Routers :
          Cardinality(Working) < MaxWork /\ StartRoute(q, agent)
    \/ \E q \in Routes : GotProviders(q) \/ GotModels(q)

\* The configuration changes under the routes.
Reconfigure ==
    /\ \/ \E r \in Requests : Up /\ Cardinality(Working) < MaxWork /\ Ask(r)
       \/ \E r \in Requests : Commit(r)
       \/ \E a \in Late \ files : AddFile(a)
    /\ route' = [q \in Routes |->
                    IF q \in InFlight
                    THEN [route[q] EXCEPT !.seen = @ \cup OnIn(ProviderRows(db'))]
                    ELSE route[q]]
    /\ UNCHANGED cache

\* A restart reads the file again, and what was in flight is gone.
Restart ==
    /\ Start
    /\ cache' = File
    /\ route' = [q \in Routes |-> IF q \in InFlight THEN [Unrouted EXCEPT !.stage = "lost"]
                                  ELSE route[q]]

Init == ConfigInit /\ cache = File /\ route = [q \in Routes |-> Unrouted]

Next == RouteStep \/ Reconfigure \/ Restart

Spec == Init /\ [][Next]_vars

-----------------------------------------------------------------------------
(* Properties.                                                             *)

\* A provider is called only if it was on at some time since its route began, or was
\* selected before by a route that overlaps it: turning a provider off is a matter of
\* the routes that are under way, although all of them share one cached dict.
CalledWhenOn ==
    \A q \in Routes : {route[q].choices[n] : n \in DOMAIN route[q].answers} \subseteq route[q].seen

\* A route gives up only when the last of its choices failed, or a provider answered
\* with something that is of no use.
LastResort ==
    \A q \in Routes : route[q].result \in {"rules", "refused"} =>
        \/ route[q].mode = "deterministic"
        \/ Len(route[q].answers) = Len(route[q].choices)
        \/ route[q].answers[Len(route[q].answers)] \in {"odd", "useless"}

=============================================================================

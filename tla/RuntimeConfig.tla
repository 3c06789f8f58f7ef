---------------------------- MODULE RuntimeConfig ----------------------------
(***************************************************************************)
(* The configuration the owner changes while the API runs: agents, their   *)
(* models, providers, settings and tool permissions (routers/agents.py,    *)
(* providers.py, settings.py, tools.py) over the YAML files the API seeds  *)
(* it from at startup (services/runtime_config.py).                        *)
(*                                                                         *)
(* `db` maps the key of a row to the row, a function of its columns.  A    *)
(* request reads the rows it changes and commits later; other requests     *)
(* commit in between.  The ORM writes the columns whose value is not the   *)
(* one it read, and nothing else.  A JSON column (`settings`) is one       *)
(* column: a function of its keys.                                         *)
(***************************************************************************)
EXTENDS Integers, FiniteSets, SequencesExt

CONSTANTS
    Agents, Providers, Tools,   \* what the YAML files name
    Late,                       \* the agents whose file is added while the API runs
    YamlModels,                 \* [agents with an entry under agent_models -> row]
    YamlProviders,              \* [Providers -> row]
    YamlAutonomy,               \* [Agents -> word]: the autonomy_level of the file
    YamlEffect,                 \* partial function of <<agent, tool>>: its permission
    YamlMode,                   \* LIFEOS_ROUTER_MODE, or "hybrid"
    AgentChanges, ModelChanges, ProviderChanges, Effects,   \* what the owner asks for
    SettingChanges,             \* [key -> value] for some keys
    Requests,                   \* requests to change the configuration
    MaxStarts                   \* bound: how often the API starts

ModelColumns    == {"primary", "secondary", "fallback", "settings"}
ProviderColumns == {"enabled", "settings"}

ASSUME ConfigAssumption ==
    /\ Late \cup DOMAIN YamlModels \subseteq Agents
    /\ DOMAIN YamlEffect \subseteq Agents \X Tools
    /\ DOMAIN YamlProviders = Providers
    /\ DOMAIN YamlAutonomy = Agents
    /\ IsFiniteSet(DOMAIN YamlEffect)
    /\ \A a \in DOMAIN YamlModels : DOMAIN YamlModels[a] = ModelColumns
    /\ \A p \in Providers : DOMAIN YamlProviders[p] = ProviderColumns
    /\ \A change \in AgentChanges : DOMAIN change \subseteq {"display", "enabled", "autonomy"}
    /\ \A change \in ModelChanges : DOMAIN change \subseteq ModelColumns
    /\ \A change \in ProviderChanges : DOMAIN change \subseteq ProviderColumns
    /\ MaxStarts \in Nat \ {0}

VARIABLES
    db,       \* the rows of the configuration tables
    req,      \* what each request read (from), what it commits (to), what it was asked
    calls,    \* the tool calls that were recorded
    files,    \* the agents that have a file
    starts,   \* how often the API was started
    \* what happened, for the properties
    told,     \* by row, what the owner asked for last and was told is done
    crossed,  \* <<row, column>>: a request that changes it read what another one replaced
    patches   \* by agent, how many PATCHes were committed

config == <<db, req, calls, files, starts, told, crossed, patches>>

P == INSTANCE PolicyEngine

-----------------------------------------------------------------------------
(* Rows.                                                                   *)

Over(f, g) == [x \in DOMAIN f \cup DOMAIN g |-> IF x \in DOMAIN f THEN f[x] ELSE g[x]]
Empty == [x \in {} |-> x]
Rows(keys, Row(_)) == [k \in keys |-> Row(k)]
Single(k, row) == [x \in {k} |-> row]
Keys(table) == {k \in DOMAIN db : k[1] = table}

Agent(a) == <<"agent", a>>
Model(a) == <<"model", a>>
Provider(p) == <<"provider", p>>
Setting(s) == <<"setting", s>>
Tool(t) == <<"tool", t>>
Perm(n) == <<"perm", n>>
NewPerm == Perm(0)   \* a permission row whose id is drawn when it is stored

YamlAgent(a) == [display |-> "yaml", enabled |-> "on",
                 autonomy |-> P!Normalize(YamlAutonomy[a]), version |-> 1]

\* sync_agents inserts the word of the file as it is.
SyncedAgent(a) == [YamlAgent(a) EXCEPT !.autonomy = YamlAutonomy[a]]

YamlTool == [risk |-> "yaml"]

\* A permission row of the pair <<agent, tool>>.
PermRow(pair, effect) == [pair |-> pair, effect |-> effect]
PermsOf(table, pair) == {k \in DOMAIN table : k[1] = "perm" /\ table[k].pair = pair}

\* The rows of the file, the permissions aside.
YamlKeys == {Agent(a) : a \in files} \cup {Model(a) : a \in DOMAIN YamlModels}
            \cup {Provider(p) : p \in Providers} \cup {Tool(t) : t \in Tools}
            \cup {Setting("router.mode"), Setting("agent.default_iteration_cap")}

YamlRow(k) ==
    CASE k[1] = "agent"    -> YamlAgent(k[2])
      [] k[1] = "model"    -> YamlModels[k[2]]
      [] k[1] = "provider" -> YamlProviders[k[2]]
      [] k[1] = "tool"     -> YamlTool
      [] OTHER             -> [value |-> IF k[2] = "router.mode" THEN YamlMode ELSE "5"]

\* A pair of the file that no row is about gets one (again, if its row was moved).
Unlisted == {pair \in DOMAIN YamlEffect : PermsOf(db, pair) = {}}
YamlPerms ==
    LET new == SetToSeq(Unlisted)
        base == Cardinality(Keys("perm"))
    IN [k \in {Perm(base + i) : i \in DOMAIN new} |->
            PermRow(new[k[2] - base], YamlEffect[new[k[2] - base]])]

\* seed_runtime_config: what is missing is inserted, what is there is left alone.
Seeded == Over(db, Over(YamlPerms, Rows(YamlKeys, YamlRow)))

-----------------------------------------------------------------------------
(* A request: the ORM reads rows, changes their columns and flushes.       *)

\* A patch changes the columns it names; settings_json is merged key by key.
Patched(row, change) ==
    IF "settings" \in DOMAIN change
    THEN [Over(change, row) EXCEPT !.settings = Over(change.settings, row.settings)]
    ELSE Over(change, row)

Column(row, c) == IF c \in DOMAIN row THEN {row[c]} ELSE {}

\* Faulty: every column of the row is written, whether it was changed or not.
FlushedWhole(now, from, to) == to

\* What UPDATE makes of the row that is there now.
Flushed(now, from, to) ==
    [c \in DOMAIN to |-> IF c \in DOMAIN from /\ from[c] = to[c] THEN now[c] ELSE to[c]]

NewRequest(from, to, asks) ==
    [stage |-> "open", from |-> from, to |-> to, asks |-> asks, alone |-> TRUE]
Idle == [stage |-> "idle", from |-> Empty, to |-> Empty, asks |-> Empty, alone |-> TRUE]
Done == [Idle EXCEPT !.stage = "done"]

Up == starts > 0
Open == {r \in Requests : req[r].stage = "open"}

\* Two requests that are open at the same time are not alone any more.
Begin(r, keys, to, asks) ==
    /\ req[r] = Idle
    /\ req' = [s \in Requests |->
                 IF s = r THEN [NewRequest(Rows(keys \cap DOMAIN db, LAMBDA k : db[k]), to, asks)
                                    EXCEPT !.alone = Open = {}]
                 ELSE IF s \in Open THEN [req[s] EXCEPT !.alone = FALSE]
                 ELSE req[s]]
    /\ UNCHANGED <<db, calls, files, starts, told, crossed, patches>>

\* The request has nothing to do: not_found.
Refuse(r) ==
    /\ req[r] = Idle
    /\ req' = [req EXCEPT ![r] = Done]
    /\ UNCHANGED <<db, calls, files, starts, told, crossed, patches>>

\* Faulty: the level is stored as it was sent.
NormalChangeOfWords(change) == change

\* The words for a level of the older registry files are taken for "manual".
NormalChange(change) ==
    IF "autonomy" \in DOMAIN change
    THEN [change EXCEPT !.autonomy = P!Normalize(@)]
    ELSE change

\* Every PATCH of an agent is a version of it.
Changed(row, change) == [Patched(row, change) EXCEPT !.version = @ + 1]

PatchAgent(r, a, change) ==
    LET k == Agent(a) IN
    IF k \in DOMAIN db
    THEN Begin(r, {k}, Single(k, Changed(db[k], NormalChange(change))),
                Single(k, NormalChange(change)))
    ELSE Refuse(r)

NoModel == [primary |-> "none", secondary |-> "none", fallback |-> "on", settings |-> Empty]

\* patch_agent_model: an agent without a row gets one.
PatchModel(r, a, change) ==
    LET k == Model(a) IN
    Begin(r, {k}, Single(k, Patched(IF k \in DOMAIN db THEN db[k] ELSE NoModel, change)),
          Single(k, change))

PatchProvider(r, p, change) ==
    LET k == Provider(p) IN
    IF k \in DOMAIN db THEN Begin(r, {k}, Single(k, Patched(db[k], change)), Single(k, change))
    ELSE Refuse(r)

\* patch_settings: all keys of one request are stored together.
PatchSettings(r, change) ==
    LET rows == [k \in {Setting(s) : s \in DOMAIN change} |-> [value |-> change[k[2]]]]
    IN Begin(r, DOMAIN rows, rows, rows)

\* Faulty: the permission is added without a look at what is there.
PutPermissionBlind(r, pair, effect) == Begin(r, {}, Single(NewPerm, PermRow(pair, effect)), Empty)

\* PUT /tools/permissions changes the first row of the pair, or adds one.
PutPermission(r, pair, effect) ==
    IF PermsOf(db, pair) = {}
    THEN Begin(r, {}, Single(NewPerm, PermRow(pair, effect)), Empty)
    ELSE \E k \in PermsOf(db, pair) :
            Begin(r, {k}, Single(k, PermRow(pair, effect)), Single(k, PermRow(pair, effect)))

\* PATCH /tools/permissions/{id} may make the row be about another pair.
PatchPermission(r, n, pair, effect) ==
    LET k == Perm(n) IN
    IF k \in DOMAIN db
    THEN Begin(r, {k}, Single(k, PermRow(pair, effect)), Single(k, PermRow(pair, effect)))
    ELSE Refuse(r)

\* sync_agents: the name is the file's again; enabled and the level are left alone.
SyncAgents(r) ==
    LET keys == {Agent(a) : a \in files} IN
    Begin(r, keys, Rows(keys, LAMBDA k :
        IF k \in DOMAIN db THEN [db[k] EXCEPT !.display = "yaml"] ELSE SyncedAgent(k[2])), Empty)

SyncTools(r) ==
    LET keys == {Tool(t) : t \in Tools} IN Begin(r, keys, Rows(keys, LAMBDA k : YamlTool), Empty)

\* The row of a permission gets its id when it is stored.
Placed(rows) ==
    IF NewPerm \in DOMAIN rows
    THEN Single(Perm(1 + Cardinality(Keys("perm"))), rows[NewPerm])
    ELSE rows

\* The columns a request changes, or was asked for, and another one has replaced since.
CrossedBy(q) ==
    UNION {{k} \X {c \in DOMAIN q.to[k] :
                      /\ \/ q.from[k][c] # q.to[k][c]
                         \/ k \in DOMAIN q.asks /\ c \in DOMAIN q.asks[k]
                      /\ db[k][c] # q.from[k][c]} : k \in DOMAIN q.from}

Told(asks) ==
    [k \in DOMAIN told \cup DOMAIN asks |->
        IF k \notin DOMAIN asks THEN told[k]
        ELSE IF k \notin DOMAIN told THEN asks[k]
        ELSE IF "settings" \in DOMAIN asks[k] /\ "settings" \in DOMAIN told[k]
             THEN Patched(told[k], asks[k])
             ELSE Over(asks[k], told[k])]

\* An INSERT of a row that was inserted since fails, and with it the whole request.
Commit(r) ==
    /\ r \in Open
    /\ req' = [req EXCEPT ![r] = Done]
    /\ UNCHANGED <<calls, files, starts>>
    /\ LET q        == req[r]
           rows     == Placed(q.to)
           inserted == DOMAIN rows \ DOMAIN q.from
       IN IF inserted \cap DOMAIN db # {}
          THEN UNCHANGED <<db, told, crossed, patches>>
          ELSE /\ db' = Over([k \in DOMAIN rows |->
                                IF k \in inserted THEN rows[k]
                                ELSE Flushed(db[k], q.from[k], rows[k])], db)
               /\ told' = Told(q.asks)
               /\ crossed' = crossed \cup CrossedBy(q)
               /\ patches' = [a \in Agents |->
                                patches[a] + (IF Agent(a) \in DOMAIN q.asks THEN 1 ELSE 0)]

\* tool_effect: the file decides, the permission rows are not read.
ToolEffect(pair) == IF pair \in DOMAIN YamlEffect THEN YamlEffect[pair] ELSE "deny"

\* create_tool_call: recorded at once; "ask" adds a pending review for it.
ToolCall(r, pair) ==
    /\ req[r] = Idle
    /\ req' = [req EXCEPT ![r] = Done]
    /\ calls' = Over(Single(r, [pair |-> pair,
                                review |-> ToolEffect(pair) = "ask",
                                status |-> CASE ToolEffect(pair) = "allow" -> "succeeded"
                                             [] ToolEffect(pair) = "deny"  -> "denied"
                                             [] OTHER                      -> "requested"]), calls)
    /\ UNCHANGED <<db, files, starts, told, crossed, patches>>

\* The API starts (again): open requests are gone, the files are seeded.
Start ==
    /\ starts < MaxStarts
    /\ starts' = starts + 1
    /\ db' = Seeded
    /\ req' = [r \in Requests |-> IF r \in Open THEN Done ELSE req[r]]
    /\ UNCHANGED <<calls, files, told, crossed, patches>>

\* Somebody adds the file of an agent.
AddFile(a) ==
    /\ files' = files \cup {a}
    /\ UNCHANGED <<db, req, calls, starts, told, crossed, patches>>

ConfigInit ==
    /\ db = Empty
    /\ req = [r \in Requests |-> Idle]
    /\ calls = Empty
    /\ files = Agents \ Late
    /\ starts = 0
    /\ told = Empty
    /\ crossed = {}
    /\ patches = [a \in Agents |-> 0]

Ask(r) ==
    \/ \E a \in Agents, change \in AgentChanges : PatchAgent(r, a, change)
    \/ \E a \in Agents, change \in ModelChanges : PatchModel(r, a, change)
    \/ \E p \in Providers, change \in ProviderChanges : PatchProvider(r, p, change)
    \/ \E change \in SettingChanges : PatchSettings(r, change)
    \/ \E pair \in Agents \X Tools, effect \in Effects : PutPermission(r, pair, effect)
    \/ \E k \in Keys("perm"), pair \in Agents \X Tools, effect \in Effects :
          PatchPermission(r, k[2], pair, effect)
    \/ SyncAgents(r)
    \/ SyncTools(r)
    \/ \E pair \in Agents \X Tools : ToolCall(r, pair)

ConfigNext ==
    \/ \E r \in Requests : Up /\ Ask(r)
    \/ \E r \in Requests : Commit(r)
    \/ Start
    \/ \E a \in Late \ files : AddFile(a)

ConfigSpec == ConfigInit /\ [][ConfigNext]_config

-----------------------------------------------------------------------------
(* What the rest of the API reads.                                         *)

\* get_agent_autonomy
Autonomy(a) ==
    P!Normalize(IF Agent(a) \in DOMAIN db THEN db[Agent(a)].autonomy ELSE "review_gated")

RouterModes == {"agentic", "hybrid", "deterministic"}

\* get_router_mode, and what the capture router takes it for.
RouterMode ==
    LET k    == Setting("router.mode")
        mode == IF k \in DOMAIN db THEN db[k].value ELSE YamlMode
    IN IF mode \in RouterModes THEN mode ELSE "hybrid"

-----------------------------------------------------------------------------
(* Properties.                                                             *)

\* The columns of the table a key belongs to.
Columns(k) ==
    CASE k[1] = "agent"    -> {"display", "enabled", "autonomy", "version"}
      [] k[1] = "model"    -> ModelColumns
      [] k[1] = "provider" -> ProviderColumns
      [] k[1] = "tool"     -> {"risk"}
      [] k[1] = "perm"     -> {"pair", "effect"}
      [] OTHER             -> {"value"}

\* Every row has the columns of its table; the level an owner set is one of the four.
ConfigTypeOK ==
    /\ \A k \in DOMAIN db : DOMAIN db[k] = Columns(k)
    /\ \A k \in Keys("perm") : k[2] \in 1..Cardinality(Keys("perm"))
    /\ \A a \in Agents :
          Agent(a) \in DOMAIN told /\ Column(told[Agent(a)], "autonomy") # {} =>
             db[Agent(a)].autonomy \in P!AutonomyModes
    /\ DOMAIN told \subseteq DOMAIN db
    /\ DOMAIN calls \subseteq Requests

\* A row has in a column what was asked for: of its settings, every key.
Kept(row, asked, c) ==
    IF c = "settings"
    THEN \A s \in DOMAIN asked.settings : Column(row.settings, s) = {asked.settings[s]}
    ELSE row[c] = asked[c]

\* What the owner was told is done stays done: no sync, no restart and no other change
\* undoes it ("DB rows override YAML for daily operations", runtime_config.py), also when
\* two requests overlap that change different columns.  Two that change the same column,
\* or keys of the same JSON column, may lose one word; a name is the file's after a sync.
OwnersWordKept ==
    \A k \in DOMAIN told : \A c \in DOMAIN told[k] \ {"display"} :
        <<k, c>> \in crossed \/ Kept(db[k], told[k], c)

\* Every change of an agent that was committed is counted in its version, unless two of
\* them overlapped; then the version counts too few, never too many.
VersionCounts ==
    \A a \in Agents : Agent(a) \in DOMAIN db =>
        LET version == db[Agent(a)].version IN
        /\ version <= 1 + patches[a]
        /\ <<Agent(a), "version">> \notin crossed => version = 1 + patches[a]

\* No change the owner made is lost, neither its words nor its count.
ChangesKept == OwnersWordKept /\ VersionCounts

\* A pair of agent and tool comes to have two permission rows only when a PUT overlaps
\* another request, or a PATCH makes a row be about the pair of another one.
OneRowPerPair ==
    [][\A pair \in Agents \X Tools :
          Cardinality(PermsOf(db', pair)) > 1 =>
            \/ Cardinality(PermsOf(db, pair)) > 1
            \/ \E r \in Open : /\ req'[r] = Done
                               /\ ~req[r].alone \/ \E k \in DOMAIN req[r].from : k[1] = "perm"]_config

=============================================================================

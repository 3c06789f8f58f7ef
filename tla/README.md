# LifeOS: a TLA+ model of what changes durable truth

LifeOS (`apps/api`, two chat gateways, a web UI) takes messages of one owner, turns
them into proposed actions with the help of agents and model providers, and lets
audited commands change durable rows and a file vault. This directory holds TLA+
modules of the parts that decide and carry out such changes, TLC configurations that
check them on small instances, and TLAPS proofs of theorems that hold for every size.
Paths below are relative to the repository; `API` is `apps/api/lifeos_api`.

## 1. Inventory

| part | state | operations | correct when |
|---|---|---|---|
| Command bus, `API/services/command_bus.py` | `state_changes`, the rows of eight tables, `life_items`, `tool_calls`, audit and status events, two vault files | `apply`, `_apply_payload` with a branch per command type | a change is recorded and audited exactly once, failures are contained |
| Review queue, `API/routers/reviews.py` | `review_items`, `review_decisions` | approve, reject, correct, clarify, snooze, done | a status is one the owner decided; nothing happens without a decision |
| Action loop, `API/services/agent_runtime.py`, `conversation_action_*.py`, `API/routers/action_proposals.py` | `pending_action_proposals` | plan a message, enforce the policy on a plan, follow up ("yes", "only the first"), buttons, execute, reject, revise, expiry | only what the owner ordered runs, once, and replies are true |
| Captures, `API/routers/captures.py`, `services/orchestrator.py`, `services/agentic_router.py` | `raw_captures`, `capture_interpretations`, `agent_runs`, `handoffs`, `notifications`, raw files and manifests | create, archive | evidence is never lost, ledgers agree |
| Policy engine, `API/services/policy_engine.py` | none | `decide_capture_action` | risky, vague or sensitive work is escalated |
| Runtime configuration, `API/services/runtime_config.py`, `routers/agents.py`, `providers.py`, `settings.py` | `agents`, `agent_models`, `providers`, `settings` | seed at every start, sync from files, read and change | changes are not lost, values are normalised |
| Sessions and turns, `API/routers/sessions.py`, `agent_runtime.py` | `agent_sessions`, `agent_messages`, `agent_runs` | resolve, chat, set agent, iterations, cancel | a place finds its session again, what the owner chose survives, a cancel hits the last run |
| Providers, `packages/providers`, `API/services/agentic_router.py` | the cached configuration of the process | `complete_json` with its choices and fallbacks | a provider that is off is not called, every configured choice is tried |
| Tools, `API/routers/tools.py` | `tools`, `agent_tool_permissions`, `tool_calls` | sync, two ways to set a permission, create a call | one permission per pair, a call is never run without the permission or an approval |
| Memory, ask, jobs, handoffs, `API/routers/` | their rows | create, approve, run, return | status transitions are legal |
| Discord gateway, `apps/discord-gateway` | cards posted so far (memory) | review poller, commands, buttons, forms | every pending review is shown once, what the owner is told is true |
| Telegram gateway, `apps/telegram-gateway` | update offset (memory) | poll, forward, reply | every message is captured, once |
| Worker, web UI, scripts, schema | — | — | the worker is a placeholder, the UI a client |

How they interact. A gateway or the UI calls the API over HTTP and gives up after a
timeout. Each API request has one database session and one transaction
(`API/deps.py`); it yields at every `await`, so requests interleave, under PostgreSQL
READ COMMITTED and without version columns. The ORM writes only columns whose value
differs from the one it loaded. An exception rolls the transaction back; what was
written to the vault stays. Endpoints that escalate insert a review; approvals,
proposals and auto-applied captures all end in `CommandBus.apply`, which catches the
exceptions of a command and lets the transaction go on with a failed state change.
The gateways poll and remember in memory only. A call to a model provider is
synchronous (`urlopen`, up to 90 s for each choice): it blocks the event loop, and
with it every other request.

What is hard: stale reads between requests, row locks that one request takes one by
one, failures half-way through a command or a batch, a vault outside the
transaction, aborts and timeouts, answers nobody waits for any more, processes that
forget what they did, a dict that all requests share, and long legal call sequences
(approve after reject, correct after approve). `PROJECT.json` lists each under
"hazards" at its line.

## 2. Modules

| module | models | composed of |
|---|---|---|
| `CommandBus` | `CommandBus.apply` as an operator from a command, the row it names and the vault's health to an outcome | — |
| `AuditedTruth` | abstract: truth changes only together with a recorded, audited application | — |
| `ReviewFlow` | the decision endpoint, `CreateReview`, aborts | `CommandBus`, refines `AuditedTruth` |
| `Planner` | the local planner, the policy enforced on every plan | — |
| `Proposals` | the action loop of one session and the buttons of its proposals | `CommandBus`, `Planner`, refines `AuditedTruth` |
| `PolicyEngine` | `decide_capture_action` and its tables | — |
| `Orchestrator` | the deterministic router of captures | — |
| `Captures` | `POST /api/captures` and `PATCH /api/agents/{id}` | `CommandBus`, `PolicyEngine`, `Orchestrator`, refines `AuditedTruth` |
| `Sessions` | finding and creating sessions, the frame of a turn, `/lifeos new`, `thread`, `agent`, `iterations`, `cancel` | — |
| `RuntimeConfig` | the rows the owner configures: seeding, syncs, every change, tool calls | `PolicyEngine` |
| `ProviderRouting` | which providers a capture or a chat calls, while the rows change | `RuntimeConfig` |
| `TelegramGateway` | the polling loop and what it tells | — |
| `DiscordGateway` | the review poller and the threads that handle the owner's inputs | — |
| `Gateways` | messages that come in by Telegram and are decided in Discord | both gateways |
| `CommandBusProofs` | lemmas about `ApplyPayload` | `CommandBus`, TLAPS |
| `ReviewFlowProofs`, `PlannerProofs`, `ProposalsProofs`, `CapturesProofs`, `SessionsProofs`, `ProviderRoutingProofs`, `GatewaysProofs` | theorems about the module they are named after (`ProviderRoutingProofs`: about `RuntimeConfig`, too) | that module, TLAPS |
| `MCReviewFlow`, `MCProposals`, `MCCaptures`, `MCSessions`, `MCProviderRouting`, `MCGateways` | small instances | |

**CommandBus.** A command is its type, where its payload raises (`nowhere`, `early`:
before anything is done, `late`: in a flush after the vault was written), the row it
targets and the updates it makes. `ApplyPayload` gives the outcome: status, tables
inserted into, columns assigned, the tool call completed and vault files written. Of
a failing command it keeps what the code keeps: columns assigned before a bad key
(`life_item.update` sets them one by one), a life item whose task snapshot could not
be written, a fact appended to the vault before its row. Column values are a small
set, `Accepted` says which a column converts.

**ReviewFlow.** A request is `Begin` (the row is read), `Apply` (an approval runs its
command; the vault is written), `Commit`, or `Abort`. `seen` is the row as read;
`Written` is the UPDATE the ORM makes of the difference between what the request
read and what it assigned, over the row as it is by then. Lock waits at the flush
need no state of their own here: a request has one review row and one command. `met`
is history: the pairs of requests that were open together, so that a property can say
which outcomes need an overlap.

**Planner.** The planner looks at a message only through its patterns, so a message is
the set of patterns that match it; those that imply others do so in `Message`.
`LocalPlan` is the ladder of `_deterministic_plan`; a provider may answer with any plan
its schema accepts, or with none. `Policy` is `enforce_conversation_policy`: the
override for risky messages, the flags (`Enforce`), the local draft in place of the
provider's (`Sanitize`), and the mode that is left. `Raises` names the messages on which
it takes the first element of an empty list.

**Proposals.** A message comes in two ways (`Turns`). A chat (`POST /api/chat`) finds its
session by the channel and updates that row before it reads anything
(`API/routers/sessions.py:307`), so chats queue for the row lock; a chat that waits for it
holds nothing, and in the model it arrives when the row is its own (`MayStart`). A message
to the id of a session (`POST /api/sessions/{id}/messages`) only reads the row; it changes
it when its run ends, and waits for a chat only there (`Commit`, `SessionFree`). Until then
such messages run beside chats and beside each other, and may lock the same proposals in
opposite orders. Buttons never touch the session. A request keeps what it loaded, its own
changes, the rows it has locked, and the work left. A flush takes the locks of all its
rows at once in the model. Requests that wait for each other in a circle
(`WaitsFor`, `InCircle`) stay so until PostgreSQL rolls one back (`Victim`). `Windows` is what the
query for open proposals may return: the oldest `Limit`, ties in any order. `Meaning`
is what a follow-up text asks for. Any other message goes through `Planner` with any of
`Answers`: its actions are executed, offered, or stored for a formal review, which is
`ReviewFlow`'s `CreateReview`. The lookup of a life item by its title returns any open
item or none, at the moment the row lock is taken; in the code the lookup is a few
statements earlier. Clarifications change no proposal and appear as `answer_only`.

**Captures.** `Receive` is the vault (each of the three writes may fail), `Store` the
first flush, `Route` gives any draft a provider may return or the one `Orchestrator`
finds for the text, `DecidePolicy` reads the autonomy, asks `Decide` and runs an allowed
command, `Commit` writes the ledgers. `PatchAgent` runs in between. Which of the two
routers answers is the business of `ProviderRouting`. `Channels` is empty because no
code inserts a row into that table. The reject branch at the end of `create_capture` is
not modelled: `decide_capture_action` never returns "reject". In `Orchestrator` a text
is the set of topics its tokens name, and whether it names an amount.

**Sessions.** A request is one transaction, a command of the Discord gateway two: it
resolves the session of the place (`Resolve`, `Insert`, `CommitSession`) and then acts
on its id (`Load`, `CommitCommand`). A turn is `Resolve` or `PostMessage`, `StartRun`
(the flush that locks a session a chat has updated), `EndTurn` (the stamp) and
`FinishRun` (the flush, which may wait, and the commit). What a turn says is left to
`Proposals`; here it ends in any status the action loop returns. A creation and
`/lifeos agent` look the agent up; a chat that finds a session of the orchestrator puts
in its place whatever it names (`WithRequest`), so `TypeOK` speaks of the agents there
are and of those a chat has named (`Named`). One platform is
modelled: the others share no session with it. A client that names no place (the web
UI has no chat) gets a new session for each chat.

**RuntimeConfig.** `db` maps the key of a row to the row, a function of its columns. A
request reads the rows it will change (`from`), holds what they shall be (`to`), and
commits the columns in which the two differ, over the rows as they are by then. A JSON
column counts as one column. `Start` seeds what is missing and keeps what is there
(`Seeded`); `SyncAgents` and `SyncTools` are the owner's two syncs; `PutPermission`
finds a row by its pair, `PatchPermission` names it by id and may move it to another
pair; `ToolCall` reads the permission of the YAML file. `told`, `crossed` and `patches`
are history. `PATCH /api/settings` reads all its keys at one moment.

**ProviderRouting.** The YAML file is read once into a dict that all requests share and
write to. A route reads the mode and selects the provider rows (`StartRoute`), is
resumed, stores them in the dict and selects the model rows (`GotProviders`), is resumed
again, stores those and calls the providers its dict names (`GotModels`). Between these
steps other routes and changes run; during the last, nothing does, because the calls
block. A choice is a model and a key of a provider; an answer is good, useless (a
completion that is no draft), odd (JSON of another shape) or an error.

**TelegramGateway, DiscordGateway, Gateways.** Telegram keeps the updates it has not
been told to forget (`confirmed`); the gateway's offset moves before it handles an
update and a restart loses it. A call that timed out may still be served (`late`). The
Discord poller posts the newest page of pending reviews it does not remember having
posted; every input of the owner runs in a thread of its own through the calls of
`CallsOf`. Events sent while the websocket is down are lost. `Gateways` puts both on one
API: a capture from Telegram is stored together with its review (`WithReview`), the
poller finds that, and a button on its card decides it. `MaxFaults` bounds failing calls
and deaths of a process together. The API may answer a call (HTTP 200) and do nothing
(`CallRefused`): there is no such session, run or agent, or a rejected proposal was
closed. That is no fault. Every caller passes the status on to the owner but
`/lifeos agent` (`Unheeded`). The forms are those of a correction, of a clarifying
question and of a change to a proposal.

## 3. Runs

| run | question | bounds |
|---|---|---|
| `review_bus` | every branch of the bus, failures, refused vault writes and aborts: are changes audited and failures contained, does a stale request move a review to a status nobody decided, does a card tell what was applied unless decisions overlapped, does the queue implement `AuditedTruth`? | one review, two overlapping requests over eleven commands |
| `review_after_reject` | violated: approve after reject | two requests one at a time |
| `proposals_concurrent` | consent, batches, replies and statuses under interleaving; is an execution repeated only by requests that overlap, does "yes" mean the latest proposal, is `AuditedTruth` implemented? | two proposals, three requests two at a time; four messages, each with any of three answers of a provider; the vault may refuse |
| `proposals_progress` | do the session queue, the messages beside it and the row locks ever block for ever? | three overlapping requests, by channel, by id or by button; pairs of proposals, texts that lock both in either order; no life items |
| `proposals_double` | violated: two overlapping requests execute one proposal twice | as needed |
| `proposals_partial` | violated: "I did not create anything" after a first action was committed | one request |
| `captures` | evidence, policy, ledgers and `AuditedTruth` for every policy outcome | two captures, provider and rule drafts of every outcome, three settings of autonomy |
| `captures_channel` | violated: a capture that names its channel is refused after its file was written | one capture |
| `sessions` | is the session of a place found again, do the owner's choices and the last run survive stale turns and commands, whom does a cancel hit? | three requests, two at a time, a channel and a thread, eleven kinds of request (`MCAsks`) and messages to a session by its id |
| `config` | is a change that was accepted ever lost, are permissions unique, is a provider called that was off, does a route give up early? | two agents (one without a file at first), two providers, one tool; three units of work out of three changes and two routes; two starts |
| `gateways` | which messages are lost or repeated, which reviews get no card or two, is the owner told what happened, do both queues move? | two updates, four reviews, one input (a button, `/lifeos agent` or `cancel`), one fault, any refusals, pages of one |
| `gateways_asked` | violated: "I asked in Discord", where nothing appears | one update |

Why the bounds are enough. Requests on different reviews or proposals share nothing
but the files, so one review (two proposals, for batches and "only") and as many
requests as it takes for one to see what two others left behind show every
interaction. A counterexample that needs several actors needs at most one to create,
one to act and one to interfere; in `config` that is a route, the change it must see
and a rival route or change. Commands are chosen so that each branch of
`_apply_payload` occurs with success and with each kind of failure. In `gateways` one
fault can hit every call and either process at every moment; more faults repeat what
one does, and what needs two (a call that fails in a restarted process) hits an update
or review already excused by the first. Pages of one review, where the code asks for 20
and 100, make "more pending reviews than a poll returns" happen with two.
`proposals_concurrent` keeps `Limit` at the code's 5 and has two proposals: with six
open ones the query returns the five *oldest* (`API/services/conversation_action_service.py:42`),
and "yes" takes the fifth, where `docs/CONVERSATIONAL_ACTION_LOOP.md:10` says the latest.
`YesMeansLatest` is what holds below that limit. Three requests show every repetition of
an execution by one that overlapped it; the repetition after a revision that a stale read
let through takes a fourth (one to propose, one to execute, one to revise, one to execute
again), which four requests on two proposals put beyond a run of a few minutes. For that
part of `RepeatedOnlyByOverlap` the theorem `RepeatsNeedOverlap` stands, not the run.

`proposals_progress` has no life items, since with them it does not finish in minutes: a
circle through the row of a life item takes two batches, and `Victim` breaks it as it
breaks those of proposals and of the session, which the run shows. The locks of life items
are in `proposals_concurrent`, for safety.

Fairness. Safety needs none. `proposals_progress` uses weak fairness on the steps of a
request the API has accepted: the event loop resumes a coroutine whose awaited statement
can proceed, and PostgreSQL grants a row lock that is free. It also uses weak fairness on
`Victim`: PostgreSQL looks for circles of waiting transactions (after `deadlock_timeout`)
and rolls one of them back. The code has no order of locks that would do without: two
messages to the id of a session that say "only first" and "only second", or such a message
that ends and a chat that waits for its proposals, do wait for each other, and without
that fairness `RequestsEnd` is violated. The owner sees an error for the one rolled back.
Nothing else makes a request abort, and nothing makes the owner send a message: progress
does not rest on crashes.
`gateways` uses weak fairness on the loop of the Telegram gateway with the captures the
API serves for it, and on the Discord poster: each is a `while True` in a process or
daemon thread that catches the errors of a round. For the poster that is an assumption:
it catches `OSError`, `URLError`, `TimeoutError`, `KeyError` and `ValueError`
(`apps/discord-gateway/discord_gateway/main.py:270`), and anything else, say a
`TypeError` from an answer of an odd shape, ends its thread while the process goes on; the
model has no such step, and `PendingIsPosted` holds while the thread lives. Faults are
finitely many. That a
process which died is started again is an assumption about whoever operates it
(`docker-compose.yml` names no `restart:`). Deadlock checking is off where a finite set of
requests ends.

What the violated runs show is listed in `PROJECT.json` under "findings". Further gaps
between the code and what it, its comments or its documentation suggest, which no run
states because there is no step to check or because the property states what the code
does:

- *Reviews.* An approval repeated by a gateway after its timeout runs again
  (`CommandRequest.idempotency_key` has no reader). A snoozed review never comes back
  (`snoozed_until` has no reader). A failed command leaves the queue and writes no dead
  letter (`docs/runbook.md:19`). After overlapping decisions a card may show a
  correction as the action that was applied (`CardTellsTruth` excuses those).
- *Messages.* A provider that proposes to complete a task has it completed at once: its
  proposal is replaced by an explicit order (`Sanitize`). A reminder a provider plans for
  a message without a date ends the request with an `IndexError`.
- *Captures.* The policy allowlists four command types the bus has no branch for
  (`API/services/policy_engine.py:34`); an auto-applied capture whose command failed
  still answers "Done" (`API/routers/captures.py:249`), and its interpretation still says
  `auto_applied` (`:245`): only the capture, the run and the state change show the failure.
  `LedgersAgree` states that: the five ledgers tell one story in the words each has, and
  those of the interpretation do not tell success from failure.
- *Discord.* `/lifeos agent` with an agent that does not exist is answered with
  `{"ok": false, "status": "unknown_agent"}` (`API/routers/sessions.py:222`); `handle_slash`
  does not look at it and tells the owner "Agent: `orchestrator`", "Session: `None`"
  (`apps/discord-gateway/discord_gateway/main.py:553`). `ReportIsTrue` names this case: it is
  the only success told of a call that did nothing.
- *Messages, again.* A button that revises a proposal writes status `revised` from the
  row it read: if a message executed the proposal meanwhile, the proposal is open again
  and a later "yes" executes it a second time, long after the first
  (`RepeatedOnlyByOverlap` excuses exactly these).
- *Sessions.* A chat that finds a session of the orchestrator stores the agent it names
  without looking it up (`API/routers/sessions.py:310`), unlike a creation (`:373`) and
  `/lifeos agent` (`:221`). `/lifeos cancel` finds finished runs only, because a run becomes visible
  with the commit of its turn: it rewrites the outcome of the last one, and no code
  reads `cancel_requested`. A session that `/lifeos thread` makes stores the channel it
  was asked in, so later messages of that channel are served in it too
  (`API/routers/sessions.py:357`). The cap on iterations (1 to 50) is never reached by
  the one iteration of a live turn, and `paused_run_id` is set only after a planner that
  has no live caller.
- *Configuration.* `API/services/runtime_config.py:3` says "DB rows override YAML for daily
  operations"; a tool call reads the permission of the YAML file and never the rows.
  No live code reads `Agent.enabled`. A sync sets the display name of an agent back. A
  permission row that a PATCH moved to another pair is seeded again at the next start. A
  PATCH whose value equals what the request read writes nothing, even if another request
  has changed the column since. Keys of `settings_json` go over the columns: one named
  "enabled" turns a provider on that its column says is off.
- *Providers.* A provider that was turned off may be called by a route that overlaps an
  older one. A body of an unexpected shape raises out of the loop over the choices, so
  the next provider is not tried and the local rules answer (`LastResort`). The agentic
  mode, which `docs/provider_router.md:6` says requires a provider, falls back to the rules
  for captures when none answers (`API/routers/captures.py:137`).

## 4. Proofs

All theorems hold for any values of the constants under the modules' named assumptions:
the marks that mean "nothing" are no ordinary values, bounds are positive numbers, what
is asked for has the shape that the request schemas of the API enforce. Every invariant
was checked by TLC on the module's run before it was proved. With the exceptions at the
end of this section, every property of a passing run is a theorem.

What makes these properties hard to prove is the same everywhere: a commit writes what a
request read and changed a while ago over rows that others have changed since. None of
the properties is inductive, because none says anything about requests in flight. The
inductive invariants relate four things: what a request read, what it holds now, what it
was asked for, and the rows as they are; with the history `met` (who was open together
with whom) where the property excuses overlaps. The pattern of those is `MetOpen` or
`AllMet`: requests that are open together have met, so that whatever changed after a
request read a row was changed by one it has met.

`ReviewFlowProofs`, for any sets of reviews, requests, commands, items and tool calls:

- `TypeCorrect`: `Spec => []TypeOK`. Not inductive alone: what an open request says
  about its review must exist. `TInv` adds `RequestsOK`: a request that was sent has
  a decision, on a review that exists unless the answer was 404.
- `TruthAlwaysBacked`, `FailuresContained`, `FactsReachVaultFirst` (the second is about
  inserted rows; columns that a failed `life_item.update` assigned before it stopped stay
  and are only recorded): by `TruthInv`, which adds `StagedOK`: the outcome a ready request holds is one the bus can return
  for the action it read, and a fact it will insert is already in the vault file.
  `ApplyPayloadType` and `ApplyPayloadFootprint` of `CommandBusProofs` say what the bus
  can return.
- `StatusAlwaysExplained`: by `StatusInv`, which adds that what a request *read* was
  explained by decisions committed by then. Decisions are only ever added, so an
  explanation stays one (`ExplanationStays`); a request that writes the status
  explains it itself; one that leaves the column alone leaves the explanation.
- `AppliedCardsAreTrue`: by `CardInv`. `StaleByOverlap` says that an open request whose
  row differs from what it read has met who changed it; a card can show an action that
  was not applied only if a correction and an approval met.
- `ReviewFlowImplementsAuditedTruth`: initial states map to initial states
  (`ImplementsInit`), `Commit` of an approval maps to `Record` (`ImplementsCommit`,
  with `TrailCommit` for the audit events), every other step stutters.

`PlannerProofs`, about `PlanFor` for every message and every answer of a provider,
without a state: `RiskyIsNeverDone` (a message that asks for something dangerous, private
or repeating is neither carried out nor offered with a button), `DoneAtOnceIsClear` (what
is carried out unasked is an explicit low-risk order free of flags), `OfferedIsModest`
(what is carried out or offered has a low or medium risk and is of no formal type). The
runs only try three answers; these theorems cover all.

`ProposalsProofs`, for any requests, proposals, messages, answers, texts and drafts. All
rest on `WorkInv`: each request has work left of the kind its act asks for, has locked
what it changed, has staged outcomes only for proposals it marked executed or failed
(`RequestOK`), and every two open requests have met and insert no proposal both (`Apart`).
That messages queue is not needed for any of it.

- `ProposalsTypeCorrect`, `NothingRunsUnasked`, `OutcomesAlwaysExplained` follow from it;
  for `NothingRunsUnasked` the theorems of `PlannerProofs` say what a plan carries out.
- `BatchesStopAtFailure`, `SuccessIsAlwaysTrue`: by `BatchInv`, which says for each pair
  of actions of a message in order that the later one waits until the earlier one was
  applied, and that a reply which is still good has every action waiting or done. The
  order of the work left is what the code's loop and its early return amount to.
- `RepeatsNeedOverlap`: by `ReopenedInv`, what a request that executed a proposal has to
  do with one that reads it as open. The proof failed for an earlier form of the
  property, which allowed overlaps of the two executions only; the revision that reopens
  a proposal from a stale read is the reason. It takes a fourth request, which is why
  the run with three had not shown it: one proposal and four requests do.
- `ProposalsTellTruth`: by `AloneInv`: what a request that met nobody has read is what
  there is.
- `ProposalsImplementAuditedTruth`: a commit records the outcomes of all actions of a
  message as one step of `AuditedTruth`, which is why `Record` takes a set of changes;
  `StagedAssigns` is what an aborted or empty batch needs to be a stutter.
- `YesMeansTheLatest`, an action property: a page that holds all open proposals has the
  youngest as its last.

`CapturesProofs`, for any captures, drafts, texts, agents and settings: `CapturesTyped`,
`EvidenceComesFirst`, `OnlySafeWorkGetsApplied`, `LedgersAlwaysAgree`. The invariant adds
two facts about each capture to the types: `OnItsWay` says what a request at each stage
holds (its evidence is in the vault from the first flush on; it holds an outcome exactly
when the policy said so for the autonomy it read), and `Recorded` says that the ledgers
hold nothing before the commit and afterwards exactly what was decided. The four
properties follow from it; none of them is inductive, because the ledgers are written
from what the request carried along. `AutoApplyIsSafe` is the lemma about the policy.
`CapturesImplementAuditedTruth` is the refinement, from the same invariant.

`SessionsProofs`, for any requests, channels, threads, agents and caps: `SessionsTyped`,
`LastIsLatest`, `PlacesDoubleByRace`, `RefusalsAreRaces`, `ChoicesAlwaysStay`,
`CancelsHitLast`. One invariant, `SessionsInv`. `Served` says what a request at each stage
holds: the row it found and the row as it changed it differ only in what it was asked for
(`Holds`), and it works on a stored session or on its own that is not stored yet
(`Working`). `Races` says that what it found is still so but for requests it has met: no
session of its channel (`CreatesFirst`), no row of the owner (`AddsByRace`), no later run
than the end of its turn (`EndsLast`), the last run of the session it loaded
(`CancelsLast`). Steps of one request are seen from the others once and for all
(`OthersServed`, `OthersRaces`); each action then shows its part for the request that
takes it. `LatestIsThere` is why a session that exists is found: among sessions with
bounded stamps one is the most recent, also if they were infinitely many. The proof of
`TypeOK` as it was first stated (a session names an agent there is) failed at the chat
that finds a session of the orchestrator; the property now says what the code keeps.

`ProviderRoutingProofs`, for any agents, providers, tools, routes and requests, and any
YAML files and changes with the columns the schemas admit:

- `CallsOnlyWhatWasOn`. `CalledWhenOn` alone says nothing about the dict that all routes
  share. `Accounted` does: whatever may come into the dict while a route is under way
  (the rows in the database, the rows its rivals wait with, its own, and the dict itself
  once its own are in) was on in its time. `Whole` and `Stored` say that a route always
  holds a row of every provider, so that storing them leaves nothing older in the dict:
  the code keeps the old entry when there are no rows.
- `FallsBackLast`: `CalledToTheFirst` and `GaveUpLast` say where the loop over the
  choices stops, for any number of them.
- `RowsAlwaysTyped`, `OwnerIsObeyed`, `PairsDoubleByOverlap`: by `ConfigInv`. A request
  holds columns of the rows it will write (`RequestsFit`), a request that is alone knows
  the rows as they are (`AloneKnows`), permission rows are numbered without a gap
  (`Numbered`), so that a start inserts above them. A word of the owner (`told`) is in
  the row unless a request that had read the row before wrote that column (`crossed`).

`GatewaysProofs`, for any updates, reviews, inputs and faults: `GatewaysTyped`,
`NothingForgottenUnstored`, `OnlyRestartsRepeat`, `SecondCardsAreExplained`,
`ReportsAreTrue`. Neither gateway reads the state of the other, so each has an invariant of
its own. `TelegramInv`: the batch lies behind what Telegram has forgotten, what was
handled was stored or failed, and an update is stored, being sent, late or still to come
at most once more than the process was restarted (`SentOnce`). `DiscordInv`: a process
that never died remembers what it posted, and the calls of an input that took effect are
those before the next one unless one was left open (`InputOK`); a refused call is not among
them (`AgentIsSetBy`: an input ends well in spite of a refusal only if it sets an agent).

Induction over numbers is needed for "the least" and "the latest"; `LeastOf` gets it from
the well-foundedness of finite sets, since the library's induction rules cannot be
instantiated by the installed provers.

Model-checked only: liveness (`RequestsEnd`, `QueueMoves`, `PendingIsPosted`), which is
out of the prover's reach, and the deadlock check of the runs that make one.

## 5. Not modelled, and what is left

- *Memory, ask, jobs, handoffs*: single inserts and status assignments without a guard
  or a second actor; what they escalate is a review of `ReviewFlow`, and the worker that
  would run the jobs is a placeholder that logs and sleeps.
- *Archiving a capture as raw, attachments*: one assignment or one file each.
- *The second half of `agent_runtime.py`* (from line 802): an older planner with its
  handoffs, which has no live caller since the action loop returns first.
- *Texts*: replies, cards and embeds, dates, tokens. A pattern, topic or kind stands for
  a text.
- *Read endpoints and event streams, the web UI, scripts and setup checks, migrations*:
  no state is changed, or it is a client, or run by hand, or generated.
- A vault file that a process writes only in part; writes are all or nothing here.

Left to be done: a composition of `Gateways` with `ReviewFlow` in place of the statuses
`Decided` names, with the theorem that what a card in Discord shows is what the review
says; an abstract specification of a session (one current row per place, changed by one
request at a time) that `Sessions` implements when requests do not overlap; lemmas about
`Orchestrator`, which only `Captures` states anything about.

------------------------------ MODULE Captures ------------------------------
(***************************************************************************)
(* POST /api/captures (apps/api/lifeos_api/routers/captures.py): a message *)
(* becomes evidence in the vault, is routed to a draft, and the policy     *)
(* engine archives it, applies its action, or escalates it to a review.    *)
(*                                                                         *)
(* A capture is one request with one transaction.  The vault is written    *)
(* first and survives whatever happens to the transaction.  Meanwhile the  *)
(* owner may change the autonomy of an agent (PATCH /api/agents/{id}); a   *)
(* capture reads it after routing and decides on what it read.  A provider *)
(* may return any draft; the deterministic router (Orchestrator) stands in *)
(* for it with one of its own.                                             *)
(***************************************************************************)
EXTENDS CommandBus, PolicyEngine, Orchestrator, FiniteSets

CONSTANTS
    Captures,     \* ids of capture requests
    Drafts,       \* the drafts a provider may return
    Texts,        \* what a capture says: <<topics, names an amount>>
    Agents,       \* agents that have a row
    Settings,     \* the autonomy values the owner may ask for
    MaxInFlight,  \* bound: requests open at a time
    VaultMayFail  \* whether a write to the vault directory may raise

\* A gateway names the channel a capture came from, or none; the owner flag is its
\* word, too.
Sources == [channel : BOOLEAN, owner : BOOLEAN]

DraftRecord ==
    [agent : STRING, type : STRING, risk : STRING, sensitivity : STRING,
     confidence : Confidences, missing : BOOLEAN,
     raw : BOOLEAN, fault : {"nowhere", "early", "late"}]

\* The command of a draft; to the bus every type it has no branch for is alike.
CommandOf(draft) ==
    [type |-> IF draft.type \in CommandTypes THEN draft.type ELSE "none",
     fault |-> draft.fault, target |-> Missing, updates |-> <<>>]

RuleDrafts == {DraftFromCapture(text[1], text[2]) : text \in Texts}

Change == [status : {"applied", "failed"}, command : CommandRecord]

ASSUME CaptureAssumption ==
    /\ Texts \subseteq (SUBSET TopicSet) \X BOOLEAN
    /\ \A draft \in Drafts \cup RuleDrafts :
          draft \in DraftRecord /\ CommandOf(draft) \in Commands
    /\ Missing \notin Captures
    /\ Missing \notin Drafts \cup RuleDrafts
    /\ Missing \notin {"applied", "failed"}
    /\ Missing \notin OutcomeRecord
    /\ Missing \notin Change
    /\ MaxInFlight \in Nat \ {0}
    /\ VaultMayFail \in BOOLEAN

VARIABLES
    \* committed rows
    captures,   \* raw_captures: status
    interps,    \* capture_interpretations: status
    runs,       \* agent_runs: status
    reviews,    \* review_items of captures: status
    queued,     \* captures with a queued notification
    changes,    \* state_changes, by capture
    rows,       \* rows inserted by commands: <<table, capture>>
    audit,      \* audit_events: <<event type, capture>>
    autonomy,   \* agents: autonomy_level
    \* the vault
    vault,      \* what is written of each capture: <<part, capture>>
    tasks,      \* the capture that wrote state/tasks.md last
    \* the requests being served
    pc, source, draft,
    mode,       \* the autonomy it read
    staged      \* the outcome of its command

tables == <<captures, interps, runs, reviews, queued, changes, rows, audit>>
local  == <<source, draft, mode, staged>>
vars   == <<tables, autonomy, vault, tasks, pc, local>>

\* Nothing in the program inserts a row into the channels table.
Channels == {}

Parts == <<"raw", "hashes", "sources">>   \* the capture file and the two manifests

Open(q)  == pc[q] \in {"received", "stored", "routed", "decided"}
InFlight == {q \in Captures : Open(q)}

Init ==
    /\ captures = [q \in Captures |-> "absent"]
    /\ interps = [q \in Captures |-> "absent"]
    /\ runs = [q \in Captures |-> "absent"]
    /\ reviews = [q \in Captures |-> "absent"]
    /\ queued = {}
    /\ changes = [q \in Captures |-> Missing]
    /\ rows = {}
    /\ audit = {}
    /\ autonomy \in [Agents -> {Normalize(value) : value \in Settings}]
    /\ vault = {}
    /\ tasks = Missing
    /\ pc = [q \in Captures |-> "unsent"]
    /\ source = [q \in Captures |-> Missing]
    /\ draft = [q \in Captures |-> Missing]
    /\ mode = [q \in Captures |-> Missing]
    /\ staged = [q \in Captures |-> Missing]

-----------------------------------------------------------------------------
(* Actions.                                                                *)

\* Faulty: a manifest that cannot be written is passed over.
AfterVault(n) == IF n = 0 THEN "refused" ELSE "received"

\* The request goes on only if the file and both manifests are written.
AfterWrites(n) == IF n = Len(Parts) THEN "received" ELSE "refused"

\* write_raw_capture: `n` of the three writes succeed.
Receive(q, src) ==
    /\ pc[q] = "unsent"
    /\ Cardinality(InFlight) < MaxInFlight
    /\ \E n \in IF VaultMayFail THEN 0..Len(Parts) ELSE {Len(Parts)} :
         /\ vault' = vault \cup {<<Parts[i], q>> : i \in 1..n}
         /\ pc' = [pc EXCEPT ![q] = AfterWrites(n)]
    /\ source' = [source EXCEPT ![q] = src]
    /\ UNCHANGED <<tables, autonomy, tasks, draft, mode, staged>>

\* The flush of the capture row; the channel it names must exist.
Store(q) ==
    /\ pc[q] = "received"
    /\ pc' = [pc EXCEPT ![q] = IF source[q].channel /\ Channels = {}
                               THEN "refused" ELSE "stored"]
    /\ UNCHANGED <<tables, autonomy, vault, tasks, local>>

\* The provider's draft, or that of the rules when none is asked or none answers well.
Route(q, d) ==
    /\ pc[q] = "stored"
    /\ draft' = [draft EXCEPT ![q] = d]
    /\ pc' = [pc EXCEPT ![q] = "routed"]
    /\ UNCHANGED <<tables, autonomy, vault, tasks, source, mode, staged>>

\* get_agent_autonomy: an agent without a row is review gated.
AutonomyOf(agent) == IF agent \in Agents THEN autonomy[agent] ELSE Normalize("none")

Decision(q) == Decide(draft[q], mode[q], source[q].owner)

\* The policy is asked, and an allowed action goes through the command bus at once.
DecidePolicy(q) ==
    /\ pc[q] = "routed"
    /\ LET seen == AutonomyOf(draft[q].agent)
       IN /\ mode' = [mode EXCEPT ![q] = seen]
          /\ IF Decide(draft[q], seen, source[q].owner) = "auto_apply"
             THEN \E vaultOk \in {TRUE, ~VaultMayFail} :
                    LET out == ApplyPayload(CommandOf(draft[q]), Missing, vaultOk)
                    IN /\ staged' = [staged EXCEPT ![q] = out]
                       /\ tasks' = IF "tasks" \in out.vault THEN q ELSE tasks
             ELSE UNCHANGED <<staged, tasks>>
    /\ pc' = [pc EXCEPT ![q] = "decided"]
    /\ UNCHANGED <<tables, autonomy, vault, source, draft>>

Applied(q) == staged[q].status = "applied"

\* Faulty: the outcome of the command is not looked at.
CaptureStatusIfDecided(q) ==
    CASE Decision(q) = "raw_only"          -> "raw_only"
      [] Decision(q) = "auto_apply"        -> "auto_applied"
      [] Decision(q) = "review_required"   -> "waiting_approval"
      [] Decision(q) = "ask_clarification" -> "needs_clarification"

CaptureStatus(q) ==
    CASE Decision(q) = "raw_only"          -> "raw_only"
      [] Decision(q) = "auto_apply"        -> IF Applied(q) THEN "auto_applied" ELSE "failed"
      [] Decision(q) = "review_required"   -> "waiting_approval"
      [] Decision(q) = "ask_clarification" -> "needs_clarification"

InterpretationStatus(q) ==
    CASE Decision(q) = "raw_only"   -> "archived_raw_only"
      [] Decision(q) = "auto_apply" -> "auto_applied"
      [] OTHER                      -> "promoted_to_review"

\* Faulty: the run takes the name of the decision for its status.
RunStatusIsDecision(q) == Decision(q)

RunStatus(q) ==
    CASE Decision(q) = "raw_only"          -> "completed"
      [] Decision(q) = "auto_apply"        -> IF Applied(q) THEN "completed" ELSE "failed"
      [] Decision(q) = "review_required"   -> "waiting_approval"
      [] Decision(q) = "ask_clarification" -> "needs_clarification"

ReviewStatus(q) ==
    CASE Decision(q) = "review_required"   -> "pending"
      [] Decision(q) = "ask_clarification" -> "needs_clarification"
      [] OTHER                             -> "absent"

\* Faulty: the command bus returns before it adds its audit event.
AuditTrailOfRoute(q) == {"capture.policy_routed"}

AuditTrail(q) ==
    {"capture.policy_routed"} \cup
    (IF staged[q] = Missing THEN {} ELSE AuditOf(staged[q].status))

Commit(q) ==
    /\ pc[q] = "decided"
    /\ captures' = [captures EXCEPT ![q] = CaptureStatus(q)]
    /\ interps' = [interps EXCEPT ![q] = InterpretationStatus(q)]
    /\ runs' = [runs EXCEPT ![q] = RunStatus(q)]
    /\ reviews' = [reviews EXCEPT ![q] = ReviewStatus(q)]
    /\ queued' = IF ReviewStatus(q) = "absent" THEN queued ELSE queued \cup {q}
    /\ IF staged[q] = Missing
       THEN UNCHANGED <<changes, rows>>
       ELSE /\ changes' = [changes EXCEPT ![q] =
                 [status |-> staged[q].status, command |-> CommandOf(draft[q])]]
            /\ rows' = rows \cup staged[q].inserts \X {q}
    /\ audit' = audit \cup AuditTrail(q) \X {q}
    /\ pc' = [pc EXCEPT ![q] = "committed"]
    /\ UNCHANGED <<autonomy, vault, tasks, local>>

\* A lost connection, a timeout of the gateway or a crash.
Abort(q) ==
    /\ Open(q)
    /\ pc' = [pc EXCEPT ![q] = "aborted"]
    /\ UNCHANGED <<tables, autonomy, vault, tasks, local>>

PatchAgent(agent, value) ==
    /\ autonomy' = [autonomy EXCEPT ![agent] = Normalize(value)]
    /\ UNCHANGED <<tables, vault, tasks, pc, local>>

Next ==
    \/ \E q \in Captures, src \in Sources : Receive(q, src)
    \/ \E q \in Captures : Store(q) \/ DecidePolicy(q) \/ Commit(q) \/ Abort(q)
    \/ \E q \in Captures, d \in Drafts \cup RuleDrafts : Route(q, d)
    \/ \E agent \in Agents, value \in Settings : PatchAgent(agent, value)

Spec == Init /\ [][Next]_vars

-----------------------------------------------------------------------------
(* Properties.                                                             *)

\* The committed rows and the requests in flight are of the shapes above.
TypeOK ==
    /\ captures \in [Captures -> {"absent", "raw_only", "auto_applied", "failed",
                                  "waiting_approval", "needs_clarification"}]
    /\ interps \in [Captures -> {"absent", "archived_raw_only", "auto_applied",
                                 "promoted_to_review"}]
    /\ runs \in [Captures -> {"absent", "completed", "failed", "waiting_approval",
                              "needs_clarification"}]
    /\ reviews \in [Captures -> {"absent", "pending", "needs_clarification"}]
    /\ queued \subseteq Captures
    /\ changes \in [Captures -> Change \cup {Missing}]
    /\ rows \subseteq Tables \X Captures
    /\ audit \subseteq {"capture.policy_routed", "state_change.applied",
                        "state_change.failed"} \X Captures
    /\ autonomy \in [Agents -> AutonomyModes]
    /\ vault \subseteq {"raw", "hashes", "sources"} \X Captures
    /\ tasks \in Captures \cup {Missing}
    /\ pc \in [Captures -> {"unsent", "received", "stored", "routed", "decided",
                            "committed", "refused", "aborted"}]
    /\ source \in [Captures -> Sources \cup {Missing}]
    /\ draft \in [Captures -> Drafts \cup RuleDrafts \cup {Missing}]
    /\ mode \in [Captures -> AutonomyModes \cup {Missing}]
    /\ staged \in [Captures -> OutcomeRecord \cup {Missing}]

\* A capture in the database has its evidence in the vault, with both manifests,
\* whatever failed or crashed on the way (write_raw_capture before the first flush).
EvidenceFirst ==
    \A q \in Captures : captures[q] # "absent" =>
        {"raw", "hashes", "sources"} \X {q} \subseteq vault

\* "Can auto-apply in balanced or safe when owner-authenticated, high-confidence,
\* non-sensitive, and allowlisted" (docs/approval_policy.md): a capture that changed
\* the state was all of that under the autonomy it read, lacked no context, and its
\* action carried none of the risks that are always reviewed.
OnlySafeWorkIsApplied ==
    \A q \in Captures : changes[q] # Missing =>
        /\ source[q].owner
        /\ mode[q] \in {"balanced", "safe"} \/ draft[q].type \in ReviewGated
        /\ ~draft[q].missing
        /\ draft[q].confidence = "high"
        /\ draft[q].sensitivity \notin SensitiveDomains
        /\ draft[q].risk \notin AlwaysReviewRisks

\* The rows of a capture tell one story: what waits has a review, a queued notification
\* and no state change; what was applied or failed has the change, and a failure shows
\* in the capture, the run and the change.  The interpretation only says which way the
\* capture went: "auto_applied" means that an action was tried, failed or not.
LedgersAgree ==
    \A q \in Captures :
        /\ captures[q] = "waiting_approval" <=> reviews[q] = "pending"
        /\ captures[q] = "needs_clarification" <=> reviews[q] = "needs_clarification"
        /\ q \in queued <=> reviews[q] # "absent"
        /\ captures[q] \in {"auto_applied", "failed"} <=> changes[q] # Missing
        /\ captures[q] = "auto_applied" => changes[q].status = "applied"
        /\ captures[q] = "failed" => changes[q].status = "failed"
        /\ runs[q] = "failed" <=> captures[q] = "failed"
        /\ interps[q] = "promoted_to_review" <=> reviews[q] # "absent"
        /\ interps[q] = "archived_raw_only" <=> captures[q] = "raw_only"
        /\ interps[q] = "auto_applied" <=> changes[q] # Missing

\* The capture pipeline keeps the promise of the command bus.
AT == INSTANCE AuditedTruth WITH
        Ids    <- Captures,
        None   <- Missing,
        values <- <<>>,
        ledger <- [q \in Captures |-> IF changes[q] = Missing THEN Missing
                                      ELSE changes[q].status],
        trail  <- {t \in {"applied", "failed"} \X Captures :
                     AuditOf(t[1]) \X {t[2]} \subseteq audit}

\* Every step of the pipeline is a recorded, audited change or leaves truth alone.
ImplementsAuditedTruth == AT!Spec

-----------------------------------------------------------------------------
(* What the repository says of captures and the code does not keep.        *)

\* "Ingestion must never lose raw evidence" (routers/captures.py): a capture whose
\* evidence is in the vault is not refused.
EvidenceIsAccepted ==
    \A q \in Captures : {"raw", "hashes", "sources"} \X {q} \subseteq vault =>
        pc[q] # "refused"

=============================================================================

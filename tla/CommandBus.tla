----------------------------- MODULE CommandBus -----------------------------
(***************************************************************************)
(* CommandBus.apply and CommandBus._apply_payload                          *)
(* (apps/api/lifeos_api/services/command_bus.py): what one command does to *)
(* the caller's database session and to the vault.                         *)
(*                                                                         *)
(* The bus never commits: it stages writes in the transaction of the       *)
(* request that called it, and writes vault files at once.  So an apply is *)
(* a pure function of the command, of the rows it reads and of whether the *)
(* vault accepts a write; the modules of the endpoints (ReviewFlow,        *)
(* Proposals) stage its outcome and commit it.                             *)
(***************************************************************************)
EXTENDS Integers, Sequences

CONSTANTS
    Commands,    \* the command records a caller may submit, see CommandAssumption
    Items,       \* ids of the life_items rows an update may name
    ToolCalls,   \* ids of the tool_calls rows an approval may name
    Columns,     \* the columns of a life item an update may assign
    Fields,      \* update keys: the columns and keys that are not supported
    Values,      \* values of a column
    Accepted,    \* the assignments the update loop accepts: a supported key with
                 \* a value _parse_dt or dict() takes
    Missing      \* "no such row" and "no such id"

CreateTypes == {"finance_entry.create", "daily_log.create",
                "prayer_log.create", "job.create"}

CommandTypes == CreateTypes \cup
    {"life_item.create", "life_item.update", "memory_fact.create",
     "tool_call.approve", "none"}

\* A command abstracts (command_type, payload): `fault` says where reading the
\* payload raises (a missing key or an unparsable value before any effect, or a
\* conversion that fails after one), `target` is item_id or tool_call_id,
\* `updates` the update dict in its iteration order.
CommandRecord ==
    [type: CommandTypes, fault: {"nowhere", "early", "late"},
     target: Items \cup ToolCalls \cup {Missing},
     updates: Seq(Fields \X Values)]

ASSUME CommandAssumption ==
    /\ Commands \subseteq CommandRecord
    /\ Columns \subseteq Fields
    /\ Accepted \subseteq Columns \X Values
    /\ Items \cap ToolCalls = {}
    /\ Missing \notin Items \cup ToolCalls

Tables == {"life_item", "finance_entry", "daily_log", "prayer_log",
           "memory_fact", "job"}

TableOf(type) == CASE type = "finance_entry.create" -> "finance_entry"
                   [] type = "daily_log.create"     -> "daily_log"
                   [] type = "prayer_log.create"    -> "prayer_log"
                   [] type = "job.create"           -> "job"

VaultFiles == {"tasks", "facts"}

\* inserts: tables that get a new row; columns: the assignments to an existing
\* life item; tool: the tool call set to succeeded; vault: files written.
OutcomeRecord ==
    [status: {"applied", "failed"}, inserts: SUBSET Tables,
     columns: SUBSET (Columns \X Values), tool: ToolCalls \cup {Missing},
     vault: SUBSET VaultFiles]

Failure == [status |-> "failed", inserts |-> {}, columns |-> {},
            tool |-> Missing, vault |-> {}]

Success == [Failure EXCEPT !.status = "applied"]

Verdict(ok) == IF ok THEN "applied" ELSE "failed"

-----------------------------------------------------------------------------
(* The branches of _apply_payload.                                         *)

\* The row is added to the session before the snapshot file is written.
CreateLifeItem(cmd, vaultOk) ==
    IF cmd.fault # "nowhere"
    THEN Failure
    ELSE [Failure EXCEPT !.status  = Verdict(vaultOk),
                         !.inserts = {"life_item"},
                         !.vault   = IF vaultOk THEN {"tasks"} ELSE {}]

\* The first update that is not accepted ends the loop with an exception; the
\* assignments before it stay on the loaded row.
Assigned(updates) ==
    {updates[i] : i \in {j \in DOMAIN updates :
                            \A k \in 1..j : updates[k] \in Accepted}}

\* An assignment of the value the row was loaded with is no change to the ORM.
NetChange(assignments, row) == {a \in assignments : row[a[1]] # a[2]}

UpdateLifeItem(cmd, row, vaultOk) ==
    IF cmd.fault # "nowhere" \/ row = Missing
    THEN Failure
    ELSE LET clean == \A i \in DOMAIN cmd.updates : cmd.updates[i] \in Accepted
         IN [Failure EXCEPT !.status  = Verdict(clean /\ vaultOk),
                            !.columns = NetChange(Assigned(cmd.updates), row),
                            !.vault   = IF clean /\ vaultOk THEN {"tasks"} ELSE {}]

\* Faulty: the row joins the session before its columns are converted.
CreateRowEarly(cmd) ==
    IF cmd.fault = "early"
    THEN Failure
    ELSE [Failure EXCEPT !.status  = Verdict(cmd.fault = "nowhere"),
                         !.inserts = {TableOf(cmd.type)}]

CreateRow(cmd) ==
    IF cmd.fault # "nowhere"
    THEN Failure
    ELSE [Success EXCEPT !.inserts = {TableOf(cmd.type)}]

\* Faulty: the row joins the session before the vault is written.
CreateMemoryFactRowFirst(cmd, vaultOk) ==
    IF cmd.fault = "early"
    THEN Failure
    ELSE [Failure EXCEPT !.status  = Verdict(vaultOk),
                         !.inserts = {"memory_fact"},
                         !.vault   = IF vaultOk THEN {"facts"} ELSE {}]

\* The fact is appended to the vault before the row is built, and building the
\* row converts confidence and evidence_refs.
CreateMemoryFact(cmd, vaultOk) ==
    IF cmd.fault = "early" \/ ~vaultOk
    THEN Failure
    ELSE IF cmd.fault = "late"
         THEN [Failure EXCEPT !.vault = {"facts"}]
         ELSE [Success EXCEPT !.inserts = {"memory_fact"}, !.vault = {"facts"}]

\* A tool call that does not exist is approved all the same.
ApproveToolCall(cmd) ==
    [Success EXCEPT !.tool = IF cmd.target \in ToolCalls THEN cmd.target ELSE Missing]

\* `row` is the life item the command names as its transaction reads it.
ApplyPayload(cmd, row, vaultOk) ==
    CASE cmd.type = "life_item.create"   -> CreateLifeItem(cmd, vaultOk)
      [] cmd.type = "life_item.update"   -> UpdateLifeItem(cmd, row, vaultOk)
      [] cmd.type \in CreateTypes        -> CreateRow(cmd)
      [] cmd.type = "memory_fact.create" -> CreateMemoryFact(cmd, vaultOk)
      [] cmd.type = "tool_call.approve"  -> ApproveToolCall(cmd)
      [] OTHER                           -> Failure

-----------------------------------------------------------------------------
(* What CommandBus.apply adds around the payload.                          *)

\* The audit event and, for an applied change only, the status event.
AuditOf(status) ==
    {IF status = "applied" THEN "state_change.applied" ELSE "state_change.failed"}

EventsOf(status) == IF status = "applied" THEN {"state_change.applied"} ELSE {}

=============================================================================

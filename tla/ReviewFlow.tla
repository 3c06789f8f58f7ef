----------------------------- MODULE ReviewFlow -----------------------------
(***************************************************************************)
(* The review queue: POST /api/reviews/{review_id}/decision                *)
(* (apps/api/lifeos_api/routers/reviews.py), with the command bus it calls *)
(* on approval.                                                            *)
(*                                                                         *)
(* Every request runs in a database transaction of its own and yields at   *)
(* each await, so the requests of two buttons, two gateways or a retry     *)
(* interleave.  A request reads the review row (Begin), an approval stages *)
(* its command (Apply), and the writes of the request become visible       *)
(* together (Commit) or not at all (Abort: an exception, a lost database   *)
(* or a crash).  There is no row version and no lock held across the       *)
(* awaits: what a request read may be stale when it commits.  The ORM      *)
(* writes a column only if its value differs from the value it loaded.     *)
(* Vault files are written during Apply and survive an Abort.              *)
(***************************************************************************)
EXTENDS CommandBus, FiniteSets

CONSTANTS
    Reviews,      \* ids of review items
    Requests,     \* ids of decision requests, each submitted at most once
    NoCommand,    \* "the decision payload replaces no proposed action"
    MaxInFlight,  \* bound: requests open at a time
    VaultMayFail  \* whether a write to the vault directory may raise

ASSUME ReviewAssumption ==
    /\ NoCommand \notin Commands
    /\ Missing \notin Requests
    /\ Missing \notin {"applied", "failed"}
    /\ Missing \notin [Columns -> Values]
    /\ Missing \notin [status : {"applied", "failed"}, command : Commands]
    /\ MaxInFlight \in Nat \ {0}
    /\ VaultMayFail \in BOOLEAN

VARIABLES
    \* committed rows
    reviews,      \* review_items: status and proposed_action_json
    decisions,    \* review_decisions
    changes,      \* state_changes, by the request whose apply inserted them
    rows,         \* rows inserted by commands: <<table, request>>
    items,        \* the columns of the life items updates name
    tools,        \* status of the tool calls approvals name
    audit,        \* audit_events: <<event type, request>>
    events,       \* status_events: <<event type, request>>
    \* files
    facts,        \* requests whose memory fact is in the curated memory file
    tasks,        \* the request that wrote state/tasks.md last
    \* the requests being served
    pc, req, seen, staged,
    met        \* history: the pairs of requests that were open together

db   == <<reviews, decisions, changes, rows, items, tools, audit, events>>
files == <<facts, tasks>>
vars  == <<db, files, pc, req, seen, staged, met>>

Kinds    == {"approve", "reject", "correct", "clarify", "snooze", "done"}
Statuses == {"absent", "pending", "needs_clarification", "rejected", "snoozed",
             "applied", "failed"}

ReviewRow == [status : Statuses, action : Commands \cup {NoCommand}]

\* `action` is the replacement a correction may carry.
Decision ==
    {d \in [review : Reviews, kind : Kinds, action : Commands \cup {NoCommand}] :
        d.kind # "correct" => d.action = NoCommand}

NoRow     == [status |-> "absent", action |-> NoCommand]
Open(q)   == pc[q] \in {"read", "ready"}
InFlight  == {q \in Requests : Open(q)}

Init ==
    /\ reviews = [r \in Reviews |-> NoRow]
    /\ decisions = {}
    /\ changes = [q \in Requests |-> Missing]
    /\ rows = {}
    /\ items \in [Items -> [Columns -> Values]]
    /\ tools = [t \in ToolCalls |-> "requested"]
    /\ audit = {}
    /\ events = {}
    /\ facts = {}
    /\ tasks = Missing
    /\ pc = [q \in Requests |-> "unsent"]
    /\ req = [q \in Requests |-> Missing]
    /\ seen = [q \in Requests |-> NoRow]
    /\ staged = [q \in Requests |-> Failure]
    /\ met = {}

-----------------------------------------------------------------------------
(* Actions.                                                                *)

\* The endpoints that escalate (captures, tools, jobs, memory, session chat)
\* insert a review in a transaction of their own.
CreateReview(r, cmd, status) ==
    /\ reviews[r].status = "absent"
    /\ reviews' = [reviews EXCEPT ![r] = [status |-> status, action |-> cmd]]
    /\ UNCHANGED <<decisions, changes, rows, items, tools, audit, events, files,
                   pc, req, seen, staged, met>>

\* decide_review reads the row with session.get; no status is refused.
Begin(q, d) ==
    /\ pc[q] = "unsent"
    /\ Cardinality(InFlight) < MaxInFlight
    /\ req' = [req EXCEPT ![q] = d]
    /\ seen' = [seen EXCEPT ![q] = reviews[d.review]]
    /\ pc' = [pc EXCEPT ![q] = IF reviews[d.review].status = "absent"
                               THEN "not_found" ELSE "read"]
    /\ met' = met \cup {{q, o} : o \in InFlight}
    /\ UNCHANGED <<db, files, staged>>

\* The life item a command names, as the transaction of the request reads it.
Named(cmd) == IF cmd.target \in Items THEN items[cmd.target] ELSE Missing

\* An approval calls CommandBus.apply with the proposed action it read.
Apply(q) ==
    /\ pc[q] = "read"
    /\ req[q].kind = "approve"
    /\ \E vaultOk \in {TRUE, ~VaultMayFail} :
         LET out == ApplyPayload(seen[q].action, Named(seen[q].action), vaultOk)
         IN /\ staged' = [staged EXCEPT ![q] = out]
            /\ facts' = IF "facts" \in out.vault THEN facts \cup {q} ELSE facts
            /\ tasks' = IF "tasks" \in out.vault THEN q ELSE tasks
    /\ pc' = [pc EXCEPT ![q] = "ready"]
    /\ UNCHANGED <<db, req, seen, met>>

\* The status decide_review assigns, by the kind of the decision; an approval
\* assigns the outcome of its command.
AssignedStatus == [reject |-> "rejected", correct |-> "pending",
                   clarify |-> "needs_clarification", snooze |-> "snoozed",
                   done |-> "applied"]

\* Faulty: the decision word is stored as the status.
NewStatusIsDecision(q) == req[q].kind

\* Faulty: an approval counts as applied whatever the command bus returned.
NewStatusIgnoresFailure(q) ==
    IF req[q].kind = "approve" THEN "applied" ELSE AssignedStatus[req[q].kind]

\* Faulty: a correction does not put the review back to pending.
NewStatusKeptOnCorrect(q) ==
    CASE req[q].kind = "approve" -> staged[q].status
      [] req[q].kind = "correct" -> seen[q].status
      [] OTHER                   -> AssignedStatus[req[q].kind]

NewStatus(q) ==
    IF req[q].kind = "approve" THEN staged[q].status
                               ELSE AssignedStatus[req[q].kind]

NewAction(q) ==
    IF req[q].kind = "correct" /\ req[q].action # NoCommand
    THEN req[q].action
    ELSE seen[q].action

\* The UPDATE of the review row names only the columns the request changed.
Written(q) ==
    LET row == reviews[req[q].review]
    IN [status |-> IF NewStatus(q) # seen[q].status THEN NewStatus(q) ELSE row.status,
        action |-> IF NewAction(q) # seen[q].action THEN NewAction(q) ELSE row.action]

Inserted(q) == {<<table, q>> : table \in staged[q].inserts}

\* The columns an update command assigned, over the rows committed by now.
UpdatedItems(q) ==
    LET cmd == seen[q].action
    IN [i \in Items |->
          IF i # cmd.target THEN items[i]
          ELSE [c \in Columns |->
                  IF \E v \in Values : <<c, v>> \in staged[q].columns
                  THEN CHOOSE v \in Values : <<c, v>> \in staged[q].columns
                  ELSE items[i][c]]]

UpdatedTools(q) ==
    [t \in ToolCalls |-> IF t = staged[q].tool THEN "succeeded" ELSE tools[t]]

\* Faulty: a failed command leaves no state_changes row.
CommitCommandIfApplied(q) ==
    /\ changes' = IF staged[q].status = "failed" THEN changes
                  ELSE [changes EXCEPT ![q] = [status  |-> staged[q].status,
                                               command |-> seen[q].action]]
    /\ rows' = rows \cup Inserted(q)
    /\ items' = UpdatedItems(q)
    /\ tools' = UpdatedTools(q)

\* What an approval commits beside the review row.
CommitCommand(q) ==
    /\ changes' = [changes EXCEPT ![q] = [status  |-> staged[q].status,
                                          command |-> seen[q].action]]
    /\ rows' = rows \cup Inserted(q)
    /\ items' = UpdatedItems(q)
    /\ tools' = UpdatedTools(q)

\* Faulty: the command bus returns before it adds its audit event.
AuditTrailOfDecision(q) == {"review.decision_received"}

\* The audit and status events of a request, those of its command included.
AuditTrail(q) ==
    {"review.decision_received"} \cup
    (IF req[q].kind = "approve" THEN AuditOf(staged[q].status) ELSE {})

EventTrail(q) ==
    {"review.decision_received"} \cup
    (IF req[q].kind = "approve" THEN EventsOf(staged[q].status) ELSE {})

Commit(q) ==
    /\ Open(q)
    /\ pc[q] = "ready" <=> req[q].kind = "approve"
    /\ reviews' = [reviews EXCEPT ![req[q].review] = Written(q)]
    /\ decisions' = decisions \cup
         {[by |-> q, review |-> req[q].review, kind |-> req[q].kind]}
    /\ audit' = audit \cup {<<type, q>> : type \in AuditTrail(q)}
    /\ events' = events \cup {<<type, q>> : type \in EventTrail(q)}
    /\ IF req[q].kind = "approve"
       THEN CommitCommand(q)
       ELSE UNCHANGED <<changes, rows, items, tools>>
    /\ pc' = [pc EXCEPT ![q] = "committed"]
    /\ UNCHANGED <<files, req, seen, staged, met>>

\* The session is closed without commit: a decision payload that does not
\* convert, a constraint the flush violates, a lost connection, a crash.
Abort(q) ==
    /\ Open(q)
    /\ pc' = [pc EXCEPT ![q] = "aborted"]
    /\ UNCHANGED <<db, files, req, seen, staged, met>>

Next ==
    \/ \E r \in Reviews, cmd \in Commands,
          status \in {"pending", "needs_clarification"} : CreateReview(r, cmd, status)
    \/ \E q \in Requests, d \in Decision : Begin(q, d)
    \/ \E q \in Requests : Apply(q)
    \/ \E q \in Requests : Commit(q)
    \/ \E q \in Requests : Abort(q)

Spec == Init /\ [][Next]_vars

-----------------------------------------------------------------------------
(* Properties.                                                             *)

Change == [status : {"applied", "failed"}, command : Commands]

\* The committed rows and the requests in flight are of the shapes above.
TypeOK ==
    /\ reviews \in [Reviews -> ReviewRow]
    /\ decisions \subseteq [by : Requests, review : Reviews, kind : Kinds]
    /\ changes \in [Requests -> Change \cup {Missing}]
    /\ rows \subseteq Tables \X Requests
    /\ items \in [Items -> [Columns -> Values]]
    /\ tools \in [ToolCalls -> {"requested", "succeeded"}]
    /\ audit \subseteq {"review.decision_received", "state_change.applied",
                        "state_change.failed"} \X Requests
    /\ events \subseteq {"review.decision_received", "state_change.applied"} \X Requests
    /\ facts \subseteq Requests
    /\ tasks \in Requests \cup {Missing}
    /\ pc \in [Requests -> {"unsent", "not_found", "read", "ready",
                            "committed", "aborted"}]
    /\ req \in [Requests -> Decision \cup {Missing}]
    /\ seen \in [Requests -> ReviewRow]
    /\ staged \in [Requests -> OutcomeRecord]
    /\ met \subseteq SUBSET Requests

Decided(r, kind) == {d \in decisions : d.review = r /\ d.kind = kind}

ApprovedWith(r, status) ==
    \E d \in Decided(r, "approve") :
        changes[d.by] # Missing /\ changes[d.by].status = status

\* The decisions that can have given a review a closed status.
Explained(r, status) ==
    /\ status = "applied"  => ApprovedWith(r, "applied") \/ Decided(r, "done") # {}
    /\ status = "failed"   => ApprovedWith(r, "failed")
    /\ status = "rejected" => Decided(r, "reject") # {}
    /\ status = "snoozed"  => Decided(r, "snooze") # {}

\* Whatever interleaving of owners, gateways and retries led to it, the status of
\* a review is one that a committed decision on that review gave it, and a review
\* is pending again only through a correction: no request that read an older row
\* moves it to a status nobody decided (decide_review assigns the status from the
\* row it read at the start).
StatusExplained ==
    \A r \in Reviews :
        /\ Explained(r, reviews[r].status)
        /\ reviews[r].status = "pending" => \/ Decided(r, "correct") # {}
                                           \/ \A d \in decisions : d.review # r

\* "Audited commands are the only path into durable truth" (README.md): a row
\* that a command inserted, or a tool call it completed, belongs to a recorded
\* state change that the owner's committed approval led to, with the audit event
\* of its outcome, all in one commit.
TruthIsBacked ==
    /\ \A row \in rows : changes[row[2]] # Missing
    /\ \A t \in ToolCalls : tools[t] = "succeeded" =>
         \E q \in Requests : /\ changes[q] # Missing
                             /\ changes[q].command.type = "tool_call.approve"
                             /\ changes[q].command.target = t
    /\ \A q \in Requests : changes[q] # Missing =>
         /\ \E d \in decisions : d.by = q /\ d.kind = "approve"
         /\ AuditOf(changes[q].status) \X {q} \subseteq audit

\* How far a failed command reaches: of the rows commands insert only a life item
\* can survive a failure (its snapshot could not be written), so a failed change
\* never leaves money, a log, a fact or a job behind.
FailedFootprint ==
    \A row \in rows :
        changes[row[2]].status = "failed" => row[1] = "life_item"

\* The vault is written before the commit, so a memory fact the database holds is
\* in the curated memory file whatever aborted or crashed in between.
FactRowsInVault ==
    \A q \in Requests : <<"memory_fact", q>> \in rows => q \in facts

\* A review that shows as applied was closed by hand or shows the action that was
\* applied, unless the owner corrected it while an approval of it was being served:
\* only such an overlap puts a status and an action of two requests in one row.
CardTellsTruth ==
    \A r \in Reviews : reviews[r].status = "applied" =>
        \/ Decided(r, "done") # {}
        \/ \E d \in Decided(r, "approve") :
              changes[d.by] = [status |-> "applied", command |-> reviews[r].action]
        \/ \E d \in Decided(r, "approve"), c \in Decided(r, "correct") :
              {d.by, c.by} \in met

\* The review queue keeps the promise of the command bus.
AT == INSTANCE AuditedTruth WITH
        Ids    <- Requests,
        None   <- Missing,
        values <- <<items, tools>>,
        ledger <- [q \in Requests |-> IF changes[q] = Missing THEN Missing
                                      ELSE changes[q].status],
        trail  <- {t \in {"applied", "failed"} \X Requests :
                     AuditOf(t[1]) \X {t[2]} \subseteq audit}

\* Every step of the queue is a recorded, audited change or leaves truth alone.
ImplementsAuditedTruth == AT!Spec

-----------------------------------------------------------------------------
(* What the documentation says of reviews and the code does not keep.      *)

\* "Reject closes the review without mutation" (docs/discord_channel_structure.md):
\* once a review is rejected, no command of it changes truth any more.
RejectClosesReview ==
    [][\A r \in Reviews : reviews[r].status = "rejected" =>
          {q \in Requests : changes'[q] # Missing /\ req[q].review = r}
              \subseteq {q \in Requests : changes[q] # Missing}]_vars

=============================================================================

------------------------------ MODULE Proposals ------------------------------
(***************************************************************************)
(* The conversational action loop of one agent session: chat messages that *)
(* propose, execute and follow up on actions                               *)
(* (services/agent_runtime.py, services/conversation_action_service.py)    *)
(* and the Create / Edit / Ignore buttons under a proposal                 *)
(* (routers/action_proposals.py).                                          *)
(*                                                                         *)
(* Every request is one database transaction.  A message that comes by its *)
(* channel (POST /chat) updates the row of its session before it looks at  *)
(* a proposal (_resolve_session), and the row lock makes such messages     *)
(* queue: here they arrive when the row is theirs.  A message that names   *)
(* its session (POST /sessions/{id}/messages) asks for that lock only when *)
(* it ends, and a button never does; they interleave with each other and   *)
(* with the queue.  A request keeps the proposals it loaded (`loaded`) and *)
(* its own changes to them (`mine`); the first UPDATE of a proposal, at    *)
(* the flush inside the command bus or in reject and revise, locks its row *)
(* until the request ends.  Requests may wait for each other in a circle,  *)
(* which PostgreSQL breaks.  What a message asks for is planned by         *)
(* Planner, with any answer a provider may give.                           *)
(***************************************************************************)
EXTENDS CommandBus, Planner, FiniteSets

CONSTANTS
    Requests,      \* ids of messages and button presses
    Messages,      \* the messages that may be planned
    Answers,       \* what a provider may answer
    Texts,         \* the follow-up texts a message may be
    OpenRows,      \* the column values of a life item that counts as open
    MaxProposals,  \* bound: proposals created in all
    Limit,         \* how many open proposals a message is matched against
    MaxInFlight,   \* bound: requests open at a time
    VaultMayFail   \* whether a write to the vault directory may raise

Proposals == 1..MaxProposals
Ids       == Requests \X Proposals      \* applications of the command bus

\* "complete" is a task.complete proposal, whose life item is looked up when it is
\* executed; an "empty" draft has no command.
DraftRecord == [kind : {"plain", "complete", "empty"}, command : Commands]

\* What the command bus staged for a proposal, and the state change it records.
Application == [outcome : OutcomeRecord, command : CommandRecord]
Change      == [status : {"applied", "failed"}, command : CommandRecord]

ASSUME ProposalAssumption ==
    /\ Drafts \subseteq DraftRecord
    /\ Messages \subseteq Message
    /\ Answers \subseteq PlanRecord \cup {NoAnswer}
    /\ Missing \notin Requests
    /\ Missing \notin Drafts
    /\ Missing \notin Ids
    /\ Missing \notin Values
    /\ Missing \notin Application
    /\ Missing \notin Change
    /\ Missing \notin {"applied", "failed"}
    /\ MaxProposals \in Nat
    /\ Limit \in Nat \ {0}
    /\ MaxInFlight \in Nat \ {0}
    /\ VaultMayFail \in BOOLEAN

VARIABLES
    props,     \* pending_action_proposals
    expired,   \* proposals whose expires_at has passed
    changes,   \* state_changes, by application
    rows,      \* rows inserted by commands: <<table, application>>
    items,     \* the life items completions and updates name
    audit,     \* audit_events: <<event type, application>>
    \* the requests being served
    pc, req,
    loaded,    \* proposals as the request read them
    mine,      \* proposals as the request changed them
    locked,    \* proposals whose rows the request has updated
    fresh,     \* proposals the request inserted
    work,      \* what is left to do: a set of [op, p], done in the order of Before
    staged,    \* outcomes of the commands it applied
    assigned,  \* columns its commands assigned
    reply,     \* the text of a reply that says something went wrong
    met        \* history: the pairs of requests that were open together

db    == <<props, changes, rows, items, audit>>
local == <<loaded, mine, locked, fresh, work, staged, assigned, reply>>
vars  == <<db, expired, pc, req, local, met>>

OpenStatuses == {"pending", "revised"}

PropRow == [status : OpenStatuses \cup {"absent", "rejected", "executed", "failed"},
            draft : Drafts \cup {Missing}, risk : {"low", "medium"},
            born : Nat, command : Ids \cup {Missing}]

NoProp == [status |-> "absent", draft |-> Missing, risk |-> "low",
           born |-> 0, command |-> Missing]

Unassigned  == [i \in Items |-> [c \in Columns |-> Missing]]
NoProps     == [p \in Proposals |-> NoProp]
NoRequest   == [from |-> "none", act |-> "none", on |-> {}, draft |-> Missing,
                said |-> "nothing"]

Open(q)  == pc[q] = "open"
InFlight == {q \in Requests : Open(q)}

Init ==
    /\ props = NoProps
    /\ expired = {}
    /\ changes = [id \in Ids |-> Missing]
    /\ rows = {}
    /\ items \in [Items -> [Columns -> Values]]
    /\ audit = {}
    /\ pc = [q \in Requests |-> "unsent"]
    /\ req = [q \in Requests |-> NoRequest]
    /\ loaded = [q \in Requests |-> NoProps]
    /\ mine = [q \in Requests |-> NoProps]
    /\ locked = [q \in Requests |-> {}]
    /\ fresh = [q \in Requests |-> {}]
    /\ work = [q \in Requests |-> {}]
    /\ staged = [q \in Requests |-> [p \in Proposals |-> Missing]]
    /\ assigned = [q \in Requests |-> Unassigned]
    /\ reply = [q \in Requests |-> "none"]
    /\ met = {}

-----------------------------------------------------------------------------
(* Requests arrive.                                                        *)

Sendable == {q \in Requests : pc[q] = "unsent" /\ Cardinality(InFlight) < MaxInFlight}

Arrive(q, request) ==
    /\ pc[q] = "unsent"
    /\ pc' = [pc EXCEPT ![q] = "open"]
    /\ req' = [req EXCEPT ![q] = request]
    /\ loaded' = [loaded EXCEPT ![q] = props]
    /\ met' = met \cup {{q, o} : o \in InFlight}
    /\ UNCHANGED <<db, expired, locked, staged, assigned, reply>>

\* revise_proposal_draft rewrites the payload: the kind and the command type stay.
RevisionsOf(p) ==
    {draft \in Drafts : /\ props[p].draft # Missing
                        /\ draft.kind = props[p].draft.kind
                        /\ draft.command.type = props[p].draft.command.type}

\* A button hangs under a proposal that was stored; neither its expiry nor its
\* session is looked at.
PressButton(q, p, act, draft) ==
    /\ props[p].status # "absent"
    /\ Arrive(q, [from |-> "button", act |-> act, on |-> {p}, draft |-> draft,
                 said |-> "nothing"])
    /\ mine' = [mine EXCEPT ![q] = props]
    /\ work' = [work EXCEPT ![q] = IF act = "ask" THEN {}
                                   ELSE {[op |-> act, p |-> p]}]
    /\ UNCHANGED fresh

\* How a message comes: to /chat, or to /sessions/{id}/messages.
Turns == {"chat", "message"}

\* No other request holds the row of the session.
SessionFree(q) == \A o \in InFlight \ {q} : req[o].from # "chat"

\* A message to /chat waits for the row before it reads anything.
MayStart(q, via) == via = "chat" => SessionFree(q)

Pending == {p \in Proposals : props[p].status \in OpenStatuses /\ p \notin expired}

\* What SELECT .. ORDER BY created_at LIMIT may return: the oldest ones.  The
\* proposals of one message have one created_at, so their order is free.
Windows ==
    {V \in SUBSET Pending :
        /\ Cardinality(V) = IF Cardinality(Pending) < Limit THEN Cardinality(Pending)
                                                            ELSE Limit
        /\ \A p \in V, o \in Pending \ V : props[p].born <= props[o].born}

\* The proposals that may stand at position k of such a window.
AtPosition(V, k) ==
    {p \in V : /\ Cardinality({o \in V : props[o].born < props[p].born}) < k
               /\ k <= Cardinality({o \in V : props[o].born <= props[p].born})}

\* Faulty: a plain approval means the oldest proposal.
MeaningOldest(text, n) ==
    [act |-> IF text \in {"yes", "only first"} THEN "approve"
             ELSE IF text = "what exactly" THEN "ask" ELSE "revise", at |-> 1]

\* interpret_proposal_follow_up: what a text means against n open proposals.
Meaning(text, n) ==
    CASE text = "yes"           -> [act |-> "approve", at |-> n]
      [] text = "no"            -> [act |-> "reject",  at |-> n]
      [] text = "what exactly"  -> [act |-> "ask",     at |-> n]
      [] text = "only first"    -> [act |-> "approve", at |-> 1]
      [] text = "only second"   -> [act |-> IF n >= 2 THEN "approve" ELSE "revise",
                                    at  |-> IF n >= 2 THEN 2 ELSE n]
      [] text = "change first"  -> [act |-> "revise",  at |-> 1]
      [] text = "change second" -> [act |-> "revise",  at |-> IF n >= 2 THEN 2 ELSE n]
      [] OTHER                  -> [act |-> "revise",  at |-> n]

\* An approval that says "only" drops the other proposals of the window first.
SaysOnly(text) == text \in {"only first", "only second"}

FollowUp(q, via, text, draft) ==
    /\ MayStart(q, via)
    /\ \E V \in Windows : \E p \in AtPosition(V, Meaning(text, Cardinality(V)).at) :
         LET act == Meaning(text, Cardinality(V)).act
             others == IF act = "approve" /\ SaysOnly(text) THEN V \ {p} ELSE {}
         IN /\ draft \in IF act = "revise" THEN RevisionsOf(p) ELSE {Missing}
            /\ Arrive(q, [from |-> via, act |-> act, on |-> {p}, draft |-> draft,
                          said |-> "nothing"])
            /\ work' = [work EXCEPT ![q] =
                 (IF act = "ask" THEN {} ELSE {[op |-> act, p |-> p]})
                    \cup {[op |-> "reject", p |-> o] : o \in others}]
    /\ mine' = [mine EXCEPT ![q] = props]
    /\ UNCHANGED fresh

\* The ids of the proposals that are stored or that an open request has inserted.
Taken == {p \in Proposals : props[p].status # "absent"} \cup UNION {fresh[q] : q \in Requests}

\* The id the next proposal gets.
IsNext(first) == /\ \A p \in Taken : p < first
                 /\ first = 1 \/ first - 1 \in Taken

\* `born` stands for created_at: later messages have a greater one.
Drafted(plan, first, p) ==
    LET item == plan.items[p - first + 1]
    IN [status |-> "pending", draft |-> item.draft, risk |-> item.risk, born |-> first,
        command |-> Missing]

\* What a message says, for the properties: an order, something to be reviewed
\* whatever else it says, or talk.
Said(m) == IF Risky(m) THEN "risky" ELSE IF Explicit(m) THEN "order" ELSE "talk"

\* A message that is no follow-up is planned.  persist_inline_proposals stages the
\* proposals of the plan, and a plan to be executed now is, in the same transaction.
\* A formal review is stored by create_formal_reviews_for_plan (see ReviewFlow).
PlanTurn(q, via, m, answer) ==
    /\ MayStart(q, via)
    /\ ~Raises(Proposed(m, answer), m)
    /\ \E first \in 1..(MaxProposals + 1) :
         LET plan == PlanFor(m, answer)
             new == IF plan.mode \in {"execute_now", "propose_inline"}
                    THEN first..(first + Len(plan.items) - 1) ELSE {}
         IN /\ IsNext(first)
            /\ new \subseteq Proposals
            /\ Arrive(q, [from |-> via, act |-> plan.mode, on |-> new,
                          draft |-> Missing, said |-> Said(m)])
            /\ fresh' = [fresh EXCEPT ![q] = new]
            /\ mine' = [mine EXCEPT ![q] =
                 [p \in Proposals |-> IF p \in new THEN Drafted(plan, first, p) ELSE props[p]]]
            /\ work' = [work EXCEPT ![q] =
                 IF plan.mode = "execute_now" THEN {[op |-> "approve", p |-> p] : p \in new}
                                              ELSE {}]

-----------------------------------------------------------------------------
(* A request works.                                                        *)

\* "only" rejects the others before it approves; a batch runs in its order.
Before(v, w) == \/ v.op = "reject" /\ w.op # "reject"
                \/ v.op = w.op /\ v.p <= w.p

Due(q) == CHOOSE w \in work[q] : \A v \in work[q] : Before(w, v)

IsDue(q, op) == Open(q) /\ work[q] # {} /\ Due(q).op = op

Applied(q) == {p \in Proposals : staged[q][p] # Missing}

\* The life items its commands assigned; the next flush writes and locks their rows.
Touched(q) == {staged[q][p].command.target : p \in Applied(q)} \cap Items

\* The ones whose rows it has locked: those of a batch, but for its last command.
ItemLocks(q) ==
    {staged[q][p].command.target :
        p \in {o \in Applied(q) : /\ req[q].act = "execute_now"
                                  /\ \E r \in locked[q] : o < r}} \cap Items

ItemsFree(q) == \A o \in Requests \ {q} : Touched(q) \cap ItemLocks(o) = {}

\* No other transaction holds the row.
Free(q, p) == \A o \in Requests \ {q} : p \notin locked[o]

\* Change a loaded proposal and flush: the row stays locked.
Update(q, p, row) ==
    /\ Free(q, p)
    /\ ItemsFree(q)
    /\ mine' = [mine EXCEPT ![q][p] = row]
    /\ locked' = [locked EXCEPT ![q] = @ \cup {p}]

Done(q) == work' = [work EXCEPT ![q] = @ \ {Due(q)}]

\* Faulty: a proposal that is closed is rejected too.
RejectRowAlways(q, p) == Update(q, p, [mine[q][p] EXCEPT !.status = "rejected"])

\* reject_action_proposal leaves a proposal that is closed alone.
RejectRow(q, p) ==
    IF mine[q][p].status \in OpenStatuses
    THEN Update(q, p, [mine[q][p] EXCEPT !.status = "rejected"])
    ELSE UNCHANGED <<mine, locked>>

Reject(q) ==
    /\ IsDue(q, "reject")
    /\ RejectRow(q, Due(q).p)
    /\ Done(q)
    /\ UNCHANGED <<db, expired, pc, req, loaded, fresh, staged, assigned, reply, met>>

Revise(q) ==
    /\ IsDue(q, "revise")
    /\ mine[q][Due(q).p].status \in OpenStatuses
    /\ Update(q, Due(q).p, [mine[q][Due(q).p] EXCEPT !.status = "revised",
                                                     !.draft  = req[q].draft])
    /\ Done(q)
    /\ UNCHANGED <<db, expired, pc, req, loaded, fresh, staged, assigned, reply, met>>

\* A life item as the transaction sees it, its own assignments included.
Item(q, i) == [c \in Columns |-> IF assigned[q][i][c] = Missing THEN items[i][c]
                                                               ELSE assigned[q][i][c]]

\* _find_life_item_for_completion: an open item whose title matches, if any does.
Targets(q, draft) ==
    IF draft.kind = "complete"
    THEN {i \in Items : Item(q, i) \in OpenRows} \cup {Missing}
    ELSE {draft.command.target}

\* Faulty: the status of the proposal is not looked at.
ExecutableAgain(row, target) ==
    /\ row.risk = "low"
    /\ row.draft.kind # "empty"
    /\ row.draft.kind = "complete" => target # Missing

\* What execute_action_proposal and command_request_from_proposal ask for.
Executable(row, target) ==
    /\ row.status \in OpenStatuses
    /\ row.risk = "low"
    /\ row.draft.kind # "empty"
    /\ row.draft.kind = "complete" => target # Missing

Named(q, cmd) == IF cmd.target \in Items THEN Item(q, cmd.target) ELSE Missing

Assign(q, cmd, out) ==
    [i \in Items |->
       IF i # cmd.target THEN assigned[q][i]
       ELSE [c \in Columns |->
               IF \E v \in Values : <<c, v>> \in out.columns
               THEN CHOOSE v \in Values : <<c, v>> \in out.columns
               ELSE assigned[q][i][c]]]

\* Faulty: the outcome of the command is stored as the status.
StatusIsOutcome(out) == out.status

\* Faulty: the proposal counts as executed whatever the command bus returned.
StatusIgnoresFailure(out) == "executed"

StatusAfter(out) == IF out.status = "applied" THEN "executed" ELSE "failed"

\* Faulty: a message goes on after a command that failed.
WorkGoesOn(q, out) == work[q] \ {Due(q)}

\* A failed command ends a message; a button has only one.
WorkAfter(q, out) == IF out.status = "applied" THEN work[q] \ {Due(q)} ELSE {}

\* Faulty: a failure is not told.
ReplyIsSilent(out) == "none"

ReplyAfter(out) == IF out.status = "applied" THEN "none" ELSE "i did not create anything"

Execute(q) ==
    /\ IsDue(q, "approve")
    /\ LET p == Due(q).p
           row == mine[q][p]
       IN \E target \in Targets(q, row.draft), vaultOk \in {TRUE, ~VaultMayFail} :
            LET cmd == [row.draft.command EXCEPT !.target = target]
                out == ApplyPayload(cmd, Named(q, cmd), vaultOk)
            IN /\ Executable(row, target)
               /\ Update(q, p, [row EXCEPT !.status = StatusAfter(out), !.command = <<q, p>>])
               /\ staged' = [staged EXCEPT ![q][p] = [outcome |-> out, command |-> cmd]]
               /\ assigned' = [assigned EXCEPT ![q] = Assign(q, cmd, out)]
               /\ work' = [work EXCEPT ![q] = WorkAfter(q, out)]
               /\ reply' = [reply EXCEPT ![q] = ReplyAfter(out)]
    /\ UNCHANGED <<db, expired, pc, req, loaded, fresh, met>>

\* Faulty: a session that is not closed keeps its row locks.
CloseButHoldLocks(q, end) ==
    /\ pc' = [pc EXCEPT ![q] = end]
    /\ loaded' = [loaded EXCEPT ![q] = NoProps]
    /\ mine' = [mine EXCEPT ![q] = NoProps]
    /\ fresh' = [fresh EXCEPT ![q] = {}]
    /\ work' = [work EXCEPT ![q] = {}]
    /\ staged' = [staged EXCEPT ![q] = [p \in Proposals |-> Missing]]
    /\ assigned' = [assigned EXCEPT ![q] = Unassigned]
    /\ UNCHANGED <<req, reply, locked, met>>

\* The database session of a request is closed with it: its row locks are released
\* and what it had loaded is gone.
Close(q, end) ==
    /\ pc' = [pc EXCEPT ![q] = end]
    /\ loaded' = [loaded EXCEPT ![q] = NoProps]
    /\ mine' = [mine EXCEPT ![q] = NoProps]
    /\ locked' = [locked EXCEPT ![q] = {}]
    /\ fresh' = [fresh EXCEPT ![q] = {}]
    /\ work' = [work EXCEPT ![q] = {}]
    /\ staged' = [staged EXCEPT ![q] = [p \in Proposals |-> Missing]]
    /\ assigned' = [assigned EXCEPT ![q] = Unassigned]
    /\ UNCHANGED <<req, reply, met>>

\* A message whose proposal cannot be executed rejects it and ends.
Refuse(q) ==
    /\ IsDue(q, "approve")
    /\ req[q].from \in Turns
    /\ \E target \in Targets(q, mine[q][Due(q).p].draft) :
          ~Executable(mine[q][Due(q).p], target)
    /\ RejectRow(q, Due(q).p)
    /\ work' = [work EXCEPT ![q] = {}]
    /\ reply' = [reply EXCEPT ![q] = "stopped before changing state"]
    /\ UNCHANGED <<db, expired, pc, req, loaded, fresh, staged, assigned, met>>

\* The button of a proposal that is closed or cannot be executed gets an exception.
Raise(q) ==
    /\ Open(q)
    /\ req[q].from = "button"
    /\ \/ IsDue(q, "revise") /\ mine[q][Due(q).p].status \notin OpenStatuses
       \/ /\ IsDue(q, "approve")
          /\ \E target \in Targets(q, mine[q][Due(q).p].draft) :
                ~Executable(mine[q][Due(q).p], target)
    /\ Close(q, "aborted")
    /\ UNCHANGED <<db, expired>>

\* The columns of a proposal the ORM writes are the ones the request changed.
Written(q, p) ==
    [props[p] EXCEPT
        !.status  = IF mine[q][p].status # loaded[q][p].status
                    THEN mine[q][p].status ELSE @,
        !.draft   = IF mine[q][p].draft # loaded[q][p].draft
                    THEN mine[q][p].draft ELSE @,
        !.command = IF mine[q][p].command # loaded[q][p].command
                    THEN mine[q][p].command ELSE @]

\* Faulty: a request audits its proposals only.
AuditTrailOfProposals(q) ==
    {<<"action_proposal.created", <<q, p>>>> : p \in fresh[q]}
    \cup {<<"action_proposal.executed", <<q, p>>>> : p \in Applied(q)}

\* The audit events of a request, those of its commands included.
AuditTrail(q) ==
    {<<"action_proposal.created", <<q, p>>>> : p \in fresh[q]}
    \cup {<<"action_proposal.rejected", <<q, p>>>> :
             p \in {o \in locked[q] : mine[q][o].status = "rejected"}}
    \cup {<<"action_proposal.revised", <<q, p>>>> :
             p \in {o \in locked[q] : mine[q][o].status = "revised"}}
    \cup {<<"action_proposal.executed", <<q, p>>>> : p \in Applied(q)}
    \cup UNION {AuditOf(staged[q][p].outcome.status) \X {<<q, p>>} : p \in Applied(q)}

\* The flush of the last changes; _finish_run writes the row of the session, too.
Commit(q) ==
    /\ Open(q)
    /\ work[q] = {}
    /\ ItemsFree(q)
    /\ req[q].from = "message" => SessionFree(q)
    /\ props' = [p \in Proposals |-> IF p \in fresh[q] THEN mine[q][p]
                                     ELSE IF p \in locked[q] THEN Written(q, p)
                                     ELSE props[p]]
    /\ changes' = [id \in Ids |->
         IF id[1] = q /\ id[2] \in Applied(q)
         THEN [status  |-> staged[q][id[2]].outcome.status,
               command |-> staged[q][id[2]].command]
         ELSE changes[id]]
    /\ rows' = rows \cup UNION {staged[q][p].outcome.inserts \X {<<q, p>>} : p \in Applied(q)}
    /\ items' = [i \in Items |-> Item(q, i)]
    /\ audit' = audit \cup AuditTrail(q)
    /\ Close(q, "committed")
    /\ UNCHANGED expired

\* A lost connection, a crash or a deadlock: the transaction is rolled back.
Abort(q) ==
    /\ Open(q)
    /\ Close(q, "aborted")
    /\ UNCHANGED <<db, expired>>

\* A proposal is offered for 24 hours; the time is looked at only while it is open.
Expire(p) ==
    /\ props[p].status \in OpenStatuses
    /\ expired' = expired \cup {p}
    /\ UNCHANGED <<db, pc, req, local, met>>

Buttons == {"approve", "reject", "revise", "ask"}

Next ==
    \/ \E q \in Sendable, p \in Proposals, act \in Buttons :
          \E draft \in IF act = "revise" THEN RevisionsOf(p) ELSE {Missing} :
            PressButton(q, p, act, draft)
    \/ \E q \in Sendable, via \in Turns, text \in Texts, draft \in Drafts \cup {Missing} :
          FollowUp(q, via, text, draft)
    \/ \E q \in Sendable, via \in Turns, m \in Messages, answer \in Answers :
          PlanTurn(q, via, m, answer)
    \/ \E q \in Requests : Reject(q) \/ Revise(q) \/ Execute(q) \/ Refuse(q)
    \/ \E q \in Requests : Raise(q) \/ Commit(q) \/ Abort(q)
    \/ \E p \in Proposals : Expire(p)

Spec == Init /\ [][Next]_vars

\* The API works on the requests it accepted; nothing makes the owner send one.
Serve(q) == Reject(q) \/ Revise(q) \/ Execute(q) \/ Refuse(q) \/ Raise(q) \/ Commit(q)

\* The requests that hold what the next flush of a request needs.
WaitsFor(q) ==
    {o \in InFlight \ {q} :
        \/ /\ work[q] # {}
           /\ Due(q).p \in locked[o]
           /\ mine[q][Due(q).p].status \in OpenStatuses
        \/ Touched(q) \cap ItemLocks(o) # {}
        \/ work[q] = {} /\ req[q].from = "message" /\ req[o].from = "chat"}

\* PostgreSQL rolls back one of the transactions that wait for each other in a circle.
InCircle(q) ==
    \E circle \in SUBSET InFlight :
        /\ q \in circle
        /\ \A o \in circle : /\ WaitsFor(o) \cap circle # {}
                             /\ \E r \in circle : o \in WaitsFor(r)

Victim(q) == InCircle(q) /\ Abort(q)

FairSpec == Spec /\ \A q \in Requests : WF_vars(Serve(q)) /\ WF_vars(Victim(q))

-----------------------------------------------------------------------------
(* Properties.                                                             *)

AuditTypes == {"action_proposal.created", "action_proposal.rejected",
               "action_proposal.revised", "action_proposal.executed",
               "state_change.applied", "state_change.failed"}

\* The committed rows and the requests in flight are of the shapes above.
TypeOK ==
    /\ props \in [Proposals -> PropRow]
    /\ expired \subseteq Proposals
    /\ changes \in [Ids -> Change \cup {Missing}]
    /\ rows \subseteq Tables \X Ids
    /\ items \in [Items -> [Columns -> Values]]
    /\ audit \subseteq AuditTypes \X Ids
    /\ pc \in [Requests -> {"unsent", "open", "committed", "aborted"}]
    /\ req \in [Requests -> [from : {"none", "button"} \cup Turns,
                             act : Buttons \cup Modes \cup {"none"},
                             on : SUBSET Proposals, draft : Drafts \cup {Missing},
                             said : {"nothing", "risky", "order", "talk"}]]
    /\ loaded \in [Requests -> [Proposals -> PropRow]]
    /\ mine \in [Requests -> [Proposals -> PropRow]]
    /\ locked \in [Requests -> SUBSET Proposals]
    /\ fresh \in [Requests -> SUBSET Proposals]
    /\ work \in [Requests -> SUBSET [op : {"approve", "reject", "revise"}, p : Proposals]]
    /\ staged \in [Requests -> [Proposals -> Application \cup {Missing}]]
    /\ assigned \in [Requests -> [Items -> [Columns -> Values \cup {Missing}]]]
    /\ reply \in [Requests -> {"none", "i did not create anything",
                               "stopped before changing state"}]
    /\ met \subseteq SUBSET Requests

Recorded(p, status) ==
    \E q \in Requests : changes[<<q, p>>] # Missing /\ changes[<<q, p>>].status = status

\* Nothing runs that the owner was not asked about, unless a message carried it out
\* at once; then it is of low risk and the message is none that must be reviewed,
\* whatever the provider planned (enforce_conversation_policy).
Consented ==
    \A q \in Requests, p \in Proposals : changes[<<q, p>>] # Missing =>
        /\ pc[q] = "committed"
        /\ req[q].act \in {"approve", "execute_now"}
        /\ p \in req[q].on
        /\ props[p].risk = "low"
        /\ req[q].said # "risky"

\* Buttons and messages may write one proposal from stale reads, but never invent
\* an outcome: a proposal shows as executed or failed only if a command of it was,
\* and the command it points to is one of its own (executed_command_id).
OutcomeExplained ==
    \A p \in Proposals :
        /\ props[p].status = "executed" => Recorded(p, "applied")
        /\ props[p].status = "failed" => Recorded(p, "failed")
        /\ props[p].command # Missing => /\ props[p].command[2] = p
                                         /\ changes[props[p].command] # Missing

\* An explicit message with several actions runs them in order and stops at the
\* first that fails: nothing is recorded after a failure.
BatchStopsAtFailure ==
    \A q \in Requests : \A p, o \in req[q].on :
        p < o /\ changes[<<q, o>>] # Missing =>
            changes[<<q, p>>] # Missing /\ changes[<<q, p>>].status = "applied"

\* A reply that reports success tells the truth: every action the message was to
\* take is recorded as applied, in the transaction that stored the reply.
SuccessIsTrue ==
    \A q \in Requests :
        /\ pc[q] = "committed" /\ req[q].from \in Turns /\ reply[q] = "none"
        /\ req[q].act \in {"approve", "execute_now"}
        => \A p \in req[q].on : /\ changes[<<q, p>>] # Missing
                                /\ changes[<<q, p>>].status = "applied"

\* The action loop keeps the promise of the command bus, also when one message
\* applies several commands.
AT == INSTANCE AuditedTruth WITH
        None   <- Missing,
        values <- items,
        ledger <- [id \in Ids |-> IF changes[id] = Missing THEN Missing
                                                          ELSE changes[id].status],
        trail  <- {t \in {"applied", "failed"} \X Ids :
                     AuditOf(t[1]) \X {t[2]} \subseteq audit}

\* Every step of the loop is a recorded, audited change or leaves truth alone.
ImplementsAuditedTruth == AT!Spec

\* Follow-ups like "yes" target the prior proposal (docs/CONVERSATIONAL_ACTION_LOOP.md):
\* while the open proposals fit into the page a message is matched against, none is
\* younger than the one a plain approval acts on.
YesMeansLatest ==
    [][\A q \in Requests :
         /\ pc[q] = "unsent" /\ pc'[q] = "open" /\ req'[q].from \in Turns
         /\ req'[q].act = "approve" /\ Cardinality(work'[q]) = 1
         /\ Cardinality(Pending) <= Limit
         => \A p \in req'[q].on, o \in Pending : props[o].born <= props[p].born]_vars

\* A request that has begun ends: the queue of a session, the messages that join it
\* only when they end, and the locks of proposals and life items never wait on each
\* other for ever.
RequestsEnd == \A q \in Requests : Open(q) ~> ~Open(q)

\* A committed revision that overlapped with a request: what that request did to the
\* proposal is overwritten, and an executed proposal is open again.
Reopened(q, p) ==
    \E r \in Requests : /\ {q, r} \in met
                        /\ pc[r] = "committed"
                        /\ req[r].act = "revise"
                        /\ p \in req[r].on

\* A proposal is executed again only by a request that was open together with the
\* one that executed it, or after a revision that was open together with one of them
\* opened it again: in sequence, a button pressed after a "yes" or the other way
\* round never repeats the action.
RepeatedOnlyByOverlap ==
    \A p \in Proposals : \A q, o \in Requests :
        q # o /\ changes[<<q, p>>] # Missing /\ changes[<<o, p>>] # Missing =>
            {q, o} \in met \/ Reopened(q, p) \/ Reopened(o, p)

\* What a proposal shows is what happened to it: executed or failed with the draft
\* it shows, and nothing at all while it is open or after it was rejected.  Only a
\* request that overlapped with the one that executed it can make it show more.
ProposalTellsTruth ==
    \A p \in Proposals :
        \/ IF props[p].status \in {"executed", "failed"}
           THEN LET change == changes[props[p].command]
                IN /\ StatusAfter(change) = props[p].status
                   /\ change.command.type = props[p].draft.command.type
                   /\ change.command.updates = props[p].draft.command.updates
           ELSE \A q \in Requests : changes[<<q, p>>] = Missing
        \/ \E q, o \in Requests : changes[<<q, p>>] # Missing /\ {q, o} \in met

-----------------------------------------------------------------------------
(* What the repository says of the action loop and the code does not keep. *)

\* "Proposal is not open" (execute_action_proposal): a proposal is executed once.
ExecutedOnce ==
    \A p \in Proposals :
        Cardinality({q \in Requests : changes[<<q, p>>] # Missing}) <= 1

\* "I did not create anything" and "Stopped before changing state" (agent_runtime.py):
\* a message that says so changed nothing.
NothingCreated ==
    \A q \in Requests : pc[q] = "committed" /\ reply[q] # "none" =>
        \A p \in Proposals :
            /\ \A table \in Tables : <<table, <<q, p>>>> \notin rows
            /\ changes[<<q, p>>] # Missing => changes[<<q, p>>].status = "failed"

=============================================================================

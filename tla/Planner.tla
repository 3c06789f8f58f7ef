------------------------------- MODULE Planner -------------------------------
(***************************************************************************)
(* How a chat message becomes a plan                                       *)
(* (services/conversation_action_planner.py): the local planner, the       *)
(* policy that is enforced on a plan whoever made it, and the choice of    *)
(* the planner in services/agent_runtime.py.                               *)
(*                                                                         *)
(* A message is the set of patterns that match it: the planner looks at    *)
(* nothing else of it.  A provider may answer with any plan the schema     *)
(* accepts; an answer that does not validate counts as no answer.          *)
(***************************************************************************)
EXTENDS Naturals, Sequences

CONSTANTS
    Drafts,     \* what a proposal would do
    DraftFor,   \* the draft the local planner writes, by type of action
    NoAnswer    \* no provider was asked, or none answered with a valid plan

ActionTypes == {"task.create", "task.update", "task.complete", "reminder.create",
                "job.create_once", "job.create_recurring", "daily_log.create",
                "memory_candidate.create", "research.start", "file.read",
                "file.write_proposal", "terminal.run_proposal", "agent.handoff"}

\* The types the local planner proposes.
LocalTypes == {"task.create", "task.complete", "reminder.create",
               "job.create_recurring", "memory_candidate.create",
               "terminal.run_proposal"}

Risks == {"low", "medium", "high", "sensitive", "destructive"}
Modes == {"answer_only", "execute_now", "propose_inline", "formal_review", "clarify"}

PlanItem == [type : ActionTypes, risk : Risks, confirm : BOOLEAN, formal : BOOLEAN,
             explicit : BOOLEAN, draft : Drafts]

ASSUME PlannerAssumption ==
    /\ DraftFor \in [LocalTypes -> Drafts]
    /\ NoAnswer \notin [mode : Modes, items : Seq(PlanItem)]

\* "local" stands for the markers that keep a message from the provider, "when" for
\* a date that resolves, "reminding" for the words "remind me" or "reminder".
Words == {"empty", "greeting", "question", "task", "reminder", "reminding",
          "complete", "done", "implicit", "memory", "recurring", "destructive",
          "file", "correcting", "when", "sensitive", "local"}

Message == {m \in SUBSET Words : /\ "reminder" \in m => "reminding" \in m
                                 /\ "empty" \in m => m = {"empty", "local"}
                                 /\ "greeting" \in m => m = {"greeting"}}

PlanRecord == [mode : Modes, items : Seq(PlanItem)]

Plan(mode, items) == [mode |-> mode, items |-> items]
Answer   == Plan("answer_only", <<>>)
Clarify  == Plan("clarify", <<>>)

\* What the local planner does at once, offers, and leaves to a review.
Order(type) == [type |-> type, risk |-> "low", confirm |-> FALSE, formal |-> FALSE,
                explicit |-> TRUE, draft |-> DraftFor[type]]
Offer(type) == [type |-> type, risk |-> "low", confirm |-> TRUE, formal |-> FALSE,
                explicit |-> FALSE, draft |-> DraftFor[type]]
Escalate(type, risk) ==
    Plan("formal_review",
         <<[type |-> type, risk |-> risk, confirm |-> TRUE, formal |-> TRUE,
            explicit |-> type = "job.create_recurring", draft |-> DraftFor[type]]>>)

\* _is_explicit_action and _is_advice_or_question
Explicit(m) == m \cap {"task", "reminder", "complete"} # {}
Asks(m)     == "question" \in m /\ ~Explicit(m)

Dangerous(m) == m \cap {"destructive", "file"} # {}
Repeating(m) == {"recurring", "reminding"} \subseteq m

\* What the documentation sends to a formal review whatever the words around it.
Risky(m) == Dangerous(m) \/ "memory" \in m \/ Repeating(m)

\* _deterministic_plan
LocalPlan(m) ==
    IF "empty" \in m              THEN Clarify
    ELSE IF "greeting" \in m      THEN Answer
    ELSE IF Asks(m)               THEN Answer
    ELSE IF Dangerous(m)          THEN Escalate("terminal.run_proposal",
                                         IF "destructive" \in m THEN "destructive"
                                                                ELSE "high")
    ELSE IF "memory" \in m        THEN Escalate("memory_candidate.create", "sensitive")
    ELSE IF Repeating(m)          THEN Escalate("job.create_recurring", "medium")
    ELSE IF "reminder" \in m      THEN IF "when" \in m
                                       THEN Plan("execute_now", <<Order("reminder.create")>>)
                                       ELSE Clarify
    ELSE IF "task" \in m          THEN Plan("execute_now", <<Order("task.create")>>)
    ELSE IF {"complete", "done"} \subseteq m
                                  THEN Plan("execute_now", <<Order("task.complete")>>)
    ELSE IF "implicit" \in m      THEN Plan("propose_inline", <<Offer("task.create")>>)
    ELSE Answer

\* _policy_override_plan: the plan that stands whatever a provider said.
Orphan(m)       == "correcting" \in m /\ "task" \notin m
Overrides(m)    == Risky(m) \/ Orphan(m)
OverridePlan(m) == IF Orphan(m) THEN Clarify ELSE LocalPlan(m)

FormalTypes == {"job.create_recurring", "memory_candidate.create",
                "file.write_proposal", "terminal.run_proposal"}
OrderTypes  == {"task.create", "task.update", "task.complete", "reminder.create",
                "job.create_once"}

\* _enforce_proposal_policy: an explicit low-risk order is freed of its flags, a
\* formal type or a high risk sets them.
Enforce(item, m) ==
    LET risky  == item.type \in FormalTypes \/ item.risk \in {"high", "sensitive", "destructive"}
        secret == item.type = "file.read" /\ "sensitive" \in m
        free   == item.type \in OrderTypes /\ item.risk = "low" /\ item.explicit
    IN [item EXCEPT !.confirm = risky \/ (@ /\ ~free),
                    !.formal  = risky \/ secret \/ (@ /\ ~free)]

\* _sanitize_provider_proposal: the draft of the local planner replaces the one of
\* the provider where the message or the type names one.
Sanitize(item, m) ==
    CASE item.type = "task.create" /\ "task" \in m -> Order("task.create")
      [] item.type = "task.create" /\ "task" \notin m /\ "implicit" \in m -> Offer("task.create")
      [] item.type \in {"reminder.create", "job.create_once"} /\ "reminder" \in m ->
            Order("reminder.create")
      [] item.type = "task.complete" -> Order("task.complete")
      [] OTHER -> item

\* A reminder that names no date has no local draft to take the first of: the
\* request ends with an IndexError.
Raises(plan, m) ==
    /\ ~Overrides(m) /\ ~Asks(m)
    /\ {"reminder", "when"} \cap m = {"reminder"}
    /\ \E i \in DOMAIN plan.items :
          plan.items[i].type \in {"reminder.create", "job.create_once"}

\* The items of a plan as the policy lets them stand, and whether all of them may
\* run without a question.
Checked(plan, m) == [i \in DOMAIN plan.items |-> Sanitize(Enforce(plan.items[i], m), m)]
Clear(items) ==
    \A i \in DOMAIN items : items[i].explicit /\ items[i].risk = "low" /\ ~items[i].confirm

\* What is not clear is offered, and waits for an answer.
Offered(items) ==
    [i \in DOMAIN items |-> [items[i] EXCEPT !.confirm = TRUE, !.formal = FALSE]]

\* Faulty: a risky message keeps the plan of the provider.
PolicyWithoutOverride(plan, m) ==
    LET items == Checked(plan, m)
    IN IF Asks(m) THEN Answer
       ELSE IF plan.items = <<>> THEN plan
       ELSE IF plan.mode = "execute_now" /\ Clear(items) THEN Plan("execute_now", items)
       ELSE Plan("propose_inline", items)

\* enforce_conversation_policy
Policy(plan, m) ==
    LET items == Checked(plan, m)
    IN IF Overrides(m) /\ (\/ OverridePlan(m).mode \in {"formal_review", "clarify"}
                           \/ plan.mode = "clarify" \/ plan.items = <<>>)
       THEN OverridePlan(m)
       ELSE IF Asks(m) THEN Answer
       ELSE IF plan.items = <<>>
       THEN IF plan.mode \in {"execute_now", "propose_inline", "formal_review"}
            THEN Clarify ELSE plan
       ELSE IF \E i \in DOMAIN items : items[i].formal
       THEN Plan("formal_review", items)
       ELSE IF plan.mode = "execute_now" /\ Clear(items) THEN Plan("execute_now", items)
       ELSE Plan("propose_inline", Offered(items))

\* A message with a marker is planned locally, any other by the provider if it
\* answers.
Proposed(m, answer) == IF "local" \in m \/ answer = NoAnswer THEN LocalPlan(m) ELSE answer

PlanFor(m, answer) == Policy(Proposed(m, answer), m)

=============================================================================

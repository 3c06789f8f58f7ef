----------------------------- MODULE PlannerProofs -----------------------------
(* What the policy guarantees of every plan, whatever a provider answers. *)
EXTENDS Planner, TLAPS

\* A review's plan by the local planner is a formal one.
LEMMA LocalReview ==
    ASSUME NEW m \in Message, Risky(m), ~Orphan(m)
    PROVE  /\ LocalPlan(m).mode \in {"answer_only", "formal_review"}
           /\ LocalPlan(m).mode = "answer_only" => Asks(m)
<1>1. "empty" \notin m /\ "greeting" \notin m
  BY DEF Message, Risky, Dangerous, Repeating
<1>2. CASE Asks(m)
  BY <1>1, <1>2 DEF LocalPlan, Answer, Plan
<1>3. CASE ~Asks(m)
  BY <1>1, <1>3 DEF LocalPlan, Escalate, Plan, Risky
<1> QED BY <1>2, <1>3

\* A message that asks for something dangerous, private or repeating is never
\* carried out and never offered with a button: it becomes a review, a question or
\* an answer, whatever plan a provider made (enforce_conversation_policy).
THEOREM RiskyIsNeverDone ==
    ASSUME NEW m \in Message, NEW answer, Risky(m)
    PROVE  PlanFor(m, answer).mode \notin {"execute_now", "propose_inline"}
<1> DEFINE plan == Proposed(m, answer)
<1>1. Overrides(m)
  BY DEF Overrides
<1>2. /\ OverridePlan(m).mode \in {"answer_only", "formal_review", "clarify"}
      /\ OverridePlan(m).mode = "answer_only" => Asks(m)
  <2>1. CASE Orphan(m)
    BY <2>1 DEF OverridePlan, Clarify, Plan
  <2>2. CASE ~Orphan(m)
    BY <2>2, LocalReview DEF OverridePlan
  <2> QED BY <2>1, <2>2
<1>3. Policy(plan, m) = OverridePlan(m) \/ Policy(plan, m) = Answer
  BY <1>1, <1>2 DEF Policy
<1> QED BY <1>2, <1>3 DEF PlanFor, Answer, Plan

\* What is carried out without a question is low-risk, marked as ordered, and needs
\* neither a confirmation nor a review.
THEOREM DoneAtOnceIsClear ==
    ASSUME NEW m \in Message, NEW answer \in PlanRecord \cup {NoAnswer},
           PlanFor(m, answer).mode = "execute_now",
           NEW i \in DOMAIN PlanFor(m, answer).items
    PROVE  LET item == PlanFor(m, answer).items[i]
           IN item.risk = "low" /\ item.explicit /\ ~item.confirm /\ ~item.formal
<1> DEFINE plan == Proposed(m, answer)
           items == Checked(plan, m)
<1>1. OverridePlan(m).mode = "execute_now" => ~Overrides(m)
  BY LocalReview DEF OverridePlan, Overrides, Clarify, Plan
<1>2. ~Overrides(m) \/ ~(\/ OverridePlan(m).mode \in {"formal_review", "clarify"}
                         \/ plan.mode = "clarify" \/ plan.items = <<>>)
  BY <1>1 DEF PlanFor, Policy
<1>3. ~Asks(m)
  BY <1>2 DEF PlanFor, Policy, Answer, Plan
<1>4. plan.items # <<>>
  BY <1>2, <1>3 DEF PlanFor, Policy, Clarify, Plan
<1>5. ~ \E j \in DOMAIN items : items[j].formal
  BY <1>2, <1>3, <1>4 DEF PlanFor, Policy, Plan
<1>6. Clear(items) /\ PlanFor(m, answer) = Plan("execute_now", items)
  BY <1>2, <1>3, <1>4, <1>5 DEF PlanFor, Policy, Plan
<1>7. i \in DOMAIN items /\ PlanFor(m, answer).items[i] = items[i]
  BY <1>6 DEF Plan
<1> QED BY <1>5, <1>6, <1>7 DEF Clear

\* What the local planner does at once or offers is an item of a plan.
LEMMA LocalItem ==
    \A type \in LocalTypes : Order(type) \in PlanItem /\ Offer(type) \in PlanItem
  BY PlannerAssumption DEF Order, Offer, PlanItem, LocalTypes, ActionTypes, Risks

\* The policy hands on items of the shape it was given.
LEMMA CheckedItem ==
    ASSUME NEW item \in PlanItem, NEW m \in Message
    PROVE  Sanitize(Enforce(item, m), m) \in PlanItem
<1>1. Enforce(item, m) \in PlanItem
  BY DEF Enforce, PlanItem
<1>2. {"task.create", "reminder.create", "task.complete"} \subseteq LocalTypes
  BY DEF LocalTypes
<1> QED BY <1>1, <1>2, LocalItem DEF Sanitize

\* A plan of the local planner has items of the shape a provider's have.
LEMMA LocalItems ==
    ASSUME NEW m \in Message
    PROVE  LocalPlan(m) \in PlanRecord
<1>1. \A type \in LocalTypes : Order(type) \in PlanItem /\ Offer(type) \in PlanItem
  BY LocalItem
<1>2. \A type \in LocalTypes, risk \in Risks : Escalate(type, risk) \in PlanRecord
  BY PlannerAssumption
  DEF Escalate, Plan, PlanRecord, PlanItem, LocalTypes, ActionTypes, Modes, Risks
<1>3. \A mode \in Modes : \A item \in PlanItem : Plan(mode, <<item>>) \in PlanRecord
  BY DEF Plan, PlanRecord
<1>4. Clarify \in PlanRecord /\ Answer \in PlanRecord
  BY DEF Clarify, Answer, Plan, PlanRecord, Modes
<1>5. \A type \in LocalTypes : /\ Plan("execute_now", <<Order(type)>>) \in PlanRecord
                               /\ Plan("propose_inline", <<Offer(type)>>) \in PlanRecord
  BY <1>1, <1>3 DEF Modes
<1>6. /\ {"low", "medium", "high", "sensitive", "destructive"} \subseteq Risks
      /\ {"task.create", "task.complete", "reminder.create", "job.create_recurring",
          "memory_candidate.create", "terminal.run_proposal"} \subseteq LocalTypes
  BY DEF Risks, LocalTypes
<1>7. /\ Escalate("terminal.run_proposal",
              IF "destructive" \in m THEN "destructive" ELSE "high") \in PlanRecord
      /\ Escalate("memory_candidate.create", "sensitive") \in PlanRecord
      /\ Escalate("job.create_recurring", "medium") \in PlanRecord
  BY <1>2, <1>6
<1>8. /\ Plan("execute_now", <<Order("reminder.create")>>) \in PlanRecord
      /\ Plan("execute_now", <<Order("task.create")>>) \in PlanRecord
      /\ Plan("execute_now", <<Order("task.complete")>>) \in PlanRecord
      /\ Plan("propose_inline", <<Offer("task.create")>>) \in PlanRecord
  BY <1>5, <1>6
<1> QED BY <1>4, <1>7, <1>8 DEF LocalPlan

\* An item the policy lets stand without a review has no type and no risk that needs
\* one, whatever the provider called it.
LEMMA CheckedIsModest ==
    ASSUME NEW item \in PlanItem, NEW m \in Message,
           ~Sanitize(Enforce(item, m), m).formal
    PROVE  LET safe == Sanitize(Enforce(item, m), m)
           IN safe.risk \in {"low", "medium"} /\ safe.type \notin FormalTypes
<1> DEFINE kept == Enforce(item, m)
           safe == Sanitize(kept, m)
<1>1. /\ kept.type = item.type /\ kept.risk = item.risk
      /\ ~kept.formal => /\ item.type \notin FormalTypes
                         /\ item.risk \notin {"high", "sensitive", "destructive"}
  BY DEF Enforce, PlanItem
<1>2. CASE safe = kept
  BY <1>1, <1>2 DEF PlanItem, Risks
<1>3. CASE safe # kept
  BY <1>3 DEF Sanitize, Order, Offer, FormalTypes
<1> QED BY <1>2, <1>3

\* What is carried out or offered with a button is of low or medium risk and of none
\* of the types that go to a formal review (_enforce_proposal_policy).
THEOREM OfferedIsModest ==
    ASSUME NEW m \in Message, NEW answer \in PlanRecord \cup {NoAnswer},
           PlanFor(m, answer).mode \in {"execute_now", "propose_inline"},
           NEW i \in DOMAIN PlanFor(m, answer).items
    PROVE  LET item == PlanFor(m, answer).items[i]
           IN item.risk \in {"low", "medium"} /\ item.type \notin FormalTypes
<1> DEFINE plan == Proposed(m, answer)
           items == Checked(plan, m)
<1>1. plan \in PlanRecord
  BY LocalItems DEF Proposed
<1>2. Overrides(m) => OverridePlan(m).mode \notin {"execute_now", "propose_inline"}
  BY LocalReview DEF OverridePlan, Overrides, Clarify, Plan
<1>3. PlanFor(m, answer) = Policy(plan, m)
  BY DEF PlanFor
<1>4. ~(/\ Overrides(m)
        /\ \/ OverridePlan(m).mode \in {"formal_review", "clarify"}
           \/ plan.mode = "clarify" \/ plan.items = <<>>)
  BY <1>2, <1>3 DEF Policy
<1>5. ~Asks(m)
  BY <1>3, <1>4 DEF Policy, Answer, Plan
<1>6. plan.items # <<>>
  BY <1>3, <1>4, <1>5 DEF Policy, Clarify, Plan
<1>7. ~ \E j \in DOMAIN items : items[j].formal
  BY <1>3, <1>4, <1>5, <1>6 DEF Policy, Plan
<1>8. \/ Policy(plan, m).items = items
      \/ Policy(plan, m).items = Offered(items)
  BY <1>4, <1>5, <1>6, <1>7 DEF Policy, Plan
<1>9. i \in DOMAIN items /\ DOMAIN items = DOMAIN plan.items
  BY <1>3, <1>8 DEF Checked, Offered
<1>10. items[i].risk \in {"low", "medium"} /\ items[i].type \notin FormalTypes
  <2>1. plan.items[i] \in PlanItem
    BY <1>1, <1>9 DEF PlanRecord
  <2>2. items[i] = Sanitize(Enforce(plan.items[i], m), m)
    BY <1>9 DEF Checked
  <2> QED BY <1>7, <1>9, <2>1, <2>2, CheckedIsModest
<1>11. /\ PlanFor(m, answer).items[i].risk = items[i].risk
       /\ PlanFor(m, answer).items[i].type = items[i].type
  <2>1. CASE Policy(plan, m).items = items
    BY <1>3, <2>1
  <2>2. CASE Policy(plan, m).items = Offered(items)
    <3>1. items[i] \in PlanItem
      BY <1>1, <1>9, CheckedItem DEF Checked, PlanRecord
    <3>2. PlanFor(m, answer).items[i] = [items[i] EXCEPT !.confirm = TRUE, !.formal = FALSE]
      BY <1>3, <1>9, <2>2, Zenon DEF Offered
    <3>3. \A it \in PlanItem : /\ [it EXCEPT !.confirm = TRUE, !.formal = FALSE].risk = it.risk
                               /\ [it EXCEPT !.confirm = TRUE, !.formal = FALSE].type = it.type
      BY DEF PlanItem
    <3> QED BY <3>1, <3>2, <3>3, Zenon
  <2> QED BY <1>8, <2>1, <2>2
<1> QED BY <1>10, <1>11

\* Whatever a provider answers, what the policy lets stand is a plan.
LEMMA PlanForType ==
    ASSUME NEW m \in Message, NEW answer \in PlanRecord \cup {NoAnswer}
    PROVE  PlanFor(m, answer) \in PlanRecord
<1> DEFINE plan == Proposed(m, answer)
           items == Checked(plan, m)
<1>1. plan \in PlanRecord
  BY LocalItems DEF Proposed
<1>2. items \in Seq(PlanItem)
  <2>1. plan.items \in Seq(PlanItem)
    BY <1>1 DEF PlanRecord
  <2>2. \A i \in DOMAIN plan.items : Sanitize(Enforce(plan.items[i], m), m) \in PlanItem
    BY <2>1, CheckedItem
  <2>3. items \in [1..Len(plan.items) -> PlanItem] /\ Len(plan.items) \in Nat
    BY <2>1, <2>2 DEF Checked
  <2> HIDE DEF items
  <2> QED BY <2>3
<1>3. Offered(items) \in Seq(PlanItem)
  <2>1. \A item \in PlanItem : [item EXCEPT !.confirm = TRUE, !.formal = FALSE] \in PlanItem
    BY DEF PlanItem
  <2> HIDE DEF items
  <2>2. /\ Len(items) \in Nat /\ DOMAIN items = 1..Len(items)
        /\ \A i \in DOMAIN items : items[i] \in PlanItem
    BY <1>2
  <2>3. \A i \in DOMAIN items :
          [items[i] EXCEPT !.confirm = TRUE, !.formal = FALSE] \in PlanItem
    BY <2>1, <2>2, Zenon
  <2>4. Offered(items) \in [1..Len(items) -> PlanItem]
    BY <2>2, <2>3, Zenon DEF Offered
  <2> QED BY <2>2, <2>4
<1>4. /\ Clarify \in PlanRecord /\ Answer \in PlanRecord /\ OverridePlan(m) \in PlanRecord
      /\ \A mode \in Modes, s \in Seq(PlanItem) : Plan(mode, s) \in PlanRecord
  BY LocalItems DEF Clarify, Answer, Plan, PlanRecord, Modes, OverridePlan
<1> HIDE DEF items, plan
<1>5. Policy(plan, m) \in PlanRecord
  <2>1. {"execute_now", "propose_inline", "formal_review"} \subseteq Modes
    BY DEF Modes
  <2>2. /\ Plan("execute_now", items) \in PlanRecord
        /\ Plan("formal_review", items) \in PlanRecord
        /\ Plan("propose_inline", Offered(items)) \in PlanRecord
    BY <1>2, <1>3, <1>4, <2>1
  <2> QED BY <1>1, <1>4, <2>2 DEF Policy, items
<1> QED BY <1>5 DEF PlanFor, plan

=============================================================================

---------------------------- MODULE ProposalsProofs ----------------------------
(***************************************************************************)
(* Proofs about the conversational action loop, for any number of          *)
(* requests, proposals, messages, answers, texts and drafts.               *)
(*                                                                         *)
(* WorkInv is the inductive invariant the others rest on: what a request   *)
(* in flight has read, changed, staged and left to do, related to what it  *)
(* was asked for and to the committed rows, however other requests have    *)
(* changed those in between.                                               *)
(***************************************************************************)
EXTENDS Proposals, CommandBusProofs, PlannerProofs, FiniteSetTheorems,
        WellFoundedInduction

-----------------------------------------------------------------------------
(* The inductive invariant.                                                *)

HasDraft(row) == row.status # "absent" => row.draft # Missing

\* A request that is not being served holds nothing.
Idle(q) ==
    /\ locked[q] = {} /\ fresh[q] = {} /\ work[q] = {}
    /\ staged[q] = [p \in Proposals |-> Missing]
    /\ assigned[q] = Unassigned

\* The work that is left is about stored or new proposals, each of them at most once,
\* and, the rejections aside, of one kind.
WorkOK(q) ==
    /\ \A w \in work[q] :
          /\ mine[q][w.p].status # "absent"
          /\ w.p \notin locked[q]
          /\ w.op = "revise" => /\ req[q].act = "revise"
                                /\ req[q].draft # Missing
                                /\ w.p \in req[q].on
          /\ w.op = "approve" => /\ req[q].act \in {"approve", "execute_now"}
                                 /\ w.p \in req[q].on
                                 /\ req[q].said # "risky"
    /\ \A v, w \in work[q] :
          /\ v.p = w.p => v = w
          /\ v.op # "reject" /\ w.op # "reject" => v.op = w.op

\* What a request says a proposal was, it still is, in all that nobody changes.
Stable(q, p) ==
    /\ p \in fresh[q] => props[p].status = "absent"
    /\ loaded[q][p].status # "absent" => /\ props[p].status # "absent"
                                         /\ props[p].risk = loaded[q][p].risk
    /\ loaded[q][p].command # Missing => changes[loaded[q][p].command] # Missing

\* What a request wants to make of a proposal.
Untouched(q, p) ==
    /\ staged[q][p] = Missing
    /\ IF p \in fresh[q] THEN mine[q][p].status = "pending" /\ mine[q][p].command = Missing
                         ELSE mine[q][p] = loaded[q][p]

Answered(q, p) ==
    /\ mine[q][p].command = IF p \in fresh[q] THEN Missing ELSE loaded[q][p].command
    /\ \/ mine[q][p].status = "rejected"
       \/ /\ mine[q][p].status = "revised"
          /\ req[q].act = "revise"
          /\ p \in req[q].on

Executed(q, p) ==
    /\ mine[q][p].status = StatusAfter(staged[q][p].outcome)
    /\ mine[q][p].command = <<q, p>>
    /\ mine[q][p].risk = "low"
    /\ p \notin fresh[q] => mine[q][p].draft = loaded[q][p].draft
    /\ mine[q][p].draft.command.type = staged[q][p].command.type
    /\ mine[q][p].draft.command.updates = staged[q][p].command.updates
    /\ req[q].act \in {"approve", "execute_now"}
    /\ p \in req[q].on
    /\ req[q].said # "risky"

Changed(q, p) ==
    IF p \notin locked[q] THEN Untouched(q, p)
    ELSE /\ p \in fresh[q] \/ /\ loaded[q][p].status \in OpenStatuses
                              /\ mine[q][p].risk = loaded[q][p].risk
         /\ IF staged[q][p] = Missing THEN Answered(q, p) ELSE Executed(q, p)

RequestOK(q) ==
    IF Open(q)
    THEN /\ WorkOK(q)
         /\ \A p \in Proposals : /\ HasDraft(loaded[q][p]) /\ HasDraft(mine[q][p])
                                 /\ Stable(q, p) /\ Changed(q, p)
    ELSE Idle(q)

\* Every pair of open requests has met, and no two of them insert one proposal.
Apart ==
    \A q, o \in InFlight : q # o => {q, o} \in met /\ fresh[q] \cap fresh[o] = {}

\* Nothing is recorded of a proposal that is not stored or by a request that is open;
\* proposals are stored with a draft, and one that shows an outcome points to its
\* command, which is recorded.
Grounded ==
    /\ \A q \in Requests, p \in Proposals : changes[<<q, p>>] # Missing =>
          pc[q] = "committed" /\ props[p].status # "absent"
    /\ \A p \in Proposals : HasDraft(props[p])
    /\ \A p \in Proposals :
          /\ props[p].status \in {"executed", "failed"} => props[p].command # Missing
          /\ props[p].command # Missing => /\ props[p].command[2] = p
                                           /\ changes[props[p].command] # Missing

WorkInv ==
    /\ TypeOK /\ Apart /\ Grounded
    /\ \A q \in Requests : RequestOK(q)

-----------------------------------------------------------------------------
(* What is due.                                                            *)

\* Every nonempty set of naturals has a least element.
LEMMA LeastOf ==
    ASSUME NEW S \in SUBSET Nat, S # {}
    PROVE  \E n \in S : \A m \in S : n <= m
<1> DEFINE Below == {0..n : n \in S}
<1>1. Below \subseteq FiniteSubsetsOf(Nat)
  <2>1. \A n \in Nat : 0..n \in SUBSET Nat /\ IsFiniteSet(0..n)
    BY FS_Interval
  <2> QED BY <2>1 DEF FiniteSubsetsOf
<1>2. Below # {}
  OBVIOUS
<1> HIDE DEF Below
<1>3. PICK x \in Below : \A y \in Below : ~(<<y, x>> \in StrictSubsetOrdering(Nat))
  BY <1>1, <1>2, FS_StrictSubsetOrderingWellFounded, WFMin
<1>4. PICK n \in S : x = 0..n
  BY <1>3 DEF Below
<1>5. ASSUME NEW m \in S PROVE n <= m
  <2>1. SUFFICES ASSUME m < n PROVE FALSE
    OBVIOUS
  <2>2. 0..m \in Below
    BY DEF Below
  <2>3. 0..m \subseteq 0..n /\ n \in 0..n /\ n \notin 0..m
    BY <2>1
  <2>4. <<0..m, x>> \in StrictSubsetOrdering(Nat)
    BY <1>4, <2>3 DEF StrictSubsetOrdering
  <2> QED BY <1>3, <2>2, <2>4
<1> QED BY <1>5

\* A request with work left has a first piece of it.
LEMMA DueFirst ==
    ASSUME NEW q \in Requests, TypeOK, WorkOK(q), work[q] # {}
    PROVE  Due(q) \in work[q] /\ \A v \in work[q] : Before(Due(q), v)
<1>1. work[q] \subseteq [op : {"approve", "reject", "revise"}, p : Proposals]
  BY DEF TypeOK
<1>2. Proposals \subseteq Nat
  BY ProposalAssumption DEF Proposals
<1>3. ASSUME NEW op, {w \in work[q] : w.op = op} # {}
      PROVE  \E w \in work[q] : w.op = op /\ \A v \in work[q] : v.op = op => w.p <= v.p
  <2> DEFINE S == {w.p : w \in {v \in work[q] : v.op = op}}
  <2>1. S # {} /\ S \in SUBSET Nat
    BY <1>1, <1>2, <1>3
  <2>2. PICK n \in S : \A m \in S : n <= m
    BY <2>1, LeastOf
  <2> QED BY <2>2
<1>4. \E w \in work[q] : \A v \in work[q] : Before(w, v)
  <2>1. CASE {w \in work[q] : w.op = "reject"} # {}
    <3>1. PICK w \in work[q] :
            w.op = "reject" /\ \A v \in work[q] : v.op = "reject" => w.p <= v.p
      BY <1>3, <2>1
    <3> QED BY <3>1 DEF Before
  <2>2. CASE {w \in work[q] : w.op = "reject"} = {}
    <3>1. PICK v \in work[q] : TRUE
      OBVIOUS
    <3>2. \A w \in work[q] : w.op = v.op
      BY <2>2 DEF WorkOK
    <3>3. PICK w \in work[q] : w.op = v.op /\ \A u \in work[q] : u.op = v.op => w.p <= u.p
      BY <1>3
    <3> QED BY <3>2, <3>3 DEF Before
  <2> QED BY <2>1, <2>2
<1> QED BY <1>4 DEF Due

-----------------------------------------------------------------------------
(* Type correctness, one lemma per action.                                 *)

\* A draft carries a command of the command bus.
LEMMA DraftFacts ==
    \A draft \in Drafts : /\ draft \in DraftRecord /\ draft # Missing
                          /\ draft.command \in Commands
                          /\ draft.command \in CommandRecord
  BY ProposalAssumption, CommandAssumption DEF DraftRecord

\* An assignment of one argument keeps a function in its set.
LEMMA UpdateType ==
    ASSUME NEW S, NEW T, NEW f \in [S -> T], NEW s \in S, NEW t \in T
    PROVE  [f EXCEPT ![s] = t] \in [S -> T]
  OBVIOUS

WorkType == [op : {"approve", "reject", "revise"}, p : Proposals]

RequestType == [from : {"none", "button"} \cup Turns,
                act : Buttons \cup Modes \cup {"none"}, on : SUBSET Proposals,
                draft : Drafts \cup {Missing}, said : {"nothing", "risky", "order", "talk"}]

\* The shapes of single rows and requests.
LEMMA Shapes ==
    ASSUME TypeOK, NEW q \in Requests
    PROVE  /\ req[q] \in RequestType
           /\ \A w \in work[q] : w \in WorkType /\ w.p \in Proposals
           /\ \A p \in Proposals : /\ props[p] \in PropRow /\ loaded[q][p] \in PropRow
                                   /\ mine[q][p] \in PropRow
                                   /\ staged[q][p] \in Application \cup {Missing}
                                   /\ changes[<<q, p>>] \in Change \cup {Missing}
<1>1. /\ props \in [Proposals -> PropRow]
      /\ loaded \in [Requests -> [Proposals -> PropRow]]
      /\ mine \in [Requests -> [Proposals -> PropRow]]
      /\ staged \in [Requests -> [Proposals -> Application \cup {Missing}]]
      /\ changes \in [Ids -> Change \cup {Missing}]
      /\ req \in [Requests -> RequestType]
      /\ work \in [Requests -> SUBSET WorkType]
  BY DEF TypeOK, RequestType, WorkType
<1>2. \A w \in WorkType : w.p \in Proposals
  BY DEF WorkType
<1> HIDE DEF RequestType, WorkType
<1> QED BY <1>1, <1>2 DEF Ids

LEMMA SendersAreRequests == Sendable \subseteq Requests
  BY DEF Sendable

\* A request that arrives leaves the committed rows alone.
LEMMA ArriveType ==
    ASSUME TypeOK, NEW q \in Requests, NEW request \in RequestType, Arrive(q, request),
           mine' \in [Requests -> [Proposals -> PropRow]],
           fresh' \in [Requests -> SUBSET Proposals],
           work' \in [Requests -> SUBSET WorkType]
    PROVE  TypeOK'
<1>1. /\ pc' \in [Requests -> {"unsent", "open", "committed", "aborted"}]
      /\ loaded' \in [Requests -> [Proposals -> PropRow]]
  BY DEF TypeOK, Arrive
<1>2. req' \in [Requests -> RequestType]
  BY DEF TypeOK, Arrive, RequestType
<1>3. met' \subseteq SUBSET Requests
  <2>1. \A o \in InFlight : {q, o} \in SUBSET Requests
    BY DEF InFlight
  <2>2. met' = met \cup {{q, o} : o \in InFlight} /\ met \subseteq SUBSET Requests
    BY DEF Arrive, TypeOK
  <2> QED BY <2>1, <2>2
<1> QED BY <1>1, <1>2, <1>3 DEF TypeOK, Arrive, db, RequestType, WorkType

LEMMA PressType ==
    ASSUME TypeOK, NEW q \in Requests, NEW p \in Proposals, NEW act \in Buttons,
           NEW draft \in Drafts \cup {Missing}, PressButton(q, p, act, draft)
    PROVE  TypeOK'
<1> DEFINE request == [from |-> "button", act |-> act, on |-> {p}, draft |-> draft,
                       said |-> "nothing"]
<1>1. request \in RequestType
  BY DEF RequestType
<1>2. mine' \in [Requests -> [Proposals -> PropRow]]
  BY DEF TypeOK, PressButton
<1>3. work' \in [Requests -> SUBSET WorkType]
  <2>1. (IF act = "ask" THEN {} ELSE {[op |-> act, p |-> p]}) \in SUBSET WorkType
    BY DEF WorkType, Buttons
  <2>2. work \in [Requests -> SUBSET WorkType]
    BY DEF TypeOK, WorkType
  <2>3. work' = [work EXCEPT ![q] = IF act = "ask" THEN {} ELSE {[op |-> act, p |-> p]}]
    BY DEF PressButton
  <2> HIDE DEF WorkType
  <2> QED BY <2>1, <2>2, <2>3, UpdateType
<1>4. Arrive(q, request)
  BY DEF PressButton
<1>5. fresh' \in [Requests -> SUBSET Proposals]
  BY DEF TypeOK, PressButton
<1> HIDE DEF request
<1> QED BY <1>1, <1>2, <1>3, <1>4, <1>5, ArriveType

\* A follow-up about p, one of the open proposals of its window.
FollowsUp(q, via, text, draft, V, p) ==
    LET act == Meaning(text, Cardinality(V)).act
        others == IF act = "approve" /\ SaysOnly(text) THEN V \ {p} ELSE {}
    IN /\ draft \in IF act = "revise" THEN RevisionsOf(p) ELSE {Missing}
       /\ Arrive(q, [from |-> via, act |-> act, on |-> {p}, draft |-> draft,
                     said |-> "nothing"])
       /\ work' = [work EXCEPT ![q] =
            (IF act = "ask" THEN {} ELSE {[op |-> act, p |-> p]})
               \cup {[op |-> "reject", p |-> o] : o \in others}]

LEMMA FollowUpType ==
    ASSUME TypeOK, NEW q \in Requests, NEW via \in Turns, NEW text,
           NEW draft \in Drafts \cup {Missing}, FollowUp(q, via, text, draft)
    PROVE  TypeOK'
<1>1. PICK V \in Windows : \E p \in AtPosition(V, Meaning(text, Cardinality(V)).at) :
         FollowsUp(q, via, text, draft, V, p)
  BY DEF FollowUp, FollowsUp
<1>2. PICK p \in AtPosition(V, Meaning(text, Cardinality(V)).at) :
         FollowsUp(q, via, text, draft, V, p)
  BY <1>1
<1> DEFINE act == Meaning(text, Cardinality(V)).act
           request == [from |-> via, act |-> act, on |-> {p}, draft |-> draft,
                       said |-> "nothing"]
<1>3. act \in Buttons
  BY DEF Meaning, Buttons
<1>4. V \subseteq Proposals /\ p \in V
  BY DEF Windows, Pending, AtPosition
<1>5. Arrive(q, request)
  BY <1>2 DEF FollowsUp
<1> HIDE DEF act
<1>6. request \in RequestType
  BY <1>3, <1>4 DEF RequestType
<1>7. /\ mine' \in [Requests -> [Proposals -> PropRow]]
      /\ fresh' \in [Requests -> SUBSET Proposals]
  BY DEF TypeOK, FollowUp
<1>8. work' \in [Requests -> SUBSET WorkType]
  <2> DEFINE others == IF act = "approve" /\ SaysOnly(text) THEN V \ {p} ELSE {}
             W == (IF act = "ask" THEN {} ELSE {[op |-> act, p |-> p]})
                    \cup {[op |-> "reject", p |-> o] : o \in others}
  <2>1. W \in SUBSET WorkType
    BY <1>3, <1>4 DEF WorkType, Buttons
  <2>2. work \in [Requests -> SUBSET WorkType]
    BY DEF TypeOK, WorkType
  <2>3. work' = [work EXCEPT ![q] = W]
    BY <1>2 DEF FollowsUp, act
  <2> HIDE DEF W, WorkType
  <2> QED BY <2>1, <2>2, <2>3, UpdateType
<1> HIDE DEF request
<1> QED BY <1>5, <1>6, <1>7, <1>8, ArriveType

\* What the policy lets stand becomes proposals of low or medium risk.
LEMMA DraftedType ==
    ASSUME NEW m \in Message, NEW answer \in PlanRecord \cup {NoAnswer},
           PlanFor(m, answer).mode \in {"execute_now", "propose_inline"}, NEW first \in Nat,
           NEW p \in first..(first + Len(PlanFor(m, answer).items) - 1)
    PROVE  /\ Drafted(PlanFor(m, answer), first, p) \in PropRow
           /\ Drafted(PlanFor(m, answer), first, p).status = "pending"
           /\ Drafted(PlanFor(m, answer), first, p).draft # Missing
           /\ Drafted(PlanFor(m, answer), first, p).command = Missing
<1> DEFINE plan == PlanFor(m, answer)
           i == p - first + 1
<1>1. plan.items \in Seq(PlanItem)
  BY PlanForType DEF PlanRecord
<1>2. i \in DOMAIN plan.items
  BY <1>1
<1>3. plan.items[i].risk \in {"low", "medium"}
  BY <1>2, OfferedIsModest
<1>4. plan.items[i].draft \in Drafts
  <2>1. plan.items[i] \in PlanItem
    BY <1>1, <1>2
  <2> QED BY <2>1 DEF PlanItem
<1> QED BY <1>3, <1>4, DraftFacts DEF Drafted, PropRow, OpenStatuses

\* A message that is planned; its proposals get the ids from first on.
NewIds(m, answer, first) ==
    IF PlanFor(m, answer).mode \in {"execute_now", "propose_inline"}
    THEN first..(first + Len(PlanFor(m, answer).items) - 1) ELSE {}

Plans(q, via, m, answer, first) ==
    LET plan == PlanFor(m, answer)
        new == NewIds(m, answer, first)
    IN /\ IsNext(first)
       /\ new \subseteq Proposals
       /\ Arrive(q, [from |-> via, act |-> plan.mode, on |-> new,
                     draft |-> Missing, said |-> Said(m)])
       /\ fresh' = [fresh EXCEPT ![q] = new]
       /\ mine' = [mine EXCEPT ![q] =
            [p \in Proposals |-> IF p \in new THEN Drafted(plan, first, p) ELSE props[p]]]
       /\ work' = [work EXCEPT ![q] =
            IF plan.mode = "execute_now" THEN {[op |-> "approve", p |-> p] : p \in new}
                                         ELSE {}]

LEMMA PlanTurnPlans ==
    ASSUME NEW q, NEW via, NEW m, NEW answer, PlanTurn(q, via, m, answer)
    PROVE  \E first \in Nat : Plans(q, via, m, answer, first)
<1>1. PICK first \in 1..(MaxProposals + 1) : Plans(q, via, m, answer, first)
  BY DEF PlanTurn, Plans, NewIds
<1> QED BY <1>1, ProposalAssumption

\* The ids from the next one on are neither stored nor inserted.
LEMMA NextIsFree ==
    ASSUME NEW first \in Nat, IsNext(first), NEW p \in Proposals, first <= p
    PROVE  props[p].status = "absent" /\ \A q \in Requests : p \notin fresh[q]
<1>1. p \notin Taken
  BY ProposalAssumption DEF IsNext, Proposals
<1> QED BY <1>1 DEF Taken

LEMMA PlanTurnType ==
    ASSUME TypeOK, NEW q \in Requests, NEW via \in Turns, NEW m \in Messages, NEW answer \in Answers,
           PlanTurn(q, via, m, answer)
    PROVE  TypeOK'
<1>0. PICK first \in Nat : Plans(q, via, m, answer, first)
  BY PlanTurnPlans
<1> DEFINE plan == PlanFor(m, answer)
           new == NewIds(m, answer, first)
           request == [from |-> via, act |-> plan.mode, on |-> new,
                       draft |-> Missing, said |-> Said(m)]
<1>1. m \in Message /\ answer \in PlanRecord \cup {NoAnswer}
  BY ProposalAssumption
<1>2. new \subseteq Proposals /\ Arrive(q, request)
  BY <1>0 DEF Plans
<1>3. plan \in PlanRecord
  BY <1>1, PlanForType
<1>4. request \in RequestType
  BY <1>2, <1>3 DEF RequestType, PlanRecord, Said
<1>5. \A p \in new : Drafted(plan, first, p) \in PropRow
  BY <1>1, DraftedType DEF NewIds
<1>6. mine' = [mine EXCEPT ![q] =
                 [p \in Proposals |-> IF p \in new THEN Drafted(plan, first, p) ELSE props[p]]]
  BY <1>0 DEF Plans
<1>7. fresh' = [fresh EXCEPT ![q] = new]
  BY <1>0 DEF Plans
<1>8. work' = [work EXCEPT ![q] =
        IF plan.mode = "execute_now" THEN {[op |-> "approve", p |-> p] : p \in new} ELSE {}]
  BY <1>0 DEF Plans
<1> HIDE DEF new, plan, request
<1>9. mine' \in [Requests -> [Proposals -> PropRow]]
  BY <1>5, <1>6 DEF TypeOK
<1>10. fresh' \in [Requests -> SUBSET Proposals]
  BY <1>2, <1>7 DEF TypeOK
<1>11. work' \in [Requests -> SUBSET WorkType]
  <2> DEFINE W == IF plan.mode = "execute_now"
                  THEN {[op |-> "approve", p |-> p] : p \in new} ELSE {}
  <2>1. W \in SUBSET WorkType
    BY <1>2 DEF WorkType
  <2>2. work \in [Requests -> SUBSET WorkType]
    BY DEF TypeOK, WorkType
  <2>3. work' = [work EXCEPT ![q] = W]
    BY <1>8
  <2> HIDE DEF W, WorkType
  <2> QED BY <2>1, <2>2, <2>3, UpdateType
<1> QED BY <1>2, <1>4, <1>9, <1>10, <1>11, ArriveType

\* Work that is due is an item of the work that is left.
LEMMA DueType ==
    ASSUME TypeOK, NEW q \in Requests, RequestOK(q), NEW op, IsDue(q, op)
    PROVE  /\ Due(q) \in work[q] /\ Due(q).op = op /\ Due(q).p \in Proposals
           /\ Due(q) = [op |-> op, p |-> Due(q).p] /\ Open(q) /\ WorkOK(q)
<1>1. Open(q) /\ WorkOK(q) /\ work[q] # {} /\ Due(q).op = op
  BY DEF IsDue, RequestOK
<1>2. Due(q) \in work[q]
  BY <1>1, DueFirst
<1>3. Due(q) \in WorkType
  BY <1>2 DEF TypeOK, WorkType
<1> QED BY <1>1, <1>2, <1>3 DEF WorkType

LEMMA UpdatesType ==
    ASSUME TypeOK, NEW q \in Requests, NEW p \in Proposals, NEW row \in PropRow,
           Update(q, p, row)
    PROVE  /\ mine' \in [Requests -> [Proposals -> PropRow]]
           /\ locked' \in [Requests -> SUBSET Proposals]
<1>1. /\ mine' = [mine EXCEPT ![q][p] = row]
      /\ locked' = [locked EXCEPT ![q] = @ \cup {p}]
      /\ mine \in [Requests -> [Proposals -> PropRow]]
      /\ locked \in [Requests -> SUBSET Proposals]
  BY DEF Update, TypeOK
<1> QED BY <1>1

LEMMA RejectRowType ==
    ASSUME TypeOK, NEW q \in Requests, NEW p \in Proposals, RejectRow(q, p)
    PROVE  /\ mine' \in [Requests -> [Proposals -> PropRow]]
           /\ locked' \in [Requests -> SUBSET Proposals]
<1>1. mine[q][p] \in PropRow
  BY Shapes
<1>2. [mine[q][p] EXCEPT !.status = "rejected"] \in PropRow
  BY <1>1 DEF PropRow
<1> QED BY <1>2, UpdatesType DEF RejectRow, TypeOK

LEMMA RejectType ==
    ASSUME TypeOK, NEW q \in Requests, RequestOK(q), Reject(q)
    PROVE  TypeOK'
<1>1. /\ mine' \in [Requests -> [Proposals -> PropRow]]
      /\ locked' \in [Requests -> SUBSET Proposals]
  BY DueType, RejectRowType DEF Reject
<1>2. work' \in [Requests -> SUBSET WorkType]
  BY DEF Reject, Done, TypeOK, WorkType
<1> QED BY <1>1, <1>2 DEF Reject, TypeOK, db, WorkType

LEMMA ReviseType ==
    ASSUME TypeOK, NEW q \in Requests, RequestOK(q), Revise(q)
    PROVE  TypeOK'
<1> DEFINE p == Due(q).p
           row == [mine[q][p] EXCEPT !.status = "revised", !.draft = req[q].draft]
<1>1. p \in Proposals /\ Update(q, p, row)
  BY DueType DEF Revise
<1>2. row \in PropRow
  <2>1. mine[q][p] \in PropRow
    BY <1>1, Shapes
  <2>2. req[q] \in RequestType
    BY Shapes
  <2> QED BY <2>1, <2>2 DEF PropRow, OpenStatuses, RequestType
<1>3. /\ mine' \in [Requests -> [Proposals -> PropRow]]
      /\ locked' \in [Requests -> SUBSET Proposals]
  BY <1>1, <1>2, UpdatesType
<1>4. work' \in [Requests -> SUBSET WorkType]
  BY DEF Revise, Done, TypeOK, WorkType
<1> QED BY <1>3, <1>4 DEF Revise, TypeOK, db, WorkType

\* The execution of proposal p by command cmd with outcome out, after which the
\* request has assigned the columns a.
Executes(q, p, cmd, out, a) ==
    /\ [op |-> "approve", p |-> p] = Due(q)
    /\ Due(q) \in work[q]
    /\ mine[q][p].status \in OpenStatuses
    /\ mine[q][p].risk = "low"
    /\ cmd.type = mine[q][p].draft.command.type
    /\ cmd.updates = mine[q][p].draft.command.updates
    /\ Update(q, p, [mine[q][p] EXCEPT !.status = StatusAfter(out), !.command = <<q, p>>])
    /\ staged' = [staged EXCEPT ![q][p] = [outcome |-> out, command |-> cmd]]
    /\ assigned' = [assigned EXCEPT ![q] = a]
    /\ work' = [work EXCEPT ![q] = WorkAfter(q, out)]
    /\ reply' = [reply EXCEPT ![q] = ReplyAfter(out)]

LEMMA AssignType ==
    ASSUME TypeOK, NEW q \in Requests, NEW cmd \in CommandRecord, NEW out \in OutcomeRecord
    PROVE  Assign(q, cmd, out) \in [Items -> [Columns -> Values \cup {Missing}]]
<1>1. assigned[q] \in [Items -> [Columns -> Values \cup {Missing}]]
  BY DEF TypeOK
<1>2. ASSUME NEW i \in Items, NEW c \in Columns
      PROVE  (IF \E v \in Values : <<c, v>> \in out.columns
              THEN CHOOSE v \in Values : <<c, v>> \in out.columns
              ELSE assigned[q][i][c]) \in Values \cup {Missing}
  BY <1>1
<1> QED BY <1>1, <1>2 DEF Assign

LEMMA ExecuteFacts ==
    ASSUME TypeOK, NEW q \in Requests, RequestOK(q), Execute(q)
    PROVE  \E p \in Proposals, cmd \in CommandRecord, out \in OutcomeRecord,
              a \in [Items -> [Columns -> Values \cup {Missing}]] :
                 Executes(q, p, cmd, out, a)
<1> DEFINE p == Due(q).p
<1>1. p \in Proposals /\ [op |-> "approve", p |-> p] = Due(q)
  BY DueType DEF Execute
<1>2. Due(q) \in work[q] /\ Open(q)
  BY DueType DEF Execute
<1> DEFINE row == mine[q][p]
           Cmd(target) == [row.draft.command EXCEPT !.target = target]
           Out(target, vaultOk) == ApplyPayload(Cmd(target), Named(q, Cmd(target)), vaultOk)
<1>3. PICK target \in Targets(q, row.draft), vaultOk \in {TRUE, ~VaultMayFail} :
         LET cmd == Cmd(target)
             out == Out(target, vaultOk)
         IN /\ Executable(row, target)
            /\ Update(q, p, [row EXCEPT !.status = StatusAfter(out), !.command = <<q, p>>])
            /\ staged' = [staged EXCEPT ![q][p] = [outcome |-> out, command |-> cmd]]
            /\ assigned' = [assigned EXCEPT ![q] = Assign(q, cmd, out)]
            /\ work' = [work EXCEPT ![q] = WorkAfter(q, out)]
            /\ reply' = [reply EXCEPT ![q] = ReplyAfter(out)]
  BY DEF Execute
<1> DEFINE cmd == Cmd(target)
           out == Out(target, vaultOk)
<1>4. row.status \in OpenStatuses /\ row.risk = "low"
  BY <1>3 DEF Executable
<1>5. row.draft \in Drafts
  <2>1. row \in PropRow /\ HasDraft(row)
    BY <1>1, <1>2, Shapes DEF RequestOK
  <2> QED BY <1>4, <2>1 DEF PropRow, HasDraft, OpenStatuses
<1>6. row.draft.command \in CommandRecord
  BY <1>5, DraftFacts
<1>7. target \in Items \cup ToolCalls \cup {Missing}
  BY <1>6 DEF Targets, CommandRecord
<1>8. /\ cmd \in CommandRecord
      /\ cmd.type = row.draft.command.type /\ cmd.updates = row.draft.command.updates
  BY <1>6, <1>7 DEF CommandRecord
<1>9. vaultOk \in BOOLEAN
  OBVIOUS
<1>10. out \in OutcomeRecord
  BY <1>8, <1>9, ApplyPayloadType
<1>11. Assign(q, cmd, out) \in [Items -> [Columns -> Values \cup {Missing}]]
  BY <1>8, <1>10, AssignType
<1>12. Executes(q, p, cmd, out, Assign(q, cmd, out))
  BY <1>1, <1>2, <1>3, <1>4, <1>8 DEF Executes
<1> QED BY <1>1, <1>8, <1>10, <1>11, <1>12

LEMMA ExecuteType ==
    ASSUME TypeOK, NEW q \in Requests, RequestOK(q), Execute(q)
    PROVE  TypeOK'
<1>1. PICK p \in Proposals, cmd \in CommandRecord, out \in OutcomeRecord,
           a \in [Items -> [Columns -> Values \cup {Missing}]] : Executes(q, p, cmd, out, a)
  BY ExecuteFacts
<1> DEFINE row == [mine[q][p] EXCEPT !.status = StatusAfter(out), !.command = <<q, p>>]
<1>2. row \in PropRow
  <2>1. mine[q][p] \in PropRow
    BY Shapes
  <2>2. <<q, p>> \in Ids
    BY DEF Ids
  <2> QED BY <2>1, <2>2 DEF PropRow, StatusAfter
<1>3. /\ mine' \in [Requests -> [Proposals -> PropRow]]
      /\ locked' \in [Requests -> SUBSET Proposals]
  <2>1. Update(q, p, row)
    BY <1>1 DEF Executes
  <2> QED BY <1>2, <2>1, UpdatesType
<1>4. work' \in [Requests -> SUBSET WorkType]
  BY <1>1 DEF TypeOK, WorkType, Executes, WorkAfter
<1>5. staged' \in [Requests -> [Proposals -> Application \cup {Missing}]]
  <2>1. [outcome |-> out, command |-> cmd] \in Application
    BY DEF Application
  <2>2. /\ staged' = [staged EXCEPT ![q][p] = [outcome |-> out, command |-> cmd]]
        /\ staged \in [Requests -> [Proposals -> Application \cup {Missing}]]
    BY <1>1 DEF TypeOK, Executes
  <2> QED BY <2>1, <2>2
<1>6. assigned' \in [Requests -> [Items -> [Columns -> Values \cup {Missing}]]]
  BY <1>1 DEF TypeOK, Executes
<1>7. reply' \in [Requests -> {"none", "i did not create anything",
                               "stopped before changing state"}]
  BY <1>1 DEF TypeOK, Executes, ReplyAfter
<1>8. UNCHANGED <<props, changes, rows, items, audit, expired, pc, req, loaded, fresh, met>>
  BY DEF Execute, db
<1> QED BY <1>3, <1>4, <1>5, <1>6, <1>7, <1>8 DEF TypeOK, WorkType

LEMMA RefuseType ==
    ASSUME TypeOK, NEW q \in Requests, RequestOK(q), Refuse(q)
    PROVE  TypeOK'
<1>1. /\ mine' \in [Requests -> [Proposals -> PropRow]]
      /\ locked' \in [Requests -> SUBSET Proposals]
  BY DueType, RejectRowType DEF Refuse
<1>2. work' \in [Requests -> SUBSET WorkType]
  BY DEF Refuse, TypeOK, WorkType
<1>3. reply' \in [Requests -> {"none", "i did not create anything",
                               "stopped before changing state"}]
  BY DEF TypeOK, Refuse
<1> QED BY <1>1, <1>2, <1>3 DEF Refuse, TypeOK, db, WorkType

\* A request that ends, whatever it leaves in the tables.
LEMMA CloseType ==
    ASSUME TypeOK, NEW q \in Requests, NEW end \in {"committed", "aborted"}, Close(q, end),
           props' \in [Proposals -> PropRow],
           changes' \in [Ids -> Change \cup {Missing}],
           rows' \subseteq Tables \X Ids,
           items' \in [Items -> [Columns -> Values]],
           audit' \subseteq AuditTypes \X Ids,
           expired' = expired
    PROVE  TypeOK'
<1>1. NoProps \in [Proposals -> PropRow]
  BY DEF NoProps, NoProp, PropRow
<1>2. /\ loaded' \in [Requests -> [Proposals -> PropRow]]
      /\ mine' \in [Requests -> [Proposals -> PropRow]]
  BY <1>1 DEF TypeOK, Close
<1>3. /\ locked' \in [Requests -> SUBSET Proposals]
      /\ fresh' \in [Requests -> SUBSET Proposals]
      /\ work' \in [Requests -> SUBSET WorkType]
  BY DEF TypeOK, Close, WorkType
<1>4. staged' \in [Requests -> [Proposals -> Application \cup {Missing}]]
  BY DEF TypeOK, Close
<1>5. assigned' \in [Requests -> [Items -> [Columns -> Values \cup {Missing}]]]
  BY DEF TypeOK, Close, Unassigned
<1>6. pc' \in [Requests -> {"unsent", "open", "committed", "aborted"}]
  BY DEF TypeOK, Close
<1> QED BY <1>2, <1>3, <1>4, <1>5, <1>6 DEF Close, TypeOK, WorkType

LEMMA RolledBackType ==
    ASSUME TypeOK, NEW q \in Requests, Close(q, "aborted"), UNCHANGED <<db, expired>>
    PROVE  TypeOK'
<1>1. UNCHANGED <<props, changes, rows, items, audit, expired>>
  BY DEF db
<1>2. /\ props' \in [Proposals -> PropRow]
      /\ changes' \in [Ids -> Change \cup {Missing}]
      /\ rows' \subseteq Tables \X Ids
      /\ items' \in [Items -> [Columns -> Values]]
      /\ audit' \subseteq AuditTypes \X Ids
  BY <1>1 DEF TypeOK
<1> QED BY <1>1, <1>2, CloseType

LEMMA AuditTrailType ==
    ASSUME TypeOK, NEW q \in Requests
    PROVE  AuditTrail(q) \subseteq AuditTypes \X Ids
<1>1. \A p \in Proposals : <<q, p>> \in Ids
  BY DEF Ids
<1>2. fresh[q] \subseteq Proposals /\ locked[q] \subseteq Proposals
  BY DEF TypeOK
<1>3. Applied(q) \subseteq Proposals
  BY DEF Applied
<1>4. \A status : AuditOf(status) \subseteq AuditTypes
  BY DEF AuditOf, AuditTypes
<1>5. {"action_proposal.created", "action_proposal.rejected", "action_proposal.revised",
       "action_proposal.executed"} \subseteq AuditTypes
  BY DEF AuditTypes
<1>6. \A p \in Applied(q) :
        AuditOf(staged[q][p].outcome.status) \X {<<q, p>>} \subseteq AuditTypes \X Ids
  BY <1>1, <1>3, <1>4
<1> QED BY <1>1, <1>2, <1>3, <1>5, <1>6 DEF AuditTrail

\* What a commit makes of a proposal is a row again.
LEMMA WrittenType ==
    ASSUME TypeOK, NEW q \in Requests, NEW p \in Proposals
    PROVE  Written(q, p) \in PropRow
<1>1. props[p] \in PropRow /\ mine[q][p] \in PropRow
  BY Shapes
<1> QED BY <1>1 DEF Written, PropRow

LEMMA CommitType ==
    ASSUME TypeOK, NEW q \in Requests, Commit(q)
    PROVE  TypeOK'
<1>1. props' \in [Proposals -> PropRow]
  <2>1. \A p \in Proposals : props[p] \in PropRow /\ mine[q][p] \in PropRow
    BY Shapes
  <2> QED BY <2>1, WrittenType DEF Commit
<1>2. \A p \in Applied(q) : p \in Proposals /\ staged[q][p] \in Application
  BY Shapes DEF Applied
<1>3. changes' \in [Ids -> Change \cup {Missing}]
  <2>1. changes \in [Ids -> Change \cup {Missing}]
    BY DEF TypeOK
  <2>2. \A p \in Applied(q) : [status  |-> staged[q][p].outcome.status,
                               command |-> staged[q][p].command] \in Change
    BY <1>2 DEF Application, Change, OutcomeRecord
  <2> HIDE DEF Change
  <2> QED BY <2>1, <2>2 DEF Commit
<1>4. rows' \subseteq Tables \X Ids
  <2>1. \A p \in Applied(q) :
          staged[q][p].outcome.inserts \subseteq Tables /\ <<q, p>> \in Ids
    BY <1>2 DEF Application, OutcomeRecord, Ids
  <2>2. \A p \in Applied(q) :
          staged[q][p].outcome.inserts \X {<<q, p>>} \subseteq Tables \X Ids
    BY <2>1
  <2>3. UNION {staged[q][p].outcome.inserts \X {<<q, p>>} : p \in Applied(q)}
          \subseteq Tables \X Ids
    BY <2>2
  <2>4. rows \subseteq Tables \X Ids
    BY DEF TypeOK
  <2>5. rows' = rows \cup UNION {staged[q][p].outcome.inserts \X {<<q, p>>} : p \in Applied(q)}
    BY DEF Commit
  <2> QED BY <2>3, <2>4, <2>5
<1>5. items' \in [Items -> [Columns -> Values]]
  <2>1. /\ assigned[q] \in [Items -> [Columns -> Values \cup {Missing}]]
        /\ items \in [Items -> [Columns -> Values]]
    BY DEF TypeOK
  <2>2. \A i \in Items : Item(q, i) \in [Columns -> Values]
    BY <2>1 DEF Item
  <2> QED BY <2>2 DEF Commit
<1>6. audit' \subseteq AuditTypes \X Ids
  BY AuditTrailType DEF Commit, TypeOK
<1> QED BY <1>1, <1>3, <1>4, <1>5, <1>6, CloseType DEF Commit

LEMMA InitType == Init => TypeOK
<1> SUFFICES ASSUME Init PROVE TypeOK
  OBVIOUS
<1>1. NoProps \in [Proposals -> PropRow]
  BY DEF NoProps, NoProp, PropRow
<1>2. \A q \in Requests : req[q] \in RequestType
  BY DEF Init, NoRequest, RequestType
<1>3. req \in [Requests -> RequestType]
  BY <1>2 DEF Init
<1>4. assigned \in [Requests -> [Items -> [Columns -> Values \cup {Missing}]]]
  BY DEF Init, Unassigned
<1> QED BY <1>1, <1>3, <1>4 DEF Init, TypeOK, RequestType

-----------------------------------------------------------------------------
(* The inductive invariant, one lemma per action.                          *)

\* A step of some other request.
Same(q) ==
    /\ pc'[q] = pc[q] /\ req'[q] = req[q]
    /\ loaded'[q] = loaded[q] /\ mine'[q] = mine[q]
    /\ locked'[q] = locked[q] /\ fresh'[q] = fresh[q] /\ work'[q] = work[q]
    /\ staged'[q] = staged[q] /\ assigned'[q] = assigned[q]

LEMMA SameStable ==
    ASSUME NEW q \in Requests, NEW p \in Proposals, Stable(q, p), Same(q), UNCHANGED <<props, changes>>
    PROVE  Stable(q, p)'
  BY DEF Stable, Same

\* It leaves the request as it is, if the rows it knows of stay what they are.
LEMMA SameOK ==
    ASSUME NEW q \in Requests, RequestOK(q), Same(q),
           Open(q) => \A p \in Proposals : Stable(q, p)'
    PROVE  RequestOK(q)'
<1>1. Open(q)' <=> Open(q)
  BY DEF Open, Same
<1>2. CASE ~Open(q)
  BY <1>1, <1>2 DEF RequestOK, Idle, Same
<1>3. CASE Open(q)
  <2>1. WorkOK(q)'
    BY <1>3 DEF RequestOK, WorkOK, Same
  <2>2. ASSUME NEW p \in Proposals
        PROVE  HasDraft(loaded[q][p])' /\ HasDraft(mine[q][p])' /\ Changed(q, p)'
    BY <1>3 DEF RequestOK, HasDraft, Changed, Untouched, Answered, Executed, Same
  <2> QED BY <1>1, <1>3, <2>1, <2>2 DEF RequestOK
<1> QED BY <1>2, <1>3

\* A request arrives: what it does with the proposals it read is left to show.
LEMMA ArriveOK ==
    ASSUME WorkInv, NEW q \in Requests, NEW request, Arrive(q, request), TypeOK',
           \A o \in InFlight : fresh'[q] \cap fresh[o] = {},
           \A o \in Requests \ {q} : /\ mine'[o] = mine[o] /\ fresh'[o] = fresh[o]
                                     /\ work'[o] = work[o],
           RequestOK(q)'
    PROVE  WorkInv'
<1>1. /\ pc[q] = "unsent" /\ pc' = [pc EXCEPT ![q] = "open"]
      /\ req' = [req EXCEPT ![q] = request]
      /\ loaded' = [loaded EXCEPT ![q] = props]
      /\ met' = met \cup {{q, o} : o \in InFlight}
      /\ UNCHANGED <<props, changes, locked, staged, assigned>>
  BY DEF Arrive, db
<1>2. /\ pc \in [Requests -> {"unsent", "open", "committed", "aborted"}]
      /\ DOMAIN req = Requests /\ DOMAIN loaded = Requests
  BY DEF WorkInv, TypeOK
<1>3. ASSUME NEW o \in Requests \ {q} PROVE RequestOK(o)'
  <2>1. Same(o)
    BY <1>1, <1>2 DEF Same
  <2>2. RequestOK(o)
    BY DEF WorkInv
  <2> QED BY <1>1, <2>1, <2>2, SameOK, SameStable DEF RequestOK
<1>4. Apart'
  <2>1. SUFFICES ASSUME NEW o \in InFlight', NEW r \in InFlight', o # r
                 PROVE  ({o, r} \in met /\ fresh[o] \cap fresh[r] = {})'
    BY DEF Apart
  <2>2. \A s \in InFlight' : s = q \/ (s \in InFlight /\ fresh'[s] = fresh[s] /\ s # q)
    BY <1>1, <1>2 DEF InFlight, Open
  <2>3. CASE o = q
    BY <1>1, <2>1, <2>2, <2>3
  <2>4. CASE r = q
    <3>1. {o, r} = {q, o}
      BY <2>4
    <3> QED BY <1>1, <2>1, <2>2, <2>4, <3>1
  <2>5. CASE o # q /\ r # q
    BY <1>1, <2>1, <2>2, <2>5 DEF WorkInv, Apart
  <2> QED BY <2>3, <2>4, <2>5
<1>5. Grounded'
  BY <1>1, <1>2 DEF WorkInv, Grounded, HasDraft
<1> QED BY <1>3, <1>4, <1>5 DEF WorkInv

\* What a request that arrives starts with.
LEMMA ArriveRead ==
    ASSUME TypeOK, NEW q \in Requests, NEW request, Arrive(q, request), NEW M, NEW W,
           mine' = [mine EXCEPT ![q] = M], work' = [work EXCEPT ![q] = W]
    PROVE  /\ pc'[q] = "open" /\ req'[q] = request /\ loaded'[q] = props
           /\ mine'[q] = M /\ work'[q] = W
<1>1. /\ DOMAIN pc = Requests /\ DOMAIN req = Requests /\ DOMAIN loaded = Requests
      /\ DOMAIN mine = Requests /\ DOMAIN work = Requests
  BY DEF TypeOK
<1> QED BY <1>1 DEF Arrive

LEMMA PressOK ==
    ASSUME WorkInv, NEW q \in Requests, NEW p \in Proposals, NEW act \in Buttons,
           NEW draft \in IF act = "revise" THEN RevisionsOf(p) ELSE {Missing},
           PressButton(q, p, act, draft)
    PROVE  WorkInv'
<1> DEFINE request == [from |-> "button", act |-> act, on |-> {p}, draft |-> draft,
                       said |-> "nothing"]
<1>1. draft \in Drafts \cup {Missing} /\ (act = "revise" => draft # Missing)
  BY DraftFacts DEF RevisionsOf
<1>2. TypeOK /\ TypeOK'
  BY <1>1, PressType DEF WorkInv
<1>3. /\ Arrive(q, request)
      /\ props[p].status # "absent"
      /\ mine' = [mine EXCEPT ![q] = props]
      /\ work' = [work EXCEPT ![q] = IF act = "ask" THEN {} ELSE {[op |-> act, p |-> p]}]
      /\ fresh' = fresh
  BY DEF PressButton
<1>4. pc[q] = "unsent" /\ UNCHANGED <<props, changes, locked, staged, assigned>>
  BY <1>3 DEF Arrive, db
<1>5. Idle(q)
  BY <1>4 DEF WorkInv, RequestOK, Open
<1>6. /\ pc'[q] = "open" /\ req'[q] = request /\ loaded'[q] = props
      /\ mine'[q] = props
      /\ work'[q] = IF act = "ask" THEN {} ELSE {[op |-> act, p |-> p]}
  <2> HIDE DEF request
  <2> QED BY <1>2, <1>3, ArriveRead
<1>7. locked'[q] = {} /\ fresh'[q] = {} /\ \A o \in Proposals : staged'[q][o] = Missing
  BY <1>3, <1>4, <1>5 DEF Idle
<1>8. WorkOK(q)'
  BY <1>1, <1>3, <1>6, <1>7 DEF WorkOK
<1>9. \A o \in Proposals : /\ HasDraft(loaded[q][o])' /\ HasDraft(mine[q][o])'
                           /\ Stable(q, o)' /\ Changed(q, o)'
  BY <1>4, <1>6, <1>7 DEF WorkInv, Grounded, HasDraft, Stable, Changed, Untouched
<1>10. RequestOK(q)'
  BY <1>6, <1>8, <1>9 DEF RequestOK, Open
<1>11. \A o \in Requests \ {q} : mine'[o] = mine[o] /\ fresh'[o] = fresh[o] /\ work'[o] = work[o]
  BY <1>2, <1>3 DEF TypeOK
<1>12. \A o \in InFlight : fresh'[q] \cap fresh[o] = {}
  BY <1>7
<1> HIDE DEF request
<1> QED BY <1>2, <1>3, <1>10, <1>11, <1>12, ArriveOK

LEMMA FollowUpOK ==
    ASSUME WorkInv, NEW q \in Requests, NEW via \in Turns, NEW text,
           NEW draft \in Drafts \cup {Missing}, FollowUp(q, via, text, draft)
    PROVE  WorkInv'
<1>1. PICK V \in Windows : \E p \in AtPosition(V, Meaning(text, Cardinality(V)).at) :
         FollowsUp(q, via, text, draft, V, p)
  BY DEF FollowUp, FollowsUp
<1>2. PICK p \in AtPosition(V, Meaning(text, Cardinality(V)).at) :
         FollowsUp(q, via, text, draft, V, p)
  BY <1>1
<1> DEFINE act == Meaning(text, Cardinality(V)).act
           others == IF act = "approve" /\ SaysOnly(text) THEN V \ {p} ELSE {}
           W == (IF act = "ask" THEN {} ELSE {[op |-> act, p |-> p]})
                   \cup {[op |-> "reject", p |-> o] : o \in others}
           request == [from |-> via, act |-> act, on |-> {p}, draft |-> draft,
                       said |-> "nothing"]
<1>3. act \in Buttons
  BY DEF Meaning, Buttons
<1>4. TypeOK /\ TypeOK'
  BY FollowUpType DEF WorkInv
<1>5. /\ Arrive(q, request) /\ work' = [work EXCEPT ![q] = W]
      /\ draft \in IF act = "revise" THEN RevisionsOf(p) ELSE {Missing}
  BY <1>2 DEF FollowsUp
<1>6. mine' = [mine EXCEPT ![q] = props] /\ fresh' = fresh
  BY DEF FollowUp
<1>7. pc[q] = "unsent" /\ UNCHANGED <<props, changes, locked, staged, assigned>>
  BY <1>5 DEF Arrive, db
<1>8. Idle(q)
  BY <1>7 DEF WorkInv, RequestOK, Open
<1> HIDE DEF act, W
<1>9. /\ pc'[q] = "open" /\ req'[q] = request /\ loaded'[q] = props
      /\ mine'[q] = props /\ work'[q] = W
  <2> HIDE DEF request
  <2> QED BY <1>4, <1>5, <1>6, ArriveRead
<1>10. locked'[q] = {} /\ fresh'[q] = {} /\ \A o \in Proposals : staged'[q][o] = Missing
  BY <1>6, <1>7, <1>8 DEF Idle
<1>11. WorkOK(q)'
  <2>1. p \in V /\ \A o \in V : o \in Proposals /\ props[o].status # "absent"
    BY DEF Windows, Pending, AtPosition, OpenStatuses
  <2>2. act = "revise" => draft # Missing
    BY <1>5, DraftFacts DEF RevisionsOf
  <2>3. ASSUME act # "reject", NEW w \in W
        PROVE  \/ w = [op |-> act, p |-> p]
               \/ w.op = "reject" /\ w.p \in V \ {p} /\ w = [op |-> "reject", p |-> w.p]
    <3>1. CASE w \in {[op |-> "reject", p |-> o] : o \in others}
      BY <3>1
    <3>2. CASE w \in (IF act = "ask" THEN {} ELSE {[op |-> act, p |-> p]})
      BY <3>2
    <3> QED BY <3>1, <3>2 DEF W
  <2>4. act = "reject" => \A w \in W : w = [op |-> "reject", p |-> p]
    BY DEF W
  <2>5. \A w \in W : w.p \in V
    BY <2>1, <2>3, <2>4
  <2>6. \A v, w \in W : v.p = w.p => v = w
    BY <2>3, <2>4
  <2>7. \A w \in W : w.op # "reject" => w = [op |-> act, p |-> p]
    BY <2>3, <2>4
  <2>8. ASSUME NEW w \in W
        PROVE  /\ mine'[q][w.p].status # "absent" /\ w.p \notin locked'[q]
               /\ w.op = "revise" => /\ req'[q].act = "revise" /\ req'[q].draft # Missing
                                     /\ w.p \in req'[q].on
               /\ w.op = "approve" => /\ req'[q].act \in {"approve", "execute_now"}
                                      /\ w.p \in req'[q].on /\ req'[q].said # "risky"
    BY <1>9, <1>10, <2>1, <2>2, <2>5, <2>7
  <2> QED BY <1>9, <2>6, <2>7, <2>8 DEF WorkOK
<1>12. \A o \in Proposals : /\ HasDraft(loaded[q][o])' /\ HasDraft(mine[q][o])'
                            /\ Stable(q, o)' /\ Changed(q, o)'
  BY <1>7, <1>9, <1>10 DEF WorkInv, Grounded, HasDraft, Stable, Changed, Untouched
<1>13. RequestOK(q)'
  BY <1>9, <1>11, <1>12 DEF RequestOK, Open
<1>14. \A o \in Requests \ {q} : mine'[o] = mine[o] /\ fresh'[o] = fresh[o] /\ work'[o] = work[o]
  BY <1>4, <1>5, <1>6 DEF TypeOK
<1>15. \A o \in InFlight : fresh'[q] \cap fresh[o] = {}
  BY <1>10
<1> HIDE DEF request
<1> QED BY <1>4, <1>5, <1>13, <1>14, <1>15, ArriveOK

LEMMA PlanTurnOK ==
    ASSUME WorkInv, NEW q \in Requests, NEW via \in Turns, NEW m \in Messages, NEW answer \in Answers,
           PlanTurn(q, via, m, answer)
    PROVE  WorkInv'
<1>0. PICK first \in Nat : Plans(q, via, m, answer, first)
  BY PlanTurnPlans
<1> DEFINE plan == PlanFor(m, answer)
           new == NewIds(m, answer, first)
           M == [p \in Proposals |-> IF p \in new THEN Drafted(plan, first, p) ELSE props[p]]
           W == IF plan.mode = "execute_now" THEN {[op |-> "approve", p |-> p] : p \in new}
                                             ELSE {}
           request == [from |-> via, act |-> plan.mode, on |-> new,
                       draft |-> Missing, said |-> Said(m)]
<1>1. m \in Message /\ answer \in PlanRecord \cup {NoAnswer}
  BY ProposalAssumption
<1>2. TypeOK /\ TypeOK'
  BY PlanTurnType DEF WorkInv
<1>3. /\ Arrive(q, request) /\ IsNext(first) /\ new \subseteq Proposals
      /\ fresh' = [fresh EXCEPT ![q] = new]
      /\ mine' = [mine EXCEPT ![q] = M]
      /\ work' = [work EXCEPT ![q] = W]
  BY <1>0 DEF Plans
<1>4. pc[q] = "unsent" /\ UNCHANGED <<props, changes, locked, staged, assigned>>
  BY <1>3 DEF Arrive, db
<1>5. Idle(q)
  BY <1>4 DEF WorkInv, RequestOK, Open
<1>6. /\ pc'[q] = "open" /\ req'[q] = request /\ loaded'[q] = props
      /\ mine'[q] = M /\ work'[q] = W
  <2> HIDE DEF request, M, W
  <2> QED BY <1>2, <1>3, ArriveRead
<1>7. locked'[q] = {} /\ fresh'[q] = new /\ \A o \in Proposals : staged'[q][o] = Missing
  <2>1. DOMAIN fresh = Requests
    BY <1>2 DEF TypeOK
  <2> HIDE DEF new, M, W, request
  <2> QED BY <1>3, <1>4, <1>5, <2>1 DEF Idle
<1>8. \A p \in new : /\ M[p].status = "pending" /\ M[p].draft # Missing
                     /\ M[p].command = Missing
  BY <1>1, <1>3, DraftedType DEF NewIds
<1>9. \A p \in new : props[p].status = "absent" /\ \A o \in Requests : p \notin fresh[o]
  <2>1. \A p \in new : p \in Proposals /\ first <= p
    BY <1>3 DEF NewIds
  <2> QED BY <1>3, <2>1, NextIsFree
<1>10. plan.mode = "execute_now" => Said(m) # "risky"
  BY <1>1, RiskyIsNeverDone DEF Said
<1>11. WorkOK(q)'
  <2> HIDE DEF new, M, plan
  <2>1. \A w \in W : /\ w = [op |-> "approve", p |-> w.p] /\ w.p \in new
                     /\ plan.mode = "execute_now"
    OBVIOUS
  <2> HIDE DEF W
  <2>2. \A w \in W : mine'[q][w.p].status # "absent" /\ w.p \notin locked'[q]
    BY <1>6, <1>7, <1>8, <2>1
  <2> QED BY <1>6, <1>10, <2>1, <2>2 DEF WorkOK
<1>12. \A o \in Proposals : /\ HasDraft(loaded[q][o])' /\ HasDraft(mine[q][o])'
                            /\ Stable(q, o)' /\ Changed(q, o)'
  <2> SUFFICES ASSUME NEW o \in Proposals
               PROVE  /\ HasDraft(loaded[q][o])' /\ HasDraft(mine[q][o])'
                      /\ Stable(q, o)' /\ Changed(q, o)'
    OBVIOUS
  <2>1. o \notin new => M[o] = props[o]
    OBVIOUS
  <2> HIDE DEF new, M, request
  <2>2. /\ HasDraft(props[o])
        /\ props[o].command # Missing => changes[props[o].command] # Missing
    BY DEF WorkInv, Grounded
  <2>3. HasDraft(loaded[q][o])' /\ HasDraft(mine[q][o])'
    BY <1>6, <1>8, <2>1, <2>2 DEF HasDraft
  <2>4. Stable(q, o)'
    BY <1>4, <1>6, <1>7, <1>9, <2>2 DEF Stable
  <2>5. Changed(q, o)'
    BY <1>6, <1>7, <1>8, <2>1 DEF Changed, Untouched
  <2> QED BY <2>3, <2>4, <2>5
<1>13. RequestOK(q)'
  <2> HIDE DEF request, M, W, new
  <2> QED BY <1>6, <1>11, <1>12 DEF RequestOK, Open
<1>14. \A o \in Requests \ {q} : mine'[o] = mine[o] /\ fresh'[o] = fresh[o] /\ work'[o] = work[o]
  <2> HIDE DEF M, W, new
  <2> QED BY <1>2, <1>3 DEF TypeOK
<1>15. \A o \in InFlight : fresh'[q] \cap fresh[o] = {}
  BY <1>7, <1>9 DEF InFlight
<1> HIDE DEF request
<1> QED BY <1>2, <1>3, <1>13, <1>14, <1>15, ArriveOK

\* A request goes on: the rows and the other requests stay as they are.
WorksOn(q) ==
    /\ UNCHANGED <<db, pc, req, loaded, fresh, met>>
    /\ \A o \in Requests \ {q} : /\ mine'[o] = mine[o] /\ locked'[o] = locked[o]
                                 /\ work'[o] = work[o] /\ staged'[o] = staged[o]
                                 /\ assigned'[o] = assigned[o]

LEMMA WorksOnOK ==
    ASSUME WorkInv, TypeOK', NEW q \in Requests, Open(q), WorksOn(q), WorkOK(q)',
           \A p \in Proposals : HasDraft(mine[q][p])' /\ Changed(q, p)'
    PROVE  WorkInv'
<1>1. UNCHANGED <<props, changes, pc, req, loaded, fresh, met>>
  BY DEF WorksOn, db
<1>2. ASSUME NEW o \in Requests, Open(o), NEW p \in Proposals PROVE Stable(o, p)'
  BY <1>1, <1>2 DEF WorkInv, RequestOK, Stable
<1>3. ASSUME NEW o \in Requests \ {q} PROVE RequestOK(o)'
  <2>1. Same(o)
    BY <1>1 DEF WorksOn, Same
  <2>2. RequestOK(o)
    BY DEF WorkInv
  <2> QED BY <1>2, <2>1, <2>2, SameOK
<1>4. RequestOK(q)'
  <2>1. \A p \in Proposals : HasDraft(loaded[q][p])'
    BY <1>1 DEF WorkInv, RequestOK, HasDraft
  <2> QED BY <1>1, <1>2, <2>1 DEF RequestOK, Open
<1>5. Apart' /\ Grounded'
  BY <1>1 DEF WorkInv, Apart, Grounded, HasDraft, InFlight, Open
<1> QED BY <1>3, <1>4, <1>5 DEF WorkInv

\* What is left after an item of the work was done.
LEMMA LessWork ==
    ASSUME NEW q \in Requests, WorkOK(q), NEW d \in work[q], req'[q] = req[q],
           work'[q] \subseteq work[q] \ {d},
           \A w \in work[q] : w.p # d.p => mine'[q][w.p] = mine[q][w.p],
           locked'[q] \subseteq locked[q] \cup {d.p}
    PROVE  WorkOK(q)'
<1>1. \A w \in work'[q] : w \in work[q] /\ w.p # d.p
  BY DEF WorkOK
<1> QED BY <1>1 DEF WorkOK

\* Where an update goes.
LEMMA UpdateFacts ==
    ASSUME TypeOK, NEW q \in Requests, NEW p \in Proposals, NEW row, Update(q, p, row)
    PROVE  /\ mine'[q][p] = row
           /\ \A o \in Proposals \ {p} : mine'[q][o] = mine[q][o]
           /\ locked'[q] = locked[q] \cup {p}
           /\ \A o \in Requests \ {q} : mine'[o] = mine[o] /\ locked'[o] = locked[o]
<1>1. /\ mine \in [Requests -> [Proposals -> PropRow]]
      /\ locked \in [Requests -> SUBSET Proposals]
  BY DEF TypeOK
<1> QED BY <1>1 DEF Update

\* A proposal the request does nothing about.
LEMMA ElseOK ==
    ASSUME NEW q, NEW o, HasDraft(mine[q][o]), Changed(q, o),
           req'[q] = req[q], fresh'[q] = fresh[q], loaded'[q] = loaded[q],
           mine'[q][o] = mine[q][o], staged'[q][o] = staged[q][o],
           o \in locked'[q] <=> o \in locked[q]
    PROVE  HasDraft(mine[q][o])' /\ Changed(q, o)'
  BY DEF HasDraft, Changed, Untouched, Answered, Executed

\* A proposal is rejected or revised.
LEMMA AnswerOK ==
    ASSUME WorkInv, NEW q \in Requests, Open(q), NEW p \in Proposals, NEW row,
           Update(q, p, row), UNCHANGED <<req, loaded, fresh, staged>>,
           p \notin locked[q], mine[q][p].status \in OpenStatuses,
           row.risk = mine[q][p].risk, row.command = mine[q][p].command,
           row.draft # Missing,
           \/ row.status = "rejected"
           \/ row.status = "revised" /\ req[q].act = "revise" /\ p \in req[q].on
    PROVE  \A o \in Proposals : HasDraft(mine[q][o])' /\ Changed(q, o)'
<1>1. TypeOK /\ RequestOK(q)
  BY DEF WorkInv
<1>2. /\ mine'[q][p] = row
      /\ \A o \in Proposals \ {p} : mine'[q][o] = mine[q][o]
      /\ locked'[q] = locked[q] \cup {p}
  BY <1>1, UpdateFacts
<1>3. ASSUME NEW o \in Proposals \ {p} PROVE HasDraft(mine[q][o])' /\ Changed(q, o)'
  BY <1>1, <1>2, <1>3, ElseOK DEF RequestOK
<1>4. Untouched(q, p)
  BY <1>1 DEF RequestOK, Changed
<1>5. HasDraft(mine[q][p])' /\ Changed(q, p)'
  BY <1>2, <1>4 DEF HasDraft, Changed, Untouched, Answered
<1> QED BY <1>3, <1>5

LEMMA RejectRowOK ==
    ASSUME WorkInv, NEW q \in Requests, Open(q), NEW d \in work[q], d.p \in Proposals,
           RejectRow(q, d.p), UNCHANGED <<req, loaded, fresh, staged>>
    PROVE  /\ \A o \in Proposals : HasDraft(mine[q][o])' /\ Changed(q, o)'
           /\ \A o \in Proposals \ {d.p} : mine'[q][o] = mine[q][o]
           /\ locked'[q] \subseteq locked[q] \cup {d.p}
           /\ \A o \in Requests \ {q} : mine'[o] = mine[o] /\ locked'[o] = locked[o]
<1> DEFINE p == d.p
           row == [mine[q][p] EXCEPT !.status = "rejected"]
<1>1. TypeOK /\ RequestOK(q)
  BY DEF WorkInv
<1>2. p \notin locked[q]
  BY <1>1 DEF RequestOK, WorkOK
<1>3. CASE mine[q][p].status \in OpenStatuses
  <2>1. Update(q, p, row)
    BY <1>3 DEF RejectRow
  <2>2. mine[q][p] \in PropRow /\ HasDraft(mine[q][p])
    BY <1>1, Shapes DEF RequestOK
  <2>3. /\ row.risk = mine[q][p].risk /\ row.command = mine[q][p].command
        /\ row.draft # Missing /\ row.status = "rejected"
    BY <1>3, <2>2 DEF PropRow, HasDraft, OpenStatuses
  <2> HIDE DEF row, p
  <2>4. \A o \in Proposals : HasDraft(mine[q][o])' /\ Changed(q, o)'
    BY <1>2, <1>3, <2>1, <2>3, AnswerOK DEF p
  <2> QED BY <1>1, <2>1, <2>4, UpdateFacts DEF p
<1>4. CASE mine[q][p].status \notin OpenStatuses
  <2>1. UNCHANGED <<mine, locked>>
    BY <1>4 DEF RejectRow
  <2>2. \A o \in Proposals : HasDraft(mine[q][o])' /\ Changed(q, o)'
    BY <1>1, <2>1, ElseOK DEF RequestOK
  <2> QED BY <2>1, <2>2
<1> QED BY <1>3, <1>4

LEMMA RejectOK ==
    ASSUME WorkInv, NEW q \in Requests, Reject(q)
    PROVE  WorkInv'
<1>1. TypeOK /\ RequestOK(q) /\ TypeOK'
  BY RejectType DEF WorkInv
<1>2. PICK d \in work[q] : d = Due(q) /\ d.p \in Proposals /\ Open(q) /\ WorkOK(q)
  BY <1>1, DueType DEF Reject
<1>3. /\ \A o \in Proposals : HasDraft(mine[q][o])' /\ Changed(q, o)'
      /\ \A o \in Proposals \ {d.p} : mine'[q][o] = mine[q][o]
      /\ locked'[q] \subseteq locked[q] \cup {d.p}
      /\ \A o \in Requests \ {q} : mine'[o] = mine[o] /\ locked'[o] = locked[o]
  BY <1>2, RejectRowOK DEF Reject
<1>4. /\ work'[q] = work[q] \ {d}
      /\ \A o \in Requests \ {q} : work'[o] = work[o]
  BY <1>1, <1>2 DEF Reject, Done, TypeOK
<1>5. \A w \in work[q] : w.p \in Proposals
  BY <1>1, Shapes
<1>6. WorkOK(q)' /\ WorksOn(q)
  BY <1>2, <1>3, <1>4, <1>5, LessWork DEF Reject, WorksOn
<1> QED BY <1>1, <1>2, <1>3, <1>6, WorksOnOK

LEMMA RefuseOK ==
    ASSUME WorkInv, NEW q \in Requests, Refuse(q)
    PROVE  WorkInv'
<1>1. TypeOK /\ RequestOK(q) /\ TypeOK'
  BY RefuseType DEF WorkInv
<1>2. PICK d \in work[q] : d = Due(q) /\ d.p \in Proposals /\ Open(q) /\ WorkOK(q)
  BY <1>1, DueType DEF Refuse
<1>3. /\ \A o \in Proposals : HasDraft(mine[q][o])' /\ Changed(q, o)'
      /\ \A o \in Requests \ {q} : mine'[o] = mine[o] /\ locked'[o] = locked[o]
  BY <1>2, RejectRowOK DEF Refuse
<1>4. work'[q] = {} /\ \A o \in Requests \ {q} : work'[o] = work[o]
  BY <1>1 DEF Refuse, TypeOK
<1>5. WorkOK(q)' /\ WorksOn(q)
  BY <1>3, <1>4 DEF Refuse, WorksOn, WorkOK
<1> QED BY <1>1, <1>2, <1>3, <1>5, WorksOnOK

LEMMA ReviseOK ==
    ASSUME WorkInv, NEW q \in Requests, Revise(q)
    PROVE  WorkInv'
<1>1. TypeOK /\ RequestOK(q) /\ TypeOK'
  BY ReviseType DEF WorkInv
<1> DEFINE d == Due(q)
           row == [mine[q][d.p] EXCEPT !.status = "revised", !.draft = req[q].draft]
<1>2. d \in work[q] /\ d.op = "revise" /\ d.p \in Proposals /\ Open(q) /\ WorkOK(q)
  BY <1>1, DueType DEF Revise
<1>3. /\ Update(q, d.p, row) /\ mine[q][d.p].status \in OpenStatuses
      /\ UNCHANGED <<db, pc, req, loaded, fresh, staged, assigned, met>>
  BY DEF Revise
<1>4. /\ d.p \notin locked[q] /\ req[q].act = "revise" /\ req[q].draft # Missing
      /\ d.p \in req[q].on
  BY <1>2 DEF WorkOK
<1>5. /\ row.risk = mine[q][d.p].risk /\ row.command = mine[q][d.p].command
      /\ row.draft = req[q].draft /\ row.status = "revised"
  <2>1. mine[q][d.p] \in PropRow
    BY <1>1, <1>2, Shapes
  <2> QED BY <2>1 DEF PropRow
<1>6. work'[q] = work[q] \ {d} /\ \A o \in Requests \ {q} : work'[o] = work[o]
  BY <1>1 DEF Revise, Done, TypeOK
<1>7. \A w \in work[q] : w.p \in Proposals
  BY <1>1, Shapes
<1> HIDE DEF row, d
<1>8. \A o \in Proposals : HasDraft(mine[q][o])' /\ Changed(q, o)'
  BY <1>2, <1>3, <1>4, <1>5, AnswerOK
<1>9. /\ \A o \in Proposals \ {d.p} : mine'[q][o] = mine[q][o]
      /\ locked'[q] = locked[q] \cup {d.p}
      /\ \A o \in Requests \ {q} : mine'[o] = mine[o] /\ locked'[o] = locked[o]
  BY <1>1, <1>2, <1>3, UpdateFacts
<1>10. WorkOK(q)' /\ WorksOn(q)
  BY <1>2, <1>3, <1>6, <1>7, <1>9, LessWork DEF WorksOn
<1> QED BY <1>1, <1>2, <1>8, <1>10, WorksOnOK

LEMMA ExecuteOK ==
    ASSUME WorkInv, NEW q \in Requests, Execute(q)
    PROVE  WorkInv'
<1>1. TypeOK /\ RequestOK(q) /\ TypeOK'
  BY ExecuteType DEF WorkInv
<1>2. PICK p \in Proposals, cmd \in CommandRecord, out \in OutcomeRecord,
           a \in [Items -> [Columns -> Values \cup {Missing}]] : Executes(q, p, cmd, out, a)
  BY <1>1, ExecuteFacts
<1> DEFINE d == [op |-> "approve", p |-> p]
           row == [mine[q][p] EXCEPT !.status = StatusAfter(out), !.command = <<q, p>>]
           app == [outcome |-> out, command |-> cmd]
<1>3. Open(q) /\ WorkOK(q) /\ d \in work[q]
  BY <1>1, <1>2 DEF Execute, IsDue, RequestOK, Executes
<1>4. /\ Update(q, p, row) /\ mine[q][p].status \in OpenStatuses /\ mine[q][p].risk = "low"
      /\ cmd.type = mine[q][p].draft.command.type
      /\ cmd.updates = mine[q][p].draft.command.updates
      /\ staged' = [staged EXCEPT ![q][p] = app]
  BY <1>2 DEF Executes
<1>5. UNCHANGED <<db, pc, req, loaded, fresh, met>>
  BY DEF Execute
<1>6. /\ p \notin locked[q] /\ req[q].act \in {"approve", "execute_now"}
      /\ p \in req[q].on /\ req[q].said # "risky"
  BY <1>3 DEF WorkOK
<1>7. mine[q][p] \in PropRow /\ HasDraft(mine[q][p]) /\ Untouched(q, p)
  BY <1>1, <1>3, <1>6, Shapes DEF RequestOK, Changed
<1>8. /\ row.risk = "low" /\ row.command = <<q, p>> /\ row.draft = mine[q][p].draft
      /\ row.status = StatusAfter(out) /\ row.draft # Missing
  BY <1>4, <1>7 DEF PropRow, HasDraft, OpenStatuses
<1>9. app \in Application /\ app # Missing
  BY ProposalAssumption DEF Application
<1>10. /\ staged'[q][p] = app
       /\ \A o \in Proposals \ {p} : staged'[q][o] = staged[q][o]
       /\ \A o \in Requests \ {q} : staged'[o] = staged[o]
  <2>1. staged \in [Requests -> [Proposals -> Application \cup {Missing}]]
    BY <1>1 DEF TypeOK
  <2> HIDE DEF app
  <2> QED BY <1>4, <2>1
<1>11. app.outcome = out /\ app.command = cmd
  OBVIOUS
<1>12. /\ work'[q] \subseteq work[q] \ {d}
       /\ \A o \in Requests \ {q} : work'[o] = work[o] /\ assigned'[o] = assigned[o]
  <2>1. /\ work' = [work EXCEPT ![q] = WorkAfter(q, out)]
        /\ assigned' = [assigned EXCEPT ![q] = a] /\ Due(q) = d
    BY <1>2 DEF Executes
  <2>2. DOMAIN work = Requests /\ DOMAIN assigned = Requests
    BY <1>1 DEF TypeOK
  <2> QED BY <2>1, <2>2 DEF WorkAfter
<1>13. \A w \in work[q] : w.p \in Proposals
  BY <1>1, Shapes
<1> HIDE DEF row, app
<1>14. /\ mine'[q][p] = row
       /\ \A o \in Proposals \ {p} : mine'[q][o] = mine[q][o]
       /\ locked'[q] = locked[q] \cup {p}
       /\ \A o \in Requests \ {q} : mine'[o] = mine[o] /\ locked'[o] = locked[o]
  BY <1>1, <1>4, UpdateFacts
<1>15. WorkOK(q)' /\ WorksOn(q)
  <2>1. d.p = p
    OBVIOUS
  <2> HIDE DEF d
  <2> QED BY <1>3, <1>5, <1>10, <1>12, <1>13, <1>14, <2>1, LessWork DEF WorksOn
<1>16. ASSUME NEW o \in Proposals \ {p} PROVE HasDraft(mine[q][o])' /\ Changed(q, o)'
  <2>1. HasDraft(mine[q][o]) /\ Changed(q, o)
    BY <1>1, <1>3 DEF RequestOK
  <2> QED BY <1>5, <1>10, <1>14, <1>16, <2>1, ElseOK
<1>17. HasDraft(mine[q][p])' /\ Changed(q, p)'
  <2>1. HasDraft(mine[q][p])'
    BY <1>8, <1>14 DEF HasDraft
  <2>2. Executed(q, p)'
    BY <1>4, <1>5, <1>6, <1>7, <1>8, <1>10, <1>11, <1>14 DEF Executed, Untouched
  <2>3. p \in fresh[q] \/ (loaded[q][p].status \in OpenStatuses /\ row.risk = loaded[q][p].risk)
    BY <1>4, <1>7, <1>8 DEF Untouched
  <2>4. UNCHANGED <<loaded, fresh>>
    BY <1>5
  <2> QED BY <1>9, <1>10, <1>14, <2>1, <2>2, <2>3, <2>4 DEF Changed
<1> QED BY <1>1, <1>3, <1>15, <1>16, <1>17, WorksOnOK

\* The end of a request.
LEMMA CloseFacts ==
    ASSUME TypeOK, NEW q \in Requests, NEW end \in {"committed", "aborted"}, Close(q, end)
    PROVE  /\ pc'[q] = end /\ ~Open(q)' /\ Idle(q)' /\ UNCHANGED <<req, met>>
           /\ \A o \in Requests \ {q} : Same(o)
           /\ \A o \in Requests : pc'[o] # pc[o] => o = q
<1>1. /\ DOMAIN pc = Requests /\ DOMAIN loaded = Requests /\ DOMAIN mine = Requests
      /\ DOMAIN locked = Requests /\ DOMAIN fresh = Requests /\ DOMAIN work = Requests
      /\ DOMAIN staged = Requests /\ DOMAIN assigned = Requests
  BY DEF TypeOK
<1> QED BY <1>1 DEF Close, Open, Idle, Same, Unassigned

LEMMA CloseOK ==
    ASSUME WorkInv, TypeOK', NEW q \in Requests, NEW end \in {"committed", "aborted"},
           Close(q, end), Grounded',
           \A o \in Requests \ {q} : Open(o) => \A p \in Proposals : Stable(o, p)'
    PROVE  WorkInv'
<1>1. TypeOK /\ Apart /\ \A o \in Requests : RequestOK(o)
  BY DEF WorkInv
<1>2. \A o \in Requests \ {q} : RequestOK(o)'
  BY <1>1, CloseFacts, SameOK
<1>3. RequestOK(q)'
  BY <1>1, CloseFacts DEF RequestOK
<1>4. Apart'
  <2>1. /\ UNCHANGED met
        /\ \A o \in Requests : Open(o)' => Open(o) /\ fresh'[o] = fresh[o]
    BY <1>1, CloseFacts DEF Open, Same
  <2> QED BY <1>1, <2>1 DEF Apart, InFlight
<1> QED BY <1>2, <1>3, <1>4 DEF WorkInv

LEMMA RolledBackOK ==
    ASSUME WorkInv, NEW q \in Requests, Open(q), Close(q, "aborted"), UNCHANGED <<db, expired>>
    PROVE  WorkInv'
<1>1. TypeOK /\ TypeOK' /\ UNCHANGED <<props, changes>>
  BY RolledBackType DEF WorkInv, db
<1>2. \A o \in Requests \ {q} : Same(o)
  BY <1>1, CloseFacts
<1>3. ASSUME NEW o \in Requests \ {q}, Open(o), NEW p \in Proposals PROVE Stable(o, p)'
  BY <1>1, <1>2, <1>3, SameStable DEF WorkInv, RequestOK
<1>4. Grounded'
  <2>1. \A o \in Requests : pc[o] = "committed" => pc'[o] = "committed"
    BY <1>1, CloseFacts DEF Open
  <2> QED BY <1>1, <2>1 DEF WorkInv, Grounded, HasDraft
<1> QED BY <1>1, <1>3, <1>4, CloseOK

\* The columns a commit writes.
LEMMA WrittenFacts ==
    ASSUME TypeOK, NEW q \in Requests, NEW p \in Proposals
    PROVE  LET new == Written(q, p)
           IN /\ new.status = IF mine[q][p].status # loaded[q][p].status
                              THEN mine[q][p].status ELSE props[p].status
              /\ new.draft = IF mine[q][p].draft # loaded[q][p].draft
                             THEN mine[q][p].draft ELSE props[p].draft
              /\ new.command = IF mine[q][p].command # loaded[q][p].command
                               THEN mine[q][p].command ELSE props[p].command
              /\ new.risk = props[p].risk /\ new.born = props[p].born
<1>1. props[p] \in PropRow
  BY Shapes
<1> QED BY <1>1 DEF Written, PropRow

\* What a commit adds to the record, and that it adds it for its own request only.
LEMMA CommitChanges ==
    ASSUME WorkInv, NEW q \in Requests, Commit(q)
    PROVE  /\ \A o \in Requests \ {q}, p \in Proposals : changes'[<<o, p>>] = changes[<<o, p>>]
           /\ \A p \in Proposals :
                 /\ changes[<<q, p>>] = Missing
                 /\ staged[q][p] = Missing => changes'[<<q, p>>] = Missing
                 /\ staged[q][p] # Missing =>
                       /\ changes'[<<q, p>>] # Missing
                       /\ changes'[<<q, p>>].status = staged[q][p].outcome.status
                       /\ changes'[<<q, p>>].command = staged[q][p].command
           /\ \A id \in Ids : changes[id] # Missing => changes'[id] = changes[id]
<1>1. TypeOK /\ Grounded /\ pc[q] = "open"
  BY DEF WorkInv, Commit, Open
<1>2. \A p \in Proposals : changes[<<q, p>>] = Missing
  BY <1>1 DEF Grounded
<1>3. \A o \in Requests, p \in Proposals :
        changes'[<<o, p>>] =
          IF o = q /\ p \in Applied(q)
          THEN [status  |-> staged[q][p].outcome.status, command |-> staged[q][p].command]
          ELSE changes[<<o, p>>]
  BY DEF Commit, Ids
<1>4. ASSUME NEW p \in Proposals, staged[q][p] # Missing
      PROVE  [status  |-> staged[q][p].outcome.status, command |-> staged[q][p].command]
                \in Change
  <2>1. staged[q][p] \in Application
    BY <1>1, <1>4, Shapes
  <2> QED BY <2>1 DEF Application, OutcomeRecord, Change
<1>5. \A p \in Proposals : p \in Applied(q) <=> staged[q][p] # Missing
  BY DEF Applied
<1>6. ASSUME NEW p \in Proposals, staged[q][p] # Missing
      PROVE  /\ changes'[<<q, p>>] # Missing
             /\ changes'[<<q, p>>].status = staged[q][p].outcome.status
             /\ changes'[<<q, p>>].command = staged[q][p].command
  <2> DEFINE change == [status  |-> staged[q][p].outcome.status,
                        command |-> staged[q][p].command]
  <2>1. changes'[<<q, p>>] = change
    BY <1>3, <1>5, <1>6
  <2>2. change # Missing
    BY <1>4, <1>6, ProposalAssumption
  <2> QED BY <2>1, <2>2
<1>7. \A o \in Requests \ {q}, p \in Proposals : changes'[<<o, p>>] = changes[<<o, p>>]
  BY <1>3
<1>8. \A p \in Proposals : staged[q][p] = Missing => changes'[<<q, p>>] = Missing
  BY <1>2, <1>3, <1>5
<1>9. ASSUME NEW id \in Ids, changes[id] # Missing PROVE changes'[id] = changes[id]
  <2>1. PICK o \in Requests, p \in Proposals : id = <<o, p>>
    BY DEF Ids
  <2> QED BY <1>2, <1>7, <1>9, <2>1
<1> QED BY <1>2, <1>6, <1>7, <1>8, <1>9

\* What a commit makes of one proposal.
LEMMA CommitRow ==
    ASSUME WorkInv, NEW q \in Requests, Commit(q), NEW p \in Proposals
    PROVE  /\ HasDraft(props[p])'
           /\ props[p].status # "absent" => /\ props'[p].status # "absent"
                                            /\ props'[p].risk = props[p].risk
           /\ props'[p].status # "absent" <=> props[p].status # "absent" \/ p \in fresh[q]
           /\ staged[q][p] # Missing => props'[p].status # "absent"
           /\ props'[p].status \in {"executed", "failed"} => props'[p].command # Missing
           /\ props'[p].command # Missing => /\ props'[p].command[2] = p
                                             /\ changes'[props'[p].command] # Missing
<1>1. TypeOK /\ Grounded /\ Open(q) /\ Stable(q, p) /\ Changed(q, p)
      /\ HasDraft(mine[q][p]) /\ HasDraft(loaded[q][p]) /\ HasDraft(props[p])
  BY DEF WorkInv, RequestOK, Commit, Grounded
<1>2. props'[p] = IF p \in fresh[q] THEN mine[q][p]
                  ELSE IF p \in locked[q] THEN Written(q, p) ELSE props[p]
  BY DEF Commit
<1>3. /\ mine[q][p].command \in Ids \cup {Missing}
      /\ loaded[q][p].command \in Ids \cup {Missing}
      /\ props[p].command \in Ids \cup {Missing}
  BY <1>1, Shapes DEF PropRow
<1>4. /\ <<q, p>> \in Ids /\ <<q, p>> # Missing
      /\ staged[q][p] # Missing => changes'[<<q, p>>] # Missing
      /\ loaded[q][p].command # <<q, p>>
  <2>1. <<q, p>> \in Ids /\ <<q, p>> # Missing
    BY ProposalAssumption DEF Ids
  <2>2. changes[<<q, p>>] = Missing /\ (staged[q][p] # Missing => changes'[<<q, p>>] # Missing)
    BY CommitChanges
  <2>3. loaded[q][p].command # <<q, p>>
    BY <1>1, <2>1, <2>2 DEF Stable
  <2> QED BY <2>1, <2>2, <2>3
<1>5. \A id \in Ids : changes[id] # Missing => changes'[id] # Missing
  BY CommitChanges
<1>6. StatusAfter(staged[q][p].outcome) \in {"executed", "failed"}
  BY DEF StatusAfter
<1>7. <<q, p>>[2] = p
  OBVIOUS
<1>8. CASE p \in fresh[q]
  <2>1. props[p].status = "absent" /\ props'[p] = mine[q][p]
    BY <1>1, <1>2, <1>8 DEF Stable
  <2>2. CASE p \notin locked[q]
    BY <1>1, <1>8, <2>1, <2>2 DEF Changed, Untouched, HasDraft
  <2>3. CASE p \in locked[q] /\ staged[q][p] = Missing
    BY <1>1, <1>8, <2>1, <2>3 DEF Changed, Answered, HasDraft
  <2>4. CASE p \in locked[q] /\ staged[q][p] # Missing
    <3>1. mine[q][p].command = <<q, p>> /\ mine[q][p].status \in {"executed", "failed"}
      BY <1>1, <1>6, <2>4 DEF Changed, Executed
    <3>2. props'[p].command = <<q, p>> /\ props'[p].command[2] = p
      BY <2>1, <3>1
    <3>3. HasDraft(props[p])'
      BY <1>1, <2>1 DEF HasDraft
    <3> QED BY <1>4, <1>8, <2>1, <2>4, <3>1, <3>2, <3>3
  <2> QED BY <2>2, <2>3, <2>4
<1>9. CASE p \notin fresh[q] /\ p \notin locked[q]
  <2>1. props'[p] = props[p] /\ staged[q][p] = Missing
    BY <1>1, <1>2, <1>9 DEF Changed, Untouched
  <2> QED BY <1>1, <1>3, <1>5, <1>9, <2>1 DEF Grounded, HasDraft
<1>10. CASE p \notin fresh[q] /\ p \in locked[q]
  <2>1. /\ props[p].status # "absent" /\ loaded[q][p].status \in OpenStatuses
    BY <1>1, <1>10 DEF Changed, Stable, OpenStatuses
  <2>2. /\ props'[p].status = IF mine[q][p].status # loaded[q][p].status
                              THEN mine[q][p].status ELSE props[p].status
        /\ props'[p].draft = IF mine[q][p].draft # loaded[q][p].draft
                             THEN mine[q][p].draft ELSE props[p].draft
        /\ props'[p].command = IF mine[q][p].command # loaded[q][p].command
                               THEN mine[q][p].command ELSE props[p].command
        /\ props'[p].risk = props[p].risk
    BY <1>1, <1>2, <1>10, WrittenFacts
  <2>3. mine[q][p].status # "absent" /\ props[p].draft # Missing /\ mine[q][p].draft # Missing
    BY <1>1, <1>6, <1>10, <2>1 DEF Changed, Answered, Executed, HasDraft
  <2>4. CASE staged[q][p] = Missing
    <3>1. mine[q][p].command = loaded[q][p].command /\ mine[q][p].status \in {"rejected", "revised"}
      BY <1>1, <1>10, <2>4 DEF Changed, Answered
    <3> QED BY <1>1, <1>3, <1>5, <1>10, <2>1, <2>2, <2>3, <2>4, <3>1 DEF Grounded, HasDraft
  <2>5. CASE staged[q][p] # Missing
    <3>1. mine[q][p].command = <<q, p>> /\ mine[q][p].status \in {"executed", "failed"}
      BY <1>1, <1>6, <1>10, <2>5 DEF Changed, Executed
    <3> QED BY <1>4, <1>7, <1>10, <2>1, <2>2, <2>3, <2>5, <3>1 DEF HasDraft
  <2> QED BY <2>4, <2>5
<1> QED BY <1>8, <1>9, <1>10

LEMMA CommitOK ==
    ASSUME WorkInv, NEW q \in Requests, Commit(q)
    PROVE  WorkInv'
<1>1. /\ TypeOK /\ TypeOK' /\ Grounded /\ Apart
      /\ Open(q) /\ RequestOK(q) /\ Close(q, "committed")
  BY CommitType DEF WorkInv, Commit
<1>2. /\ \A o \in Requests \ {q} : Same(o)
      /\ pc'[q] = "committed" /\ UNCHANGED req
      /\ \A o \in Requests : pc'[o] # pc[o] => o = q
  BY <1>1, CloseFacts
<1>3. ASSUME NEW o \in Requests \ {q}, Open(o), NEW p \in Proposals PROVE Stable(o, p)'
  <2>1. Stable(o, p) /\ RequestOK(o)
    BY <1>3 DEF WorkInv, RequestOK
  <2>2. p \in fresh[o] => props'[p].status = "absent"
    <3>1. p \in fresh[o] => p \notin fresh[q]
      BY <1>1, <1>3 DEF Apart, InFlight
    <3> QED BY <2>1, <3>1, CommitRow DEF Stable
  <2>3. loaded[o][p].status # "absent" => /\ props'[p].status # "absent"
                                          /\ props'[p].risk = loaded[o][p].risk
    BY <2>1, CommitRow DEF Stable
  <2>4. loaded[o][p].command # Missing => changes'[loaded[o][p].command] # Missing
    <3>1. loaded[o][p].command \in Ids \cup {Missing}
      BY <1>1, Shapes DEF PropRow
    <3> QED BY <2>1, <3>1, CommitChanges DEF Stable
  <2> QED BY <1>2, <2>1, <2>2, <2>3, <2>4 DEF Stable, Same
<1>4. Grounded'
  <2>1. ASSUME NEW o \in Requests, NEW p \in Proposals, changes'[<<o, p>>] # Missing
        PROVE  pc'[o] = "committed" /\ props'[p].status # "absent"
    <3>1. CASE o = q
      BY <1>2, <2>1, <3>1, CommitChanges, CommitRow
    <3>2. CASE o # q
      BY <1>1, <1>2, <2>1, <3>2, CommitChanges, CommitRow DEF Grounded, Open
    <3> QED BY <3>1, <3>2
  <2>2. \A p \in Proposals : HasDraft(props[p])'
    BY CommitRow
  <2>3. \A p \in Proposals :
          /\ props'[p].status \in {"executed", "failed"} => props'[p].command # Missing
          /\ props'[p].command # Missing => /\ props'[p].command[2] = p
                                            /\ changes'[props'[p].command] # Missing
    BY CommitRow
  <2> QED BY <2>1, <2>2, <2>3 DEF Grounded
<1> QED BY <1>1, <1>3, <1>4, CloseOK

LEMMA ExpireType ==
    ASSUME TypeOK, NEW p \in Proposals, Expire(p)
    PROVE  TypeOK'
  BY DEF Expire, TypeOK, db, local

\* A step that touches neither the rows nor the requests.
LEMMA WorkQuiet ==
    ASSUME WorkInv, TypeOK', UNCHANGED <<props, changes, pc, req, local, met>>
    PROVE  WorkInv'
<1>1. UNCHANGED <<loaded, mine, locked, fresh, work, staged, assigned>>
  BY DEF local
<1>2. ASSUME NEW q \in Requests PROVE RequestOK(q)'
  <2>1. Same(q) /\ RequestOK(q)
    BY <1>1 DEF Same, WorkInv
  <2> QED BY <2>1, SameOK, SameStable DEF RequestOK
<1>3. Apart' /\ Grounded'
  BY <1>1 DEF WorkInv, Apart, Grounded, HasDraft, InFlight, Open
<1> QED BY <1>2, <1>3 DEF WorkInv

LEMMA WorkInit == Init => WorkInv
<1> SUFFICES ASSUME Init PROVE WorkInv
  OBVIOUS
<1>1. TypeOK
  BY InitType
<1>2. ASSUME NEW q \in Requests PROVE ~Open(q) /\ Idle(q)
  BY DEF Init, Open, Idle, Unassigned
<1>3. Apart
  BY <1>2 DEF Apart, InFlight
<1>4. Grounded
  <2>1. \A p \in Proposals : props[p].status = "absent" /\ props[p].command = Missing
    BY DEF Init, NoProps, NoProp
  <2>2. \A q \in Requests, p \in Proposals : changes[<<q, p>>] = Missing
    BY DEF Init, Ids
  <2> QED BY <2>1, <2>2 DEF Grounded, HasDraft
<1> QED BY <1>1, <1>2, <1>3, <1>4 DEF WorkInv, RequestOK

\* The steps a request takes that Next does not name one by one.
LEMMA RaiseCloses ==
    ASSUME NEW q \in Requests, Raise(q) \/ Abort(q)
    PROVE  Open(q) /\ Close(q, "aborted") /\ UNCHANGED <<db, expired>>
  BY DEF Raise, Abort

LEMMA WorkStep == WorkInv /\ [Next]_vars => WorkInv'
<1> SUFFICES ASSUME WorkInv, [Next]_vars PROVE WorkInv'
  OBVIOUS
<1>1. ASSUME NEW q \in Requests, NEW p \in Proposals, NEW act \in Buttons,
             NEW draft \in IF act = "revise" THEN RevisionsOf(p) ELSE {Missing},
             PressButton(q, p, act, draft)
      PROVE  WorkInv'
  BY <1>1, PressOK
<1>2. ASSUME NEW q \in Requests, NEW via \in Turns, NEW text \in Texts,
             NEW draft \in Drafts \cup {Missing}, FollowUp(q, via, text, draft)
      PROVE  WorkInv'
  BY <1>2, FollowUpOK
<1>3. ASSUME NEW q \in Requests, NEW via \in Turns, NEW m \in Messages,
             NEW answer \in Answers, PlanTurn(q, via, m, answer)
      PROVE  WorkInv'
  BY <1>3, PlanTurnOK
<1>4. ASSUME NEW q \in Requests, Reject(q) \/ Revise(q) \/ Execute(q) \/ Refuse(q)
      PROVE  WorkInv'
  BY <1>4, RejectOK, ReviseOK, ExecuteOK, RefuseOK
<1>5. ASSUME NEW q \in Requests, Raise(q) \/ Commit(q) \/ Abort(q)
      PROVE  WorkInv'
  BY <1>5, RaiseCloses, RolledBackOK, CommitOK
<1>6. ASSUME NEW p \in Proposals, Expire(p) PROVE WorkInv'
  BY <1>6, ExpireType, WorkQuiet DEF WorkInv, Expire, db
<1>7. CASE UNCHANGED vars
  <2>1. TypeOK'
    BY <1>7 DEF vars, db, local, WorkInv, TypeOK
  <2> QED BY <1>7, <2>1, WorkQuiet DEF vars, db
<1> QED BY <1>1, <1>2, <1>3, <1>4, <1>5, <1>6, <1>7, SendersAreRequests DEF Next

LEMMA WorkAlways == Spec => []WorkInv
  BY WorkInit, WorkStep, PTL DEF Spec

\* Type correctness of the action loop.
THEOREM ProposalsTypeCorrect == Spec => []TypeOK
<1>1. WorkInv => TypeOK
  BY DEF WorkInv
<1> QED BY <1>1, WorkAlways, PTL

-----------------------------------------------------------------------------
(* What is recorded.                                                       *)

\* Only a commit writes rows, and nothing changes about a request after it.
Quiet ==
    /\ UNCHANGED <<props, changes, rows, items, audit>>
    /\ met \subseteq met'
    /\ \A q \in Requests :
          /\ pc'[q] = "committed" <=> pc[q] = "committed"
          /\ pc[q] = "committed" => req'[q] = req[q] /\ reply'[q] = reply[q]

LEMMA ArriveQuiet ==
    ASSUME TypeOK, NEW q \in Requests, NEW request, Arrive(q, request)
    PROVE  Quiet
<1>1. DOMAIN pc = Requests /\ DOMAIN req = Requests
  BY DEF TypeOK
<1> QED BY <1>1 DEF Arrive, Quiet, db

LEMMA WorksQuiet ==
    ASSUME TypeOK, NEW q \in Requests, Open(q), UNCHANGED <<db, pc, req, met>>,
           \A o \in Requests \ {q} : reply'[o] = reply[o]
    PROVE  Quiet
  BY DEF Quiet, Open, db

LEMMA CommitOrQuiet ==
    ASSUME WorkInv, [Next]_vars
    PROVE  Quiet \/ \E q \in Requests : Commit(q)
<1>1. TypeOK /\ DOMAIN reply = Requests
  BY DEF WorkInv, TypeOK
<1>2. ASSUME NEW q \in Requests, NEW p \in Proposals, NEW act \in Buttons,
             NEW draft, PressButton(q, p, act, draft)
      PROVE  Quiet
  BY <1>1, <1>2, ArriveQuiet DEF PressButton
<1>3. ASSUME NEW q \in Requests, NEW via, NEW text, NEW draft, FollowUp(q, via, text, draft)
      PROVE  Quiet
  <2>1. PICK V \in Windows : \E p \in AtPosition(V, Meaning(text, Cardinality(V)).at) :
           FollowsUp(q, via, text, draft, V, p)
    BY <1>3 DEF FollowUp, FollowsUp
  <2> QED BY <1>1, <2>1, ArriveQuiet DEF FollowsUp
<1>4. ASSUME NEW q \in Requests, NEW via, NEW m, NEW answer,
             PlanTurn(q, via, m, answer)
      PROVE  Quiet
  BY <1>1, <1>4, ArriveQuiet DEF PlanTurn
<1>5. ASSUME NEW q \in Requests, Reject(q) \/ Revise(q) PROVE Quiet
  BY <1>1, <1>5, WorksQuiet DEF Reject, Revise, IsDue
<1>6. ASSUME NEW q \in Requests, Execute(q) PROVE Quiet
  <2>1. PICK p \in Proposals, cmd \in CommandRecord, out \in OutcomeRecord,
             a \in [Items -> [Columns -> Values \cup {Missing}]] : Executes(q, p, cmd, out, a)
    BY <1>6, ExecuteFacts DEF WorkInv
  <2>2. \A o \in Requests \ {q} : reply'[o] = reply[o]
    BY <1>1, <2>1 DEF Executes
  <2>3. Open(q) /\ UNCHANGED <<db, pc, req, met>>
    BY <1>6 DEF Execute, IsDue
  <2> QED BY <1>1, <2>2, <2>3, WorksQuiet
<1>7. ASSUME NEW q \in Requests, Refuse(q) PROVE Quiet
  <2>1. \A o \in Requests \ {q} : reply'[o] = reply[o]
    BY <1>1, <1>7 DEF Refuse
  <2>2. Open(q) /\ UNCHANGED <<db, pc, req, met>>
    BY <1>7 DEF Refuse, IsDue
  <2> QED BY <1>1, <2>1, <2>2, WorksQuiet
<1>8. ASSUME NEW q \in Requests, Raise(q) \/ Abort(q) PROVE Quiet
  <2>1. Open(q) /\ Close(q, "aborted") /\ UNCHANGED db
    BY <1>8, RaiseCloses
  <2>2. UNCHANGED <<req, reply, met>> /\ pc' = [pc EXCEPT ![q] = "aborted"] /\ DOMAIN pc = Requests
    BY <1>1, <2>1 DEF Close, TypeOK
  <2> QED BY <2>1, <2>2 DEF Quiet, Open, db
<1>9. ASSUME NEW p \in Proposals, Expire(p) PROVE Quiet
  BY <1>9 DEF Expire, Quiet, db, local
<1>10. CASE UNCHANGED vars
  BY <1>10 DEF vars, Quiet, db, local
<1> QED BY <1>2, <1>3, <1>4, <1>5, <1>6, <1>7, <1>8, <1>9, <1>10,
       SendersAreRequests DEF Next

\* What a commit records was executed by the request, and a commit of another request
\* takes nothing from what was recorded before.
LEMMA CommitRecords ==
    ASSUME WorkInv, NEW q \in Requests, Commit(q)
    PROVE  /\ pc'[q] = "committed" /\ UNCHANGED <<req, reply, met>>
           /\ \A o \in Requests \ {q} : pc'[o] = pc[o]
           /\ \A p \in Proposals : staged[q][p] # Missing =>
                 /\ Executed(q, p) /\ p \in locked[q]
                 /\ props'[p].risk = "low"
                 /\ staged[q][p].outcome.status \in {"applied", "failed"}
<1>1. /\ TypeOK /\ Open(q) /\ Close(q, "committed") /\ RequestOK(q)
  BY DEF WorkInv, Commit
<1>2. /\ pc'[q] = "committed" /\ UNCHANGED <<req, reply, met>>
      /\ \A o \in Requests \ {q} : pc'[o] = pc[o]
  BY <1>1, CloseFacts DEF Close, Same
<1>3. ASSUME NEW p \in Proposals, staged[q][p] # Missing
      PROVE  /\ Executed(q, p) /\ p \in locked[q]
             /\ props'[p].risk = "low"
             /\ staged[q][p].outcome.status \in {"applied", "failed"}
  <2>1. Stable(q, p) /\ Changed(q, p)
    BY <1>1 DEF RequestOK
  <2>2. p \in locked[q] /\ Executed(q, p)
    BY <1>3, <2>1 DEF Changed, Untouched
  <2>3. ASSUME p \in fresh[q] PROVE props'[p].risk = "low"
    BY <2>2, <2>3 DEF Commit, Executed
  <2>4. ASSUME p \notin fresh[q] PROVE props'[p].risk = "low"
    <3>1. loaded[q][p].status \in OpenStatuses /\ mine[q][p].risk = loaded[q][p].risk
      BY <2>1, <2>2, <2>4 DEF Changed
    <3>2. props[p].status # "absent" /\ props[p].risk = "low"
      BY <2>1, <2>2, <3>1 DEF Stable, OpenStatuses, Executed
    <3> QED BY <3>2, CommitRow
  <2>5. staged[q][p].outcome.status \in {"applied", "failed"}
    <3>1. staged[q][p] \in Application
      BY <1>1, <1>3, Shapes
    <3> QED BY <3>1 DEF Application, OutcomeRecord
  <2>6. props'[p].risk = "low"
    BY <2>3, <2>4
  <2> QED BY <2>2, <2>5, <2>6
<1> QED BY <1>2, <1>3

\* Nothing runs without consent: the owner approved it, or a message that needs no
\* review had it carried out at once; and then it is of low risk.
THEOREM NothingRunsUnasked == Spec => []Consented
<1>1. Init => Consented
  BY DEF Init, Consented, Ids
<1>2. Consented /\ WorkInv /\ [Next]_vars => Consented'
  <2> SUFFICES ASSUME Consented, WorkInv, [Next]_vars PROVE Consented'
    OBVIOUS
  <2>1. CASE Quiet
    BY <2>1 DEF Quiet, Consented
  <2>2. ASSUME NEW q \in Requests, Commit(q) PROVE Consented'
    <3>1. SUFFICES ASSUME NEW o \in Requests, NEW p \in Proposals, changes'[<<o, p>>] # Missing
                   PROVE  /\ pc'[o] = "committed"
                          /\ req'[o].act \in {"approve", "execute_now"}
                          /\ p \in req'[o].on
                          /\ props'[p].risk = "low"
                          /\ req'[o].said # "risky"
      BY DEF Consented
    <3>2. CASE o = q
      BY <2>2, <3>1, <3>2, CommitChanges, CommitRecords DEF Executed
    <3>3. CASE o # q
      <4>1. changes[<<o, p>>] # Missing
        BY <2>2, <3>1, <3>3, CommitChanges
      <4>2. props[p].status # "absent"
        BY <4>1 DEF WorkInv, Grounded
      <4> QED BY <2>2, <3>3, <4>1, <4>2, CommitRow, CommitRecords DEF Consented
    <3> QED BY <3>2, <3>3
  <2> QED BY <2>1, <2>2, CommitOrQuiet
<1> QED BY <1>1, <1>2, WorkAlways, PTL DEF Spec

LEMMA OutcomeStep == OutcomeExplained /\ WorkInv /\ WorkInv' /\ [Next]_vars => OutcomeExplained'
<1> SUFFICES ASSUME OutcomeExplained, WorkInv, WorkInv', [Next]_vars PROVE OutcomeExplained'
  OBVIOUS
<1>1. CASE Quiet
  BY <1>1 DEF Quiet, OutcomeExplained, Recorded
<1>2. ASSUME NEW q \in Requests, Commit(q) PROVE OutcomeExplained'
  <2>1. SUFFICES ASSUME NEW p \in Proposals
                 PROVE  /\ props'[p].status = "executed" => Recorded(p, "applied")'
                        /\ props'[p].status = "failed" => Recorded(p, "failed")'
    BY DEF OutcomeExplained, WorkInv, Grounded
  <2>2. \A status : Recorded(p, status) => Recorded(p, status)'
    <3>1. \A o \in Requests : <<o, p>> \in Ids
      BY DEF Ids
    <3> QED BY <1>2, <3>1, CommitChanges DEF Recorded
  <2>3. \/ props'[p].status = props[p].status
        \/ props'[p].status = mine[q][p].status
           /\ (p \in locked[q] \/ p \in fresh[q])
    <3>1. TypeOK
      BY DEF WorkInv
    <3> QED BY <1>2, <3>1, WrittenFacts DEF Commit
  <2>4. CASE props'[p].status = props[p].status
    BY <2>2, <2>4 DEF OutcomeExplained
  <2>5. CASE props'[p].status = mine[q][p].status /\ (p \in locked[q] \/ p \in fresh[q])
    <3>1. CASE staged[q][p] = Missing
      <4>1. Changed(q, p)
        BY <1>2 DEF WorkInv, RequestOK, Commit
      <4> QED BY <2>5, <3>1, <4>1 DEF Changed, Untouched, Answered
    <3>2. CASE staged[q][p] # Missing
      <4>1. /\ mine[q][p].status = StatusAfter(staged[q][p].outcome)
            /\ staged[q][p].outcome.status \in {"applied", "failed"}
        BY <1>2, <3>2, CommitRecords DEF Executed
      <4>2. /\ changes'[<<q, p>>] # Missing
            /\ changes'[<<q, p>>].status = staged[q][p].outcome.status
        BY <1>2, <3>2, CommitChanges
      <4> QED BY <2>5, <4>1, <4>2 DEF StatusAfter, Recorded
    <3> QED BY <3>1, <3>2
  <2> QED BY <2>3, <2>4, <2>5
<1> QED BY <1>1, <1>2, CommitOrQuiet

\* A proposal never shows an outcome that no command of it had, whatever buttons and
\* messages wrote it from stale reads.
THEOREM OutcomesAlwaysExplained == Spec => []OutcomeExplained
<1>1. Init => OutcomeExplained
  BY DEF Init, OutcomeExplained, NoProps, NoProp
<1> QED BY <1>1, OutcomeStep, WorkAlways, PTL DEF Spec

-----------------------------------------------------------------------------
(* A message runs its actions in their order.                              *)

Waits(q, p) == [op |-> "approve", p |-> p] \in work[q]
Fine(q, p)  == staged[q][p] # Missing /\ staged[q][p].outcome.status = "applied"

\* What is left of a batch is yet to run, and what comes before it ran.
BatchOK(q) ==
    /\ pc[q] = "unsent" => reply[q] = "none"
    /\ Open(q) =>
          /\ work[q] # {} => reply[q] = "none"
          /\ \A p, o \in req[q].on : p < o =>
                /\ staged[q][o] # Missing => Fine(q, p)
                /\ Waits(q, o) => Waits(q, p) \/ Fine(q, p)
          /\ /\ req[q].from \in Turns /\ reply[q] = "none"
             /\ req[q].act \in {"approve", "execute_now"}
             => \A p \in req[q].on : Waits(q, p) \/ Fine(q, p)

BatchInv == \A q \in Requests : BatchOK(q)

LEMMA SameBatch ==
    ASSUME NEW q \in Requests, BatchOK(q), Same(q), reply'[q] = reply[q]
    PROVE  BatchOK(q)'
  BY DEF BatchOK, Same, Open, Waits, Fine

LEMMA BatchArrive ==
    ASSUME WorkInv, BatchInv, NEW q \in Requests, NEW request, Arrive(q, request),
           NEW M, NEW W, mine' = [mine EXCEPT ![q] = M], work' = [work EXCEPT ![q] = W],
           \A o \in Requests \ {q} : fresh'[o] = fresh[o],
           request.on \subseteq Proposals,
           \A p, o \in request.on : /\ p < o
                                   /\ [op |-> "approve", p |-> o] \in W
                                   => [op |-> "approve", p |-> p] \in W,
           request.act \in {"approve", "execute_now"} =>
               \A p \in request.on : [op |-> "approve", p |-> p] \in W
    PROVE  BatchInv'
<1>1. TypeOK
  BY DEF WorkInv
<1>2. /\ pc'[q] = "open" /\ req'[q] = request /\ work'[q] = W
      /\ pc[q] = "unsent" /\ UNCHANGED <<reply, staged, locked, assigned>>
  <2>1. pc[q] = "unsent" /\ UNCHANGED <<reply, staged, locked, assigned>>
    BY DEF Arrive
  <2>2. DOMAIN pc = Requests /\ DOMAIN req = Requests /\ DOMAIN work = Requests
    BY <1>1 DEF TypeOK
  <2>3. pc'[q] = "open" /\ req'[q] = request /\ work'[q] = W
    BY <2>2 DEF Arrive
  <2> QED BY <2>1, <2>3
<1>3. \A o \in Requests \ {q} : Same(o) /\ reply'[o] = reply[o]
  <2>1. /\ DOMAIN pc = Requests /\ DOMAIN req = Requests /\ DOMAIN loaded = Requests
        /\ DOMAIN mine = Requests /\ DOMAIN work = Requests
    BY <1>1 DEF TypeOK
  <2> QED BY <2>1 DEF Arrive, Same
<1>4. Idle(q) /\ reply[q] = "none"
  BY <1>2 DEF WorkInv, RequestOK, Open, BatchInv, BatchOK
<1>5. \A p \in Proposals : staged'[q][p] = Missing
  BY <1>2, <1>4 DEF Idle
<1>6. BatchOK(q)'
  BY <1>2, <1>4, <1>5 DEF BatchOK, Waits, Fine
<1> QED BY <1>3, <1>6, SameBatch DEF BatchInv

\* A request that goes on.
LEMMA BatchOthers ==
    ASSUME BatchInv, NEW q \in Requests, WorksOn(q), BatchOK(q)',
           \A o \in Requests \ {q} : reply'[o] = reply[o]
    PROVE  BatchInv'
<1>1. \A o \in Requests \ {q} : Same(o)
  BY DEF WorksOn, Same
<1> QED BY <1>1, SameBatch DEF BatchInv

LEMMA BatchExecute ==
    ASSUME WorkInv, BatchInv, NEW q \in Requests, Execute(q)
    PROVE  BatchInv'
<1>1. TypeOK /\ RequestOK(q) /\ Open(q) /\ WorkOK(q)
  BY DEF WorkInv, RequestOK, Execute, IsDue
<1>2. PICK p \in Proposals, cmd \in CommandRecord, out \in OutcomeRecord,
           a \in [Items -> [Columns -> Values \cup {Missing}]] : Executes(q, p, cmd, out, a)
  BY <1>1, ExecuteFacts
<1> DEFINE d == [op |-> "approve", p |-> p]
           app == [outcome |-> out, command |-> cmd]
<1>3. d \in work[q] /\ \A v \in work[q] : Before(d, v)
  BY <1>1, <1>2, DueFirst DEF Executes
<1>4. /\ UNCHANGED <<pc, req>>
      /\ work'[q] = WorkAfter(q, out) /\ reply'[q] = ReplyAfter(out)
      /\ staged'[q][p] = app
      /\ \A o \in Proposals \ {p} : staged'[q][o] = staged[q][o]
      /\ WorkAfter(q, out) = IF out.status = "applied" THEN work[q] \ {d} ELSE {}
  <2>1. /\ DOMAIN work = Requests /\ DOMAIN reply = Requests
        /\ staged \in [Requests -> [Proposals -> Application \cup {Missing}]]
    BY <1>1 DEF TypeOK
  <2>2. /\ staged' = [staged EXCEPT ![q][p] = app] /\ Due(q) = d
        /\ work' = [work EXCEPT ![q] = WorkAfter(q, out)]
        /\ reply' = [reply EXCEPT ![q] = ReplyAfter(out)]
    BY <1>2 DEF Executes
  <2>3. UNCHANGED <<pc, req>>
    BY DEF Execute
  <2> HIDE DEF app, d
  <2> QED BY <2>1, <2>2, <2>3 DEF WorkAfter
<1>5. app # Missing /\ app.outcome = out
  <2>1. app \in Application
    BY DEF Application
  <2> QED BY <2>1, ProposalAssumption
<1>6. out.status = "applied" => Fine(q, p)'
  BY <1>4, <1>5 DEF Fine
<1>7. staged[q][p] = Missing
  <2>1. p \notin locked[q]
    BY <1>1, <1>3 DEF WorkOK
  <2> QED BY <1>1, <2>1 DEF RequestOK, Changed, Untouched
<1>8. req[q].on \subseteq Proposals
  BY <1>1, Shapes DEF RequestType
<1> HIDE DEF app
<1>9. \A o \in Proposals : Fine(q, o) => o # p /\ Fine(q, o)'
  BY <1>4, <1>7 DEF Fine
<1>10. \A o \in Proposals : o # p /\ Waits(q, o) /\ out.status = "applied" => Waits(q, o)'
  BY <1>4 DEF Waits
<1>11. \A o \in Proposals : Waits(q, o)' => o # p /\ Waits(q, o) /\ out.status = "applied"
  BY <1>4 DEF Waits
<1>12. \A o \in Proposals : Waits(q, o) => p <= o
  BY <1>3 DEF Waits, Before
<1>13. \A r, o \in req[q].on : r < o =>
          /\ staged'[q][o] # Missing => Fine(q, r)'
          /\ Waits(q, o)' => Waits(q, r)' \/ Fine(q, r)'
  <2> SUFFICES ASSUME NEW r \in req[q].on, NEW o \in req[q].on, r < o
               PROVE  /\ staged'[q][o] # Missing => Fine(q, r)'
                      /\ Waits(q, o)' => Waits(q, r)' \/ Fine(q, r)'
    OBVIOUS
  <2>1. r \in Proposals /\ o \in Proposals /\ Proposals \subseteq Nat
    BY <1>8, ProposalAssumption DEF Proposals
  <2>2. /\ staged[q][o] # Missing => Fine(q, r)
        /\ Waits(q, o) => Waits(q, r) \/ Fine(q, r)
    BY <1>1 DEF BatchInv, BatchOK
  <2>3. CASE o = p
    <3>1. Waits(q, o) /\ ~Waits(q, r) /\ ~Waits(q, o)'
      BY <1>3, <1>11, <1>12, <2>1, <2>3 DEF Waits
    <3> QED BY <1>9, <2>1, <2>2, <3>1
  <2>4. CASE o # p
    BY <1>4, <1>6, <1>9, <1>10, <1>11, <2>1, <2>2, <2>4
  <2> QED BY <2>3, <2>4
<1>14. reply'[q] = "none" <=> out.status = "applied"
  BY <1>4 DEF ReplyAfter
<1>15. reply[q] = "none"
  BY <1>1, <1>3 DEF BatchInv, BatchOK
<1>16. BatchOK(q)'
  BY <1>1, <1>4, <1>6, <1>8, <1>9, <1>10, <1>13, <1>14, <1>15 DEF BatchInv, BatchOK, Open
<1>17. WorksOn(q) /\ \A o \in Requests \ {q} : reply'[o] = reply[o]
  <2>1. /\ DOMAIN work = Requests /\ DOMAIN reply = Requests /\ DOMAIN staged = Requests
        /\ DOMAIN assigned = Requests /\ DOMAIN mine = Requests /\ DOMAIN locked = Requests
    BY <1>1 DEF TypeOK
  <2> QED BY <1>2, <2>1 DEF Executes, Execute, WorksOn, Update
<1> QED BY <1>16, <1>17, BatchOthers

LEMMA BatchStep == BatchInv /\ WorkInv /\ [Next]_vars => BatchInv'
<1> SUFFICES ASSUME BatchInv, WorkInv, [Next]_vars PROVE BatchInv'
  OBVIOUS
<1> USE DEF WorkInv
<1>1. /\ TypeOK /\ Proposals \subseteq Nat
      /\ DOMAIN mine = Requests /\ DOMAIN work = Requests /\ DOMAIN reply = Requests
      /\ DOMAIN locked = Requests /\ DOMAIN fresh = Requests
  <2>1. Proposals \subseteq Nat
    BY ProposalAssumption DEF Proposals
  <2>2. TypeOK
    OBVIOUS
  <2>3. TypeOK => /\ DOMAIN mine = Requests /\ DOMAIN work = Requests
                  /\ DOMAIN reply = Requests /\ DOMAIN locked = Requests
                  /\ DOMAIN fresh = Requests
    BY DEF TypeOK
  <2> QED BY <2>1, <2>2, <2>3
<1>2. ASSUME NEW q \in Requests, NEW p \in Proposals, NEW act \in Buttons,
             NEW draft, PressButton(q, p, act, draft)
      PROVE  BatchInv'
  <2> DEFINE request == [from |-> "button", act |-> act, on |-> {p}, draft |-> draft,
                         said |-> "nothing"]
             W == IF act = "ask" THEN {} ELSE {[op |-> act, p |-> p]}
  <2>1. /\ Arrive(q, request) /\ mine' = [mine EXCEPT ![q] = props]
        /\ work' = [work EXCEPT ![q] = W] /\ fresh' = fresh
    BY <1>2 DEF PressButton
  <2>2. /\ request.on \subseteq Proposals
        /\ \A r, o \in request.on : ~(r < o)
        /\ request.act \in {"approve", "execute_now"} =>
               \A o \in request.on : [op |-> "approve", p |-> o] \in W
    BY <1>1 DEF Buttons
  <2> HIDE DEF request, W
  <2> QED BY <2>1, <2>2, BatchArrive
<1>3. ASSUME NEW q \in Requests, NEW via, NEW text, NEW draft, FollowUp(q, via, text, draft)
      PROVE  BatchInv'
  <2>1. PICK V \in Windows : \E p \in AtPosition(V, Meaning(text, Cardinality(V)).at) :
           FollowsUp(q, via, text, draft, V, p)
    BY <1>3 DEF FollowUp, FollowsUp
  <2>2. PICK p \in AtPosition(V, Meaning(text, Cardinality(V)).at) :
           FollowsUp(q, via, text, draft, V, p)
    BY <2>1
  <2> DEFINE act == Meaning(text, Cardinality(V)).act
             others == IF act = "approve" /\ SaysOnly(text) THEN V \ {p} ELSE {}
             W == (IF act = "ask" THEN {} ELSE {[op |-> act, p |-> p]})
                     \cup {[op |-> "reject", p |-> o] : o \in others}
             request == [from |-> via, act |-> act, on |-> {p}, draft |-> draft,
                         said |-> "nothing"]
  <2>3. p \in Proposals
    BY DEF Windows, Pending, AtPosition
  <2>4. act \in Buttons
    BY DEF Meaning, Buttons
  <2>5. /\ Arrive(q, request) /\ mine' = [mine EXCEPT ![q] = props]
        /\ work' = [work EXCEPT ![q] = W] /\ fresh' = fresh
    BY <1>3, <2>2 DEF FollowsUp, FollowUp
  <2> HIDE DEF act, others
  <2>6. /\ request.on \subseteq Proposals
        /\ \A r, o \in request.on : ~(r < o)
    <3>1. p \in Nat /\ request.on = {p}
      BY <1>1, <2>3
    <3> HIDE DEF request
    <3> QED BY <2>3, <3>1
  <2>7. act = "approve" => [op |-> "approve", p |-> p] \in W
    OBVIOUS
  <2>8. request.act \in {"approve", "execute_now"} =>
               \A o \in request.on : [op |-> "approve", p |-> o] \in W
    <3> HIDE DEF W
    <3> QED BY <2>4, <2>7 DEF Buttons
  <2> HIDE DEF request, W
  <2> QED BY <2>5, <2>6, <2>8, BatchArrive
<1>4. ASSUME NEW q \in Requests, NEW via \in Turns, NEW m \in Messages,
             NEW answer \in Answers, PlanTurn(q, via, m, answer)
      PROVE  BatchInv'
  <2>0. PICK first \in Nat : Plans(q, via, m, answer, first)
    BY <1>4, PlanTurnPlans
  <2> DEFINE plan == PlanFor(m, answer)
             new == NewIds(m, answer, first)
             M == [p \in Proposals |-> IF p \in new THEN Drafted(plan, first, p) ELSE props[p]]
             W == IF plan.mode = "execute_now" THEN {[op |-> "approve", p |-> p] : p \in new}
                                               ELSE {}
             request == [from |-> via, act |-> plan.mode, on |-> new,
                         draft |-> Missing, said |-> Said(m)]
  <2>1. /\ Arrive(q, request) /\ new \subseteq Proposals
        /\ fresh' = [fresh EXCEPT ![q] = new]
        /\ mine' = [mine EXCEPT ![q] = M]
        /\ work' = [work EXCEPT ![q] = W]
    BY <2>0 DEF Plans
  <2>2. plan.mode \in Modes
    <3>1. m \in Message /\ answer \in PlanRecord \cup {NoAnswer}
      BY ProposalAssumption
    <3> QED BY <3>1, PlanForType DEF PlanRecord
  <2> HIDE DEF new, plan
  <2>3. /\ request.on \subseteq Proposals
        /\ \A p, o \in request.on : /\ p < o
                                   /\ [op |-> "approve", p |-> o] \in W
                                   => [op |-> "approve", p |-> p] \in W
        /\ request.act \in {"approve", "execute_now"} =>
               \A p \in request.on : [op |-> "approve", p |-> p] \in W
    BY <2>1, <2>2 DEF Modes
  <2>4. \A o \in Requests \ {q} : fresh'[o] = fresh[o]
    BY <1>1, <2>1
  <2> HIDE DEF request, W, M
  <2> QED BY <2>1, <2>3, <2>4, BatchArrive
<1>5. ASSUME NEW q \in Requests, NEW op \in {"reject", "revise"}, IsDue(q, op), Done(q),
             UNCHANGED <<db, pc, req, loaded, fresh, staged, assigned, reply, met>>,
             \A o \in Requests \ {q} : mine'[o] = mine[o] /\ locked'[o] = locked[o]
      PROVE  BatchInv'
  <2>1. /\ work'[q] = work[q] \ {Due(q)} /\ Due(q).op = op /\ Open(q) /\ work[q] # {}
        /\ \A o \in Requests \ {q} : work'[o] = work[o]
    BY <1>1, <1>5 DEF Done, IsDue
  <2>2. \A p \in Proposals : Waits(q, p)' <=> Waits(q, p)
    BY <2>1 DEF Waits
  <2>3. req[q].on \subseteq Proposals
    BY <1>1, Shapes DEF RequestType
  <2>4. BatchOK(q)'
    BY <1>5, <2>1, <2>2, <2>3 DEF BatchInv, BatchOK, Open, Fine
  <2>5. WorksOn(q)
    BY <1>5, <2>1 DEF WorksOn
  <2> QED BY <1>5, <2>4, <2>5, BatchOthers
<1>6. ASSUME NEW q \in Requests, Reject(q) PROVE BatchInv'
  <2>1. \A o \in Requests \ {q} : mine'[o] = mine[o] /\ locked'[o] = locked[o]
    BY <1>1, <1>6 DEF Reject, RejectRow, Update
  <2> QED BY <1>5, <1>6, <2>1 DEF Reject
<1>7. ASSUME NEW q \in Requests, Revise(q) PROVE BatchInv'
  <2>1. \A o \in Requests \ {q} : mine'[o] = mine[o] /\ locked'[o] = locked[o]
    BY <1>1, <1>7 DEF Revise, Update
  <2> QED BY <1>5, <1>7, <2>1 DEF Revise
<1>8. ASSUME NEW q \in Requests, Refuse(q) PROVE BatchInv'
  <2>1. /\ \A o \in Requests \ {q} : /\ mine'[o] = mine[o] /\ locked'[o] = locked[o]
                                     /\ work'[o] = work[o] /\ reply'[o] = reply[o]
        /\ work'[q] = {} /\ reply'[q] # "none"
        /\ UNCHANGED <<db, pc, req, loaded, fresh, staged, assigned, met>> /\ Open(q)
    BY <1>1, <1>8 DEF Refuse, RejectRow, Update, IsDue
  <2>2. BatchOK(q)'
    BY <2>1 DEF BatchInv, BatchOK, Open, Fine, Waits
  <2>3. WorksOn(q)
    BY <2>1 DEF WorksOn
  <2> QED BY <2>1, <2>2, <2>3, BatchOthers
<1>9. ASSUME NEW q \in Requests, NEW end \in {"committed", "aborted"}, Close(q, end)
      PROVE  BatchInv'
  <2>1. /\ pc'[q] = end /\ \A o \in Requests \ {q} : Same(o)
    BY <1>1, <1>9, CloseFacts
  <2>2. UNCHANGED reply
    BY <1>9 DEF Close
  <2>3. BatchOK(q)'
    BY <2>1 DEF BatchOK, Open
  <2> QED BY <2>1, <2>2, <2>3, SameBatch DEF BatchInv
<1>10. CASE UNCHANGED <<pc, req, local>>
  <2>1. \A o \in Requests : Same(o) /\ reply'[o] = reply[o]
    BY <1>10 DEF local, Same
  <2> QED BY <2>1, SameBatch DEF BatchInv
<1>11. ASSUME NEW q \in Requests, Raise(q) \/ Commit(q) \/ Abort(q) PROVE BatchInv'
  BY <1>9, <1>11, RaiseCloses DEF Commit
<1>12. ASSUME NEW p \in Proposals, Expire(p) PROVE BatchInv'
  BY <1>10, <1>12 DEF Expire
<1>13. CASE UNCHANGED vars
  BY <1>10, <1>13 DEF vars
<1> QED BY <1>2, <1>3, <1>4, <1>6, <1>7, <1>8, <1>11, <1>12, <1>13, BatchExecute,
       SendersAreRequests DEF Next

LEMMA BatchAlways == Spec => []BatchInv
<1>1. Init => BatchInv
  BY DEF Init, BatchInv, BatchOK, Open
<1> QED BY <1>1, BatchStep, WorkAlways, PTL DEF Spec

\* An action of a message runs only after the ones before it were applied: nothing is
\* recorded after a failure.
THEOREM BatchesStopAtFailure == Spec => []BatchStopsAtFailure
<1>1. Init => BatchStopsAtFailure
  BY DEF Init, BatchStopsAtFailure, NoRequest
<1>2. BatchStopsAtFailure /\ BatchInv /\ WorkInv /\ [Next]_vars => BatchStopsAtFailure'
  <2> SUFFICES ASSUME BatchStopsAtFailure, BatchInv, WorkInv, [Next]_vars,
                      NEW q \in Requests, NEW p \in req'[q].on, NEW o \in req'[q].on,
                      p < o, changes'[<<q, o>>] # Missing
               PROVE  changes'[<<q, p>>] # Missing /\ changes'[<<q, p>>].status = "applied"
    BY DEF BatchStopsAtFailure
  <2>1. \A r \in Requests : req'[r] = req[r] => req'[r].on \subseteq Proposals
    BY Shapes DEF WorkInv, RequestType
  <2>2. CASE Quiet
    <3>1. o \in Proposals
      <4>1. WorkInv'
        BY WorkStep
      <4>2. TypeOK' => req'[q].on \subseteq Proposals
        BY DEF TypeOK
      <4> QED BY <4>1, <4>2 DEF WorkInv
    <3>2. changes' = changes /\ req'[q] = req[q]
      BY <2>2, <3>1 DEF Quiet, WorkInv, Grounded
    <3> QED BY <3>2 DEF BatchStopsAtFailure
  <2>3. ASSUME NEW r \in Requests, Commit(r)
        PROVE  changes'[<<q, p>>] # Missing /\ changes'[<<q, p>>].status = "applied"
    <3>1. req' = req /\ p \in Proposals /\ o \in Proposals
      BY <2>1, <2>3, CommitRecords
    <3>2. CASE q = r
      <4>1. staged[q][o] # Missing
        BY <2>3, <3>1, <3>2, CommitChanges
      <4>2. Fine(q, p)
        BY <2>3, <3>1, <3>2, <4>1 DEF BatchInv, BatchOK, Commit
      <4> QED BY <2>3, <3>1, <3>2, <4>2, CommitChanges DEF Fine
    <3>3. CASE q # r
      BY <2>3, <3>1, <3>3, CommitChanges DEF BatchStopsAtFailure
    <3> QED BY <3>2, <3>3
  <2> QED BY <2>2, <2>3, CommitOrQuiet
<1> QED BY <1>1, <1>2, BatchAlways, WorkAlways, PTL DEF Spec

\* A reply that reports no failure is stored with the records of every action the
\* message was to take.
THEOREM SuccessIsAlwaysTrue == Spec => []SuccessIsTrue
<1>1. Init => SuccessIsTrue
  BY DEF Init, SuccessIsTrue
<1>2. SuccessIsTrue /\ BatchInv /\ WorkInv /\ [Next]_vars => SuccessIsTrue'
  <2> SUFFICES ASSUME SuccessIsTrue, BatchInv, WorkInv, [Next]_vars,
                      NEW q \in Requests,
                      pc'[q] = "committed", req'[q].from \in Turns, reply'[q] = "none",
                      req'[q].act \in {"approve", "execute_now"},
                      NEW p \in req'[q].on
               PROVE  changes'[<<q, p>>] # Missing /\ changes'[<<q, p>>].status = "applied"
    BY DEF SuccessIsTrue
  <2>1. CASE Quiet
    BY <2>1 DEF Quiet, SuccessIsTrue
  <2>2. ASSUME NEW r \in Requests, Commit(r)
        PROVE  changes'[<<q, p>>] # Missing /\ changes'[<<q, p>>].status = "applied"
    <3>1. UNCHANGED <<req, reply>> /\ p \in Proposals
      BY <2>2, CommitRecords, Shapes DEF WorkInv, RequestType
    <3>2. CASE q = r
      <4>1. Fine(q, p)
        BY <2>2, <3>1, <3>2 DEF BatchInv, BatchOK, Commit, Waits
      <4> QED BY <2>2, <3>1, <3>2, <4>1, CommitChanges DEF Fine
    <3>3. CASE q # r
      <4>1. pc[q] = "committed"
        BY <2>2, <3>3, CommitRecords
      <4> QED BY <2>2, <3>1, <3>3, <4>1, CommitChanges DEF SuccessIsTrue
    <3> QED BY <3>2, <3>3
  <2> QED BY <2>1, <2>2, CommitOrQuiet
<1> QED BY <1>1, <1>2, BatchAlways, WorkAlways, PTL DEF Spec

-----------------------------------------------------------------------------
(* What a request has read.                                                *)

\* A request that is open has what it read when it arrived.
Reads(q) ==
    Open(q)' => \/ Open(q) /\ loaded'[q] = loaded[q]
                \/ loaded'[q] = props

LEMMA ReadsStep ==
    ASSUME WorkInv, [Next]_vars, NEW o \in Requests
    PROVE  Reads(o)
<1>1. /\ TypeOK /\ DOMAIN pc = Requests /\ DOMAIN loaded = Requests
  BY DEF WorkInv, TypeOK
<1>2. ASSUME NEW q \in Requests, NEW request, Arrive(q, request) PROVE Reads(o)
  BY <1>1, <1>2 DEF Arrive, Reads, Open
<1>3. CASE UNCHANGED <<pc, loaded>>
  BY <1>3 DEF Reads, Open
<1>4. ASSUME NEW q \in Requests, NEW end \in {"committed", "aborted"}, Close(q, end)
      PROVE  Reads(o)
  BY <1>1, <1>4, CloseFacts DEF Reads, Same, Open
<1>5. ASSUME NEW q \in Requests, NEW via, NEW text, NEW draft, FollowUp(q, via, text, draft)
      PROVE  Reads(o)
  BY <1>2, <1>5 DEF FollowUp
<1>6. ASSUME NEW q \in Requests, NEW p \in Proposals, NEW act, NEW draft,
             PressButton(q, p, act, draft)
      PROVE  Reads(o)
  BY <1>2, <1>6 DEF PressButton
<1>7. ASSUME NEW q \in Requests, NEW via, NEW m, NEW answer,
             PlanTurn(q, via, m, answer)
      PROVE  Reads(o)
  BY <1>2, <1>7 DEF PlanTurn
<1>8. ASSUME NEW q \in Requests, Reject(q) \/ Revise(q) \/ Execute(q) \/ Refuse(q)
      PROVE  Reads(o)
  BY <1>3, <1>8 DEF Reject, Revise, Execute, Refuse
<1>9. ASSUME NEW q \in Requests, Raise(q) \/ Commit(q) \/ Abort(q)
      PROVE  Reads(o)
  BY <1>4, <1>9 DEF Raise, Commit, Abort
<1>10. ASSUME NEW p \in Proposals, Expire(p) PROVE Reads(o)
  BY <1>3, <1>10 DEF Expire, local
<1>11. CASE UNCHANGED vars
  BY <1>3, <1>11 DEF vars, local
<1> QED BY <1>5, <1>6, <1>7, <1>8, <1>9, <1>10, <1>11, SendersAreRequests DEF Next

\* A commit with proposals that were stored before: each of them is left alone, or
\* was open when the request read it and gets the status the request wants.
LEMMA CommitStored ==
    ASSUME WorkInv, NEW q \in Requests, Commit(q), NEW p \in Proposals,
           props[p].status # "absent"
    PROVE  /\ p \notin fresh[q]
           /\ p \notin locked[q] => props'[p] = props[p] /\ staged[q][p] = Missing
           /\ p \in locked[q] =>
                 /\ loaded[q][p].status \in OpenStatuses
                 /\ staged[q][p] = Missing =>
                       \/ props'[p].status = "rejected"
                       \/ req[q].act = "revise" /\ p \in req[q].on
                 /\ staged[q][p] # Missing => props'[p].status \in {"executed", "failed"}
<1>1. TypeOK /\ Open(q) /\ Stable(q, p) /\ Changed(q, p)
  BY DEF WorkInv, RequestOK, Commit
<1>2. p \notin fresh[q]
  BY <1>1 DEF Stable
<1>3. props'[p] = IF p \in locked[q] THEN Written(q, p) ELSE props[p]
  BY <1>2 DEF Commit
<1>4. p \notin locked[q] => staged[q][p] = Missing
  BY <1>1 DEF Changed, Untouched
<1>5. ASSUME p \in locked[q]
      PROVE  /\ loaded[q][p].status \in OpenStatuses
             /\ staged[q][p] = Missing =>
                   \/ props'[p].status = "rejected"
                   \/ req[q].act = "revise" /\ p \in req[q].on
             /\ staged[q][p] # Missing => props'[p].status \in {"executed", "failed"}
  <2>1. loaded[q][p].status \in OpenStatuses
    BY <1>1, <1>2, <1>5 DEF Changed
  <2>2. props'[p].status = IF mine[q][p].status # loaded[q][p].status
                           THEN mine[q][p].status ELSE props[p].status
    BY <1>1, <1>3, <1>5, WrittenFacts
  <2>3. CASE staged[q][p] = Missing
    BY <1>1, <1>5, <2>1, <2>2, <2>3 DEF Changed, Answered, OpenStatuses
  <2>4. CASE staged[q][p] # Missing
    BY <1>1, <1>5, <2>1, <2>2, <2>4 DEF Changed, Executed, StatusAfter, OpenStatuses
  <2> QED BY <2>1, <2>3, <2>4
<1> QED BY <1>2, <1>3, <1>4, <1>5

-----------------------------------------------------------------------------
(* When an action is repeated.                                             *)

\* A request that executed a proposal which is open, or was when another request read
\* it, overlapped with that request or with a revision.
ReopenedInv ==
    \A o \in Requests, p \in Proposals : changes[<<o, p>>] # Missing =>
        /\ props[p].status \in OpenStatuses => Reopened(o, p)
        /\ \A q \in Requests :
              Open(q) /\ loaded[q][p].status \in OpenStatuses =>
                  {q, o} \in met \/ Reopened(o, p)

LEMMA ReopenedStays ==
    ASSUME WorkInv, [Next]_vars, NEW o \in Requests, NEW p \in Proposals, Reopened(o, p)
    PROVE  Reopened(o, p)'
<1>1. CASE Quiet
  BY <1>1 DEF Quiet, Reopened
<1>2. ASSUME NEW q \in Requests, Commit(q) PROVE Reopened(o, p)'
  BY <1>2, CommitRecords DEF Reopened
<1> QED BY <1>1, <1>2, CommitOrQuiet

LEMMA CommitMeets ==
    ASSUME WorkInv, NEW q \in Requests, Commit(q), NEW o \in Requests, Open(o)'
    PROVE  /\ o # q /\ Open(o) /\ {o, q} \in met /\ loaded'[o] = loaded[o]
<1>1. TypeOK /\ Apart /\ Open(q) /\ Close(q, "committed")
  BY DEF WorkInv, Commit
<1>2. o # q /\ Same(o)
  BY <1>1, CloseFacts
<1> QED BY <1>1, <1>2 DEF Same, Open, Apart, InFlight

LEMMA ReopenedStep == ReopenedInv /\ WorkInv /\ [Next]_vars => ReopenedInv'
<1> SUFFICES ASSUME ReopenedInv, WorkInv, [Next]_vars,
                    NEW o \in Requests, NEW p \in Proposals, changes'[<<o, p>>] # Missing
             PROVE  /\ props'[p].status \in OpenStatuses => Reopened(o, p)'
                    /\ \A q \in Requests :
                          Open(q)' /\ loaded'[q][p].status \in OpenStatuses =>
                              {q, o} \in met' \/ Reopened(o, p)'
  BY DEF ReopenedInv
<1>1. CASE Quiet
  <2>1. changes[<<o, p>>] # Missing /\ props' = props /\ met \subseteq met'
    BY <1>1 DEF Quiet
  <2>2. props[p].status \in OpenStatuses => Reopened(o, p)'
    BY <2>1, ReopenedStays DEF ReopenedInv
  <2>3. ASSUME NEW q \in Requests, Open(q)', loaded'[q][p].status \in OpenStatuses
        PROVE  {q, o} \in met' \/ Reopened(o, p)'
    BY <2>1, <2>2, <2>3, ReadsStep, ReopenedStays DEF ReopenedInv, Reads
  <2> QED BY <2>1, <2>2, <2>3
<1>2. ASSUME NEW r \in Requests, Commit(r)
      PROVE  /\ props'[p].status \in OpenStatuses => Reopened(o, p)'
             /\ \A q \in Requests :
                   Open(q)' /\ loaded'[q][p].status \in OpenStatuses =>
                       {q, o} \in met' \/ Reopened(o, p)'
  <2>1. met' = met /\ req' = req /\ pc'[r] = "committed"
    BY <1>2, CommitRecords
  <2>2. CASE o = r
    <3>1. staged[r][p] # Missing
      BY <1>2, <2>2, CommitChanges
    <3>2. props'[p].status \in {"executed", "failed"}
      <4>1. TypeOK /\ Changed(r, p) /\ Stable(r, p) /\ Executed(r, p)
        BY <1>2, <3>1, CommitRecords DEF WorkInv, RequestOK, Commit
      <4>2. CASE p \in fresh[r]
        BY <1>2, <4>1, <4>2 DEF Commit, Executed, StatusAfter
      <4>3. CASE p \notin fresh[r]
        <5>1. props[p].status # "absent"
          BY <3>1, <4>1, <4>3 DEF Changed, Untouched, Stable, OpenStatuses
        <5> QED BY <1>2, <3>1, <5>1, CommitStored
      <4> QED BY <4>2, <4>3
    <3> QED BY <1>2, <2>1, <2>2, <3>2, CommitMeets DEF OpenStatuses
  <2>3. CASE o # r
    <3>1. changes[<<o, p>>] # Missing /\ props[p].status # "absent"
      BY <1>2, <2>3, CommitChanges DEF WorkInv, Grounded
    <3>2. ASSUME NEW q \in Requests, Open(q)', loaded'[q][p].status \in OpenStatuses
          PROVE  {q, o} \in met' \/ Reopened(o, p)'
      BY <1>2, <2>1, <3>1, <3>2, CommitMeets, ReopenedStays DEF ReopenedInv
    <3>3. ASSUME props'[p].status \in OpenStatuses PROVE Reopened(o, p)'
      <4>1. CASE p \notin locked[r]
        BY <1>2, <3>1, <3>3, <4>1, CommitStored, ReopenedStays DEF ReopenedInv
      <4>2. CASE p \in locked[r]
        <5>1. /\ loaded[r][p].status \in OpenStatuses
              /\ req[r].act = "revise" /\ p \in req[r].on
          BY <1>2, <3>1, <3>3, <4>2, CommitStored DEF OpenStatuses
        <5>2. {r, o} \in met \/ Reopened(o, p)
          BY <1>2, <3>1, <5>1 DEF ReopenedInv, Commit
        <5>3. {r, o} = {o, r}
          OBVIOUS
        <5> QED BY <2>1, <5>1, <5>2, <5>3, ReopenedStays DEF Reopened
      <4> QED BY <4>1, <4>2
    <3> QED BY <3>2, <3>3
  <2> QED BY <2>2, <2>3
<1> QED BY <1>1, <1>2, CommitOrQuiet

\* What was executed and is executed again overlapped with one of the two, or a
\* revision that did opened it again.
LEMMA RepeatStep ==
    RepeatedOnlyByOverlap /\ ReopenedInv /\ WorkInv /\ [Next]_vars => RepeatedOnlyByOverlap'
<1> SUFFICES ASSUME RepeatedOnlyByOverlap, ReopenedInv, WorkInv, [Next]_vars,
                    NEW p \in Proposals, NEW q \in Requests, NEW o \in Requests, q # o,
                    changes'[<<q, p>>] # Missing, changes'[<<o, p>>] # Missing
             PROVE  {q, o} \in met' \/ Reopened(q, p)' \/ Reopened(o, p)'
  BY DEF RepeatedOnlyByOverlap
<1>1. CASE /\ changes[<<q, p>>] # Missing /\ changes[<<o, p>>] # Missing
           /\ met \subseteq met'
  BY <1>1, ReopenedStays DEF RepeatedOnlyByOverlap
<1>2. ASSUME NEW r \in Requests, Commit(r), NEW s \in Requests \ {r},
             changes'[<<r, p>>] # Missing, changes'[<<s, p>>] # Missing
      PROVE  {r, s} \in met' \/ Reopened(s, p)'
  <2>1. /\ staged[r][p] # Missing /\ changes[<<s, p>>] # Missing
        /\ props[p].status # "absent"
    BY <1>2, CommitChanges DEF WorkInv, Grounded
  <2>2. loaded[r][p].status \in OpenStatuses
    BY <1>2, <2>1, CommitStored
  <2> QED BY <1>2, <2>1, <2>2, CommitRecords, ReopenedStays DEF ReopenedInv, Commit
<1>3. ASSUME NEW r \in Requests, Commit(r)
      PROVE  {q, o} \in met' \/ Reopened(q, p)' \/ Reopened(o, p)'
  <2>1. {q, o} = {o, q}
    OBVIOUS
  <2>2. CASE q # r /\ o # r
    BY <1>1, <1>3, <2>2, CommitChanges, CommitRecords
  <2> QED BY <1>2, <1>3, <2>1, <2>2
<1>4. CASE Quiet
  BY <1>1, <1>4 DEF Quiet
<1> QED BY <1>3, <1>4, CommitOrQuiet

\* In sequence, nothing is executed twice: a repeated action takes requests that were
\* open together.
THEOREM RepeatsNeedOverlap == Spec => []RepeatedOnlyByOverlap
<1>1. Init => ReopenedInv /\ RepeatedOnlyByOverlap
  BY DEF Init, ReopenedInv, RepeatedOnlyByOverlap, Ids
<1>2. Spec => []ReopenedInv
  BY <1>1, ReopenedStep, WorkAlways, PTL DEF Spec
<1> QED BY <1>1, <1>2, RepeatStep, WorkAlways, PTL DEF Spec

-----------------------------------------------------------------------------
(* What a proposal shows.                                                  *)

Alone(q) == \A o \in Requests : {q, o} \notin met

\* What a request that met nobody has read is what there is.
AloneInv == \A q \in Requests : Open(q) /\ Alone(q) => loaded[q] = props

LEMMA AloneStep == AloneInv /\ WorkInv /\ [Next]_vars => AloneInv'
<1> SUFFICES ASSUME AloneInv, WorkInv, [Next]_vars,
                    NEW q \in Requests, Open(q)', Alone(q)'
             PROVE  loaded'[q] = props'
  BY DEF AloneInv
<1>1. CASE Quiet
  <2>1. Alone(q) /\ props' = props
    BY <1>1 DEF Quiet, Alone
  <2> QED BY <2>1, ReadsStep DEF Reads, AloneInv
<1>2. ASSUME NEW r \in Requests, Commit(r) PROVE loaded'[q] = props'
  BY <1>2, CommitMeets, CommitRecords DEF Alone
<1> QED BY <1>1, <1>2, CommitOrQuiet

\* A proposal shows what happened to it.
Shows(p) ==
    IF props[p].status \in {"executed", "failed"}
    THEN LET change == changes[props[p].command]
         IN /\ StatusAfter(change) = props[p].status
            /\ change.command.type = props[p].draft.command.type
            /\ change.command.updates = props[p].draft.command.updates
    ELSE \A q \in Requests : changes[<<q, p>>] = Missing

\* A request that executed it was open together with another one.
Overlapped(p) == \E q, o \in Requests : changes[<<q, p>>] # Missing /\ {q, o} \in met

\* A request that met nobody and executed a proposal makes it show what it did.
LEMMA AloneShows ==
    ASSUME AloneInv, WorkInv, NEW r \in Requests, Commit(r), Alone(r),
           NEW p \in Proposals, staged[r][p] # Missing
    PROVE  Shows(p)'
<1>1. /\ TypeOK /\ Open(r) /\ Stable(r, p) /\ Changed(r, p) /\ loaded[r] = props
      /\ Executed(r, p) /\ p \in locked[r]
      /\ staged[r][p].outcome.status \in {"applied", "failed"}
  BY CommitRecords DEF AloneInv, WorkInv, RequestOK, Commit
<1>2. /\ changes'[<<r, p>>].status = staged[r][p].outcome.status
      /\ changes'[<<r, p>>].command = staged[r][p].command
  BY CommitChanges
<1>3. /\ props'[p].status = mine[r][p].status
      /\ props'[p].command = mine[r][p].command
      /\ props'[p].draft = mine[r][p].draft
  <2>1. CASE p \in fresh[r]
    BY <2>1 DEF Commit
  <2>2. CASE p \notin fresh[r]
    BY <1>1, <2>2, WrittenFacts DEF Commit
  <2> QED BY <2>1, <2>2
<1>4. /\ mine[r][p].status = StatusAfter(staged[r][p].outcome)
      /\ mine[r][p].command = <<r, p>>
      /\ mine[r][p].draft.command.type = staged[r][p].command.type
      /\ mine[r][p].draft.command.updates = staged[r][p].command.updates
  BY <1>1 DEF Executed
<1>5. props'[p].status \in {"executed", "failed"}
  BY <1>3, <1>4 DEF StatusAfter
<1>6. StatusAfter(changes'[<<r, p>>]) = props'[p].status
  BY <1>2, <1>3, <1>4 DEF StatusAfter
<1>7. changes'[props'[p].command] = changes'[<<r, p>>]
  BY <1>3, <1>4
<1> QED BY <1>2, <1>3, <1>4, <1>5, <1>6, <1>7 DEF Shows, StatusAfter

LEMMA TruthStep ==
    /\ ProposalTellsTruth /\ AloneInv /\ ReopenedInv /\ WorkInv /\ OutcomeExplained'
    /\ [Next]_vars
    => ProposalTellsTruth'
<1> SUFFICES ASSUME ProposalTellsTruth, AloneInv, ReopenedInv, WorkInv, OutcomeExplained',
                    [Next]_vars, NEW p \in Proposals
             PROVE  Shows(p)' \/ Overlapped(p)'
  BY DEF ProposalTellsTruth, Shows, Overlapped
<1>1. Shows(p) \/ Overlapped(p)
  BY DEF ProposalTellsTruth, Shows, Overlapped
<1>2. CASE Quiet
  <2>1. Shows(p) => Shows(p)'
    BY <1>2 DEF Quiet, Shows, StatusAfter
  <2>2. Overlapped(p) => Overlapped(p)'
    BY <1>2 DEF Quiet, Overlapped
  <2> QED BY <1>1, <2>1, <2>2
<1>3. ASSUME NEW r \in Requests, Commit(r) PROVE Shows(p)' \/ Overlapped(p)'
  <2>1. /\ met' = met
        /\ \A q \in Requests : changes[<<q, p>>] # Missing => changes'[<<q, p>>] # Missing
        /\ Stable(r, p) /\ Changed(r, p) /\ Open(r) /\ TypeOK
    <3>1. \A q \in Requests : <<q, p>> \in Ids
      BY DEF Ids
    <3> QED BY <1>3, <3>1, CommitChanges, CommitRecords DEF WorkInv, RequestOK, Commit
  <2>2. CASE Overlapped(p)
    BY <2>1, <2>2 DEF Overlapped
  <2>3. CASE staged[r][p] # Missing
    <3>1. CASE Alone(r)
      BY <1>3, <2>3, <3>1, AloneShows
    <3>2. CASE ~Alone(r)
      BY <1>3, <2>1, <2>3, <3>2, CommitChanges DEF Alone, Overlapped
    <3> QED BY <3>1, <3>2
  <2>4. CASE Shows(p) /\ ~Overlapped(p) /\ staged[r][p] = Missing
    <3>1. \A q \in Requests : changes'[<<q, p>>] = changes[<<q, p>>]
      BY <1>3, <2>4, CommitChanges
    <3>2. CASE \A q \in Requests : changes[<<q, p>>] = Missing
      <4>1. ~Recorded(p, "applied")' /\ ~Recorded(p, "failed")'
        BY <3>1, <3>2 DEF Recorded
      <4>2. props'[p].status \notin {"executed", "failed"}
        BY <4>1 DEF OutcomeExplained
      <4> QED BY <3>1, <3>2, <4>2 DEF Shows
    <3>3. ASSUME NEW o \in Requests, changes[<<o, p>>] # Missing PROVE Shows(p)'
      <4>1. props[p].status # "absent"
        BY <3>3 DEF WorkInv, Grounded
      <4>2. p \notin locked[r]
        <5>1. p \in locked[r] => loaded[r][p].status \in OpenStatuses
          BY <1>3, <4>1, CommitStored
        <5>2. p \in locked[r] => {r, o} \in met \/ Reopened(o, p)
          BY <2>1, <3>3, <5>1 DEF ReopenedInv
        <5>3. {r, o} = {o, r}
          OBVIOUS
        <5> QED BY <2>4, <3>3, <5>2, <5>3 DEF Overlapped, Reopened
      <4>3. props'[p] = props[p]
        BY <1>3, <4>1, <4>2, CommitStored
      <4>4. props[p].status \in {"executed", "failed"}
        BY <2>4, <3>3 DEF Shows
      <4>5. /\ props[p].command \in Ids /\ changes[props[p].command] # Missing
        BY <2>1, <4>4, Shapes DEF WorkInv, Grounded, PropRow
      <4>6. changes'[props[p].command] = changes[props[p].command]
        BY <1>3, <4>5, CommitChanges
      <4> QED BY <2>4, <4>3, <4>4, <4>6 DEF Shows, StatusAfter
    <3> QED BY <3>2, <3>3
  <2> QED BY <1>1, <2>2, <2>3, <2>4
<1> QED BY <1>2, <1>3, CommitOrQuiet

\* A proposal shows what happened to it, unless requests overlapped.
THEOREM ProposalsTellTruth == Spec => []ProposalTellsTruth
<1>1. Init => ReopenedInv /\ AloneInv /\ OutcomeExplained
  BY DEF Init, ReopenedInv, AloneInv, Open, OutcomeExplained, Ids, NoProps, NoProp
<1>2. Init => ProposalTellsTruth
  BY DEF Init, ProposalTellsTruth, Ids, NoProps, NoProp
<1>3. Spec => []ReopenedInv
  BY <1>1, ReopenedStep, WorkAlways, PTL DEF Spec
<1>4. Spec => []AloneInv
  BY <1>1, AloneStep, WorkAlways, PTL DEF Spec
<1> QED BY <1>2, <1>3, <1>4, TruthStep, OutcomesAlwaysExplained, WorkAlways, PTL DEF Spec

-----------------------------------------------------------------------------
(* The action loop implements AuditedTruth.                                *)

Ledger == [id \in Ids |-> IF changes[id] = Missing THEN Missing ELSE changes[id].status]

Trail == {t \in {"applied", "failed"} \X Ids : AuditOf(t[1]) \X {t[2]} \subseteq audit}

LEMMA LoopInit == Init => AT!Init
<1> SUFFICES ASSUME Init PROVE AT!Init
  OBVIOUS
<1>1. Ledger = [id \in Ids |-> Missing]
  BY DEF Init, Ledger
<1>2. Trail = {}
  <2>1. audit = {}
    BY DEF Init
  <2>2. \A status, id : ~(AuditOf(status) \X {id} \subseteq {})
    <3>1. SUFFICES ASSUME NEW status, NEW id, NEW type, AuditOf(status) = {type}
                   PROVE  ~(AuditOf(status) \X {id} \subseteq {})
      BY DEF AuditOf
    <3>2. <<type, id>> \in AuditOf(status) \X {id}
      BY <3>1
    <3> QED BY <3>2
  <2> QED BY <2>1, <2>2 DEF Trail
<1>3. rows = {}
  BY DEF Init
<1> QED BY <1>1, <1>2, <1>3 DEF AT!Init, Ledger, Trail

\* A request that applied nothing has assigned nothing.
StagedAssigns ==
    \A q \in Requests : Open(q) /\ (\A p \in Proposals : staged[q][p] = Missing) =>
        assigned[q] = Unassigned

LEMMA AssignsStep == StagedAssigns /\ WorkInv /\ [Next]_vars => StagedAssigns'
<1> SUFFICES ASSUME StagedAssigns, WorkInv, [Next]_vars,
                    NEW o \in Requests, Open(o)', \A p \in Proposals : staged'[o][p] = Missing
             PROVE  assigned'[o] = Unassigned'
  BY DEF StagedAssigns
<1>1. TypeOK
  BY DEF WorkInv
<1>2. Unassigned' = Unassigned
  BY DEF Unassigned
<1>3. CASE UNCHANGED <<staged, assigned>>
  BY <1>2, <1>3 DEF StagedAssigns, WorkInv, RequestOK, Idle
<1>4. ASSUME NEW q \in Requests, NEW end \in {"committed", "aborted"}, Close(q, end)
      PROVE  assigned'[o] = Unassigned
  <2>1. o # q /\ Same(o) /\ Open(o)
    BY <1>1, <1>4, CloseFacts DEF Same, Open
  <2> QED BY <2>1 DEF StagedAssigns, Same
<1>5. ASSUME NEW q \in Requests, Execute(q) PROVE assigned'[o] = Unassigned
  <2>1. PICK p \in Proposals, cmd \in CommandRecord, out \in OutcomeRecord,
             a \in [Items -> [Columns -> Values \cup {Missing}]] : Executes(q, p, cmd, out, a)
    BY <1>1, <1>5, ExecuteFacts DEF WorkInv
  <2> DEFINE app == [outcome |-> out, command |-> cmd]
  <2>2. app # Missing
    BY ProposalAssumption DEF Application
  <2>3. /\ staged' = [staged EXCEPT ![q][p] = app]
        /\ assigned' = [assigned EXCEPT ![q] = a] /\ pc' = pc
    BY <1>5, <2>1 DEF Executes, Execute
  <2> HIDE DEF app
  <2>4. staged'[q][p] = app /\ (o # q => staged'[o] = staged[o] /\ assigned'[o] = assigned[o])
    <3>1. /\ staged \in [Requests -> [Proposals -> Application \cup {Missing}]]
          /\ DOMAIN assigned = Requests
      BY <1>1 DEF TypeOK
    <3> QED BY <2>3, <3>1
  <2> QED BY <2>2, <2>3, <2>4 DEF StagedAssigns, Open
<1>6. ASSUME NEW q \in Requests, NEW via, NEW text, NEW draft, FollowUp(q, via, text, draft)
      PROVE  UNCHANGED <<staged, assigned>>
  BY <1>6 DEF FollowUp, Arrive
<1>7. ASSUME NEW q \in Requests, NEW p \in Proposals, NEW act, NEW draft,
             PressButton(q, p, act, draft)
      PROVE  UNCHANGED <<staged, assigned>>
  BY <1>7 DEF PressButton, Arrive
<1>8. ASSUME NEW q \in Requests, NEW via, NEW m, NEW answer,
             PlanTurn(q, via, m, answer)
      PROVE  UNCHANGED <<staged, assigned>>
  BY <1>8 DEF PlanTurn, Arrive
<1>9. ASSUME NEW q \in Requests, Reject(q) \/ Revise(q) \/ Refuse(q)
      PROVE  UNCHANGED <<staged, assigned>>
  BY <1>9 DEF Reject, Revise, Refuse
<1>10. ASSUME NEW q \in Requests, Raise(q) \/ Commit(q) \/ Abort(q)
       PROVE  assigned'[o] = Unassigned
  BY <1>4, <1>10 DEF Raise, Commit, Abort
<1>11. ASSUME NEW p \in Proposals, Expire(p) PROVE UNCHANGED <<staged, assigned>>
  BY <1>11 DEF Expire, local
<1>12. CASE UNCHANGED vars
  BY <1>3, <1>12 DEF vars, local
<1> QED BY <1>2, <1>3, <1>5, <1>6, <1>7, <1>8, <1>9, <1>10, <1>11, <1>12,
       SendersAreRequests DEF Next

\* A commit adds the audit events of its own applications.
LEMMA TrailCommit ==
    ASSUME WorkInv, NEW q \in Requests, Commit(q)
    PROVE  Trail' = Trail \cup {<<staged[q][p].outcome.status, <<q, p>>>> : p \in Applied(q)}
<1>1. audit' = audit \cup AuditTrail(q)
  BY DEF Commit
<1>2. \A p \in Applied(q) : /\ p \in Proposals
                            /\ staged[q][p].outcome.status \in {"applied", "failed"}
  BY CommitRecords DEF Applied
<1>3. ASSUME NEW status \in {"applied", "failed"}, NEW id \in Ids
      PROVE  AuditOf(status) \X {id} \subseteq audit' <=>
                \/ AuditOf(status) \X {id} \subseteq audit
                \/ \E p \in Applied(q) : id = <<q, p>> /\ status = staged[q][p].outcome.status
  <2>1. SUFFICES ASSUME NEW type, AuditOf(status) = {type}
                 PROVE  <<type, id>> \in audit' <=>
                          \/ <<type, id>> \in audit
                          \/ \E p \in Applied(q) : /\ id = <<q, p>>
                                                   /\ status = staged[q][p].outcome.status
    BY DEF AuditOf
  <2>2. type = IF status = "applied" THEN "state_change.applied" ELSE "state_change.failed"
    BY <2>1 DEF AuditOf
  <2>3. \A p \in Applied(q) : AuditOf(staged[q][p].outcome.status) = {type} <=>
                                 status = staged[q][p].outcome.status
    BY <1>2, <2>2 DEF AuditOf
  <2>4. <<type, id>> \in UNION {AuditOf(staged[q][p].outcome.status) \X {<<q, p>>} :
                                  p \in Applied(q)}
        <=> \E p \in Applied(q) : /\ id = <<q, p>>
                                  /\ status = staged[q][p].outcome.status
    <3>1. \A p : type \in AuditOf(staged[q][p].outcome.status) <=>
                    AuditOf(staged[q][p].outcome.status) = {type}
      BY DEF AuditOf
    <3>2. \A p : <<type, id>> \in AuditOf(staged[q][p].outcome.status) \X {<<q, p>>} <=>
                    id = <<q, p>> /\ type \in AuditOf(staged[q][p].outcome.status)
      OBVIOUS
    <3>3. <<type, id>> \in UNION {AuditOf(staged[q][p].outcome.status) \X {<<q, p>>} :
                                    p \in Applied(q)}
          <=> \E p \in Applied(q) :
                <<type, id>> \in AuditOf(staged[q][p].outcome.status) \X {<<q, p>>}
      OBVIOUS
    <3> QED BY <2>3, <3>1, <3>2, <3>3
  <2>5. <<type, id>> \in AuditTrail(q) <=>
           <<type, id>> \in UNION {AuditOf(staged[q][p].outcome.status) \X {<<q, p>>} :
                                  p \in Applied(q)}
    BY <2>2 DEF AuditTrail
  <2> QED BY <1>1, <2>4, <2>5
<1>4. \A t : t \in Trail' <=>
         t \in Trail \cup {<<staged[q][p].outcome.status, <<q, p>>>> : p \in Applied(q)}
  <2>1. \A t : t \in Trail <=> \E status \in {"applied", "failed"}, id \in Ids :
           t = <<status, id>> /\ AuditOf(status) \X {id} \subseteq audit
    BY DEF Trail
  <2>2. \A t : t \in Trail' <=> \E status \in {"applied", "failed"}, id \in Ids :
           t = <<status, id>> /\ AuditOf(status) \X {id} \subseteq audit'
    BY DEF Trail
  <2>3. \A p \in Applied(q) : <<q, p>> \in Ids
    BY <1>2 DEF Ids
  <2> QED BY <1>2, <1>3, <2>1, <2>2, <2>3
<1> QED BY <1>4

LEMMA LedgerCommit ==
    ASSUME WorkInv, NEW q \in Requests, Commit(q)
    PROVE  /\ \A id \in Ids : Ledger'[id] # Ledger[id] => \E p \in Applied(q) : id = <<q, p>>
           /\ \A p \in Applied(q) : /\ <<q, p>> \in Ids
                                    /\ Ledger[<<q, p>>] = Missing
                                    /\ Ledger'[<<q, p>>] = staged[q][p].outcome.status
                                    /\ Ledger'[<<q, p>>] \in {"applied", "failed"}
<1>1. ASSUME NEW p \in Applied(q)
      PROVE  /\ <<q, p>> \in Ids
             /\ Ledger[<<q, p>>] = Missing
             /\ Ledger'[<<q, p>>] = staged[q][p].outcome.status
             /\ Ledger'[<<q, p>>] \in {"applied", "failed"}
  <2>1. p \in Proposals /\ staged[q][p] # Missing /\ <<q, p>> \in Ids
    BY DEF Applied, Ids
  <2> QED BY <2>1, CommitChanges, CommitRecords DEF Ledger
<1>2. ASSUME NEW id \in Ids, Ledger'[id] # Ledger[id]
      PROVE  \E p \in Applied(q) : id = <<q, p>>
  <2>1. PICK o \in Requests, p \in Proposals : id = <<o, p>>
    BY DEF Ids
  <2>2. changes'[<<o, p>>] # changes[<<o, p>>]
    BY <1>2, <2>1 DEF Ledger
  <2>3. o = q /\ staged[q][p] # Missing
    BY <2>2, CommitChanges
  <2> QED BY <2>1, <2>3 DEF Applied
<1> QED BY <1>1, <1>2

\* A request that applied nothing changes no durable row.
LEMMA LoopQuietCommit ==
    ASSUME WorkInv, StagedAssigns, NEW q \in Requests, Commit(q), Applied(q) = {}
    PROVE  UNCHANGED AT!vars
<1>1. TypeOK
  BY DEF WorkInv
<1>2. Ledger' = Ledger
  BY LedgerCommit DEF Ledger
<1>3. Trail' = Trail
  BY TrailCommit
<1>4. rows' = rows
  BY DEF Commit
<1>5. items' = items
  <2>1. assigned[q] = Unassigned
    BY DEF StagedAssigns, Applied, Commit
  <2>2. items \in [Items -> [Columns -> Values]]
    BY <1>1 DEF TypeOK
  <2>3. \A i \in Items : Item(q, i) = items[i]
    <3>1. \A i \in Items, c \in Columns : assigned[q][i][c] = Missing
      BY <2>1 DEF Unassigned
    <3>2. \A i \in Items : Item(q, i) = [c \in Columns |-> items[i][c]]
      BY <3>1 DEF Item
    <3> QED BY <2>2, <3>2
  <2>4. items' = [i \in Items |-> Item(q, i)]
    BY DEF Commit
  <2> QED BY <2>2, <2>3, <2>4
<1> QED BY <1>2, <1>3, <1>4, <1>5 DEF AT!vars, Ledger, Trail

LEMMA LoopCommit ==
    ASSUME WorkInv, StagedAssigns, NEW q \in Requests, Commit(q)
    PROVE  [AT!Next]_(AT!vars)
<1> DEFINE New == {<<q, p>> : p \in Applied(q)}
<1>1. CASE Applied(q) = {}
  BY <1>1, LoopQuietCommit
<1>2. CASE Applied(q) # {}
  <2>1. {c \in Ids : Ledger'[c] # Ledger[c]} = New
    <3>1. \A p \in Applied(q) : <<q, p>> \in Ids /\ Ledger'[<<q, p>>] # Ledger[<<q, p>>]
      BY LedgerCommit, ProposalAssumption
    <3> QED BY <3>1, LedgerCommit
  <2>2. New # {}
    BY <1>2
  <2>3. \A c \in New : Ledger[c] = Missing /\ Ledger'[c] \in {"applied", "failed"}
    BY LedgerCommit
  <2>4. Trail' = Trail \cup {<<Ledger'[c], c>> : c \in New}
    <3>1. {<<staged[q][p].outcome.status, <<q, p>>>> : p \in Applied(q)}
             = {<<Ledger'[c], c>> : c \in New}
      BY LedgerCommit
    <3> QED BY <3>1, TrailCommit
  <2>5. rows \subseteq rows' /\ rows' \ rows \subseteq Tables \X New
    <3>1. rows' = rows \cup UNION {staged[q][p].outcome.inserts \X {<<q, p>>} : p \in Applied(q)}
      BY DEF Commit
    <3>2. \A p \in Applied(q) : staged[q][p].outcome.inserts \subseteq Tables
      <4>1. \A p \in Applied(q) : staged[q][p] \in Application
        BY Shapes DEF Applied, WorkInv
      <4> QED BY <4>1 DEF Application, OutcomeRecord
    <3> QED BY <3>1, <3>2
  <2>6. DOMAIN Ledger' = Ids
    BY DEF Ledger
  <2>7. AT!Recorded = New
    BY <2>1 DEF AT!Recorded, Ledger
  <2> HIDE DEF NewIds
  <2>8. AT!Record
    BY <2>2, <2>3, <2>4, <2>5, <2>6, <2>7 DEF AT!Record, AT!Outcomes, Ledger, Trail
  <2> QED BY <2>8 DEF AT!Next
<1> QED BY <1>1, <1>2

LEMMA LoopStep == WorkInv /\ StagedAssigns /\ [Next]_vars => [AT!Next]_(AT!vars)
<1> SUFFICES ASSUME WorkInv, StagedAssigns, [Next]_vars PROVE [AT!Next]_(AT!vars)
  OBVIOUS
<1>1. CASE Quiet
  BY <1>1 DEF Quiet, AT!vars
<1> QED BY <1>1, LoopCommit, CommitOrQuiet

\* Every request of the action loop is, for the durable rows, one recorded and audited
\* change of the applications it made or no change at all.
THEOREM ProposalsImplementAuditedTruth == Spec => ImplementsAuditedTruth
<1>1. Init => StagedAssigns
  BY DEF Init, StagedAssigns, Open
<1>2. Spec => []StagedAssigns
  BY <1>1, AssignsStep, WorkAlways, PTL DEF Spec
<1> QED BY <1>2, LoopInit, LoopStep, WorkAlways, PTL DEF Spec, ImplementsAuditedTruth, AT!Spec

-----------------------------------------------------------------------------
(* What a "yes" means.                                                     *)

\* The step YesMeansLatest is about.
Latest(q) ==
    /\ pc[q] = "unsent" /\ pc'[q] = "open" /\ req'[q].from \in Turns
    /\ req'[q].act = "approve" /\ Cardinality(work'[q]) = 1
    /\ Cardinality(Pending) <= Limit
    => \A p \in req'[q].on, o \in Pending : props[o].born <= props[p].born

\* A window that has room for every open proposal holds them all.
LEMMA WholeWindow ==
    ASSUME NEW V \in Windows, Cardinality(Pending) <= Limit
    PROVE  V = Pending /\ IsFiniteSet(V) /\ Cardinality(V) \in Nat
<1>1. IsFiniteSet(Pending)
  <2>1. IsFiniteSet(Proposals)
    BY ProposalAssumption, FS_Interval DEF Proposals
  <2>2. Pending \in SUBSET Proposals
    BY DEF Pending
  <2> QED BY <2>1, <2>2, FS_Subset
<1>2. Cardinality(Pending) \in Nat
  BY <1>1, FS_CardinalityType
<1>3. V \in SUBSET Pending /\ Cardinality(V) = Cardinality(Pending)
  BY <1>2, ProposalAssumption DEF Windows
<1> QED BY <1>1, <1>2, <1>3, FS_Subset

LEMMA FollowUpLatest ==
    ASSUME TypeOK, NEW q \in Requests, NEW via, NEW text, NEW draft,
           FollowUp(q, via, text, draft)
    PROVE  Latest(q)
<1>1. PICK V \in Windows : \E p \in AtPosition(V, Meaning(text, Cardinality(V)).at) :
         FollowsUp(q, via, text, draft, V, p)
  BY DEF FollowUp, FollowsUp
<1>2. PICK p \in AtPosition(V, Meaning(text, Cardinality(V)).at) :
         FollowsUp(q, via, text, draft, V, p)
  BY <1>1
<1> DEFINE act == Meaning(text, Cardinality(V)).act
           others == IF act = "approve" /\ SaysOnly(text) THEN V \ {p} ELSE {}
           W == (IF act = "ask" THEN {} ELSE {[op |-> act, p |-> p]})
                   \cup {[op |-> "reject", p |-> o] : o \in others}
           request == [from |-> via, act |-> act, on |-> {p}, draft |-> draft,
                       said |-> "nothing"]
<1>3. Arrive(q, request) /\ work' = [work EXCEPT ![q] = W]
  BY <1>2 DEF FollowsUp
<1>4. req'[q] = request /\ work'[q] = W
  <2>1. DOMAIN req = Requests /\ DOMAIN work = Requests
    BY DEF TypeOK
  <2> HIDE DEF request, W
  <2> QED BY <1>3, <2>1 DEF Arrive
<1>5. SUFFICES ASSUME act = "approve", Cardinality(W) = 1, Cardinality(Pending) <= Limit,
                      NEW o \in Pending
               PROVE  props[o].born <= props[p].born
  BY <1>4 DEF Latest
<1>6. V = Pending /\ IsFiniteSet(V) /\ Cardinality(V) \in Nat /\ p \in V
  BY <1>5, WholeWindow DEF AtPosition
<1>7. \A r \in V : props[r].born \in Nat
  BY <1>6, Shapes DEF Pending, PropRow
<1>8. CASE SaysOnly(text)
  <2>1. PICK w : W = {w}
    <3>1. IsFiniteSet(W)
      <4>1. IsFiniteSet({[op |-> "reject", p |-> r] : r \in others})
        <5>1. IsFiniteSet(others)
          BY <1>6, FS_Subset, FS_EmptySet
        <5> DEFINE f == [r \in others |-> [op |-> "reject", p |-> r]]
                   T == {[op |-> "reject", p |-> r] : r \in others}
        <5>2. f \in Surjection(others, T)
          BY DEF Surjection
        <5> HIDE DEF f, T
        <5>3. IsFiniteSet(T)
          BY <5>1, <5>2, FS_Surjection
        <5> QED BY <5>3 DEF T
      <4>2. IsFiniteSet(IF act = "ask" THEN {} ELSE {[op |-> act, p |-> p]})
        BY FS_EmptySet, FS_Singleton
      <4> QED BY <4>1, <4>2, FS_Union
    <3> HIDE DEF W
    <3> QED BY <1>5, <3>1, FS_Singleton
  <2>2. o = p
    <3>1. [op |-> "approve", p |-> p] \in W
      BY <1>5
    <3>2. o # p => [op |-> "reject", p |-> o] \in W
      BY <1>5, <1>6, <1>8
    <3>3. [op |-> "approve", p |-> p].op # [op |-> "reject", p |-> o].op
      OBVIOUS
    <3> HIDE DEF W
    <3> QED BY <2>1, <3>1, <3>2, <3>3
  <2> QED BY <1>6, <1>7, <2>2
<1>9. CASE ~SaysOnly(text)
  <2>1. Meaning(text, Cardinality(V)).at = Cardinality(V)
    BY <1>5, <1>9 DEF Meaning, SaysOnly
  <2> DEFINE T == {r \in V : props[r].born <= props[p].born}
  <2>2. Cardinality(V) <= Cardinality(T)
    BY <1>2, <2>1 DEF AtPosition
  <2>3. T = V
    <3>1. T \in SUBSET V
      OBVIOUS
    <3>2. IsFiniteSet(T) /\ Cardinality(T) <= Cardinality(V)
      BY <1>6, <3>1, FS_Subset
    <3>3. Cardinality(T) \in Nat
      BY <3>2, FS_CardinalityType
    <3>4. Cardinality(V) = Cardinality(T)
      BY <1>6, <2>2, <3>2, <3>3
    <3> QED BY <1>6, <3>1, <3>4, FS_Subset
  <2> QED BY <1>6, <2>3
<1> QED BY <1>8, <1>9

LEMMA LatestStep == WorkInv /\ [Next]_vars => \A q \in Requests : Latest(q)
<1> SUFFICES ASSUME WorkInv, [Next]_vars, NEW q \in Requests,
                    pc[q] = "unsent", pc'[q] = "open"
             PROVE  Latest(q)
  BY DEF Latest
<1>1. /\ TypeOK /\ DOMAIN pc = Requests /\ DOMAIN req = Requests
  BY DEF WorkInv, TypeOK
<1>2. ASSUME NEW r \in Requests, NEW request, Arrive(r, request)
      PROVE  r = q /\ req'[q] = request
  BY <1>1, <1>2 DEF Arrive
<1>3. ASSUME NEW r \in Requests, NEW via, NEW text, NEW draft, FollowUp(r, via, text, draft)
      PROVE  Latest(q)
  <2>1. r = q
    BY <1>2, <1>3 DEF FollowUp
  <2> QED BY <1>1, <1>3, <2>1, FollowUpLatest
<1>4. ASSUME NEW r \in Requests, NEW p \in Proposals, NEW act, NEW draft,
             PressButton(r, p, act, draft)
      PROVE  Latest(q)
  BY <1>2, <1>4 DEF PressButton, Latest, Turns
<1>5. ASSUME NEW r \in Requests, NEW via, NEW m \in Messages, NEW answer \in Answers,
             PlanTurn(r, via, m, answer)
      PROVE  Latest(q)
  <2>1. PlanFor(m, answer).mode \in Modes
    <3>1. m \in Message /\ answer \in PlanRecord \cup {NoAnswer}
      BY ProposalAssumption
    <3> QED BY <3>1, PlanForType DEF PlanRecord
  <2>2. req'[q].act = PlanFor(m, answer).mode
    BY <1>2, <1>5 DEF PlanTurn
  <2> QED BY <2>1, <2>2 DEF Latest, Modes
<1>6. CASE UNCHANGED pc
  BY <1>6
<1>7. ASSUME NEW r \in Requests, Raise(r) \/ Commit(r) \/ Abort(r) PROVE Latest(q)
  <2>1. PICK end \in {"committed", "aborted"} : Close(r, end)
    BY <1>7 DEF Raise, Commit, Abort
  <2> QED BY <1>1, <2>1 DEF Close
<1>8. ASSUME NEW r \in Requests, Reject(r) \/ Revise(r) \/ Execute(r) \/ Refuse(r)
      PROVE  UNCHANGED pc
  BY <1>8 DEF Reject, Revise, Execute, Refuse
<1>9. ASSUME NEW p \in Proposals, Expire(p) PROVE UNCHANGED pc
  BY <1>9 DEF Expire
<1>10. CASE UNCHANGED vars
  BY <1>6, <1>10 DEF vars
<1> QED BY <1>3, <1>4, <1>5, <1>6, <1>7, <1>8, <1>9, <1>10, SendersAreRequests DEF Next

\* A plain approval never skips a younger open proposal that fits on the page.
THEOREM YesMeansTheLatest == Spec => YesMeansLatest
<1>1. WorkInv /\ [Next]_vars => [\A q \in Requests : Latest(q)]_vars
  BY LatestStep
<1> QED BY <1>1, WorkAlways, PTL DEF Spec, YesMeansLatest, Latest

=============================================================================

-------------------------- MODULE ReviewFlowProofs --------------------------
(***************************************************************************)
(* Proofs about ReviewFlow, for any set of reviews, requests and commands. *)
(*                                                                         *)
(* The inductive invariant is layered: the types of rows and requests,     *)
(* then what a staged outcome may hold, then the facts that relate the     *)
(* committed tables, and last the explanation of a review's status.        *)
(***************************************************************************)
EXTENDS ReviewFlow, CommandBusProofs

\* A request in flight carries a decision, and read a review that exists.
RequestsOK ==
    /\ \A r \in Reviews :
         reviews[r].status # "absent" => reviews[r].action \in Commands
    /\ \A q \in Requests : Open(q) =>
         /\ req[q] \in Decision
         /\ seen[q].status # "absent"
         /\ seen[q].action \in Commands
         /\ changes[q] = Missing
         /\ reviews[req[q].review].status # "absent"
    /\ \A q \in Requests : pc[q] = "ready" => req[q].kind = "approve"
    /\ \A q \in Requests : pc[q] = "unsent" => changes[q] = Missing

TInv == TypeOK /\ RequestsOK

\* What an approval has staged: the tool call its command names, no fact that is
\* not in the vault, and nothing but a life item if it failed.
StagedOK ==
    \A q \in Requests : pc[q] = "ready" =>
        /\ staged[q].tool # Missing => /\ seen[q].action.type = "tool_call.approve"
                                       /\ seen[q].action.target = staged[q].tool
        /\ "memory_fact" \in staged[q].inserts => q \in facts
        /\ staged[q].status = "failed" => staged[q].inserts \subseteq {"life_item"}

TruthInv == TInv /\ StagedOK /\ TruthIsBacked /\ FailedFootprint /\ FactRowsInVault

\* What a request in flight read has an explanation too, and a review it did not
\* see pending is not pending now unless somebody corrected it.
SeenExplained ==
    \A q \in Requests : Open(q) =>
        /\ Explained(req[q].review, seen[q].status)
        /\ \/ seen[q].status = "pending"
           \/ reviews[req[q].review].status # "pending"
           \/ Decided(req[q].review, "correct") # {}

\* Only a review that exists is decided.
DecidedExist == \A d \in decisions : reviews[d.review].status # "absent"

StatusInv == TInv /\ DecidedExist /\ StatusExplained /\ SeenExplained

-----------------------------------------------------------------------------
(* Types of the rows and of the requests.                                  *)

LEMMA TypeInit == Init => TInv
BY ReviewAssumption DEF Init, TInv, TypeOK, RequestsOK, Open, NoRow, ReviewRow,
   Statuses, Failure, OutcomeRecord

LEMMA TypeCreate ==
    ASSUME TInv, NEW r \in Reviews, NEW cmd \in Commands,
           NEW status \in {"pending", "needs_clarification"},
           CreateReview(r, cmd, status)
    PROVE  TInv'
<1> USE DEF TInv, CreateReview, files
<1>1. reviews' \in [Reviews -> ReviewRow]
  BY DEF TypeOK, ReviewRow, Statuses
<1>2. TypeOK'
  BY <1>1 DEF TypeOK
<1>3. RequestsOK'
  BY DEF TypeOK, RequestsOK, Open, ReviewRow
<1>4. QED
  BY <1>2, <1>3

LEMMA TypeBegin ==
    ASSUME TInv, NEW q \in Requests, NEW d \in Decision, Begin(q, d)
    PROVE  TInv'
<1> USE DEF TInv, Begin, db, files
<1>1. d.review \in Reviews
  BY DEF Decision
<1>2. reviews[d.review] \in ReviewRow
  BY <1>1 DEF TypeOK
<1>3. met' \subseteq SUBSET Requests
  BY DEF TypeOK, InFlight
<1>4. TypeOK'
  BY <1>2, <1>3 DEF TypeOK
<1>5. RequestsOK'
  BY <1>1, <1>2 DEF TypeOK, RequestsOK, Open
<1>6. QED
  BY <1>4, <1>5

LEMMA TypeApply ==
    ASSUME TInv, NEW q \in Requests, Apply(q)
    PROVE  TInv'
<1> USE DEF TInv, Apply, db
<1>1. seen[q].action \in Commands
  BY DEF RequestsOK, Open
<1>2. PICK vaultOk \in {TRUE, ~VaultMayFail} :
        LET out == ApplyPayload(seen[q].action, Named(seen[q].action), vaultOk)
        IN /\ staged' = [staged EXCEPT ![q] = out]
           /\ facts' = IF "facts" \in out.vault THEN facts \cup {q} ELSE facts
           /\ tasks' = IF "tasks" \in out.vault THEN q ELSE tasks
  OBVIOUS
<1>3. vaultOk \in BOOLEAN
  BY ReviewAssumption
<1>4. ApplyPayload(seen[q].action, Named(seen[q].action), vaultOk) \in OutcomeRecord
  BY <1>1, <1>3, ApplyPayloadType, CommandAssumption
<1>5. TypeOK'
  BY <1>2, <1>4 DEF TypeOK
<1>6. RequestsOK'
  BY DEF TypeOK, RequestsOK, Open
<1>7. QED
  BY <1>5, <1>6

\* The row a decision writes back is a review row, and a decided review exists.
LEMMA WrittenType ==
    ASSUME TInv, NEW q \in Requests, Open(q), pc[q] = "ready" <=> req[q].kind = "approve"
    PROVE  /\ Written(q) \in ReviewRow
           /\ Written(q).action \in Commands
           /\ Written(q).status # "absent"
           /\ NewStatus(q) \in Statuses \ {"absent"}
<1> USE DEF TInv
<1>1. req[q] \in Decision /\ seen[q].action \in Commands
  BY DEF RequestsOK
<1>2. NewStatus(q) \in Statuses \ {"absent"}
  BY <1>1 DEF NewStatus, AssignedStatus, Statuses, TypeOK, OutcomeRecord, Decision, Kinds
<1>3. NewAction(q) \in Commands
  BY <1>1 DEF NewAction, Decision
<1>4. req[q].review \in Reviews /\ reviews[req[q].review] \in ReviewRow
  BY <1>1 DEF Decision, TypeOK
<1>5. Written(q) \in ReviewRow
  BY <1>2, <1>3, <1>4 DEF Written, ReviewRow
<1>6. /\ reviews[req[q].review].status # "absent"
      /\ reviews[req[q].review].action \in Commands
  BY <1>4 DEF RequestsOK
<1>7. Written(q).action \in Commands /\ Written(q).status # "absent"
  BY <1>2, <1>3, <1>6 DEF Written
<1>8. QED
  BY <1>2, <1>5, <1>7

LEMMA TypeCommit ==
    ASSUME TInv, NEW q \in Requests, Commit(q)
    PROVE  TInv'
<1> USE DEF TInv
<1>1. /\ req[q] \in Decision
      /\ req[q].review \in Reviews
      /\ seen[q].action \in Commands
  BY DEF RequestsOK, Commit, Decision
<1>2. /\ Written(q) \in ReviewRow
      /\ Written(q).action \in Commands
      /\ Written(q).status # "absent"
  BY WrittenType DEF Commit
<1>3. reviews' = [reviews EXCEPT ![req[q].review] = Written(q)]
  BY DEF Commit
<1>4. staged[q] \in OutcomeRecord
  BY DEF TypeOK
<1>5. /\ changes' \in [Requests -> Change \cup {Missing}]
      /\ rows' \subseteq Tables \X Requests
      /\ items' \in [Items -> [Columns -> Values]]
      /\ tools' \in [ToolCalls -> {"requested", "succeeded"}]
  <2>1. CASE req[q].kind # "approve"
    BY <2>1 DEF Commit, TypeOK
  <2>2. CASE req[q].kind = "approve"
    <3>1. CommitCommand(q)
      BY <2>2 DEF Commit
    <3>2. changes' \in [Requests -> Change \cup {Missing}]
      BY <1>1, <1>4, <3>1 DEF CommitCommand, TypeOK, Change, OutcomeRecord
    <3>3. rows' \subseteq Tables \X Requests
      BY <1>4, <3>1 DEF CommitCommand, Inserted, TypeOK, OutcomeRecord
    <3>4. UpdatedItems(q) \in [Items -> [Columns -> Values]]
      BY DEF UpdatedItems, TypeOK
    <3>5. UpdatedTools(q) \in [ToolCalls -> {"requested", "succeeded"}]
      BY DEF UpdatedTools, TypeOK
    <3>6. QED
      BY <3>1, <3>2, <3>3, <3>4, <3>5 DEF CommitCommand
  <2>3. QED
    BY <2>1, <2>2
<1>6. /\ decisions' \subseteq [by : Requests, review : Reviews, kind : Kinds]
      /\ audit' \subseteq {"review.decision_received", "state_change.applied",
                           "state_change.failed"} \X Requests
      /\ events' \subseteq {"review.decision_received", "state_change.applied"} \X Requests
  BY <1>1 DEF Commit, TypeOK, Decision, AuditTrail, AuditOf, EventTrail, EventsOf
<1>7. reviews' \in [Reviews -> ReviewRow]
  BY <1>1, <1>2, <1>3 DEF TypeOK
<1>8. TypeOK'
  BY <1>5, <1>6, <1>7 DEF TypeOK, Commit, files
<1>9. RequestsOK'
  <2>1. \A r \in Reviews : /\ reviews[r].status # "absent" => reviews'[r].status # "absent"
                           /\ reviews'[r].status # "absent" => reviews'[r].action \in Commands
    BY <1>1, <1>2, <1>3 DEF TypeOK, RequestsOK
  <2>2. \A p \in Requests : Open(p)' => Open(p) /\ p # q
    BY DEF Commit, Open, TypeOK
  <2>3. \A p \in Requests : p # q => changes'[p] = changes[p]
    BY DEF Commit, CommitCommand, TypeOK
  <2>4. UNCHANGED <<req, seen>>
    BY DEF Commit
  <2>5. ASSUME NEW p \in Requests, Open(p)'
        PROVE  /\ req'[p] \in Decision
               /\ seen'[p].status # "absent"
               /\ seen'[p].action \in Commands
               /\ changes'[p] = Missing
               /\ reviews'[req'[p].review].status # "absent"
    BY <2>1, <2>2, <2>3, <2>4, <2>5 DEF RequestsOK, Decision
  <2>6. \A p \in Requests : pc'[p] \in {"ready", "unsent"} => pc[p] = pc'[p] /\ p # q
    BY DEF Commit, TypeOK
  <2>7. QED
    BY <2>1, <2>3, <2>4, <2>5, <2>6 DEF RequestsOK
<1>10. QED
  BY <1>8, <1>9

LEMMA TypeAbort ==
    ASSUME TInv, NEW q \in Requests, Abort(q)
    PROVE  TInv'
BY DEF TInv, TypeOK, RequestsOK, Abort, Open, db, files

LEMMA TypeStep == TInv /\ [Next]_vars => TInv'
<1>1. SUFFICES ASSUME TInv, [Next]_vars PROVE TInv'
  OBVIOUS
<1>2. CASE UNCHANGED vars
  BY <1>1, <1>2 DEF vars, db, files, TInv, TypeOK, RequestsOK, Open
<1>3. CASE Next
  BY <1>1, <1>3, TypeCreate, TypeBegin, TypeApply, TypeCommit, TypeAbort DEF Next
<1>4. QED
  BY <1>1, <1>2, <1>3

\* Rows, audit trail and requests keep their shape in every behaviour of the review
\* queue, for any number of reviews, requests and commands.
THEOREM TypeCorrect == Spec => []TypeOK
<1>1. TInv => TypeOK
  BY DEF TInv
<1>2. QED
  BY <1>1, TypeInit, TypeStep, PTL DEF Spec

LEMMA TInvAlways == Spec => []TInv
BY TypeInit, TypeStep, PTL DEF Spec

-----------------------------------------------------------------------------
(* Truth is backed by the ledger, the audit trail and the vault.           *)

LEMMA TruthInit == Init => TruthInv
BY TypeInit, ReviewAssumption DEF Init, TruthInv, StagedOK, TruthIsBacked,
   FailedFootprint, FactRowsInVault

\* A step that changes none of the committed tables, and stages nothing.
LEMMA TruthQuiet ==
    ASSUME TruthInv, TInv', UNCHANGED <<decisions, changes, rows, items, tools, audit,
                                        facts, staged>>,
           \A q \in Requests : pc'[q] = "ready" => /\ pc[q] = "ready"
                                                   /\ seen'[q] = seen[q]
    PROVE  TruthInv'
BY DEF TruthInv, StagedOK, TruthIsBacked, FailedFootprint, FactRowsInVault

LEMMA TruthApply ==
    ASSUME TruthInv, NEW q \in Requests, Apply(q)
    PROVE  TruthInv'
<1> USE DEF TruthInv, Apply, db
<1>1. TInv'
  BY TypeApply
<1>2. seen[q].action \in Commands
  BY DEF TInv, RequestsOK, Open
<1>3. PICK vaultOk \in {TRUE, ~VaultMayFail} :
        LET out == ApplyPayload(seen[q].action, Named(seen[q].action), vaultOk)
        IN /\ staged' = [staged EXCEPT ![q] = out]
           /\ facts' = IF "facts" \in out.vault THEN facts \cup {q} ELSE facts
           /\ tasks' = IF "tasks" \in out.vault THEN q ELSE tasks
  OBVIOUS
<1> DEFINE out == ApplyPayload(seen[q].action, Named(seen[q].action), vaultOk)
<1>4. vaultOk \in BOOLEAN
  BY ReviewAssumption
<1>5. /\ out.tool # Missing => /\ seen[q].action.type = "tool_call.approve"
                               /\ seen[q].action.target = out.tool
      /\ "memory_fact" \in out.inserts => "facts" \in out.vault
      /\ out.status = "failed" => out.inserts \subseteq {"life_item"}
  BY <1>2, <1>4, ApplyPayloadFootprint, CommandAssumption
<1>6. /\ staged' = [staged EXCEPT ![q] = out]
      /\ facts' = IF "facts" \in out.vault THEN facts \cup {q} ELSE facts
  BY <1>3
<1> HIDE DEF out
<1>7. StagedOK'
  BY <1>5, <1>6 DEF StagedOK, TInv, TypeOK
<1>8. (TruthIsBacked /\ FailedFootprint /\ FactRowsInVault)'
  BY <1>6 DEF TruthIsBacked, FailedFootprint, FactRowsInVault
<1>9. QED
  BY <1>1, <1>7, <1>8

\* What a commit adds to the tables.
LEMMA CommitAdds ==
    ASSUME TInv, NEW q \in Requests, Commit(q)
    PROVE  /\ Open(q) /\ changes[q] = Missing
           /\ decisions' = decisions \cup
                {[by |-> q, review |-> req[q].review, kind |-> req[q].kind]}
           /\ \A p \in Requests : p # q => changes'[p] = changes[p]
           /\ \/ /\ req[q].kind = "approve" /\ pc[q] = "ready"
                 /\ changes'[q] = [status |-> staged[q].status, command |-> seen[q].action]
                 /\ changes'[q] # Missing
                 /\ rows' = rows \cup Inserted(q)
                 /\ tools' = UpdatedTools(q)
                 /\ AuditOf(staged[q].status) \X {q} \subseteq audit'
              \/ req[q].kind # "approve" /\ UNCHANGED <<changes, rows, items, tools>>
           /\ audit \subseteq audit'
           /\ facts' = facts
<1> USE DEF TInv
<1>1. Open(q) /\ changes[q] = Missing
  BY DEF Commit, RequestsOK
<1>2. changes \in [Requests -> Change \cup {Missing}] /\ staged[q] \in OutcomeRecord
  BY DEF TypeOK
<1>3. CASE req[q].kind # "approve"
  BY <1>1, <1>3 DEF Commit, files
<1>4. CASE req[q].kind = "approve"
  <2>1. CommitCommand(q) /\ pc[q] = "ready"
    BY <1>4 DEF Commit
  <2>2. changes'[q] = [status |-> staged[q].status, command |-> seen[q].action]
    BY <1>2, <2>1 DEF CommitCommand
  <2>3. seen[q].action \in Commands /\ staged[q].status \in {"applied", "failed"}
    BY <1>1, <1>2 DEF RequestsOK, OutcomeRecord
  <2>4. changes'[q] # Missing
    BY <2>2, <2>3, ReviewAssumption
  <2>5. AuditOf(staged[q].status) \X {q} \subseteq audit'
    <3>1. audit' = audit \cup {<<type, q>> : type \in AuditTrail(q)}
      BY DEF Commit
    <3>2. AuditOf(staged[q].status) \subseteq AuditTrail(q)
      BY <1>4 DEF AuditTrail
    <3>3. QED
      BY <3>1, <3>2
  <2>6. QED
    BY <1>1, <1>2, <1>4, <2>1, <2>2, <2>4, <2>5 DEF Commit, CommitCommand, files
<1>5. QED
  BY <1>3, <1>4

LEMMA TruthCommit ==
    ASSUME TruthInv, NEW q \in Requests, Commit(q)
    PROVE  TruthInv'
<1> USE DEF TruthInv
<1>1. TInv'
  BY TypeCommit
<1>2. StagedOK'
  BY DEF StagedOK, Commit, TInv, TypeOK, files
<1>3. CASE req[q].kind # "approve"
  <2>1. /\ UNCHANGED <<changes, rows, items, tools, facts>>
        /\ decisions \subseteq decisions' /\ audit \subseteq audit'
    BY <1>3, CommitAdds
  <2>2. TruthIsBacked'
    BY <2>1 DEF TruthIsBacked
  <2>3. FailedFootprint' /\ FactRowsInVault'
    BY <2>1 DEF FailedFootprint, FactRowsInVault
  <2>4. QED
    BY <1>1, <1>2, <2>2, <2>3
<1>4. CASE req[q].kind = "approve"
  <2>1. /\ changes'[q] = [status |-> staged[q].status, command |-> seen[q].action]
        /\ changes[q] = Missing /\ changes'[q] # Missing
        /\ \A p \in Requests : p # q => changes'[p] = changes[p]
        /\ rows' = rows \cup Inserted(q)
        /\ tools' = UpdatedTools(q)
        /\ AuditOf(staged[q].status) \X {q} \subseteq audit'
        /\ audit \subseteq audit' /\ facts' = facts
        /\ pc[q] = "ready"
        /\ decisions' = decisions \cup
             {[by |-> q, review |-> req[q].review, kind |-> req[q].kind]}
    BY <1>4, CommitAdds
  <2>2. \A row \in rows : row[2] \in Requests /\ row[2] # q
    BY <2>1 DEF TruthIsBacked, TInv, TypeOK
  <2>3. \A row \in Inserted(q) : row[2] = q /\ row[1] \in staged[q].inserts
    BY DEF Inserted
  <2>4. TruthIsBacked'
    <3>1. \A row \in rows' : changes'[row[2]] # Missing
      BY <2>1, <2>2, <2>3 DEF TruthIsBacked
    <3>2. ASSUME NEW t \in ToolCalls, tools'[t] = "succeeded"
          PROVE  \E p \in Requests : /\ changes'[p] # Missing
                                     /\ changes'[p].command.type = "tool_call.approve"
                                     /\ changes'[p].command.target = t
      <4>1. CASE t = staged[q].tool
        <5>1. t # Missing
          BY CommandAssumption
        <5>2. QED
          BY <2>1, <4>1, <5>1 DEF StagedOK
      <4>2. CASE t # staged[q].tool
        <5>1. tools[t] = "succeeded"
          BY <2>1, <3>2, <4>2 DEF UpdatedTools
        <5>2. PICK p \in Requests : /\ changes[p] # Missing
                                    /\ changes[p].command.type = "tool_call.approve"
                                    /\ changes[p].command.target = t
          BY <5>1 DEF TruthIsBacked
        <5>3. QED
          BY <2>1, <5>2
      <4>3. QED
        BY <4>1, <4>2
    <3>3. \A p \in Requests : changes'[p] # Missing =>
            /\ \E d \in decisions' : d.by = p /\ d.kind = "approve"
            /\ AuditOf(changes'[p].status) \X {p} \subseteq audit'
      <4>1. SUFFICES ASSUME NEW p \in Requests, changes'[p] # Missing
                     PROVE  /\ \E d \in decisions' : d.by = p /\ d.kind = "approve"
                            /\ AuditOf(changes'[p].status) \X {p} \subseteq audit'
        OBVIOUS
      <4>2. CASE p = q
        <5>1. changes'[p].status = staged[q].status
          BY <2>1, <4>2
        <5>2. AuditOf(changes'[p].status) \X {p} \subseteq audit'
          BY <2>1, <4>2, <5>1
        <5>3. [by |-> q, review |-> req[q].review, kind |-> req[q].kind] \in decisions'
          BY <2>1
        <5>4. QED
          BY <1>4, <4>2, <5>2, <5>3
      <4>3. CASE p # q
        BY <2>1, <4>1, <4>3 DEF TruthIsBacked
      <4>4. QED
        BY <4>2, <4>3
    <3>4. QED
      BY <3>1, <3>2, <3>3 DEF TruthIsBacked
  <2>5. FailedFootprint'
    BY <2>1, <2>2, <2>3 DEF FailedFootprint, StagedOK
  <2>6. FactRowsInVault'
    BY <2>1 DEF FactRowsInVault, StagedOK, Inserted
  <2>7. QED
    BY <1>1, <1>2, <2>4, <2>5, <2>6
<1>5. QED
  BY <1>3, <1>4

LEMMA TruthStep == TruthInv /\ [Next]_vars => TruthInv'
<1>1. SUFFICES ASSUME TruthInv, [Next]_vars PROVE TruthInv'
  OBVIOUS
<1>2. TInv'
  BY <1>1, TypeStep DEF TruthInv
<1>3. ASSUME NEW r \in Reviews, NEW cmd \in Commands,
             NEW status \in {"pending", "needs_clarification"},
             CreateReview(r, cmd, status)
      PROVE  TruthInv'
  BY <1>1, <1>2, <1>3, TruthQuiet DEF CreateReview, files
<1>4. ASSUME NEW q \in Requests, NEW d \in Decision, Begin(q, d)
      PROVE  TruthInv'
  <2>1. \A p \in Requests : pc'[p] = "ready" => pc[p] = "ready" /\ seen'[p] = seen[p]
    BY <1>1, <1>4 DEF Begin, TruthInv, TInv, TypeOK
  <2>2. QED
    BY <1>1, <1>2, <1>4, <2>1, TruthQuiet DEF Begin, db, files
<1>5. ASSUME NEW q \in Requests, Abort(q) PROVE TruthInv'
  <2>1. \A p \in Requests : pc'[p] = "ready" => pc[p] = "ready" /\ seen'[p] = seen[p]
    BY <1>1, <1>5 DEF Abort, TruthInv, TInv, TypeOK
  <2>2. QED
    BY <1>1, <1>2, <1>5, <2>1, TruthQuiet DEF Abort, db, files
<1>6. CASE UNCHANGED vars
  BY <1>1, <1>2, <1>6, TruthQuiet DEF vars, db, files
<1>7. CASE Next
  BY <1>1, <1>3, <1>4, <1>5, <1>7, TruthApply, TruthCommit DEF Next
<1>8. QED
  BY <1>1, <1>6, <1>7

\* Every row a command inserted and every tool call it completed goes back to a
\* recorded state change, the owner's approval and the audit event of its outcome.
THEOREM TruthAlwaysBacked == Spec => []TruthIsBacked
<1>1. TruthInv => TruthIsBacked
  BY DEF TruthInv
<1>2. QED
  BY <1>1, TruthInit, TruthStep, PTL DEF Spec

\* A failed command leaves no row but a life item.
THEOREM FailuresContained == Spec => []FailedFootprint
<1>1. TruthInv => FailedFootprint
  BY DEF TruthInv
<1>2. QED
  BY <1>1, TruthInit, TruthStep, PTL DEF Spec

\* Whatever aborts in between, a memory fact of the database is in the vault.
THEOREM FactsReachVaultFirst == Spec => []FactRowsInVault
<1>1. TruthInv => FactRowsInVault
  BY DEF TruthInv
<1>2. QED
  BY <1>1, TruthInit, TruthStep, PTL DEF Spec

-----------------------------------------------------------------------------
(* The status of a review is explained.                                    *)

LEMMA StatusInit == Init => StatusInv
BY TypeInit DEF Init, StatusInv, DecidedExist, StatusExplained, SeenExplained,
   Explained, Open, NoRow

\* Decisions and recorded changes are never taken back, so an explanation stays.
LEMMA ExplanationStays ==
    ASSUME NEW r, NEW status, decisions \subseteq decisions',
           \A q \in Requests : changes[q] # Missing => changes'[q] = changes[q],
           decisions \subseteq [by : Requests, review : Reviews, kind : Kinds],
           Explained(r, status)
    PROVE  Explained(r, status)'
<1>1. \A d \in decisions : d.by \in Requests
  OBVIOUS
<1>2. \A kind : Decided(r, kind) \subseteq Decided(r, kind)'
  BY DEF Decided
<1>3. ASSUME NEW outcome, ApprovedWith(r, outcome)
      PROVE  ApprovedWith(r, outcome)'
  <2>1. PICK d \in Decided(r, "approve") :
          changes[d.by] # Missing /\ changes[d.by].status = outcome
    BY <1>3 DEF ApprovedWith
  <2>2. d \in Decided(r, "approve")' /\ changes'[d.by] = changes[d.by]
    BY <1>1, <1>2, <2>1 DEF Decided
  <2>3. QED
    BY <2>1, <2>2 DEF ApprovedWith
<1>4. QED
  BY <1>2, <1>3 DEF Explained

\* A step that decides nothing, leaves the reviews that exist alone and opens no
\* request.
LEMMA StatusQuiet ==
    ASSUME StatusInv, TInv', UNCHANGED <<decisions, changes, reviews>>,
           \A q \in Requests : Open(q)' => /\ Open(q)
                                           /\ req'[q] = req[q] /\ seen'[q] = seen[q]
    PROVE  StatusInv'
BY DEF StatusInv, DecidedExist, StatusExplained, SeenExplained, Explained,
       ApprovedWith, Decided

LEMMA StatusCreate ==
    ASSUME StatusInv, NEW r \in Reviews, NEW cmd \in Commands,
           NEW status \in {"pending", "needs_clarification"},
           CreateReview(r, cmd, status)
    PROVE  StatusInv'
<1> USE DEF StatusInv, CreateReview, DecidedExist
<1>1. TInv'
  BY TypeCreate
<1>2. UNCHANGED <<decisions, changes, pc, req, seen>>
  OBVIOUS
<1>3. \A s \in Reviews : reviews'[s] = IF s = r THEN [status |-> status, action |-> cmd]
                                       ELSE reviews[s]
  BY DEF TInv, TypeOK
<1>4. StatusExplained' /\ DecidedExist'
  <2>1. \A d \in decisions : d.review \in Reviews /\ d.review # r
    BY DEF TInv, TypeOK
  <2>2. QED
    BY <1>2, <1>3, <2>1 DEF StatusExplained, Explained, ApprovedWith, Decided
<1>5. \A q \in Requests : Open(q) => req[q].review # r
  BY DEF TInv, RequestsOK
<1>6. SeenExplained'
  <2>1. ASSUME NEW q \in Requests, Open(q)
        PROVE  reviews'[req[q].review] = reviews[req[q].review]
    BY <1>3, <1>5, <2>1 DEF TInv, RequestsOK, Decision
  <2>2. QED
    BY <1>2, <2>1 DEF SeenExplained, Explained, ApprovedWith, Decided, Open
<1>7. QED
  BY <1>1, <1>4, <1>6

LEMMA StatusBegin ==
    ASSUME StatusInv, NEW q \in Requests, NEW d \in Decision, Begin(q, d)
    PROVE  StatusInv'
<1> USE DEF StatusInv, Begin, db
<1>1. TInv'
  BY TypeBegin
<1>2. StatusExplained' /\ DecidedExist'
  BY DEF StatusExplained, DecidedExist, Explained, ApprovedWith, Decided
<1>3. SeenExplained'
  <2>1. SUFFICES ASSUME NEW p \in Requests, Open(p)'
                 PROVE  (/\ Explained(req[p].review, seen[p].status)
                         /\ \/ seen[p].status = "pending"
                            \/ reviews[req[p].review].status # "pending"
                            \/ Decided(req[p].review, "correct") # {})'
    BY DEF SeenExplained
  <2>2. CASE p = q
    <3>1. req'[p] = d /\ seen'[p] = reviews[d.review] /\ d.review \in Reviews
      BY <2>2 DEF TInv, TypeOK, Decision
    <3>2. Explained(d.review, reviews[d.review].status)
      BY <3>1 DEF StatusExplained
    <3>3. QED
      BY <3>1, <3>2 DEF Explained, ApprovedWith, Decided
  <2>3. CASE p # q
    <3>1. Open(p) /\ req'[p] = req[p] /\ seen'[p] = seen[p]
      BY <2>1, <2>3 DEF TInv, TypeOK, Open
    <3>2. QED
      BY <3>1 DEF SeenExplained, Explained, ApprovedWith, Decided
  <2>4. QED
    BY <2>2, <2>3
<1>4. QED
  BY <1>1, <1>2, <1>3

LEMMA StatusCommit ==
    ASSUME StatusInv, NEW q \in Requests, Commit(q)
    PROVE  StatusInv'
<1> USE DEF StatusInv
<1>1. TInv'
  BY TypeCommit
<1>2. PICK r \in Reviews : r = req[q].review
  BY DEF Commit, TInv, RequestsOK, Decision
<1> DEFINE new == [by |-> q, review |-> r, kind |-> req[q].kind]
<1>3. /\ Open(q) /\ req[q] \in Decision
      /\ reviews[r].status # "absent"
  BY <1>2 DEF Commit, TInv, RequestsOK
<1>4. \A s \in Reviews : reviews'[s] = IF s = r THEN Written(q) ELSE reviews[s]
  BY <1>2 DEF Commit, TInv, TypeOK
<1>5. /\ decisions' = decisions \cup {new}
      /\ \A p \in Requests : changes[p] # Missing => changes'[p] = changes[p]
      /\ req[q].kind = "approve" => /\ changes'[q].status = staged[q].status
                                    /\ changes'[q] # Missing
      /\ UNCHANGED <<req, seen, staged>>
  <2>1. /\ decisions' = decisions \cup {new}
        /\ UNCHANGED <<req, seen, staged>>
    BY <1>2, CommitAdds DEF Commit
  <2>2. \A p \in Requests : changes[p] # Missing => changes'[p] = changes[p]
    BY CommitAdds
  <2>3. ASSUME req[q].kind = "approve"
        PROVE  changes'[q].status = staged[q].status /\ changes'[q] # Missing
    <3>1. /\ changes'[q] = [status |-> staged[q].status, command |-> seen[q].action]
          /\ changes'[q] # Missing
      BY <2>3, CommitAdds
    <3>2. QED
      BY <3>1
  <2>4. QED
    BY <2>1, <2>2, <2>3
<1>6. /\ decisions \subseteq decisions'
      /\ decisions \subseteq [by : Requests, review : Reviews, kind : Kinds]
  BY <1>5 DEF TInv, TypeOK
<1>7. PICK kind : kind = req[q].kind
  OBVIOUS
<1>8. new \in Decided(r, kind)'
  BY <1>5, <1>7 DEF Decided
<1>9. ASSUME NEW s, NEW status, Explained(s, status)
      PROVE  Explained(s, status)'
  BY <1>5, <1>6, <1>9, ExplanationStays
<1>10. PICK status : status = NewStatus(q)
  OBVIOUS
<1>11. staged[q].status \in {"applied", "failed"}
  BY DEF TInv, TypeOK, OutcomeRecord
<1>12. Explained(r, status)'
  <2>1. CASE req[q].kind = "approve"
    <3>1. status = staged[q].status
      BY <1>10, <2>1 DEF NewStatus
    <3>2. ApprovedWith(r, status)'
      BY <1>5, <1>7, <1>8, <2>1, <3>1 DEF ApprovedWith
    <3>3. QED
      BY <1>11, <3>1, <3>2 DEF Explained, ApprovedWith, Decided
  <2>2. CASE req[q].kind # "approve"
    <3>1. status = AssignedStatus[req[q].kind]
      BY <1>10, <2>2 DEF NewStatus
    <3>2. req[q].kind \in {"reject", "correct", "clarify", "snooze", "done"}
      BY <1>3, <2>2 DEF Decision, Kinds
    <3>3. Decided(r, kind)' # {}
      BY <1>8
    <3>4. QED
      BY <1>7, <3>1, <3>2, <3>3 DEF Explained, AssignedStatus
  <2>3. QED
    BY <2>1, <2>2
<1>13. status = "pending" => req[q].kind = "correct"
  BY <1>3, <1>10, <1>11 DEF NewStatus, AssignedStatus, Decision, Kinds
<1>14. Written(q).status = IF status # seen[q].status THEN status
                                                      ELSE reviews[r].status
  BY <1>2, <1>10 DEF Written
<1>15. /\ Explained(r, reviews[r].status)'
       /\ reviews'[r].status = "pending" => Decided(r, "correct")' # {}
  <2>1. CASE status # seen[q].status
    <3>1. reviews'[r].status = status
      BY <1>4, <1>14, <2>1
    <3>2. status = "pending" => Decided(r, "correct")' # {}
      BY <1>7, <1>8, <1>13
    <3>3. QED
      BY <1>12, <3>1, <3>2 DEF Explained
  <2>2. CASE status = seen[q].status
    <3>1. reviews'[r].status = reviews[r].status
      BY <1>4, <1>14, <2>2
    <3>2. Explained(r, reviews[r].status)'
      <4>1. PICK old : old = reviews[r].status
        OBVIOUS
      <4>2. Explained(r, old)'
        BY <1>9, <4>1 DEF StatusExplained
      <4>3. QED
        BY <3>1, <4>1, <4>2 DEF Explained
    <3>3. ASSUME reviews'[r].status = "pending" PROVE Decided(r, "correct")' # {}
      <4>1. seen[q].status = "pending" \/ Decided(r, "correct") # {}
        BY <1>2, <1>3, <3>1, <3>3 DEF SeenExplained
      <4>2. Decided(r, "correct") \subseteq Decided(r, "correct")'
        BY <1>5 DEF Decided
      <4>3. QED
        BY <1>7, <1>8, <1>13, <2>2, <4>1, <4>2
    <3>4. QED
      BY <3>2, <3>3
  <2>3. QED
    BY <2>1, <2>2
<1>16. ASSUME NEW s \in Reviews, s # r
       PROVE  /\ reviews'[s] = reviews[s]
              /\ Decided(s, "correct") \subseteq Decided(s, "correct")'
              /\ (\A d \in decisions : d.review # s) => \A d \in decisions' : d.review # s
  BY <1>4, <1>5, <1>16 DEF Decided
<1>17. StatusExplained'
  <2>1. ASSUME NEW s \in Reviews, s # r
        PROVE  /\ Explained(s, reviews[s].status)'
               /\ reviews'[s].status = "pending" =>
                    \/ Decided(s, "correct")' # {}
                    \/ \A d \in decisions' : d.review # s
    <3>1. PICK old : old = reviews[s].status
      OBVIOUS
    <3>2. Explained(s, old)'
      BY <1>9, <3>1 DEF StatusExplained
    <3>3. reviews'[s].status = old
      BY <1>16, <2>1, <3>1
    <3>4. Explained(s, reviews[s].status)'
      BY <3>2, <3>3 DEF Explained
    <3>5. QED
      BY <1>16, <2>1, <3>4 DEF StatusExplained
  <2>2. QED
    BY <1>15, <2>1 DEF StatusExplained
<1>18. SeenExplained'
  <2>1. SUFFICES ASSUME NEW p \in Requests, Open(p)'
                 PROVE  (/\ Explained(req[p].review, seen[p].status)
                         /\ \/ seen[p].status = "pending"
                            \/ reviews[req[p].review].status # "pending"
                            \/ Decided(req[p].review, "correct") # {})'
    BY DEF SeenExplained
  <2>2. Open(p)
    BY <2>1 DEF Commit, Open, TInv, TypeOK
  <2>3. PICK s \in Reviews : s = req[p].review
    BY <2>2 DEF TInv, RequestsOK, Decision
  <2>4. PICK read : read = seen[p].status
    OBVIOUS
  <2>5. Explained(s, read)'
    BY <1>9, <2>2, <2>3, <2>4 DEF SeenExplained
  <2>6. \/ read = "pending"
        \/ reviews'[s].status # "pending"
        \/ Decided(s, "correct")' # {}
    BY <1>15, <1>16, <2>2, <2>3, <2>4 DEF SeenExplained
  <2>7. req'[p].review = s /\ seen'[p].status = read
    BY <1>5, <2>3, <2>4
  <2>8. QED
    BY <2>5, <2>6, <2>7 DEF Explained, Decided, ApprovedWith
<1>19. DecidedExist'
  <2>1. Written(q).status # "absent"
    BY WrittenType DEF Commit
  <2>2. \A d \in decisions' : d = new \/ (d \in decisions /\ d.review \in Reviews)
    BY <1>5, <1>6
  <2>3. QED
    BY <1>4, <2>1, <2>2 DEF DecidedExist
<1>20. QED
  BY <1>1, <1>17, <1>18, <1>19

LEMMA StatusStep == StatusInv /\ [Next]_vars => StatusInv'
<1>1. SUFFICES ASSUME StatusInv, [Next]_vars PROVE StatusInv'
  OBVIOUS
<1>2. TInv'
  BY <1>1, TypeStep DEF StatusInv
<1>3. ASSUME NEW q \in Requests, Apply(q) PROVE StatusInv'
  <2>1. \A p \in Requests : Open(p)' => Open(p)
    BY <1>1, <1>3 DEF Apply, Open, StatusInv, TInv, TypeOK
  <2>2. QED
    BY <1>1, <1>2, <1>3, <2>1, StatusQuiet DEF Apply, db
<1>4. ASSUME NEW q \in Requests, Abort(q) PROVE StatusInv'
  <2>1. \A p \in Requests : Open(p)' => Open(p)
    BY <1>1, <1>4 DEF Abort, Open, StatusInv, TInv, TypeOK
  <2>2. QED
    BY <1>1, <1>2, <1>4, <2>1, StatusQuiet DEF Abort, db
<1>5. CASE UNCHANGED vars
  BY <1>1, <1>2, <1>5, StatusQuiet DEF vars, db, files, Open
<1>6. CASE Next
  BY <1>1, <1>3, <1>4, <1>6, StatusCreate, StatusBegin, StatusCommit DEF Next
<1>7. QED
  BY <1>1, <1>5, <1>6

\* Whatever the interleaving, the status of a review is one a committed decision on
\* that review gave it, and only a correction brings a review back to pending.
THEOREM StatusAlwaysExplained == Spec => []StatusExplained
<1>1. StatusInv => StatusExplained
  BY DEF StatusInv
<1>2. QED
  BY <1>1, StatusInit, StatusStep, PTL DEF Spec

-----------------------------------------------------------------------------
(* The review queue implements AuditedTruth.                               *)

Ledger == [q \in Requests |-> IF changes[q] = Missing THEN Missing ELSE changes[q].status]

Trail == {t \in {"applied", "failed"} \X Requests :
            AuditOf(t[1]) \X {t[2]} \subseteq audit}

LEMMA ImplementsInit == Init => AT!Init
<1>1. SUFFICES ASSUME Init PROVE AT!Init
  OBVIOUS
<1>2. Ledger = [q \in Requests |-> Missing]
  BY <1>1 DEF Init, Ledger
<1>3. Trail = {}
  <2>1. \A status, p : ~(AuditOf(status) \X {p} \subseteq {})
    <3>1. SUFFICES ASSUME NEW status, NEW p, NEW type, AuditOf(status) = {type}
                   PROVE  ~(AuditOf(status) \X {p} \subseteq {})
      BY DEF AuditOf
    <3>2. <<type, p>> \in AuditOf(status) \X {p}
      BY <3>1
    <3>3. QED
      BY <3>2
  <2>2. audit = {}
    BY <1>1 DEF Init
  <2>3. QED
    BY <2>1, <2>2 DEF Trail
<1>4. rows = {}
  BY <1>1 DEF Init
<1>5. QED
  BY <1>2, <1>3, <1>4 DEF AT!Init, Ledger, Trail

\* A step that leaves the tables of the abstract specification alone.
LEMMA ImplementsQuiet ==
    ASSUME UNCHANGED <<rows, items, tools, changes, audit>>
    PROVE  UNCHANGED AT!vars
BY DEF AT!vars

\* A commit adds the audit events of its own request only.
LEMMA TrailCommit ==
    ASSUME TInv, NEW q \in Requests, Commit(q)
    PROVE  Trail' = Trail \cup (IF req[q].kind = "approve"
                                THEN {<<staged[q].status, q>>} ELSE {})
<1>1. staged[q].status \in {"applied", "failed"}
  BY DEF TInv, TypeOK, OutcomeRecord
<1>2. audit' = audit \cup {<<type, q>> : type \in AuditTrail(q)}
  BY DEF Commit
<1>3. \A status \in {"applied", "failed"}, p \in Requests :
        AuditOf(status) \X {p} \subseteq audit' <=>
          \/ AuditOf(status) \X {p} \subseteq audit
          \/ req[q].kind = "approve" /\ status = staged[q].status /\ p = q
  <2>1. SUFFICES ASSUME NEW status \in {"applied", "failed"}, NEW p \in Requests,
                        NEW type, AuditOf(status) = {type}
                 PROVE  <<type, p>> \in audit' <=>
                          \/ <<type, p>> \in audit
                          \/ req[q].kind = "approve" /\ status = staged[q].status /\ p = q
    BY DEF AuditOf
  <2>2. <<type, p>> \in audit' <=> <<type, p>> \in audit \/ (type \in AuditTrail(q) /\ p = q)
    BY <1>2
  <2>3. type = IF status = "applied" THEN "state_change.applied" ELSE "state_change.failed"
    BY <2>1 DEF AuditOf
  <2>4. type \in AuditTrail(q) <=> req[q].kind = "approve" /\ status = staged[q].status
    BY <1>1, <2>3 DEF AuditTrail, AuditOf
  <2>5. QED
    BY <2>2, <2>4
<1>4. QED
  BY <1>1, <1>3 DEF Trail

LEMMA ImplementsCommit ==
    ASSUME TInv, NEW q \in Requests, Commit(q)
    PROVE  [AT!Next]_(AT!vars)
<1>1. CASE req[q].kind # "approve"
  <2>1. UNCHANGED <<changes, rows, items, tools>>
    BY <1>1 DEF Commit
  <2>2. Trail' = Trail
    BY <1>1, TrailCommit
  <2>3. QED
    BY <2>1, <2>2 DEF Trail, AT!vars
<1>2. CASE req[q].kind = "approve"
  <2>1. PICK outcome \in {"applied", "failed"} : outcome = staged[q].status
    BY DEF TInv, TypeOK, OutcomeRecord
  <2>2. changes[q] = Missing
    BY CommitAdds
  <2>3. /\ changes'[q] = [status |-> outcome, command |-> seen[q].action]
        /\ changes'[q] # Missing
        /\ rows' = rows \cup Inserted(q)
    BY <1>2, <2>1, CommitAdds
  <2>4. \A p \in Requests : p # q => changes'[p] = changes[p]
    BY CommitAdds
  <2>5. Ledger' = [Ledger EXCEPT ![q] = outcome]
    <3>1. Ledger'[q] = outcome
      BY <2>3 DEF Ledger
    <3>2. \A p \in Requests : p # q => Ledger'[p] = Ledger[p]
      BY <2>4 DEF Ledger
    <3>3. QED
      BY <3>1, <3>2 DEF Ledger
  <2>6. Trail' = Trail \cup {<<outcome, q>>}
    BY <1>2, <2>1, TrailCommit
  <2>7. rows \subseteq rows' /\ rows' \ rows \subseteq Tables \X {q}
    BY <2>3 DEF Inserted, TInv, TypeOK, OutcomeRecord
  <2>8. Ledger[q] = Missing
    BY <2>2 DEF Ledger
  <2>9. outcome # Missing
    BY ReviewAssumption
  <2>10. {c \in Requests : Ledger'[c] # Ledger[c]} = {q}
    BY <2>5, <2>8, <2>9 DEF Ledger
  <2>11. AT!Recorded = {q}
    BY <2>10 DEF AT!Recorded, Ledger
  <2>12. /\ DOMAIN Ledger' = Requests
         /\ Ledger[q] = Missing
         /\ Ledger'[q] \in {"applied", "failed"}
         /\ Trail' = Trail \cup {<<Ledger'[c], c>> : c \in {q}}
    BY <2>5, <2>6, <2>8 DEF Ledger
  <2>13. AT!Record
    BY <2>7, <2>11, <2>12 DEF AT!Record, AT!Outcomes, Ledger, Trail
  <2>14. QED
    BY <2>13 DEF AT!Next
<1>3. QED
  BY <1>1, <1>2

LEMMA ImplementsStep == TInv /\ [Next]_vars => [AT!Next]_(AT!vars)
<1>1. SUFFICES ASSUME TInv, [Next]_vars PROVE [AT!Next]_(AT!vars)
  OBVIOUS
<1>2. CASE UNCHANGED vars
  BY <1>2, ImplementsQuiet DEF vars, db
<1>3. ASSUME NEW r \in Reviews, NEW cmd \in Commands,
             NEW status \in {"pending", "needs_clarification"},
             CreateReview(r, cmd, status)
      PROVE  UNCHANGED AT!vars
  BY <1>3, ImplementsQuiet DEF CreateReview
<1>4. ASSUME NEW q \in Requests, NEW d \in Decision, Begin(q, d)
      PROVE  UNCHANGED AT!vars
  BY <1>4, ImplementsQuiet DEF Begin, db
<1>5. ASSUME NEW q \in Requests, Apply(q) PROVE UNCHANGED AT!vars
  BY <1>5, ImplementsQuiet DEF Apply, db
<1>6. ASSUME NEW q \in Requests, Abort(q) PROVE UNCHANGED AT!vars
  BY <1>6, ImplementsQuiet DEF Abort, db
<1>7. CASE Next
  BY <1>1, <1>3, <1>4, <1>5, <1>6, <1>7, ImplementsCommit DEF Next
<1>8. QED
  BY <1>1, <1>2, <1>7

\* Every step of the review queue is, for the durable rows, one recorded and audited
\* change of one application or no change at all.
THEOREM ReviewFlowImplementsAuditedTruth == Spec => ImplementsAuditedTruth
BY ImplementsInit, ImplementsStep, TInvAlways, PTL DEF Spec, ImplementsAuditedTruth, AT!Spec


-----------------------------------------------------------------------------
(* A card tells the truth.                                                 *)

\* Requests that are open together have met.
AllMet == \A p, q \in Requests : Open(p) /\ Open(q) /\ p # q => {p, q} \in met

Overlapped(r) ==
    \E d \in Decided(r, "approve"), c \in Decided(r, "correct") : {d.by, c.by} \in met

\* A card that shows this action may say "applied".
Backed(r, action) ==
    \/ Decided(r, "done") # {}
    \/ \E d \in Decided(r, "approve") :
          changes[d.by] = [status |-> "applied", command |-> action]
    \/ Overlapped(r)

\* What a request in flight has not read is the work of one it met: a review that has
\* been applied since, and an action that has been replaced since.
MissedApproval(q) == \E d \in Decided(req[q].review, "approve") : {q, d.by} \in met
MissedCorrection(q) == \E c \in Decided(req[q].review, "correct") : {q, c.by} \in met

StaleByOverlap ==
    \A q \in Requests : Open(q) =>
        /\ \/ reviews[req[q].review].status # "applied"
           \/ seen[q].status = "applied"
           \/ Decided(req[q].review, "done") # {}
           \/ MissedApproval(q)
        /\ \/ reviews[req[q].review].action = seen[q].action
           \/ MissedCorrection(q)

CardInv == TInv /\ AllMet /\ StaleByOverlap /\ CardTellsTruth

LEMMA CardInit == Init => CardInv
BY TypeInit DEF Init, CardInv, AllMet, StaleByOverlap, CardTellsTruth, Open, NoRow

\* Commits only add decisions and changes, and nothing forgets whom a request met.
LEMMA CardStays ==
    ASSUME TInv, decisions \subseteq decisions', met \subseteq met',
           \A p \in Requests : changes[p] # Missing => changes'[p] = changes[p],
           NEW r, NEW action \in Commands, Backed(r, action)
    PROVE  Backed(r, action)'
<1>1. \A kind : Decided(r, kind) \subseteq Decided(r, kind)'
  BY DEF Decided
<1>2. CASE Decided(r, "done") # {}
  BY <1>1, <1>2 DEF Backed
<1>3. CASE Overlapped(r)
  <2>1. Overlapped(r)'
    BY <1>1, <1>3 DEF Overlapped
  <2>2. QED
    BY <2>1 DEF Backed
<1>4. ASSUME NEW d \in Decided(r, "approve"),
             changes[d.by] = [status |-> "applied", command |-> action]
      PROVE  Backed(r, action)'
  <2>1. d.by \in Requests
    BY DEF Decided, TInv, TypeOK
  <2>2. changes[d.by] # Missing
    BY <1>4, ReviewAssumption
  <2>3. changes'[d.by] = [status |-> "applied", command |-> action]
    BY <1>4, <2>1, <2>2
  <2>4. d \in Decided(r, "approve")'
    BY <1>1
  <2>5. QED
    BY <2>3, <2>4 DEF Backed
<1>5. QED
  BY <1>2, <1>3, <1>4 DEF Backed

\* Cards that were there before, and those that were not applied, stay true.
LEMMA CardsStay ==
    ASSUME CardTellsTruth, TInv, decisions \subseteq decisions', met \subseteq met',
           \A p \in Requests : changes[p] # Missing => changes'[p] = changes[p],
           \A r \in Reviews : \A action :
               /\ reviews'[r].status = "applied"
               /\ reviews'[r].action = action
               /\ reviews'[r] # reviews[r]
               => Backed(r, action)'
    PROVE  CardTellsTruth'
<1>1. ASSUME NEW r \in Reviews, reviews'[r].status = "applied", NEW action,
             action = reviews'[r].action
      PROVE  Backed(r, action)'
  <2>1. CASE reviews'[r] = reviews[r]
    <3>1. Backed(r, action)
      BY <1>1, <2>1 DEF CardTellsTruth, Backed, Overlapped
    <3>2. action \in Commands
      BY <1>1, <2>1 DEF TInv, RequestsOK
    <3>3. QED
      BY <3>1, <3>2, CardStays
  <2>2. QED
    BY <1>1, <2>1
<1>2. ASSUME NEW r \in Reviews, reviews'[r].status = "applied"
      PROVE  (\/ Decided(r, "done") # {}
              \/ \E d \in Decided(r, "approve") :
                    changes[d.by] = [status |-> "applied", command |-> reviews[r].action]
              \/ \E d \in Decided(r, "approve"), c \in Decided(r, "correct") :
                    {d.by, c.by} \in met)'
  <2>1. PICK action : action = reviews'[r].action
    OBVIOUS
  <2>2. Backed(r, action)'
    BY <1>1, <1>2, <2>1
  <2>3. QED
    BY <2>1, <2>2 DEF Backed, Overlapped
<1>3. QED
  BY <1>2 DEF CardTellsTruth

LEMMA StaleStays ==
    ASSUME StaleByOverlap, UNCHANGED <<decisions, req, seen, met>>,
           \A q \in Requests : Open(q)' =>
              Open(q) /\ reviews'[req[q].review] = reviews[req[q].review]
    PROVE  StaleByOverlap'
<1>1. \A q : /\ MissedApproval(q)' <=> MissedApproval(q)
             /\ MissedCorrection(q)' <=> MissedCorrection(q)
  BY DEF MissedApproval, MissedCorrection, Decided
<1>2. \A q : Decided(req[q].review, "done")' = Decided(req[q].review, "done")
  BY DEF Decided
<1>3. QED
  BY <1>1, <1>2 DEF StaleByOverlap

\* A step that decides nothing and lets no request in.
LEMMA CardQuiet ==
    ASSUME CardInv, TInv', UNCHANGED <<decisions, changes, reviews, req, seen, met>>,
           \A q \in Requests : Open(q)' => Open(q)
    PROVE  CardInv'
<1> USE DEF CardInv
<1>1. CardTellsTruth'
  BY CardsStay
<1>2. AllMet'
  BY DEF AllMet
<1>3. StaleByOverlap'
  BY StaleStays
<1>4. QED
  BY <1>1, <1>2, <1>3

LEMMA CardCreate ==
    ASSUME CardInv, NEW r \in Reviews, NEW cmd \in Commands,
           NEW status \in {"pending", "needs_clarification"},
           CreateReview(r, cmd, status)
    PROVE  CardInv'
<1> USE DEF CardInv, CreateReview, files
<1>1. TInv'
  BY TypeCreate
<1>2. \A s \in Reviews : s # r => reviews'[s] = reviews[s]
  BY DEF TInv, TypeOK
<1>3. reviews'[r].status # "applied"
  BY DEF TInv, TypeOK
<1>4. \A q \in Requests : Open(q) => req[q].review \in Reviews /\ req[q].review # r
  BY DEF TInv, RequestsOK, Decision
<1>5. CardTellsTruth'
  BY <1>2, <1>3, CardsStay
<1>6. StaleByOverlap'
  <2>1. ASSUME NEW q \in Requests, Open(q)
        PROVE  reviews'[req[q].review] = reviews[req[q].review]
    BY <1>2, <1>4, <2>1
  <2>2. QED
    BY <2>1, StaleStays DEF Open
<1>7. AllMet'
  BY DEF AllMet, Open
<1>8. QED
  BY <1>1, <1>5, <1>6, <1>7

LEMMA CardBegin ==
    ASSUME CardInv, NEW q \in Requests, NEW d \in Decision, Begin(q, d)
    PROVE  CardInv'
<1> USE DEF CardInv, Begin, db
<1>1. TInv'
  BY TypeBegin
<1>2. met \subseteq met' /\ \A o \in InFlight : {q, o} \in met'
  OBVIOUS
<1>3. \A p \in Requests : p # q => /\ Open(p)' <=> Open(p)
                                   /\ req'[p] = req[p] /\ seen'[p] = seen[p]
  BY DEF TInv, TypeOK, Open
<1>4. CardTellsTruth'
  BY <1>2 DEF CardTellsTruth, Decided
<1>5. AllMet'
  <2>1. ASSUME NEW p \in Requests, p # q, Open(p)' PROVE {q, p} \in met'
    BY <1>2, <1>3, <2>1 DEF InFlight
  <2>2. ASSUME NEW p \in Requests, NEW o \in Requests, Open(p)', Open(o)', p # o
        PROVE  {p, o} \in met'
    <3>1. {p, o} = {o, p}
      OBVIOUS
    <3>2. QED
      BY <1>2, <1>3, <2>1, <2>2, <3>1 DEF AllMet
  <2>3. QED
    BY <2>2 DEF AllMet
<1>6. StaleByOverlap'
  <2>1. SUFFICES ASSUME NEW p \in Requests, Open(p)'
                 PROVE  (/\ \/ reviews[req[p].review].status # "applied"
                            \/ seen[p].status = "applied"
                            \/ Decided(req[p].review, "done") # {}
                            \/ MissedApproval(p)
                         /\ \/ reviews[req[p].review].action = seen[p].action
                            \/ MissedCorrection(p))'
    BY DEF StaleByOverlap
  <2>2. CASE p = q
    <3>1. req'[p] = d /\ seen'[p] = reviews[d.review] /\ reviews' = reviews
      BY <2>2 DEF TInv, TypeOK
    <3>2. QED
      BY <3>1
  <2>3. CASE p # q
    <3>1. Open(p) /\ req'[p] = req[p] /\ seen'[p] = seen[p]
      BY <1>3, <2>1, <2>3
    <3>2. (MissedApproval(p) => MissedApproval(p)') /\ (MissedCorrection(p) => MissedCorrection(p)')
      BY <1>2, <3>1 DEF MissedApproval, MissedCorrection, Decided
    <3>3. QED
      BY <3>1, <3>2 DEF StaleByOverlap, Decided
  <2>4. QED
    BY <2>2, <2>3
<1>7. QED
  BY <1>1, <1>4, <1>5, <1>6

LEMMA CardCommit ==
    ASSUME CardInv, NEW q \in Requests, Commit(q)
    PROVE  CardInv'
<1> USE DEF CardInv
<1>1. TInv'
  BY TypeCommit
<1>2. PICK r \in Reviews : r = req[q].review
  BY DEF Commit, TInv, RequestsOK, Decision
<1>3. PICK kind : kind = req[q].kind
  OBVIOUS
<1>4. PICK row : row = reviews[r]
  OBVIOUS
<1>5. PICK after : after = Written(q)
  OBVIOUS
<1>6. PICK new : new = [by |-> q, review |-> r, kind |-> kind]
  OBVIOUS
<1>7. /\ Open(q) /\ req[q] \in Decision
      /\ decisions' = decisions \cup {new}
      /\ UNCHANGED <<req, seen, staged, met>>
  BY <1>2, <1>3, <1>6, CommitAdds DEF Commit, TInv, RequestsOK
<1>8. /\ \A p \in Requests : changes[p] # Missing => changes'[p] = changes[p]
      /\ kind = "approve" =>
           changes'[q] = [status |-> staged[q].status, command |-> seen[q].action]
  BY <1>3, CommitAdds
<1>9. \A s \in Reviews : reviews'[s] = IF s = r THEN after ELSE reviews[s]
  BY <1>2, <1>5 DEF Commit, TInv, TypeOK
<1>10. \A p \in Requests : Open(p)' => Open(p) /\ p # q
  BY DEF Commit, Open, TInv, TypeOK
<1>11. AllMet'
  BY <1>7, <1>10 DEF AllMet
<1>12. new \in Decided(r, kind)' /\ new.by = q
  BY <1>6, <1>7 DEF Decided
<1>13. \A s, k : Decided(s, k) \subseteq Decided(s, k)'
  BY <1>7 DEF Decided
<1>14. after = [status |-> IF NewStatus(q) # seen[q].status THEN NewStatus(q) ELSE row.status,
                action |-> IF NewAction(q) # seen[q].action THEN NewAction(q) ELSE row.action]
  BY <1>2, <1>4, <1>5 DEF Written
<1>15. after.action # row.action => kind = "correct"
  BY <1>3, <1>14 DEF NewAction
<1>16. after.status = "applied" =>
         \/ row.status = "applied"
         \/ kind = "done"
         \/ kind = "approve" /\ staged[q].status = "applied"
  BY <1>3, <1>7, <1>14 DEF NewStatus, AssignedStatus, Decision, Kinds
\* What q read is what it finds, but for the work of requests it met.
<1>17. /\ \/ row.status # "applied" \/ seen[q].status = "applied"
          \/ Decided(r, "done") # {}
          \/ \E d \in Decided(r, "approve") : {q, d.by} \in met
       /\ \/ row.action = seen[q].action
          \/ \E c \in Decided(r, "correct") : {q, c.by} \in met
  BY <1>2, <1>4, <1>7 DEF StaleByOverlap, MissedApproval, MissedCorrection
<1>18. row.status = "applied" => Backed(r, row.action)
  BY <1>4 DEF CardTellsTruth, Backed, Overlapped
<1>19. ASSUME NEW action \in Commands, Backed(r, action) PROVE Backed(r, action)'
  BY <1>7, <1>8, <1>19, CardStays
<1>20. ASSUME NEW action, after.status = "applied", action = after.action
       PROVE  Backed(r, action)'
  <2>1. CASE kind = "done"
    BY <1>12, <2>1 DEF Backed
  <2>2. CASE kind = "approve" /\ staged[q].status = "applied"
    <3>1. action = row.action
      BY <1>15, <1>20, <2>2
    <3>2. CASE row.action = seen[q].action
      <4>1. changes'[new.by] = [status |-> "applied", command |-> action]
        BY <1>8, <1>12, <2>2, <3>1, <3>2
      <4>2. new \in Decided(r, "approve")'
        BY <1>12, <2>2
      <4>3. QED
        BY <4>1, <4>2 DEF Backed
    <3>3. ASSUME NEW c \in Decided(r, "correct"), {q, c.by} \in met
          PROVE  Backed(r, action)'
      <4>1. Overlapped(r)'
        BY <1>7, <1>12, <1>13, <2>2, <3>3 DEF Overlapped
      <4>2. QED
        BY <4>1 DEF Backed
    <3>4. QED
      BY <1>17, <3>2, <3>3
  <2>3. CASE row.status = "applied" /\ kind # "correct"
    <3>1. action = row.action
      BY <1>15, <1>20, <2>3
    <3>2. row.action \in Commands
      BY <1>4, <2>3 DEF TInv, RequestsOK
    <3>3. QED
      BY <1>18, <1>19, <2>3, <3>1, <3>2
  <2>4. CASE row.status = "applied" /\ kind = "correct"
    <3>1. NewStatus(q) = "pending"
      BY <1>3, <2>4 DEF NewStatus, AssignedStatus
    <3>2. seen[q].status # "applied"
      BY <1>14, <1>20, <3>1
    <3>3. CASE Decided(r, "done") # {}
      <4>1. Decided(r, "done")' # {}
        BY <1>13, <3>3
      <4>2. QED
        BY <4>1 DEF Backed
    <3>4. ASSUME NEW d \in Decided(r, "approve"), {q, d.by} \in met
          PROVE  Backed(r, action)'
      <4>1. {q, d.by} = {d.by, q}
        OBVIOUS
      <4>2. Overlapped(r)'
        BY <1>7, <1>12, <1>13, <2>4, <3>4, <4>1 DEF Overlapped
      <4>3. QED
        BY <4>2 DEF Backed
    <3>5. QED
      BY <1>17, <2>4, <3>2, <3>3, <3>4
  <2>5. QED
    BY <1>16, <1>20, <2>1, <2>2, <2>3, <2>4
<1>21. CardTellsTruth'
  <2>1. ASSUME NEW s \in Reviews, NEW action, reviews'[s].status = "applied",
               reviews'[s].action = action, reviews'[s] # reviews[s]
        PROVE  Backed(s, action)'
    <3>1. s = r /\ after.status = "applied" /\ action = after.action
      BY <1>9, <2>1
    <3>2. QED
      BY <1>20, <3>1
  <2>2. QED
    BY <1>7, <1>8, <2>1, CardsStay
<1>22. ASSUME NEW p \in Requests, Open(p)'
       PROVE  (/\ \/ reviews[req[p].review].status # "applied"
                  \/ seen[p].status = "applied"
                  \/ Decided(req[p].review, "done") # {}
                  \/ MissedApproval(p)
               /\ \/ reviews[req[p].review].action = seen[p].action
                  \/ MissedCorrection(p))'
  <2>1. Open(p) /\ p # q /\ {p, q} \in met
    BY <1>7, <1>10, <1>22 DEF AllMet
  <2>2. PICK s \in Reviews : s = req[p].review
    BY <2>1 DEF TInv, RequestsOK, Decision
  <2>3. req'[p].review = s /\ seen'[p] = seen[p] /\ met' = met
    BY <1>7, <2>2
  <2>4. (MissedApproval(p) => MissedApproval(p)') /\ (MissedCorrection(p) => MissedCorrection(p)')
    BY <1>13, <2>2, <2>3 DEF MissedApproval, MissedCorrection
  <2>5. Decided(s, "done") # {} => Decided(s, "done")' # {}
    BY <1>13
  <2>6. /\ \/ reviews[s].status # "applied"
           \/ seen[p].status = "applied"
           \/ Decided(s, "done")' # {}
           \/ MissedApproval(p)'
        /\ \/ reviews[s].action = seen[p].action
           \/ MissedCorrection(p)'
    BY <2>1, <2>2, <2>4, <2>5 DEF StaleByOverlap
  <2>7. s = r /\ kind = "done" => Decided(s, "done")' # {}
    BY <1>12
  <2>8. s = r /\ kind = "approve" => MissedApproval(p)'
    BY <1>12, <2>1, <2>3 DEF MissedApproval
  <2>9. s = r /\ kind = "correct" => MissedCorrection(p)'
    BY <1>12, <2>1, <2>3 DEF MissedCorrection
  <2>10. /\ \/ reviews'[s].status # "applied"
            \/ seen[p].status = "applied"
            \/ Decided(s, "done")' # {}
            \/ MissedApproval(p)'
         /\ \/ reviews'[s].action = seen[p].action
            \/ MissedCorrection(p)'
    BY <1>4, <1>9, <1>15, <1>16, <2>6, <2>7, <2>8, <2>9
  <2>11. Decided(s, "done")' = Decided(req[p].review, "done")'
    BY <2>3 DEF Decided
  <2>12. QED
    BY <2>3, <2>10, <2>11
<1>23. StaleByOverlap'
  BY <1>22 DEF StaleByOverlap
<1>24. QED
  BY <1>1, <1>11, <1>21, <1>23

LEMMA CardStep == CardInv /\ [Next]_vars => CardInv'
<1>1. SUFFICES ASSUME CardInv, [Next]_vars PROVE CardInv'
  OBVIOUS
<1>2. TInv'
  BY <1>1, TypeStep DEF CardInv
<1>3. ASSUME NEW q \in Requests, Apply(q) PROVE CardInv'
  <2>1. \A p \in Requests : Open(p)' => Open(p)
    BY <1>1, <1>3 DEF Apply, Open, CardInv, TInv, TypeOK
  <2>2. QED
    BY <1>1, <1>2, <1>3, <2>1, CardQuiet DEF Apply, db
<1>4. ASSUME NEW q \in Requests, Abort(q) PROVE CardInv'
  <2>1. \A p \in Requests : Open(p)' => Open(p)
    BY <1>1, <1>4 DEF Abort, Open, CardInv, TInv, TypeOK
  <2>2. QED
    BY <1>1, <1>2, <1>4, <2>1, CardQuiet DEF Abort, db
<1>5. CASE UNCHANGED vars
  BY <1>1, <1>2, <1>5, CardQuiet DEF vars, db, files, Open
<1>6. CASE Next
  BY <1>1, <1>3, <1>4, <1>6, CardCreate, CardBegin, CardCommit DEF Next
<1>7. QED
  BY <1>1, <1>5, <1>6

\* However many decisions on a review are served at once, a card that says "applied"
\* was closed by hand or shows the action that was applied, unless the owner corrected
\* it while an approval of it was being served.
THEOREM AppliedCardsAreTrue == Spec => []CardTellsTruth
<1>1. CardInv => CardTellsTruth
  BY DEF CardInv
<1>2. QED
  BY <1>1, CardInit, CardStep, PTL DEF Spec

=============================================================================

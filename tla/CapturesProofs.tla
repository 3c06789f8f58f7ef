--------------------------- MODULE CapturesProofs ---------------------------
(* The capture pipeline keeps evidence first, applies safe work only and     *)
(* keeps its ledgers in step, for any set of captures, drafts and agents.    *)
EXTENDS Captures, CommandBusProofs

AnyDraft == Drafts \cup RuleDrafts

Serving == {"received", "stored", "routed", "decided", "committed"}

\* What holds of a capture that was received: its evidence is complete, it was routed
\* before it is decided, and a command was run just if the policy said so.
OnItsWay(q) ==
    /\ pc[q] \in Serving => /\ source[q] \in Sources
                            /\ {"raw", "hashes", "sources"} \X {q} \subseteq vault
    /\ pc[q] \in {"routed", "decided", "committed"} => draft[q] \in AnyDraft
    /\ pc[q] \in {"unsent", "received", "stored", "routed"} => staged[q] = Missing
    /\ pc[q] \in {"decided", "committed"} =>
          /\ mode[q] \in AutonomyModes
          /\ staged[q] # Missing <=> Decision(q) = "auto_apply"

\* The rows of a capture: none before it commits, and then what was decided.
Recorded(q) ==
    IF pc[q] = "committed"
    THEN /\ captures[q] = CaptureStatus(q)
         /\ interps[q] = InterpretationStatus(q)
         /\ runs[q] = RunStatus(q)
         /\ reviews[q] = ReviewStatus(q)
         /\ q \in queued <=> ReviewStatus(q) # "absent"
         /\ changes[q] = IF staged[q] = Missing THEN Missing
                         ELSE [status |-> staged[q].status, command |-> CommandOf(draft[q])]
    ELSE /\ captures[q] = "absent" /\ interps[q] = "absent"
         /\ runs[q] = "absent" /\ reviews[q] = "absent"
         /\ q \notin queued /\ changes[q] = Missing

Inv == TypeOK /\ \A q \in Captures : OnItsWay(q) /\ Recorded(q)

LEMMA DraftTypes ==
    ASSUME NEW d \in AnyDraft
    PROVE  d \in DraftRecord /\ CommandOf(d) \in Commands /\ d # Missing
  BY CaptureAssumption DEF AnyDraft

LEMMA NormalizeType == \A value : Normalize(value) \in AutonomyModes
  BY DEF Normalize, AutonomyModes

LEMMA DecideType ==
    ASSUME NEW d, NEW m, NEW o
    PROVE  Decide(d, m, o) \in {"raw_only", "auto_apply", "ask_clarification", "review_required"}
  BY DEF Decide

\* decide_capture_action lets work through only if nothing speaks against it.
LEMMA AutoApplyIsSafe ==
    ASSUME NEW d \in DraftRecord, NEW m \in AutonomyModes, NEW o \in BOOLEAN,
           Decide(d, m, o) = "auto_apply"
    PROVE  /\ o
           /\ m \in {"balanced", "safe"} \/ d.type \in ReviewGated
           /\ ~d.missing
           /\ d.confidence = "high"
           /\ d.sensitivity \notin SensitiveDomains
           /\ d.risk \notin AlwaysReviewRisks
<1>1. o /\ ~d.missing /\ ~MustReview(d, m) /\ Allowlisted(d, m)
  BY DEF Decide
<1>2. m # "manual" /\ d.sensitivity \notin SensitiveDomains /\ d.risk \notin AlwaysReviewRisks
  BY <1>1 DEF MustReview
<1>3. d.confidence = "high" /\ d.type \in AutoAllow[m]
  BY <1>1 DEF Allowlisted
<1>4. m \in {"balanced", "safe"} \/ d.type \in ReviewGated
  BY <1>2, <1>3 DEF AutonomyModes, AutoAllow
<1> QED BY <1>1, <1>2, <1>3, <1>4

LEMMA InitInv == Init => Inv
<1> SUFFICES ASSUME Init PROVE Inv
  OBVIOUS
<1>1. autonomy \in [Agents -> AutonomyModes]
  BY NormalizeType DEF Init
<1>2. TypeOK
  BY <1>1 DEF Init, TypeOK
<1>3. \A q \in Captures : OnItsWay(q) /\ Recorded(q)
  BY DEF Init, OnItsWay, Recorded, Serving
<1> QED BY <1>2, <1>3 DEF Inv

\* A step of one capture does not disturb another one.
LEMMA OthersStay ==
    ASSUME Inv, NEW p \in Captures,
           vault \subseteq vault',
           pc'[p] = pc[p], source'[p] = source[p], draft'[p] = draft[p], mode'[p] = mode[p],
           staged'[p] = staged[p], captures'[p] = captures[p], interps'[p] = interps[p],
           runs'[p] = runs[p], reviews'[p] = reviews[p], changes'[p] = changes[p], p \in queued' <=> p \in queued
    PROVE  OnItsWay(p)' /\ Recorded(p)'
<1>1. OnItsWay(p)'
  BY DEF Inv, OnItsWay, Decision, Decide, MustReview, Allowlisted, IsRaw
<1>2. Recorded(p)'
  BY DEF Inv, Recorded, CaptureStatus, InterpretationStatus, RunStatus, ReviewStatus,
         Applied, Decision
<1> QED BY <1>1, <1>2

LEMMA ReceiveInv ==
    ASSUME Inv, NEW q \in Captures, NEW src \in Sources, Receive(q, src)
    PROVE  Inv'
<1> USE DEF Inv
<1>1. PICK n \in 0..Len(Parts) :
         /\ vault' = vault \cup {<<Parts[i], q>> : i \in 1..n}
         /\ pc' = [pc EXCEPT ![q] = AfterWrites(n)]
  <2>1. Len(Parts) = 3
    BY DEF Parts
  <2>2. \E n \in IF VaultMayFail THEN 0..Len(Parts) ELSE {Len(Parts)} :
           /\ vault' = vault \cup {<<Parts[i], q>> : i \in 1..n}
           /\ pc' = [pc EXCEPT ![q] = AfterWrites(n)]
    BY DEF Receive
  <2>3. CASE VaultMayFail
    BY <2>1, <2>2, <2>3
  <2>4. CASE ~VaultMayFail
    BY <2>1, <2>2, <2>4
  <2> QED BY <2>3, <2>4
<1>2. \A i \in 1..n : Parts[i] \in {"raw", "hashes", "sources"}
  BY DEF Parts
<1>3. vault \subseteq vault' /\ vault' \subseteq {"raw", "hashes", "sources"} \X Captures
  BY <1>1, <1>2 DEF TypeOK
<1>4. AfterWrites(n) = "received" => {"raw", "hashes", "sources"} \X {q} \subseteq vault'
  <2> SUFFICES ASSUME n = 3 PROVE {"raw", "hashes", "sources"} \X {q} \subseteq vault'
    BY DEF AfterWrites, Parts
  <2>1. Parts[1] = "raw" /\ Parts[2] = "hashes" /\ Parts[3] = "sources"
    BY DEF Parts
  <2>2. <<Parts[1], q>> \in vault' /\ <<Parts[2], q>> \in vault' /\ <<Parts[3], q>> \in vault'
    BY <1>1
  <2> QED BY <2>1, <2>2
<1>5. AfterWrites(n) \in {"received", "refused"}
  BY DEF AfterWrites
<1>6. TypeOK'
  BY <1>1, <1>3, <1>5 DEF Receive, TypeOK, tables
<1>7. OnItsWay(q)' /\ Recorded(q)'
  <2>1. pc[q] = "unsent" /\ pc'[q] = AfterWrites(n) /\ source'[q] = src /\ staged'[q] = staged[q]
    BY <1>1 DEF Receive, TypeOK
  <2>2. UNCHANGED tables
    BY DEF Receive
  <2> QED BY <1>4, <1>5, <2>1, <2>2 DEF OnItsWay, Recorded, Serving, tables
<1>8. ASSUME NEW p \in Captures, p # q PROVE OnItsWay(p)' /\ Recorded(p)'
  BY <1>1, <1>3, <1>8, OthersStay DEF Receive, TypeOK, tables
<1> QED BY <1>6, <1>7, <1>8

LEMMA StoreInv ==
    ASSUME Inv, NEW q \in Captures, Store(q)
    PROVE  Inv'
<1> USE DEF Inv
<1>1. pc[q] = "received" /\ pc'[q] \in {"refused", "stored"}
  BY DEF Store, TypeOK
<1>2. TypeOK'
  BY DEF Store, TypeOK, tables, local
<1>3. OnItsWay(q)' /\ Recorded(q)'
  BY <1>1 DEF Store, OnItsWay, Recorded, Serving, tables, local
<1>4. ASSUME NEW p \in Captures, p # q PROVE OnItsWay(p)' /\ Recorded(p)'
  BY <1>4, OthersStay DEF Store, TypeOK, tables, local
<1> QED BY <1>2, <1>3, <1>4

LEMMA RouteInv ==
    ASSUME Inv, NEW q \in Captures, NEW d \in AnyDraft, Route(q, d)
    PROVE  Inv'
<1> USE DEF Inv
<1>1. pc[q] = "stored" /\ pc'[q] = "routed" /\ draft'[q] = d
  BY DEF Route, TypeOK
<1>2. TypeOK'
  BY DEF Route, TypeOK, tables, AnyDraft
<1>3. OnItsWay(q)' /\ Recorded(q)'
  BY <1>1 DEF Route, OnItsWay, Recorded, Serving, tables
<1>4. ASSUME NEW p \in Captures, p # q PROVE OnItsWay(p)' /\ Recorded(p)'
  BY <1>4, OthersStay DEF Route, TypeOK, tables
<1> QED BY <1>2, <1>3, <1>4

LEMMA DecideInv ==
    ASSUME Inv, NEW q \in Captures, DecidePolicy(q)
    PROVE  Inv'
<1> USE DEF Inv
<1> DEFINE seen == AutonomyOf(draft[q].agent)
<1>1. pc[q] = "routed" /\ pc'[q] = "decided" /\ mode'[q] = seen
  BY DEF DecidePolicy, TypeOK
<1>2. seen \in AutonomyModes
  BY NormalizeType DEF AutonomyOf, TypeOK
<1>3. draft[q] \in AnyDraft /\ source[q] \in Sources /\ staged[q] = Missing
  BY <1>1 DEF OnItsWay, Serving
<1>4. /\ staged' \in [Captures -> OutcomeRecord \cup {Missing}]
      /\ tasks' \in Captures \cup {Missing}
      /\ \A p \in Captures \ {q} : staged'[p] = staged[p]
      /\ staged'[q] # Missing <=> Decide(draft[q], seen, source[q].owner) = "auto_apply"
  <2>1. CASE Decide(draft[q], seen, source[q].owner) = "auto_apply"
    <3>1. PICK vaultOk \in BOOLEAN :
             LET out == ApplyPayload(CommandOf(draft[q]), Missing, vaultOk)
             IN /\ staged' = [staged EXCEPT ![q] = out]
                /\ tasks' = IF "tasks" \in out.vault THEN q ELSE tasks
      BY <2>1, CaptureAssumption DEF DecidePolicy
    <3>2. ApplyPayload(CommandOf(draft[q]), Missing, vaultOk) \in OutcomeRecord
      BY <1>3, DraftTypes, ApplyPayloadType, CommandAssumption
    <3> QED BY <2>1, <3>1, <3>2, CaptureAssumption DEF TypeOK
  <2>2. CASE Decide(draft[q], seen, source[q].owner) # "auto_apply"
    BY <1>3, <2>2 DEF DecidePolicy, TypeOK
  <2> QED BY <2>1, <2>2
<1>5. /\ UNCHANGED <<tables, autonomy, vault, source, draft>>
      /\ pc' = [pc EXCEPT ![q] = "decided"]
      /\ mode' = [mode EXCEPT ![q] = seen]
  BY DEF DecidePolicy
<1> HIDE DEF seen
<1>6. TypeOK'
  BY <1>2, <1>4, <1>5 DEF TypeOK, tables
<1>7. OnItsWay(q)'
  BY <1>1, <1>2, <1>3, <1>4, <1>5 DEF OnItsWay, Serving, Decision
<1>8. Recorded(q)'
  BY <1>1, <1>5 DEF Recorded, tables
<1>9. ASSUME NEW p \in Captures, p # q PROVE OnItsWay(p)' /\ Recorded(p)'
  BY <1>4, <1>5, <1>9, OthersStay DEF TypeOK, tables
<1> QED BY <1>6, <1>7, <1>8, <1>9

LEMMA CommitInv ==
    ASSUME Inv, NEW q \in Captures, Commit(q)
    PROVE  Inv'
<1> USE DEF Inv
<1>1. pc[q] = "decided" /\ pc'[q] = "committed"
  BY DEF Commit, TypeOK
<1>2. /\ UNCHANGED <<autonomy, vault, tasks, source, draft, mode, staged>>
      /\ pc' = [pc EXCEPT ![q] = "committed"]
  BY DEF Commit, local
<1>3. /\ mode[q] \in AutonomyModes /\ source[q] \in Sources /\ draft[q] \in AnyDraft
      /\ staged[q] # Missing <=> Decision(q) = "auto_apply"
      /\ staged[q] \in OutcomeRecord \cup {Missing}
  BY <1>1 DEF OnItsWay, Serving, TypeOK
<1>4. /\ Decision(q)' = Decision(q) /\ Applied(q)' = Applied(q)
  BY <1>2 DEF Decision, Applied
<1>5. Decision(q) \in {"raw_only", "auto_apply", "ask_clarification", "review_required"}
  BY DecideType DEF Decision
<1>6. /\ CaptureStatus(q) \in {"raw_only", "auto_applied", "failed", "waiting_approval",
                               "needs_clarification"}
      /\ InterpretationStatus(q) \in {"archived_raw_only", "auto_applied", "promoted_to_review"}
      /\ RunStatus(q) \in {"completed", "failed", "waiting_approval", "needs_clarification"}
      /\ ReviewStatus(q) \in {"absent", "pending", "needs_clarification"}
  BY <1>5 DEF CaptureStatus, InterpretationStatus, RunStatus, ReviewStatus
<1>7. /\ changes' \in [Captures -> Change \cup {Missing}]
      /\ rows' \subseteq Tables \X Captures
      /\ \A p \in Captures \ {q} : changes'[p] = changes[p]
      /\ changes'[q] = IF staged[q] = Missing THEN Missing
                       ELSE [status |-> staged[q].status, command |-> CommandOf(draft[q])]
  <2>1. CASE staged[q] = Missing
    BY <1>1, <2>1 DEF Commit, TypeOK, Recorded
  <2>2. CASE staged[q] # Missing
    <3>1. staged[q].status \in {"applied", "failed"} /\ staged[q].inserts \subseteq Tables
      BY <1>3, <2>2 DEF OutcomeRecord
    <3>2. CommandOf(draft[q]) \in CommandRecord
      BY <1>3, DraftTypes, CommandAssumption
    <3>3. [status |-> staged[q].status, command |-> CommandOf(draft[q])] \in Change
      BY <3>1, <3>2 DEF Change
    <3>4. /\ changes' = [changes EXCEPT ![q] =
                           [status |-> staged[q].status, command |-> CommandOf(draft[q])]]
          /\ rows' = rows \cup staged[q].inserts \X {q}
      BY <2>2 DEF Commit
    <3> QED BY <2>2, <3>1, <3>3, <3>4 DEF TypeOK
  <2> QED BY <2>1, <2>2
<1>8. audit' \subseteq {"capture.policy_routed", "state_change.applied",
                        "state_change.failed"} \X Captures
  <2>1. AuditTrail(q) \subseteq {"capture.policy_routed", "state_change.applied",
                                 "state_change.failed"}
    BY DEF AuditTrail, AuditOf
  <2> QED BY <2>1 DEF Commit, TypeOK
<1>9. /\ captures' = [captures EXCEPT ![q] = CaptureStatus(q)]
      /\ interps' = [interps EXCEPT ![q] = InterpretationStatus(q)]
      /\ runs' = [runs EXCEPT ![q] = RunStatus(q)]
      /\ reviews' = [reviews EXCEPT ![q] = ReviewStatus(q)]
      /\ queued' = IF ReviewStatus(q) = "absent" THEN queued ELSE queued \cup {q}
  BY DEF Commit
<1>10. TypeOK'
  BY <1>2, <1>6, <1>7, <1>8, <1>9 DEF TypeOK
<1>11. OnItsWay(q)'
  BY <1>1, <1>2, <1>4 DEF OnItsWay, Serving
<1>12. Recorded(q)'
  <2>1. q \notin queued
    BY <1>1 DEF Recorded
  <2>2. /\ CaptureStatus(q)' = CaptureStatus(q)
        /\ InterpretationStatus(q)' = InterpretationStatus(q)
        /\ RunStatus(q)' = RunStatus(q) /\ ReviewStatus(q)' = ReviewStatus(q)
    BY <1>4 DEF CaptureStatus, InterpretationStatus, RunStatus, ReviewStatus
  <2>3. /\ captures'[q] = CaptureStatus(q) /\ interps'[q] = InterpretationStatus(q)
        /\ runs'[q] = RunStatus(q) /\ reviews'[q] = ReviewStatus(q)
        /\ q \in queued' <=> ReviewStatus(q) # "absent"
    BY <1>9, <2>1 DEF TypeOK
  <2>4. changes'[q] = IF staged'[q] = Missing THEN Missing
                      ELSE [status |-> staged'[q].status, command |-> CommandOf(draft'[q])]
    BY <1>2, <1>7
  <2>5. pc'[q] = "committed"
    BY <1>1
  <2>6. Recorded(q)' <=> /\ captures'[q] = CaptureStatus(q)'
                         /\ interps'[q] = InterpretationStatus(q)'
                         /\ runs'[q] = RunStatus(q)'
                         /\ reviews'[q] = ReviewStatus(q)'
                         /\ q \in queued' <=> ReviewStatus(q)' # "absent"
                         /\ changes'[q] = IF staged'[q] = Missing THEN Missing
                               ELSE [status |-> staged'[q].status,
                                     command |-> CommandOf(draft'[q])]
    BY <2>5 DEF Recorded
  <2> QED BY <2>2, <2>3, <2>4, <2>6
<1>13. ASSUME NEW p \in Captures, p # q PROVE OnItsWay(p)' /\ Recorded(p)'
  <2>1. p \in queued' <=> p \in queued
    BY <1>9, <1>13
  <2> QED BY <1>2, <1>7, <1>9, <1>13, <2>1, OthersStay DEF TypeOK
<1> QED BY <1>10, <1>11, <1>12, <1>13

LEMMA AbortInv ==
    ASSUME Inv, NEW q \in Captures, Abort(q)
    PROVE  Inv'
<1> USE DEF Inv
<1>1. pc[q] # "committed" /\ pc'[q] = "aborted"
  BY DEF Abort, Open, TypeOK
<1>2. TypeOK'
  BY DEF Abort, TypeOK, tables, local
<1>3. OnItsWay(q)' /\ Recorded(q)'
  BY <1>1 DEF Abort, OnItsWay, Recorded, Serving, tables, local
<1>4. ASSUME NEW p \in Captures, p # q PROVE OnItsWay(p)' /\ Recorded(p)'
  BY <1>4, OthersStay DEF Abort, TypeOK, tables, local
<1> QED BY <1>2, <1>3, <1>4

LEMMA PatchInv ==
    ASSUME Inv, NEW agent \in Agents, NEW value, PatchAgent(agent, value)
    PROVE  Inv'
<1> USE DEF Inv
<1>1. TypeOK'
  BY NormalizeType DEF PatchAgent, TypeOK, tables, local
<1>2. ASSUME NEW p \in Captures PROVE OnItsWay(p)' /\ Recorded(p)'
  BY OthersStay DEF PatchAgent, tables, local
<1> QED BY <1>1, <1>2

LEMMA NextInv == Inv /\ [Next]_vars => Inv'
<1> SUFFICES ASSUME Inv, [Next]_vars PROVE Inv'
  OBVIOUS
<1>1. CASE Next
  BY <1>1, ReceiveInv, StoreInv, RouteInv, DecideInv, CommitInv, AbortInv, PatchInv
     DEF Next, AnyDraft
<1>2. CASE UNCHANGED vars
  <2>1. TypeOK'
    BY <1>2 DEF vars, tables, local, Inv, TypeOK
  <2>2. ASSUME NEW p \in Captures PROVE OnItsWay(p)' /\ Recorded(p)'
    BY <1>2, OthersStay DEF vars, tables, local
  <2> QED BY <2>1, <2>2 DEF Inv
<1> QED BY <1>1, <1>2

LEMMA InvAlways == Spec => []Inv
  BY InitInv, NextInv, PTL DEF Spec

\* The rows, the vault and the requests in flight have the declared shape.
THEOREM CapturesTyped == Spec => []TypeOK
<1>1. Inv => TypeOK
  BY DEF Inv
<1> QED BY <1>1, InvAlways, PTL

\* A capture in the database has its file and both manifests in the vault, whichever of
\* the writes may fail and whenever a request is lost.
THEOREM EvidenceComesFirst == Spec => []EvidenceFirst
<1>1. Inv => EvidenceFirst
  BY DEF Inv, EvidenceFirst, OnItsWay, Recorded, Serving
<1> QED BY <1>1, InvAlways, PTL

\* No draft of a provider or of the rules, no change of autonomy and no overlap makes
\* the pipeline apply what the policy wants reviewed.
THEOREM OnlySafeWorkGetsApplied == Spec => []OnlySafeWorkIsApplied
<1>1. ASSUME Inv, NEW q \in Captures, changes[q] # Missing
      PROVE  /\ source[q].owner
             /\ mode[q] \in {"balanced", "safe"} \/ draft[q].type \in ReviewGated
             /\ ~draft[q].missing
             /\ draft[q].confidence = "high"
             /\ draft[q].sensitivity \notin SensitiveDomains
             /\ draft[q].risk \notin AlwaysReviewRisks
  <2>1. pc[q] = "committed" /\ staged[q] # Missing
    BY <1>1 DEF Inv, Recorded
  <2>2. /\ draft[q] \in AnyDraft /\ source[q] \in Sources /\ mode[q] \in AutonomyModes
        /\ Decision(q) = "auto_apply"
    BY <1>1, <2>1 DEF Inv, OnItsWay, Serving
  <2> QED BY <2>2, DraftTypes, AutoApplyIsSafe DEF Decision, Sources
<1>2. Inv => OnlySafeWorkIsApplied
  BY <1>1 DEF OnlySafeWorkIsApplied
<1> QED BY <1>2, InvAlways, PTL

\* The rows of a capture, the status of its interpretation among them, agree at every
\* moment about what became of it.
THEOREM LedgersAlwaysAgree == Spec => []LedgersAgree
<1>1. ASSUME Inv, NEW q \in Captures
      PROVE  /\ captures[q] = "waiting_approval" <=> reviews[q] = "pending"
             /\ captures[q] = "needs_clarification" <=> reviews[q] = "needs_clarification"
             /\ q \in queued <=> reviews[q] # "absent"
             /\ captures[q] \in {"auto_applied", "failed"} <=> changes[q] # Missing
             /\ captures[q] = "auto_applied" => changes[q].status = "applied"
             /\ captures[q] = "failed" => changes[q].status = "failed"
             /\ runs[q] = "failed" <=> captures[q] = "failed"
             /\ interps[q] = "promoted_to_review" <=> reviews[q] # "absent"
             /\ interps[q] = "archived_raw_only" <=> captures[q] = "raw_only"
             /\ interps[q] = "auto_applied" <=> changes[q] # Missing
  <2>1. CASE pc[q] # "committed"
    BY <1>1, <2>1 DEF Inv, Recorded
  <2>2. CASE pc[q] = "committed"
    <3>1. Decision(q) \in {"raw_only", "auto_apply", "ask_clarification", "review_required"}
      BY DecideType DEF Decision
    <3>2. staged[q] # Missing <=> Decision(q) = "auto_apply"
      BY <1>1, <2>2 DEF Inv, OnItsWay
    <3>3. staged[q] # Missing => staged[q] \in OutcomeRecord
      BY <1>1 DEF Inv, TypeOK
    <3>4. /\ captures[q] = CaptureStatus(q) /\ interps[q] = InterpretationStatus(q)
          /\ runs[q] = RunStatus(q) /\ reviews[q] = ReviewStatus(q)
          /\ q \in queued <=> ReviewStatus(q) # "absent"
      BY <1>1, <2>2 DEF Inv, Recorded
    <3>5. CASE staged[q] = Missing
      <4>1. changes[q] = Missing
        BY <1>1, <2>2, <3>5 DEF Inv, Recorded
      <4> QED
        BY <3>1, <3>2, <3>4, <3>5, <4>1
        DEF CaptureStatus, InterpretationStatus, RunStatus, ReviewStatus
    <3>6. CASE staged[q] # Missing
      <4>1. staged[q].status \in {"applied", "failed"}
        BY <3>3, <3>6 DEF OutcomeRecord
      <4>2. changes[q] = [status |-> staged[q].status, command |-> CommandOf(draft[q])]
        BY <1>1, <2>2, <3>6 DEF Inv, Recorded
      <4>3. CommandOf(draft[q]) \in CommandRecord
        BY <1>1, <2>2, DraftTypes, CommandAssumption DEF Inv, OnItsWay
      <4>4. changes[q] # Missing /\ changes[q].status = staged[q].status
        BY <4>1, <4>2, <4>3, CaptureAssumption DEF Change
      <4> QED
        BY <3>2, <3>4, <3>6, <4>1, <4>4
        DEF CaptureStatus, InterpretationStatus, RunStatus, ReviewStatus, Applied
    <3> QED BY <3>5, <3>6
  <2> QED BY <2>1, <2>2
<1>2. Inv => LedgersAgree
  BY <1>1 DEF LedgersAgree
<1> QED BY <1>2, InvAlways, PTL

-----------------------------------------------------------------------------
(* The capture pipeline implements AuditedTruth.                           *)

Ledger == [q \in Captures |-> IF changes[q] = Missing THEN Missing ELSE changes[q].status]

Trail == {t \in {"applied", "failed"} \X Captures :
            AuditOf(t[1]) \X {t[2]} \subseteq audit}

LEMMA ImplementsInit == Init => AT!Init
<1> SUFFICES ASSUME Init PROVE AT!Init
  OBVIOUS
<1>1. Ledger = [q \in Captures |-> Missing] /\ rows = {}
  BY DEF Init, Ledger
<1>2. Trail = {}
  <2>1. \A status, p : ~(AuditOf(status) \X {p} \subseteq {})
    <3>1. SUFFICES ASSUME NEW status, NEW p, NEW type, AuditOf(status) = {type}
                   PROVE  ~(AuditOf(status) \X {p} \subseteq {})
      BY DEF AuditOf
    <3>2. <<type, p>> \in AuditOf(status) \X {p}
      BY <3>1
    <3> QED BY <3>2
  <2> QED BY <2>1 DEF Init, Trail
<1> QED BY <1>1, <1>2 DEF AT!Init, Ledger, Trail

\* A commit adds the audit event of its own command, if the policy ran one.
LEMMA TrailCommit ==
    ASSUME Inv, NEW q \in Captures, Commit(q)
    PROVE  Trail' = Trail \cup (IF staged[q] = Missing THEN {}
                                ELSE {<<staged[q].status, q>>})
<1>1. audit' = audit \cup AuditTrail(q) \X {q}
  BY DEF Commit
<1>2. staged[q] # Missing => staged[q].status \in {"applied", "failed"}
  BY DEF Inv, TypeOK, OutcomeRecord
<1>3. \A status \in {"applied", "failed"}, p \in Captures :
        AuditOf(status) \X {p} \subseteq audit' <=>
          \/ AuditOf(status) \X {p} \subseteq audit
          \/ staged[q] # Missing /\ status = staged[q].status /\ p = q
  <2>1. SUFFICES ASSUME NEW status \in {"applied", "failed"}, NEW p \in Captures,
                        NEW type, AuditOf(status) = {type}
                 PROVE  <<type, p>> \in audit' <=>
                          \/ <<type, p>> \in audit
                          \/ staged[q] # Missing /\ status = staged[q].status /\ p = q
    BY DEF AuditOf
  <2>2. <<type, p>> \in audit' <=> <<type, p>> \in audit \/ (type \in AuditTrail(q) /\ p = q)
    BY <1>1
  <2>3. type = IF status = "applied" THEN "state_change.applied" ELSE "state_change.failed"
    BY <2>1 DEF AuditOf
  <2>4. type \in AuditTrail(q) <=> staged[q] # Missing /\ status = staged[q].status
    BY <1>2, <2>3 DEF AuditTrail, AuditOf
  <2> QED BY <2>2, <2>4
<1> QED BY <1>2, <1>3 DEF Trail

LEMMA ImplementsCommit ==
    ASSUME Inv, NEW q \in Captures, Commit(q)
    PROVE  [AT!Next]_(AT!vars)
<1>1. CASE staged[q] = Missing
  <2>1. UNCHANGED <<changes, rows>>
    BY <1>1 DEF Commit
  <2>2. Trail' = Trail
    BY <1>1, TrailCommit
  <2> QED BY <2>1, <2>2 DEF Trail, AT!vars
<1>2. CASE staged[q] # Missing
  <2>1. PICK outcome \in {"applied", "failed"} : outcome = staged[q].status
    BY <1>2 DEF Inv, TypeOK, OutcomeRecord
  <2>2. changes[q] = Missing /\ draft[q] \in AnyDraft
    BY DEF Inv, OnItsWay, Recorded, Commit
  <2> DEFINE change == [status |-> outcome, command |-> CommandOf(draft[q])]
  <2>3. change # Missing
    <3>1. change \in Change
      BY <2>2, DraftTypes, CommandAssumption DEF Change
    <3> QED BY <3>1, CaptureAssumption
  <2>4. /\ changes' = [changes EXCEPT ![q] = change]
        /\ rows' = rows \cup staged[q].inserts \X {q}
    BY <1>2, <2>1 DEF Commit
  <2>5. change.status = outcome
    OBVIOUS
  <2> HIDE DEF change
  <2>6. Ledger' = [Ledger EXCEPT ![q] = outcome] /\ Ledger[q] = Missing
    <3>1. changes \in [Captures -> Change \cup {Missing}]
      BY DEF Inv, TypeOK
    <3>2. Ledger'[q] = outcome /\ Ledger[q] = Missing
      BY <2>2, <2>3, <2>4, <2>5, <3>1 DEF Ledger
    <3>3. \A p \in Captures : p # q => Ledger'[p] = Ledger[p]
      BY <2>4, <3>1 DEF Ledger
    <3> QED BY <3>2, <3>3 DEF Ledger
  <2>7. Trail' = Trail \cup {<<outcome, q>>}
    BY <1>2, <2>1, TrailCommit
  <2>8. rows \subseteq rows' /\ rows' \ rows \subseteq Tables \X {q}
    BY <1>2, <2>4 DEF Inv, TypeOK, OutcomeRecord
  <2>9. {c \in Captures : Ledger'[c] # Ledger[c]} = {q}
    BY <2>6, CaptureAssumption DEF Ledger
  <2>10. AT!Recorded = {q}
    BY <2>9 DEF AT!Recorded, Ledger
  <2>11. /\ DOMAIN Ledger' = Captures
         /\ Ledger[q] = Missing
         /\ Ledger'[q] \in {"applied", "failed"}
         /\ Trail' = Trail \cup {<<Ledger'[c], c>> : c \in {q}}
    BY <2>6, <2>7 DEF Ledger
  <2>12. AT!Record
    BY <2>8, <2>10, <2>11 DEF AT!Record, AT!Outcomes, Ledger, Trail
  <2> QED BY <2>12 DEF AT!Next
<1> QED BY <1>1, <1>2

LEMMA ImplementsStep == Inv /\ [Next]_vars => [AT!Next]_(AT!vars)
<1> SUFFICES ASSUME Inv, [Next]_vars PROVE [AT!Next]_(AT!vars)
  OBVIOUS
<1>1. CASE UNCHANGED <<changes, rows, audit>>
  BY <1>1 DEF AT!vars
<1>2. CASE \E q \in Captures, src \in Sources : Receive(q, src)
  BY <1>1, <1>2 DEF Receive, tables
<1>3. CASE \E q \in Captures : Store(q) \/ DecidePolicy(q) \/ Abort(q)
  BY <1>1, <1>3 DEF Store, DecidePolicy, Abort, tables
<1>4. CASE \E q \in Captures, d \in Drafts \cup RuleDrafts : Route(q, d)
  BY <1>1, <1>4 DEF Route, tables
<1>5. CASE \E agent \in Agents, value \in Settings : PatchAgent(agent, value)
  BY <1>1, <1>5 DEF PatchAgent, tables
<1>6. CASE UNCHANGED vars
  BY <1>1, <1>6 DEF vars, tables
<1> QED BY <1>2, <1>3, <1>4, <1>5, <1>6, ImplementsCommit DEF Next

\* Every step of the capture pipeline is, for the durable rows, one recorded and
\* audited change of one capture or no change at all.
THEOREM CapturesImplementAuditedTruth == Spec => ImplementsAuditedTruth
  BY ImplementsInit, ImplementsStep, InvAlways, PTL DEF Spec, ImplementsAuditedTruth, AT!Spec

=============================================================================

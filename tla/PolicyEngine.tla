---------------------------- MODULE PolicyEngine ----------------------------
(***************************************************************************)
(* decide_capture_action (apps/api/lifeos_api/services/policy_engine.py):  *)
(* what is done with the action a capture was drafted into.                *)
(*                                                                         *)
(* A draft is [agent, type, risk, sensitivity, confidence, missing, raw,   *)
(* fault]: `type` and `risk` are those of the proposed action (the risk    *)
(* the router gave the draft as a whole is not looked at), `missing` says  *)
(* that context is missing, `raw` that it is labelled raw_note, `fault`    *)
(* where its payload raises (CommandBus).  A confidence is one of the      *)
(* classes the two thresholds 0.7 and 0.78 make.                           *)
(***************************************************************************)

AutonomyModes == {"manual", "review_gated", "balanced", "safe"}

Confidences == {"low", "middle", "high"}     \* < 0.7, in between, >= 0.78

AlwaysReviewRisks ==
    {"finance_mutation", "durable_memory_write", "family_sensitive_mutation",
     "health_sensitive_mutation", "file_write_or_move", "external_side_effect",
     "destructive_or_sensitive_action", "provider_config_change",
     "tool_permission_change"}

AutoRisks == {"safe_internal_read", "reversible_internal_write", "durable_state_mutation"}

SensitiveDomains == {"finance", "health", "family", "secret"}

ReviewGated == {"review.done", "raw_capture.archive"}

Balanced == ReviewGated \cup {"life_item.create", "prayer_log.create",
                              "daily_log.create", "memory_candidate.create"}

AutoAllow == [manual |-> {}, review_gated |-> ReviewGated, balanced |-> Balanced,
              safe |-> Balanced \cup {"life_item.low_risk_log"}]

\* _normalize_autonomy: the mode an agent row or a request to change it stands for.
Normalize(value) ==
    CASE value \in {"owner_gated", "explicit_owner_approval"} -> "manual"
      [] value \in AutonomyModes                              -> value
      [] OTHER                                                -> "review_gated"

\* No clear action: the capture is evidence only.
IsRaw(draft) == draft.type = "none" \/ draft.raw

\* Drafts that are escalated whatever the allowlist says.
MustReview(draft, mode) ==
    \/ draft.confidence = "low"
    \/ mode = "manual"
    \/ draft.risk \in AlwaysReviewRisks
    \/ draft.sensitivity \in SensitiveDomains

Allowlisted(draft, mode) ==
    /\ draft.type \in AutoAllow[mode]
    /\ draft.confidence = "high"
    /\ draft.risk \in AutoRisks

\* Faulty: missing context is asked for only if the action would be reviewed anyway.
DecideBeforeContext(draft, mode, owner) ==
    IF IsRaw(draft) THEN "raw_only"
    ELSE IF owner /\ ~MustReview(draft, mode) /\ Allowlisted(draft, mode) THEN "auto_apply"
    ELSE IF owner /\ draft.missing THEN "ask_clarification"
    ELSE "review_required"

\* The checks in the order of the code; `mode` is a normalized one.
Decide(draft, mode, owner) ==
    IF IsRaw(draft) THEN "raw_only"
    ELSE IF owner /\ draft.missing THEN "ask_clarification"
    ELSE IF owner /\ ~MustReview(draft, mode) /\ Allowlisted(draft, mode) THEN "auto_apply"
    ELSE "review_required"

=============================================================================

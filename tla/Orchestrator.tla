---------------------------- MODULE Orchestrator ----------------------------
(***************************************************************************)
(* The deterministic router (services/orchestrator.py): what a capture is  *)
(* drafted into without a provider.                                        *)
(*                                                                         *)
(* Of a text only the topics matter whose tokens it contains, and whether  *)
(* it names an amount other than zero.                                     *)
(***************************************************************************)
EXTENDS Naturals, Sequences

\* The topics in the order they are looked for; the first that is found wins.
Topics == <<"job", "finance", "prayer", "health", "family", "work", "research", "memory">>

TopicSet == {Topics[i] : i \in DOMAIN Topics}

\* A draft as the policy engine and the command bus see it (see PolicyEngine).
RuleDraft(agent, type, risk, confidence) ==
    [agent |-> agent, type |-> type, risk |-> risk, sensitivity |-> "normal",
     confidence |-> confidence, missing |-> FALSE, raw |-> FALSE, fault |-> "nowhere"]

JobDraft      == RuleDraft("daily-planner", "job.create", "durable_state_mutation", "middle")
PrayerDraft   == RuleDraft("deen-prayer", "prayer_log.create", "durable_state_mutation", "high")
HealthDraft   == [RuleDraft("health-fitness", "daily_log.create", "durable_state_mutation", "high")
                    EXCEPT !.sensitivity = "health"]
FamilyDraft   == [RuleDraft("family-commitments", "life_item.create", "durable_state_mutation",
                            "middle") EXCEPT !.sensitivity = "family"]
WorkDraft     == RuleDraft("work.generic", "life_item.create", "durable_state_mutation", "middle")
ResearchDraft == RuleDraft("research", "life_item.create", "durable_state_mutation", "high")
MemoryDraft   == RuleDraft("memory-curator", "memory_fact.create", "durable_memory_write", "low")
RawNoteDraft  == [RuleDraft("memory-curator", "none", "safe_internal_read", "high")
                    EXCEPT !.raw = TRUE]

\* An expense without an amount is asked about.
FinanceDraft(amount) ==
    [RuleDraft("finance", "finance_entry.create", "finance_mutation",
               IF amount THEN "middle" ELSE "low")
        EXCEPT !.sensitivity = "finance", !.missing = ~amount]

\* The first topic of the text; a text without one is a raw note.
TopicOf(found) ==
    IF found = {} THEN "none"
    ELSE Topics[CHOOSE i \in DOMAIN Topics :
                   /\ Topics[i] \in found
                   /\ \A j \in 1..(i - 1) : Topics[j] \notin found]

\* draft_from_capture
DraftFromCapture(found, amount) ==
    CASE TopicOf(found) = "job"      -> JobDraft
      [] TopicOf(found) = "finance"  -> FinanceDraft(amount)
      [] TopicOf(found) = "prayer"   -> PrayerDraft
      [] TopicOf(found) = "health"   -> HealthDraft
      [] TopicOf(found) = "family"   -> FamilyDraft
      [] TopicOf(found) = "work"     -> WorkDraft
      [] TopicOf(found) = "research" -> ResearchDraft
      [] TopicOf(found) = "memory"   -> MemoryDraft
      [] OTHER                       -> RawNoteDraft
=============================================================================

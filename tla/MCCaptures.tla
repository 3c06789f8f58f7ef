----------------------------- MODULE MCCaptures -----------------------------
(* Small instances of Captures for TLC.                                    *)
EXTENDS Captures, TLC

Task          == RuleDraft("research", "life_item.create", "durable_state_mutation", "high")
DeadlineDraft == [Task EXCEPT !.fault = "early"]
VagueTask     == [Task EXCEPT !.missing = TRUE]
MutedTask     == [Task EXCEPT !.agent = "unknown"]
Preference    == RuleDraft("research", "memory_candidate.create", "reversible_internal_write", "high")

ManyDrafts == {DeadlineDraft, VagueTask, MutedTask, Preference}
FewDrafts  == {Task, VagueTask, DeadlineDraft}

\* A text of each topic, one of none and some of two, with and without an amount.
ManyTexts == {<<{topic}, amount>> : topic \in TopicSet, amount \in BOOLEAN}
             \cup {<<{}, TRUE>>, <<{"finance", "work"}, TRUE>>, <<{"job", "prayer"}, FALSE>>}

MCCommands == {CommandOf(d) : d \in ManyDrafts \cup FewDrafts
                                    \cup {DraftFromCapture(text[1], text[2]) : text \in ManyTexts}}

CaptureSymmetry == Permutations(Captures)
=============================================================================

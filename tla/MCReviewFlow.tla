---------------------------- MODULE MCReviewFlow ----------------------------
(* Small instances of ReviewFlow for TLC.                                  *)
EXTENDS ReviewFlow, TLC

CONSTANTS i1, t1

MCColumns  == {"status"}
MCFields   == {"status", "bogus"}
MCValues   == {"open", "done"}
MCAccepted == {<<"status", "open">>, <<"status", "done">>}

Command(type, fault, target, updates) ==
    [type |-> type, fault |-> fault, target |-> target, updates |-> updates]

CreateTask == Command("life_item.create", "nowhere", Missing, <<>>)
BadTask    == Command("life_item.create", "early", Missing, <<>>)
CloseItem  == Command("life_item.update", "nowhere", i1, <<<<"status", "done">>>>)
HalfUpdate == Command("life_item.update", "nowhere", i1,
                      <<<<"status", "done">>, <<"bogus", "open">>>>)
LostItem   == Command("life_item.update", "nowhere", Missing, <<<<"status", "done">>>>)
AddExpense == Command("finance_entry.create", "nowhere", Missing, <<>>)
BadExpense == Command("finance_entry.create", "late", Missing, <<>>)
Remember   == Command("memory_fact.create", "nowhere", Missing, <<>>)
HalfFact   == Command("memory_fact.create", "late", Missing, <<>>)
UseTool    == Command("tool_call.approve", "nowhere", t1, <<>>)
Unknown    == Command("none", "nowhere", Missing, <<>>)

\* Two actions that differ, one of which fails: enough for a correction to replace
\* one by the other and for an approval to end either way.
TwoCommands == {CreateTask, HalfUpdate}

\* Every branch of _apply_payload, successful and failing.
AllCommands == {CreateTask, BadTask, CloseItem, HalfUpdate, LostItem, AddExpense,
                BadExpense, Remember, HalfFact, UseTool, Unknown}

RequestSymmetry == Permutations(Requests)
=============================================================================

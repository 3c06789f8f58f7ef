----------------------------- MODULE MCProposals -----------------------------
(* Small instances of Proposals for TLC.                                   *)
EXTENDS Proposals, TLC

CONSTANTS i1

MCColumns  == {"status"}
MCFields   == {"status"}
MCValues   == {"open", "done"}
MCAccepted == {<<"status", "open">>, <<"status", "done">>}
MCOpenRows == {row \in [MCColumns -> MCValues] : row["status"] = "open"}

Command(type, fault, updates) ==
    [type |-> type, fault |-> fault, target |-> Missing, updates |-> updates]

CreateTask == Command("life_item.create", "nowhere", <<>>)
BadTask    == Command("life_item.create", "early", <<>>)
SetReminder == Command("job.create", "nowhere", <<>>)
CloseItem  == Command("life_item.update", "nowhere", <<<<"status", "done">>>>)

MCCommands == {CreateTask, BadTask, SetReminder, CloseItem}

Plain(cmd) == [kind |-> "plain", command |-> cmd]
Complete   == [kind |-> "complete", command |-> CloseItem]
Empty      == [kind |-> "empty", command |-> BadTask]

\* What the local planner drafts.
MCDraftFor ==
    [type \in LocalTypes |->
        CASE type = "task.create"     -> Plain(CreateTask)
          [] type = "task.complete"   -> Complete
          [] type = "reminder.create" -> Plain(SetReminder)
          [] OTHER                    -> Empty]

AllDrafts == {Plain(CreateTask), Plain(BadTask), Plain(SetReminder), Complete, Empty}
GoodDrafts == AllDrafts \ {Plain(BadTask)}

\* What a provider may write.
Suggest(type, risk, explicit, draft) ==
    [type |-> type, risk |-> risk, confirm |-> FALSE, formal |-> FALSE,
     explicit |-> explicit, draft |-> draft]

NewTask   == Suggest("task.create", "low", TRUE, Plain(CreateTask))
Finish    == Suggest("task.complete", "low", FALSE, Complete)
Postpone  == Suggest("task.update", "medium", FALSE, Plain(CreateTask))
WrongTask == Suggest("task.update", "low", TRUE, Plain(BadTask))
NoAction  == Suggest("research.start", "low", TRUE, Empty)

\* Orders to create and to complete a task, a wish, and a dangerous request.
Task   == {"task"}
Closed == {"complete", "done"}
Wish   == {"implicit"}
Danger == {"destructive"}

MCMessages == {Task, Closed, Wish, Danger}
Orders     == {Task}
Wishes     == {Wish}
OrdersAndWishes == {Task, Wish}

\* Actions to be executed at once, the first of which fails, and one that needs
\* a question.
MCAnswers == {NoAnswer, Plan("execute_now", <<WrongTask, NewTask>>),
              Plan("propose_inline", <<Postpone>>)}

OnlyNewTask  == {NoAnswer}
PairOffered  == {Plan("propose_inline", <<NewTask, NewTask>>)}
HalfRight    == {Plan("execute_now", <<NewTask, WrongTask>>),
                 Plan("execute_now", <<NewTask, NoAction>>)}

PairTexts == {"only first", "only second"}

SomeTexts == {"yes", "only first", "change second"}

AllTexts == {"yes", "no", "what exactly", "only first", "only second",
             "change first", "change second", "change it"}

RequestSymmetry == Permutations(Requests)
=============================================================================

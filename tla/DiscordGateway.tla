---------------------------- MODULE DiscordGateway ----------------------------
(***************************************************************************)
(* The Discord gateway (apps/discord-gateway/discord_gateway/main.py).     *)
(* One thread polls the API for pending reviews and posts a card for each  *)
(* it has not posted; what it posted it keeps in memory.  The websocket    *)
(* hands every interaction of the owner (a button, a form, a command) and  *)
(* every message to a thread of its own, which calls the API and says what *)
(* came of it.                                                             *)
(*                                                                         *)
(* Events sent while the websocket is down are lost: a new connection      *)
(* identifies anew and never resumes.  Any call may fail; a call that      *)
(* timed out may still be served by the API.                               *)
(***************************************************************************)
EXTENDS Naturals, Sequences, FiniteSets

CONSTANTS
    MaxReviews,    \* bound: reviews in all
    PageSize,      \* how many pending reviews a poll asks for (20)
    StartPage,     \* how many the start takes for posted (100)
    PostExisting,  \* DISCORD_POST_EXISTING_ON_STARTUP
    Inputs,        \* the ids of what the owner does in Discord
    Commands,      \* the slash commands and messages the owner may send
    Buttons        \* the review buttons the owner may press

Reviews == 1..MaxReviews

AllButtons == {"approve", "reject", "correct", "clarify", "snooze", "done"}

\* The buttons of reviews and proposals that ask for a text first.
Forms == {"correct", "clarify", "edit"}

\* The calls of the API a command makes, in their order; the commands that may only
\* show something (agent, iterations, cancel) are the ones that change it.
CallsOf ==
    [new        |-> <<"create session">>,
     thread     |-> <<"create session">>,
     agent      |-> <<"resolve session", "set agent">>,
     iterations |-> <<"resolve session", "set iterations">>,
     cancel     |-> <<"find session", "cancel session">>,
     capture    |-> <<"capture">>,
     ask        |-> <<"ask">>,
     model      |-> <<"set model">>,
     autonomy   |-> <<"set autonomy">>,
     sync       |-> <<"sync agents", "sync tools">>,
     status     |-> <<"readiness", "providers">>,
     chat       |-> <<"chat">>,
     proposal   |-> <<"decide proposal">>,
     edit       |-> <<"revise proposal">>]

\* The calls the API may answer (HTTP 200) without doing anything: there is no such
\* session, run or agent, or the proposal is closed.  None is followed by another.
Refusable == {"find session", "cancel session", "set agent", "set autonomy",
              "decide proposal"}

\* handle_slash does not look at whether the agent was set.
Unheeded == {"set agent"}

ASSUME DiscordAssumption ==
    /\ MaxReviews \in Nat
    /\ PageSize \in Nat \ {0}
    /\ StartPage \in Nat
    /\ PostExisting \in BOOLEAN
    /\ Commands \subseteq DOMAIN CallsOf
    /\ Buttons \subseteq AllButtons

VARIABLES
    reviews,   \* API: the status of each review, in the order they were created
    bot,       \* the thread that posts reviews
    cards,     \* how many cards of a review are in the channel
    unsure,    \* history: reviews one of whose posts got no answer
    skipped,   \* history: reviews a start of the process took for posted
    inputs,    \* what the owner did, and the thread that handles it
    crashes    \* history: how often the process died

discord == <<reviews, bot, cards, unsure, skipped, inputs, crashes>>

Statuses == {"pending", "needs_clarification", "snoozed", "rejected", "applied", "failed"}

Bot == [up : BOOLEAN, started : BOOLEAN, posted : SUBSET Reviews, page : SUBSET Reviews]

Down == [up |-> FALSE, started |-> FALSE, posted |-> {}, page |-> {}]

\* What the owner does, on which review; the call that is made next, the calls that
\* took effect, the one the API still works on though the thread gave it up, and
\* whether the API refused one.
NoInput == [at |-> "unsent", act |-> "none", on |-> 0, next |-> 1, done |-> {},
            late |-> 0, doubt |-> FALSE, refused |-> FALSE]

Stages == {"unsent", "sent", "form", "filled", "working", "failed", "refused", "done",
           "told ok", "told failed", "told refused", "silent", "lost"}

Input == [at : Stages, act : DOMAIN CallsOf \cup AllButtons \cup {"none"},
          on : 0..MaxReviews, next : 1..3, done : SUBSET (1..2), late : 0..2,
          doubt : BOOLEAN, refused : BOOLEAN]

DiscordInit ==
    /\ reviews = <<>>
    /\ bot = Down
    /\ cards = [r \in Reviews |-> 0]
    /\ unsure = {}
    /\ skipped = {}
    /\ inputs = [k \in Inputs |-> NoInput]
    /\ crashes = 0

-----------------------------------------------------------------------------
(* The thread that posts reviews.                                          *)

Pending == {r \in DOMAIN reviews : reviews[r] = "pending"}

\* GET /api/reviews?status=pending&limit=n: the newest n.
Newest(n) == {r \in Pending : Cardinality({o \in Pending : o > r}) < n}

CreateReview(status) ==
    /\ Len(reviews) < MaxReviews
    /\ reviews' = Append(reviews, status)
    /\ UNCHANGED <<bot, cards, unsure, skipped, inputs, crashes>>

StartProcess ==
    /\ ~bot.up
    /\ bot' = [bot EXCEPT !.up = TRUE]
    /\ UNCHANGED <<reviews, cards, unsure, skipped, inputs, crashes>>

StartWith(seen) ==
    /\ bot.up /\ ~bot.started
    /\ bot' = [bot EXCEPT !.started = TRUE, !.posted = seen]
    /\ skipped' = skipped \cup seen
    /\ UNCHANGED <<reviews, cards, unsure, inputs, crashes>>

\* Unless told otherwise the thread takes the reviews it finds pending for posted; if
\* it cannot get them, it takes none.
StartPoller == StartWith(IF PostExisting THEN {} ELSE Newest(StartPage))

StartUninformed == StartWith({})

\* Faulty: what was posted is posted again.
ToPostAgain == Newest(PageSize)

ToPost == Newest(PageSize) \ bot.posted

PollReviews ==
    /\ bot.started
    /\ bot.page = {}
    /\ bot' = [bot EXCEPT !.page = ToPost]
    /\ UNCHANGED <<reviews, cards, unsure, skipped, inputs, crashes>>

Greatest(S) == CHOOSE r \in S : \A o \in S : o <= r

\* Faulty: a review whose post failed counts as posted.
KnownAnyway(r) == bot.posted \cup {r}

\* A review whose post failed is tried again.
KnownAfterFailure(r) == bot.posted

PostReview ==
    /\ bot.page # {}
    /\ LET r == Greatest(bot.page)
       IN /\ cards' = [cards EXCEPT ![r] = @ + 1]
          /\ bot' = [bot EXCEPT !.posted = @ \cup {r}, !.page = @ \ {r}]
    /\ UNCHANGED <<reviews, unsure, skipped, inputs, crashes>>

\* The post fails, or arrives and its answer does not; the rest of the page is left.
PostFails ==
    /\ bot.page # {}
    /\ LET r == Greatest(bot.page)
       IN /\ \/ UNCHANGED <<cards, unsure>>
             \/ /\ cards' = [cards EXCEPT ![r] = @ + 1]
                /\ unsure' = unsure \cup {r}
          /\ bot' = [bot EXCEPT !.page = {}, !.posted = KnownAfterFailure(r)]
    /\ UNCHANGED <<reviews, skipped, inputs, crashes>>

-----------------------------------------------------------------------------
(* The threads that handle what the owner does.                            *)

InputStep == UNCHANGED <<bot, cards, unsure, skipped, crashes>>

Put(k, input) == inputs' = [inputs EXCEPT ![k] = input]

\* The buttons of a card stay when its review is decided.
Press(k, button, r) ==
    /\ inputs[k].at = "unsent"
    /\ cards[r] > 0
    /\ Put(k, [NoInput EXCEPT !.at = "sent", !.act = button, !.on = r])
    /\ InputStep /\ UNCHANGED reviews

Command(k, command) ==
    /\ inputs[k].at = "unsent"
    /\ Put(k, [NoInput EXCEPT !.at = "sent", !.act = command])
    /\ InputStep /\ UNCHANGED reviews

\* The process takes an event from the websocket and acknowledges it: a form is shown
\* for a button that needs a text.
Acknowledge(k) ==
    /\ bot.up
    /\ inputs[k].at \in {"sent", "filled"}
    /\ Put(k, [inputs[k] EXCEPT !.at =
          IF @ = "sent" /\ inputs[k].act \in Forms THEN "form" ELSE "working"])
    /\ InputStep /\ UNCHANGED reviews

Fill(k) ==
    /\ inputs[k].at = "form"
    /\ Put(k, [inputs[k] EXCEPT !.at = "filled"])
    /\ InputStep /\ UNCHANGED reviews

\* The websocket is down, the acknowledgement fails, or the owner closes the form.
Lose(k) ==
    /\ inputs[k].at \in {"sent", "form", "filled"}
    /\ Put(k, [inputs[k] EXCEPT !.at = "lost"])
    /\ InputStep /\ UNCHANGED reviews

Calls(input) == IF input.act \in AllButtons THEN <<"decide review">> ELSE CallsOf[input.act]

\* What a decision makes of a review (decide_review); an approved action may fail.
Decided == [approve |-> {"applied", "failed"}, reject |-> {"rejected"},
            correct |-> {"pending"}, clarify |-> {"needs_clarification"},
            snooze |-> {"snoozed"}, done |-> {"applied"}]

Effect(input) ==
    IF input.act \in AllButtons
    THEN \E status \in Decided[input.act] : reviews' = [reviews EXCEPT ![input.on] = status]
    ELSE UNCHANGED reviews

\* The calls of an input are made in their order; the last one ends it.
CallServed(k) ==
    /\ inputs[k].at = "working"
    /\ Effect(inputs[k])
    /\ Put(k, [inputs[k] EXCEPT !.done = @ \cup {inputs[k].next}, !.next = @ + 1,
                   !.at = IF inputs[k].next = Len(Calls(inputs[k])) THEN "done" ELSE @])
    /\ InputStep

\* The API refuses a call in its answer, which ends the command.
CallRefused(k) ==
    /\ inputs[k].at = "working"
    /\ LET call == Calls(inputs[k])[inputs[k].next]
       IN /\ call \in Refusable
          /\ Put(k, [inputs[k] EXCEPT !.refused = TRUE,
                         !.at = IF call \in Unheeded THEN "done" ELSE "refused"])
    /\ InputStep /\ UNCHANGED reviews

\* Faulty: the next call is made whatever became of this one.
AfterFailurePassed(input) == IF input.next = Len(Calls(input)) THEN "done" ELSE "failed"

AfterFailure(input) == "failed"

\* The call ends in an error (HTTP 4xx or 5xx), or times out after 75 seconds.
CallFails(k) ==
    /\ inputs[k].at = "working"
    /\ \E gone \in {0, inputs[k].next} :
         Put(k, [inputs[k] EXCEPT !.at = AfterFailure(inputs[k]), !.late = gone,
                                  !.doubt = gone # 0])
    /\ InputStep /\ UNCHANGED reviews

\* The API finishes a call nobody waits for, or fails in it or refuses it.
ServedLate(k) ==
    /\ inputs[k].late # 0
    /\ Effect(inputs[k])
    /\ Put(k, [inputs[k] EXCEPT !.done = @ \cup {inputs[k].late}, !.late = 0])
    /\ InputStep

FailedLate(k) ==
    /\ inputs[k].late # 0
    /\ Put(k, [inputs[k] EXCEPT !.late = 0])
    /\ InputStep /\ UNCHANGED reviews

Ended(k) == inputs[k].at \in {"done", "failed", "refused"}

Told == [done |-> "told ok", failed |-> "told failed", refused |-> "told refused"]

\* The answer replaces the "thinking" message; the status the API gave is part of it.
Report(k) ==
    /\ Ended(k)
    /\ Put(k, [inputs[k] EXCEPT !.at = Told[@]])
    /\ InputStep /\ UNCHANGED reviews

\* That fails, and so does the message that is posted instead.
ReportFails(k) ==
    /\ Ended(k)
    /\ Put(k, [inputs[k] EXCEPT !.at = "silent"])
    /\ InputStep /\ UNCHANGED reviews

\* The process dies, and its threads with it; the API may still serve their calls.
Crash ==
    /\ bot.up
    /\ crashes' = crashes + 1
    /\ bot' = Down
    /\ inputs' = [k \in Inputs |->
         CASE inputs[k].at = "working" ->
                  [inputs[k] EXCEPT !.at = "silent", !.late = inputs[k].next]
           [] Ended(k) -> [inputs[k] EXCEPT !.at = "silent"]
           [] OTHER -> inputs[k]]
    /\ UNCHANGED <<reviews, cards, unsure, skipped>>

Poster == StartProcess \/ StartPoller \/ PollReviews \/ PostReview

DiscordStep ==
    \/ Poster
    \/ \E k \in Inputs :
        \/ \E button \in Buttons, r \in Reviews : Press(k, button, r)
        \/ \E command \in Commands : Command(k, command)
        \/ Acknowledge(k) \/ Fill(k) \/ CallServed(k) \/ CallRefused(k) \/ Report(k)
        \/ ServedLate(k) \/ FailedLate(k)

DiscordFault ==
    \/ StartUninformed \/ PostFails \/ Crash
    \/ \E k \in Inputs : Lose(k) \/ CallFails(k) \/ ReportFails(k)

-----------------------------------------------------------------------------
(* Properties.                                                             *)

\* Every state the thread that posts and the threads of the inputs can be in.
DiscordTypeOK ==
    /\ reviews \in Seq(Statuses) /\ Len(reviews) <= MaxReviews
    /\ bot \in Bot
    /\ cards \in [Reviews -> Nat]
    /\ unsure \subseteq Reviews
    /\ skipped \subseteq Reviews
    /\ inputs \in [Inputs -> Input]
    /\ crashes \in Nat

\* A review has a second card only after the process died or Discord left the answer
\* to a post open: a correction, a failed poll or a failed post adds none.
CardsExplained ==
    \A r \in Reviews : cards[r] > 1 => r \in unsure \/ crashes > 0

\* What the owner is told of a command or a button is what happened: a success means
\* that every call took effect, but for an agent the API refused to set (handle_slash
\* says "Agent: .." all the same); a refusal that the call did nothing; a failure that
\* some call did nothing, unless it was left open.
ReportIsTrue ==
    \A k \in Inputs :
        LET input == inputs[k]
        IN /\ input.at = "told ok" => \/ input.done = 1..Len(Calls(input))
                                      \/ input.act = "agent" /\ input.refused
           /\ input.at = "told refused" => input.next \notin input.done
           /\ input.at = "told failed" /\ input.done = 1..Len(Calls(input)) => input.doubt

\* A review that stays pending gets a card, unless a start of the process took it
\* for posted or as many newer ones as a poll returns stay pending.
PendingIsPosted ==
    \A r \in Reviews :
        r \in Pending ~> \/ cards[r] > 0 \/ r \in skipped \/ r \notin Pending
                         \/ r \notin Newest(PageSize)

=============================================================================

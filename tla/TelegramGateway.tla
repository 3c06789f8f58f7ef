---------------------------- MODULE TelegramGateway ----------------------------
(***************************************************************************)
(* The Telegram gateway (apps/telegram-gateway/telegram_gateway/main.py):  *)
(* one loop that polls for updates, sends each message of the owner to the *)
(* API as a capture, and tells the owner what became of it.                *)
(*                                                                         *)
(* The position in the updates (`offset`) lives in memory and is advanced  *)
(* before an update is handled.  Telegram forgets an update when           *)
(* it is asked for a later one.  Any call may fail, and a call that timed  *)
(* out may still be served by the API.  The process may die; whoever runs  *)
(* it starts it again.                                                     *)
(***************************************************************************)
EXTENDS Naturals, Sequences, FiniteSets

CONSTANTS
    Kinds,         \* the kinds of updates that arrive
    Routes,        \* what the API may decide about a capture
    MaxUpdates     \* bound: updates in all

Updates == 1..MaxUpdates

\* What an update may be: a text, a voice message, a /capture, a command that
\* only asks something (/help, /status, /today, /ask), and what the gateway passes over
\* without a word: other senders, unknown commands, a bare /capture.
AllKinds == {"text", "voice", "note", "query", "other"}

Captured == {"text", "voice", "note"}

AllRoutes == {"raw_only", "auto_apply", "review_required", "ask_clarification"}

ASSUME TelegramAssumption ==
    /\ Kinds \subseteq AllKinds
    /\ Routes \subseteq AllRoutes
    /\ MaxUpdates \in Nat

VARIABLES
    feed,      \* Telegram: the updates sent so far
    confirmed, \* Telegram: how many of them it has forgotten
    poller,    \* the process
    late,      \* API: calls about an update the gateway gave up and it still works on
    stored,    \* API: captures stored of an update
    told,      \* what the owner was told: <<update, reply>>
    failed,    \* history: updates one of whose calls failed
    restarts   \* history: how often the process died

telegram == <<feed, confirmed, poller, late, stored, told, failed, restarts>>

\* Where the loop is: "idle" between updates, "calling" the API, "telling" the owner.
Poller == [at : {"down", "idle", "calling", "telling"}, offset : 0..(MaxUpdates + 1),
           batch : SUBSET Updates, on : 0..MaxUpdates,
           reply : AllRoutes \cup {"answer", "none"}]

Fresh == [at |-> "idle", offset |-> 0, batch |-> {}, on |-> 0, reply |-> "none"]

TelegramInit ==
    /\ feed = <<>>
    /\ confirmed = 0
    /\ poller = Fresh
    /\ late = [u \in Updates |-> 0]
    /\ stored = [u \in Updates |-> 0]
    /\ told = {}
    /\ failed = {}
    /\ restarts = 0

Least(S) == CHOOSE u \in S : \A o \in S : u <= o

\* Faulty: the update counts as not handled when its call fails.
GiveUpAndKeep ==
    [poller EXCEPT !.at = "idle", !.batch = {}, !.on = 0, !.reply = "none",
                   !.offset = IF poller.on = 0 THEN @ ELSE poller.on]

\* An error leaves the loop over the batch; the next poll asks for the rest of it.
GiveUp == [poller EXCEPT !.at = "idle", !.batch = {}, !.on = 0, !.reply = "none"]

Send(kind) ==
    /\ Len(feed) < MaxUpdates
    /\ feed' = Append(feed, kind)
    /\ UNCHANGED <<confirmed, poller, late, stored, told, failed, restarts>>

\* getUpdates confirms every update below the offset and returns the others.
GetUpdates ==
    /\ poller.at = "idle"
    /\ poller.batch = {}
    /\ confirmed' = IF poller.offset > confirmed THEN poller.offset - 1 ELSE confirmed
    /\ UNCHANGED <<feed, late, stored, told, failed, restarts>>

Poll ==
    /\ GetUpdates
    /\ poller' = [poller EXCEPT !.batch = {u \in Updates : u > confirmed' /\ u <= Len(feed)}]

\* The answer is lost.
PollFails == GetUpdates /\ UNCHANGED poller

\* Faulty: the whole batch counts as handled when its first update is taken.
AfterBatch(u) == 1 + Cardinality({o \in Updates : o <= u \/ o \in poller.batch})

\* Faulty: the offset stays when the update is passed over.
AfterOwn(u) == IF feed[u] = "other" THEN poller.offset ELSE u + 1

\* Faulty: the offset is one too far.
AfterNext(u) == u + 2

\* The offset when update u is taken from the batch.
After(u) == u + 1

\* The next update of the batch.  A voice message is announced as captured before the
\* capture is sent.
Take ==
    /\ poller.at = "idle"
    /\ poller.batch # {}
    /\ LET u == Least(poller.batch)
           taken == [poller EXCEPT !.offset = After(u), !.batch = @ \ {u}]
       IN /\ poller' = IF feed[u] = "other" THEN taken
                       ELSE [taken EXCEPT !.at = "calling", !.on = u]
          /\ told' = IF feed[u] = "voice" THEN told \cup {<<u, "voice">>} ELSE told
    /\ UNCHANGED <<feed, confirmed, late, stored, failed, restarts>>

\* If the announcement fails, nothing is sent.
AnnounceFails ==
    /\ poller.at = "idle"
    /\ poller.batch # {}
    /\ LET u == Least(poller.batch)
       IN /\ feed[u] = "voice"
          /\ poller' = [poller EXCEPT !.offset = After(u), !.batch = {}]
          /\ failed' = failed \cup {u}
    /\ UNCHANGED <<feed, confirmed, late, stored, told, restarts>>

Calling(kinds) == poller.at = "calling" /\ feed[poller.on] \in kinds

\* The API stores the capture and says what it decided.
Capture(route) ==
    /\ Calling(Captured)
    /\ stored' = [stored EXCEPT ![poller.on] = @ + 1]
    /\ poller' = [poller EXCEPT !.at = "telling", !.reply = route]
    /\ UNCHANGED <<feed, confirmed, late, told, failed, restarts>>

Answer ==
    /\ Calling({"query"})
    /\ poller' = [poller EXCEPT !.at = "telling", !.reply = "answer"]
    /\ UNCHANGED <<feed, confirmed, late, stored, told, failed, restarts>>

\* The call is refused, or times out after 30 seconds; the API may not know.
Unanswered ==
    /\ poller.at = "calling"
    /\ failed' = failed \cup {poller.on}
    /\ poller' = GiveUp
    /\ \/ UNCHANGED late
       \/ feed[poller.on] \in Captured /\ late' = [late EXCEPT ![poller.on] = @ + 1]
    /\ UNCHANGED <<feed, confirmed, stored, told, restarts>>

\* The API finishes what nobody waits for, or fails in it.
CaptureLate(u) ==
    /\ late[u] > 0
    /\ late' = [late EXCEPT ![u] = @ - 1]
    /\ stored' = [stored EXCEPT ![u] = @ + 1]
    /\ UNCHANGED <<feed, confirmed, poller, told, failed, restarts>>

DropLate(u) ==
    /\ late[u] > 0
    /\ late' = [late EXCEPT ![u] = @ - 1]
    /\ UNCHANGED <<feed, confirmed, poller, stored, told, failed, restarts>>

\* map_capture_reply and the answers to commands.
Tell ==
    /\ poller.at = "telling"
    /\ told' = told \cup {<<poller.on, poller.reply>>}
    /\ poller' = [poller EXCEPT !.at = "idle", !.on = 0, !.reply = "none"]
    /\ UNCHANGED <<feed, confirmed, late, stored, failed, restarts>>

TellFails ==
    /\ poller.at = "telling"
    /\ poller' = GiveUp
    /\ UNCHANGED <<feed, confirmed, late, stored, told, failed, restarts>>

\* The process dies: a kill, or an exception the loop does not name.
Die ==
    /\ poller.at # "down"
    /\ restarts' = restarts + 1
    /\ poller' = [Fresh EXCEPT !.at = "down"]
    /\ late' = IF Calling(Captured) THEN [late EXCEPT ![poller.on] = @ + 1] ELSE late
    /\ UNCHANGED <<feed, confirmed, stored, told, failed>>

Start ==
    /\ poller.at = "down"
    /\ poller' = Fresh
    /\ UNCHANGED <<feed, confirmed, late, stored, told, failed, restarts>>

Work == Poll \/ Take \/ Answer \/ Tell \/ Start

TelegramStep ==
    \/ Work
    \/ \E kind \in Kinds : Send(kind)
    \/ \E u \in Updates : DropLate(u)

TelegramFault == PollFails \/ AnnounceFails \/ Unanswered \/ TellFails \/ Die

-----------------------------------------------------------------------------
(* Properties.                                                             *)

\* No offset runs ahead of what can have been sent, and replies are about updates.
TelegramTypeOK ==
    /\ feed \in Seq(Kinds) /\ Len(feed) <= MaxUpdates
    /\ confirmed \in 0..MaxUpdates
    /\ poller \in Poller
    /\ late \in [Updates -> Nat]
    /\ stored \in [Updates -> Nat]
    /\ told \subseteq Updates \X (AllRoutes \cup {"answer", "voice"})
    /\ failed \subseteq Updates
    /\ restarts \in Nat

\* A message Telegram has forgotten is in the database, or a call about it failed
\* while the process ran: the death of the process alone loses nothing.
ForgottenIsStored ==
    \A u \in DOMAIN feed : u <= confirmed /\ feed[u] \in Captured =>
        stored[u] > 0 \/ u \in failed

\* A message is stored again only after a restart, however its calls fail.
RepeatedOnlyByRestart == \A u \in Updates : stored[u] <= 1 + restarts

\* No update holds up the ones behind it for ever, not one whose call always fails.
QueueMoves == \A u \in Updates : u <= Len(feed) ~> confirmed >= u

=============================================================================

---------------------------- MODULE GatewaysProofs ----------------------------
(***************************************************************************)
(* Proofs about the two gateways, for any number of updates, reviews,      *)
(* inputs and faults.                                                      *)
(*                                                                         *)
(* Neither gateway reads the state of the other, so each has an inductive  *)
(* invariant of its own: where the Telegram process is in the updates and  *)
(* how often each can have been sent; which reviews the Discord process    *)
(* posted, and which calls of an input took effect.                        *)
(***************************************************************************)
EXTENDS Gateways, FiniteSetTheorems, SequenceTheorems, WellFoundedInduction, TLAPS

-----------------------------------------------------------------------------
(* The inductive invariant.                                                *)

\* Where the process is in the updates: the batch lies behind what Telegram has
\* forgotten and behind the offset, and skips only what has been taken.
PollerOK ==
    /\ confirmed <= Len(feed)
    /\ poller.offset <= Len(feed) + 1
    /\ poller.at = "down" => poller.offset = 0
    /\ poller.at \in {"calling", "telling"} => poller.on \in DOMAIN feed
    /\ poller.at = "calling" => poller.on > confirmed
    /\ poller.at = "telling" => poller.reply # "none"
    /\ \A b \in poller.batch :
         /\ b \in DOMAIN feed /\ confirmed < b /\ poller.offset <= b
         /\ \A u \in DOMAIN feed \ poller.batch :
              confirmed < u /\ u < b => u < poller.offset

\* What the process has taken is stored, or failed, or is being sent.
Handled ==
    \A u \in DOMAIN feed :
        /\ feed[u] \in Captured
        /\ u <= confirmed \/ u < poller.offset
        => \/ stored[u] > 0
           \/ u \in failed
           \/ poller.at = "calling" /\ poller.on = u

Sending(u) == IF poller.at = "calling" /\ poller.on = u THEN 1 ELSE 0
ToCome(u)  == IF poller.offset <= u THEN 1 ELSE 0

\* Each life of the process sends an update once: what is stored, still served, sent
\* and yet to be taken adds up.
SentOnce ==
    \A u \in Updates : stored[u] + late[u] + Sending(u) + ToCome(u) <= 1 + restarts

TelegramInv == TelegramTypeOK /\ PollerOK /\ Handled /\ SentOnce

\* A process that never died has posted each review once, or got no answer.
CardsOnce ==
    /\ bot.page # {} => bot.started
    /\ bot.page \cap bot.posted = {}
    /\ crashes = 0 => \A r \in Reviews \ unsure :
         /\ ~bot.started => cards[r] = 0
         /\ cards[r] <= 1
         /\ r \notin bot.posted => cards[r] = 0

\* The calls of an input that took effect are the ones before the next, unless one was
\* left open; an input ends well with all of them, or with an agent refused.
InputOK(i) ==
    /\ i \in Input
    /\ i.at # "unsent" => i.act # "none"
    /\ i.at \in {"unsent", "sent", "form", "filled", "lost"} =>
         i.late = 0 /\ i.done = {} /\ i.next = 1
    /\ i.at = "working" =>
         i.late = 0 /\ i.next \in 1..Len(Calls(i)) /\ i.done = 1..(i.next - 1)
    /\ i.at \in {"done", "told ok"} =>
         i.late = 0 /\ (i.done = 1..Len(Calls(i)) \/ (i.act = "agent" /\ i.refused))
    /\ i.at \in {"refused", "told refused"} =>
         i.late = 0 /\ i.next \in 1..Len(Calls(i)) /\ i.done = 1..(i.next - 1)
    /\ i.at \in {"failed", "told failed"} /\ ~i.doubt =>
         i.late = 0 /\ i.next \in 1..Len(Calls(i)) /\ i.done = 1..(i.next - 1)

InputsOK == \A k \in Inputs : InputOK(inputs[k])

DiscordInv == DiscordTypeOK /\ CardsOnce /\ InputsOK

GatewaysInv == TelegramInv /\ DiscordInv

-----------------------------------------------------------------------------
(* The first of a batch, and the newest of a page.                         *)

\* Every nonempty set of naturals has a least element.
LEMMA LeastOf ==
    ASSUME NEW S \in SUBSET Nat, S # {}
    PROVE  \E n \in S : \A m \in S : n <= m
<1> DEFINE Below == {0..n : n \in S}
<1>1. Below \subseteq FiniteSubsetsOf(Nat)
  <2>1. \A n \in Nat : 0..n \in SUBSET Nat /\ IsFiniteSet(0..n)
    BY FS_Interval
  <2>2. QED
    BY <2>1 DEF FiniteSubsetsOf
<1>2. Below # {}
  OBVIOUS
<1> HIDE DEF Below
<1>3. PICK x \in Below : \A y \in Below : ~(<<y, x>> \in StrictSubsetOrdering(Nat))
  BY <1>1, <1>2, FS_StrictSubsetOrderingWellFounded, WFMin
<1>4. PICK n \in S : x = 0..n
  BY <1>3 DEF Below
<1>5. ASSUME NEW m \in S PROVE n <= m
  <2>1. SUFFICES ASSUME m < n PROVE FALSE
    OBVIOUS
  <2>2. 0..m \in Below
    BY DEF Below
  <2>3. 0..m \subseteq 0..n /\ n \in 0..n /\ n \notin 0..m
    BY <2>1
  <2>4. <<0..m, x>> \in StrictSubsetOrdering(Nat)
    BY <1>4, <2>3 DEF StrictSubsetOrdering
  <2>5. QED
    BY <1>3, <2>2, <2>4
<1>6. QED
  BY <1>5

LEMMA LeastIsFirst ==
    ASSUME NEW S \in SUBSET Updates, S # {}
    PROVE  Least(S) \in S /\ \A o \in S : Least(S) <= o
<1>1. S \in SUBSET Nat
  BY TelegramAssumption DEF Updates
<1>2. \E u \in S : \A o \in S : u <= o
  BY <1>1, LeastOf
<1>3. QED
  BY <1>2 DEF Least

LEMMA GreatestIsIn ==
    ASSUME NEW S \in SUBSET Reviews, S # {}
    PROVE  Greatest(S) \in S
<1> DEFINE T == {MaxReviews - r : r \in S}
<1>1. T \in SUBSET Nat /\ T # {}
  <2>1. \A r \in S : MaxReviews - r \in Nat
    BY DiscordAssumption DEF Reviews
  <2>2. QED
    BY <2>1
<1>2. PICK n \in T : \A m \in T : n <= m
  BY <1>1, LeastOf
<1>3. PICK r \in S : n = MaxReviews - r
  BY <1>2
<1>4. \A o \in S : o <= r
  <2>1. ASSUME NEW o \in S PROVE o <= r
    <3>1. MaxReviews - r <= MaxReviews - o
      BY <1>2, <1>3
    <3>2. QED
      BY <3>1, DiscordAssumption DEF Reviews
  <2>2. QED
    BY <2>1
<1>5. QED
  BY <1>4 DEF Greatest

\* Every input makes one call or two.
LEMMA CallsAre ==
    ASSUME NEW input, input.act \in DOMAIN CallsOf \cup AllButtons
    PROVE  Len(Calls(input)) \in 1..2
<1>1. \A call1, call2 : Len(<<call1>>) = 1 /\ Len(<<call1, call2>>) = 2
  OBVIOUS
<1>2. ASSUME input.act \in AllButtons PROVE \E call : Calls(input) = <<call>>
  BY <1>2 DEF Calls
<1>3. ASSUME NEW act \in DOMAIN CallsOf
      PROVE  \E call1, call2 : CallsOf[act] = <<call1>> \/ CallsOf[act] = <<call1, call2>>
  <2>1. act \in {"new", "thread", "agent", "iterations", "cancel", "capture", "ask", "model",
                "autonomy", "sync", "status", "chat", "proposal", "edit"}
    BY DEF CallsOf
  <2>2. /\ CallsOf["new"] = <<"create session">>
        /\ CallsOf["thread"] = <<"create session">>
        /\ CallsOf["capture"] = <<"capture">>
        /\ CallsOf["ask"] = <<"ask">>
        /\ CallsOf["model"] = <<"set model">>
        /\ CallsOf["autonomy"] = <<"set autonomy">>
        /\ CallsOf["chat"] = <<"chat">>
        /\ CallsOf["proposal"] = <<"decide proposal">>
        /\ CallsOf["edit"] = <<"revise proposal">>
    BY DEF CallsOf
  <2>3. /\ CallsOf["agent"] = <<"resolve session", "set agent">>
        /\ CallsOf["iterations"] = <<"resolve session", "set iterations">>
        /\ CallsOf["cancel"] = <<"find session", "cancel session">>
        /\ CallsOf["sync"] = <<"sync agents", "sync tools">>
        /\ CallsOf["status"] = <<"readiness", "providers">>
    BY DEF CallsOf
  <2>4. act \in {"agent", "iterations", "cancel", "sync", "status"} =>
          \E call1, call2 : CallsOf[act] = <<call1, call2>>
    BY <2>3
  <2>5. act \in {"new", "thread", "capture", "ask", "model", "autonomy", "chat", "proposal",
                   "edit"} =>
          \E call1 : CallsOf[act] = <<call1>>
    BY <2>2
  <2>6. QED
    BY <2>1, <2>4, <2>5
<1>4. ASSUME input.act \notin AllButtons PROVE Calls(input) = CallsOf[input.act]
  BY <1>4 DEF Calls
<1>5. \E call1, call2 : Calls(input) = <<call1>> \/ Calls(input) = <<call1, call2>>
  BY <1>2, <1>3, <1>4
<1>6. QED
  BY <1>1, <1>5

-----------------------------------------------------------------------------
(* The Telegram gateway, one lemma per action.                             *)

LEMMA TelegramStarts == TelegramInit => TelegramInv
<1>1. SUFFICES ASSUME TelegramInit PROVE TelegramInv
  OBVIOUS
<1>2. TelegramTypeOK
  BY <1>1, TelegramAssumption DEF TelegramInit, TelegramTypeOK, Poller, Fresh, Updates, AllRoutes
<1>3. PollerOK /\ Handled /\ SentOnce
  BY <1>1, TelegramAssumption DEF TelegramInit, PollerOK, Handled, SentOnce, Sending, ToCome,
     Fresh, Updates
<1>4. QED
  BY <1>2, <1>3 DEF TelegramInv

\* The shapes the proofs below work with.
LEMMA TelegramShapes ==
    ASSUME TelegramInv
    PROVE  /\ DOMAIN feed = 1..Len(feed) /\ Len(feed) \in Nat
           /\ DOMAIN feed \subseteq Updates
           /\ confirmed \in Nat /\ restarts \in Nat
           /\ poller.at \in {"down", "idle", "calling", "telling"}
           /\ poller.offset \in Nat /\ poller.on \in Nat
           /\ poller.batch \subseteq DOMAIN feed
           /\ \A u \in Updates : u \in Nat /\ stored[u] \in Nat /\ late[u] \in Nat
<1>1. feed \in Seq(Kinds) /\ Len(feed) <= MaxUpdates
  BY DEF TelegramInv, TelegramTypeOK
<1>2. DOMAIN feed = 1..Len(feed) /\ Len(feed) \in Nat
  BY <1>1
<1>3. QED
  BY <1>1, <1>2, TelegramAssumption DEF TelegramInv, TelegramTypeOK, PollerOK, Poller, Updates

LEMMA AddsUp ==
    ASSUME TelegramInv, TelegramTypeOK',
           \A u \in Updates :
              stored'[u] + late'[u] + Sending(u)' + ToCome(u)' + restarts
                <= stored[u] + late[u] + Sending(u) + ToCome(u) + restarts'
    PROVE  SentOnce'
<1>1. ASSUME NEW u \in Updates
      PROVE  stored'[u] + late'[u] + Sending(u)' + ToCome(u)' <= 1 + restarts'
  <2>1. /\ stored[u] \in Nat /\ late[u] \in Nat /\ restarts \in Nat
        /\ stored'[u] \in Nat /\ late'[u] \in Nat /\ restarts' \in Nat
    BY DEF TelegramInv, TelegramTypeOK
  <2>2. Sending(u) \in Nat /\ ToCome(u) \in Nat /\ Sending(u)' \in Nat /\ ToCome(u)' \in Nat
    BY DEF Sending, ToCome
  <2>3. stored[u] + late[u] + Sending(u) + ToCome(u) <= 1 + restarts
    BY DEF TelegramInv, SentOnce
  <2>4. stored'[u] + late'[u] + Sending(u)' + ToCome(u)' + restarts
          <= stored[u] + late[u] + Sending(u) + ToCome(u) + restarts'
    OBVIOUS
  <2>5. QED
    BY <2>1, <2>2, <2>3, <2>4
<1>2. QED
  BY <1>1 DEF SentOnce

LEMMA TelegramQuiet ==
    ASSUME TelegramInv, UNCHANGED telegram
    PROVE  TelegramInv'
BY DEF TelegramInv, TelegramTypeOK, PollerOK, Handled, SentOnce, Sending, ToCome, telegram

LEMMA SendKeeps ==
    ASSUME TelegramInv, NEW kind \in Kinds, Send(kind)
    PROVE  TelegramInv'
<1> USE TelegramShapes DEF TelegramInv, Send
<1>1. /\ Len(feed') = Len(feed) + 1
      /\ DOMAIN feed' = 1..(Len(feed) + 1)
      /\ \A u \in DOMAIN feed : feed'[u] = feed[u]
      /\ feed' \in Seq(Kinds)
  BY DEF TelegramTypeOK
<1>2. TelegramTypeOK'
  BY <1>1, TelegramAssumption DEF TelegramTypeOK
<1>3. PollerOK'
  BY <1>1 DEF PollerOK
<1>4. Handled'
  <2>1. ASSUME NEW u \in DOMAIN feed', u <= confirmed \/ u < poller.offset
        PROVE  u \in DOMAIN feed
    BY <1>1, <2>1 DEF PollerOK
  <2>2. QED
    BY <1>1, <2>1 DEF Handled
<1>5. SentOnce'
  BY DEF SentOnce, Sending, ToCome
<1>6. QED
  BY <1>2, <1>3, <1>4, <1>5

\* A request for updates forgets those below the offset, all of which are handled.
LEMMA GetUpdatesKeeps ==
    ASSUME TelegramInv, GetUpdates, poller' \in Poller,
           poller' = [poller EXCEPT !.batch = poller'.batch],
           poller'.batch \in {{}, {u \in Updates : u > confirmed' /\ u <= Len(feed)}}
    PROVE  TelegramInv'
<1> USE TelegramShapes DEF TelegramInv, GetUpdates
<1>1. /\ poller.at = "idle" /\ poller'.at = "idle"
      /\ poller'.offset = poller.offset /\ poller'.on = poller.on
  BY DEF TelegramTypeOK, Poller
<1>2. /\ confirmed' \in 0..MaxUpdates
      /\ confirmed' <= Len(feed)
      /\ poller.offset <= confirmed' + 1
      /\ \A u \in Nat : u <= confirmed' <=> u <= confirmed \/ u < poller.offset
  BY TelegramAssumption DEF TelegramTypeOK, PollerOK
<1>3. TelegramTypeOK'
  BY <1>2 DEF TelegramTypeOK
<1>4. \A b \in poller'.batch : b \in DOMAIN feed /\ confirmed' < b
  BY DEF Updates
<1>5. \A u \in DOMAIN feed \ poller'.batch : confirmed' < u => poller'.batch = {}
  BY DEF Updates
<1>6. PollerOK'
  BY <1>1, <1>2, <1>4, <1>5 DEF PollerOK
<1>7. Handled'
  BY <1>1, <1>2 DEF Handled
<1>8. SentOnce'
  BY <1>1 DEF SentOnce, Sending, ToCome
<1>9. QED
  BY <1>3, <1>6, <1>7, <1>8

LEMMA PollKeeps ==
    ASSUME TelegramInv, Poll \/ PollFails
    PROVE  TelegramInv'
<1> USE DEF TelegramInv
<1>1. CASE Poll
  <2>1. /\ poller' = [poller EXCEPT !.batch = {u \in Updates : u > confirmed' /\ u <= Len(feed)}]
        /\ GetUpdates
    BY <1>1 DEF Poll
  <2>2. poller'.batch = {u \in Updates : u > confirmed' /\ u <= Len(feed)}
    BY <2>1 DEF TelegramTypeOK, Poller
  <2>3. poller' \in Poller
    BY <2>1 DEF TelegramTypeOK, Poller
  <2>4. QED
    BY <2>1, <2>2, <2>3, GetUpdatesKeeps
<1>2. CASE PollFails
  <2>1. poller' = poller /\ GetUpdates /\ poller.batch = {}
    BY <1>2 DEF PollFails, GetUpdates
  <2>2. poller' = [poller EXCEPT !.batch = poller'.batch]
    BY <2>1 DEF TelegramTypeOK, Poller
  <2>3. QED
    BY <2>1, <2>2, GetUpdatesKeeps DEF TelegramTypeOK
<1>3. QED
  BY <1>1, <1>2

\* Taking the first of the batch skips nothing, and nothing is taken again.
LEMMA TakenIs ==
    ASSUME TelegramInv, poller.batch # {}, NEW u, u = Least(poller.batch)
    PROVE  /\ u \in poller.batch /\ u \in DOMAIN feed /\ u \in Updates
           /\ confirmed < u /\ poller.offset <= u
           /\ \A b \in poller.batch \ {u} : u + 1 <= b
           /\ \A v \in DOMAIN feed :
                /\ v <= confirmed \/ v < u + 1 <=> v < u + 1
                /\ v < u + 1 => v = u \/ v <= confirmed \/ v < poller.offset
           /\ \A b \in poller.batch \ {u}, v \in DOMAIN feed \ (poller.batch \ {u}) :
                confirmed < v /\ v < b => v < u + 1
<1> USE TelegramShapes
<1>1. poller.batch \in SUBSET Updates
  OBVIOUS
<1>2. u \in poller.batch /\ \A b \in poller.batch : u <= b
  BY <1>1, LeastIsFirst
<1>3. /\ u \in DOMAIN feed /\ confirmed < u /\ poller.offset <= u
      /\ \A v \in DOMAIN feed \ poller.batch : confirmed < v /\ v < u => v < poller.offset
  BY <1>2 DEF TelegramInv, PollerOK
<1>4. u \in Nat /\ u \in Updates
  BY <1>3
<1>5. \A b \in poller.batch \ {u} : u + 1 <= b
  BY <1>2, <1>4
<1>6. \A v \in DOMAIN feed : v < u + 1 => v = u \/ v <= confirmed \/ v < poller.offset
  BY <1>2, <1>3, <1>4
<1>7. ASSUME NEW b \in poller.batch \ {u}, NEW v \in DOMAIN feed \ (poller.batch \ {u}),
             confirmed < v, v < b
      PROVE  v < u + 1
  <2>1. CASE v = u
    BY <1>4, <2>1
  <2>2. CASE v # u
    <3>1. v \in DOMAIN feed \ poller.batch
      BY <2>2
    <3>2. v < poller.offset
      BY <1>7, <3>1 DEF TelegramInv, PollerOK
    <3>3. QED
      BY <1>3, <1>4, <3>2
  <2>3. QED
    BY <2>1, <2>2
<1>8. QED
  BY <1>2, <1>3, <1>4, <1>5, <1>6, <1>7

\* What taking an update leaves is sound if the update is passed over, failed or sent.
LEMMA TakingKeeps ==
    ASSUME TelegramInv, poller.at = "idle", poller.batch # {},
           NEW u, u = Least(poller.batch),
           poller' \in Poller, told' \subseteq Updates \X (AllRoutes \cup {"answer", "voice"}),
           UNCHANGED <<feed, confirmed, late, stored, restarts>>,
           failed' \subseteq Updates, failed \subseteq failed',
           poller'.offset = u + 1,
           poller'.batch \in {{}, poller.batch \ {u}},
           \/ poller'.at = "idle" /\ (feed[u] \notin Captured \/ u \in failed')
           \/ poller'.at = "calling" /\ poller'.on = u
    PROVE  TelegramInv'
<1> USE TelegramShapes DEF TelegramInv
<1>1. TelegramTypeOK'
  BY DEF TelegramTypeOK
<1>2. PollerOK'
  BY TakenIs DEF PollerOK
<1>3. Handled'
  <2>1. ASSUME NEW v \in DOMAIN feed, feed[v] \in Captured, v <= confirmed \/ v < u + 1
        PROVE  stored[v] > 0 \/ v \in failed' \/ (poller'.at = "calling" /\ poller'.on = v)
    <3>1. v = u \/ v <= confirmed \/ v < poller.offset
      BY <2>1, TakenIs
    <3>2. CASE v = u
      BY <2>1, <3>2
    <3>3. CASE v <= confirmed \/ v < poller.offset
      BY <2>1, <3>3 DEF Handled
    <3>4. QED
      BY <3>1, <3>2, <3>3
  <2>2. QED
    BY <2>1 DEF Handled
<1>4. SentOnce'
  <2>1. \A v \in Updates : Sending(v)' + ToCome(v)' <= Sending(v) + ToCome(v)
    BY TakenIs DEF Sending, ToCome
  <2>2. ASSUME NEW v \in Updates
        PROVE  stored'[v] + late'[v] + Sending(v)' + ToCome(v)' + restarts
                 <= stored[v] + late[v] + Sending(v) + ToCome(v) + restarts'
    <3>1. /\ Sending(v) \in Nat /\ ToCome(v) \in Nat
          /\ Sending(v)' \in Nat /\ ToCome(v)' \in Nat
      BY DEF Sending, ToCome
    <3>2. /\ stored[v] \in Nat /\ late[v] \in Nat /\ restarts \in Nat
          /\ stored' = stored /\ late' = late /\ restarts' = restarts
      OBVIOUS
    <3> HIDE TelegramShapes DEF TelegramInv
    <3>3. QED
      BY <2>1, <3>1, <3>2
  <2>3. QED
    BY <1>1, <2>2, AddsUp
<1>5. QED
  BY <1>1, <1>2, <1>3, <1>4

LEMMA TakeKeeps ==
    ASSUME TelegramInv, Take
    PROVE  TelegramInv'
<1> USE TelegramShapes
<1>1. PICK u : u = Least(poller.batch)
  OBVIOUS
<1>2. u \in poller.batch /\ u \in DOMAIN feed /\ u \in Updates
  BY <1>1, TakenIs DEF Take
<1>3. PICK taken : taken = [poller EXCEPT !.offset = u + 1, !.batch = @ \ {u}]
  OBVIOUS
<1>4. /\ poller' = IF feed[u] = "other" THEN taken ELSE [taken EXCEPT !.at = "calling", !.on = u]
      /\ told' = IF feed[u] = "voice" THEN told \cup {<<u, "voice">>} ELSE told
      /\ poller.at = "idle" /\ poller.batch # {}
      /\ UNCHANGED <<feed, confirmed, late, stored, failed, restarts>>
  BY <1>1, <1>3 DEF Take, After
<1>5. poller \in Poller
  BY DEF TelegramInv, TelegramTypeOK
<1>6. u + 1 \in 0..(MaxUpdates + 1) /\ u \in 0..MaxUpdates
  BY <1>2, TelegramAssumption DEF Updates
<1>7. /\ taken \in Poller
      /\ taken.offset = u + 1 /\ taken.batch = poller.batch \ {u} /\ taken.at = "idle"
  BY <1>3, <1>4, <1>5, <1>6 DEF Poller
<1>8. /\ poller' \in Poller
      /\ poller'.offset = u + 1 /\ poller'.batch = poller.batch \ {u}
      /\ IF feed[u] = "other" THEN poller'.at = "idle"
                              ELSE poller'.at = "calling" /\ poller'.on = u
  BY <1>4, <1>6, <1>7 DEF Poller
<1>9. "other" \notin Captured
  BY DEF Captured
<1>10. told' \subseteq Updates \X (AllRoutes \cup {"answer", "voice"})
  BY <1>2, <1>4 DEF TelegramInv, TelegramTypeOK
<1>11. failed' \subseteq Updates /\ failed \subseteq failed'
  BY <1>4 DEF TelegramInv, TelegramTypeOK
<1>12. QED
  BY <1>1, <1>4, <1>8, <1>9, <1>10, <1>11, TakingKeeps

LEMMA AnnounceFailsKeeps ==
    ASSUME TelegramInv, AnnounceFails
    PROVE  TelegramInv'
<1> USE TelegramShapes
<1>1. PICK u : u = Least(poller.batch)
  OBVIOUS
<1>2. u \in poller.batch /\ u \in DOMAIN feed /\ u \in Updates
  BY <1>1, TakenIs DEF AnnounceFails
<1>3. /\ poller' = [poller EXCEPT !.offset = u + 1, !.batch = {}]
      /\ failed' = failed \cup {u}
      /\ poller.at = "idle" /\ poller.batch # {}
      /\ UNCHANGED <<feed, confirmed, late, stored, told, restarts>>
  BY <1>1 DEF AnnounceFails, After
<1>4. u + 1 \in 0..(MaxUpdates + 1)
  BY <1>2, TelegramAssumption DEF Updates
<1>5. /\ poller' \in Poller /\ poller'.offset = u + 1 /\ poller'.batch = {}
      /\ poller'.at = "idle"
  BY <1>3, <1>4 DEF TelegramInv, TelegramTypeOK, Poller
<1>6. /\ told' \subseteq Updates \X (AllRoutes \cup {"answer", "voice"})
      /\ failed' \subseteq Updates /\ failed \subseteq failed' /\ u \in failed'
  BY <1>2, <1>3 DEF TelegramInv, TelegramTypeOK
<1>7. QED
  BY <1>1, <1>3, <1>5, <1>6, TakingKeeps

\* A step that only moves the process within an update or ends the update.
LEMMA WithinUpdate ==
    ASSUME TelegramInv, TelegramTypeOK', UNCHANGED <<feed, confirmed>>,
           poller'.offset = poller.offset, poller'.batch \in {{}, poller.batch},
           poller'.at \in {"idle", "telling"},
           poller'.at = "telling" => poller'.on \in DOMAIN feed /\ poller'.reply # "none",
           failed \subseteq failed', restarts' = restarts,
           \A u \in Updates : stored'[u] >= stored[u],
           poller.at = "calling" /\ feed[poller.on] \in Captured =>
              stored'[poller.on] > 0 \/ poller.on \in failed',
           \A u \in Updates : stored'[u] + late'[u] <= stored[u] + late[u] + Sending(u)
    PROVE  TelegramInv'
<1> USE TelegramShapes DEF TelegramInv
<1>1. \A u \in Updates : stored'[u] \in Nat /\ late'[u] \in Nat
  BY DEF TelegramTypeOK
<1>2. PollerOK'
  BY DEF PollerOK
<1>3. Handled'
  <2>1. ASSUME NEW u \in DOMAIN feed, feed[u] \in Captured, u <= confirmed \/ u < poller.offset
        PROVE  stored'[u] > 0 \/ u \in failed'
    <3>1. stored[u] > 0 \/ u \in failed \/ (poller.at = "calling" /\ poller.on = u)
      BY <2>1 DEF Handled
    <3>2. stored'[u] >= stored[u] /\ u \in Updates
      OBVIOUS
    <3>3. QED
      BY <1>1, <2>1, <3>1, <3>2
  <2>2. QED
    BY <2>1 DEF Handled
<1>4. SentOnce'
  <2>1. ASSUME NEW u \in Updates
        PROVE  stored'[u] + late'[u] + Sending(u)' + ToCome(u)' + restarts
                 <= stored[u] + late[u] + Sending(u) + ToCome(u) + restarts'
    <3>1. /\ Sending(u) \in Nat /\ ToCome(u) \in Nat
          /\ Sending(u)' = 0 /\ ToCome(u)' = ToCome(u)
      BY DEF Sending, ToCome
    <3>2. /\ stored[u] \in Nat /\ late[u] \in Nat /\ restarts \in Nat
          /\ restarts' = restarts
          /\ stored'[u] + late'[u] <= stored[u] + late[u] + Sending(u)
      OBVIOUS
    <3> HIDE TelegramShapes DEF TelegramInv
    <3>3. QED
      BY <1>1, <3>1, <3>2
  <2>2. QED
    BY <2>1, AddsUp
<1>5. QED
  BY <1>2, <1>3, <1>4

LEMMA CaptureKeeps ==
    ASSUME TelegramInv, NEW route \in AllRoutes, Capture(route)
    PROVE  TelegramInv'
<1> USE TelegramShapes DEF Capture, Calling
<1>1. poller \in Poller /\ stored \in [Updates -> Nat] /\ poller.on \in Updates
      /\ poller.on \in DOMAIN feed
  BY DEF TelegramInv, TelegramTypeOK, PollerOK
<1>2. /\ poller' \in Poller /\ poller'.offset = poller.offset
      /\ poller'.batch = poller.batch /\ poller'.at = "telling" /\ poller'.on = poller.on
      /\ poller'.reply = route
  BY <1>1 DEF Poller
<1>3. /\ stored' \in [Updates -> Nat]
      /\ \A u \in Updates : stored'[u] = stored[u] + Sending(u)
  BY <1>1 DEF Sending
<1>4. TelegramTypeOK'
  BY <1>2, <1>3 DEF TelegramInv, TelegramTypeOK
<1>5. route # "none"
  BY DEF AllRoutes
<1>6. stored'[poller.on] > 0
  BY <1>1, <1>3 DEF Sending
<1>7. \A u \in Updates : /\ stored'[u] >= stored[u]
                         /\ stored'[u] + late'[u] <= stored[u] + late[u] + Sending(u)
  BY <1>3 DEF Sending
<1>8. QED
  BY <1>1, <1>2, <1>4, <1>5, <1>6, <1>7, WithinUpdate

LEMMA AnswerKeeps ==
    ASSUME TelegramInv, Answer
    PROVE  TelegramInv'
<1> USE TelegramShapes DEF Answer, Calling
<1>1. poller \in Poller /\ poller.on \in DOMAIN feed
  BY DEF TelegramInv, TelegramTypeOK, PollerOK
<1>2. /\ poller' \in Poller /\ poller'.offset = poller.offset
      /\ poller'.batch = poller.batch /\ poller'.at = "telling" /\ poller'.on = poller.on
      /\ poller'.reply = "answer"
  BY <1>1 DEF Poller
<1>3. TelegramTypeOK'
  BY <1>2 DEF TelegramInv, TelegramTypeOK
<1>4. feed[poller.on] \notin Captured
  BY DEF Captured
<1>5. \A u \in Updates : Sending(u) \in Nat
  BY DEF Sending
<1>6. QED
  BY <1>1, <1>2, <1>3, <1>4, <1>5, WithinUpdate

LEMMA GivenUp ==
    ASSUME poller \in Poller
    PROVE  /\ GiveUp \in Poller /\ GiveUp.offset = poller.offset
           /\ GiveUp.batch = {} /\ GiveUp.at = "idle"
           /\ LET after == [poller EXCEPT !.at = "idle", !.on = 0, !.reply = "none"]
              IN  /\ after \in Poller /\ after.offset = poller.offset
                  /\ after.batch = poller.batch /\ after.at = "idle"
<1>1. 0 \in 0..MaxUpdates /\ "none" \in AllRoutes \cup {"answer", "none"}
  BY TelegramAssumption
<1>2. {} \in SUBSET Updates
  OBVIOUS
<1>3. QED
  BY <1>1, <1>2 DEF Poller, GiveUp

LEMMA UnansweredKeeps ==
    ASSUME TelegramInv, Unanswered
    PROVE  TelegramInv'
<1> USE TelegramShapes DEF Unanswered
<1>1. poller \in Poller /\ late \in [Updates -> Nat] /\ poller.on \in Updates
  BY DEF TelegramInv, TelegramTypeOK, PollerOK
<1>2. /\ poller' \in Poller /\ poller'.offset = poller.offset
      /\ poller'.batch = {} /\ poller'.at = "idle"
  BY <1>1, GivenUp
<1>3. /\ late' \in [Updates -> Nat]
      /\ \A u \in Updates : late'[u] <= late[u] + Sending(u)
  BY <1>1 DEF Sending
<1>4. TelegramTypeOK'
  BY <1>1, <1>2, <1>3 DEF TelegramInv, TelegramTypeOK
<1>5. ASSUME NEW u \in Updates
      PROVE  /\ stored'[u] >= stored[u]
             /\ stored'[u] + late'[u] <= stored[u] + late[u] + Sending(u)
  <2>1. stored'[u] = stored[u] /\ stored[u] \in Nat /\ late[u] \in Nat /\ late'[u] \in Nat
    BY <1>3
  <2>2. Sending(u) \in Nat /\ late'[u] <= late[u] + Sending(u)
    BY <1>3 DEF Sending
  <2> HIDE TelegramShapes DEF Unanswered
  <2>3. QED
    BY <2>1, <2>2
<1>6. QED
  BY <1>1, <1>2, <1>4, <1>5, WithinUpdate

LEMMA ToldKeeps ==
    ASSUME TelegramInv, Tell \/ TellFails
    PROVE  TelegramInv'
<1> USE TelegramShapes DEF Tell, TellFails
<1>1. poller \in Poller /\ poller.on \in Updates /\ poller.reply \in AllRoutes \cup {"answer"}
  BY DEF TelegramInv, TelegramTypeOK, PollerOK, Poller
<1>2. /\ poller' \in Poller /\ poller'.offset = poller.offset
      /\ poller'.batch \in {{}, poller.batch} /\ poller'.at = "idle"
  BY <1>1, GivenUp
<1>3. TelegramTypeOK'
  BY <1>1, <1>2 DEF TelegramInv, TelegramTypeOK
<1>4. \A u \in Updates : Sending(u) = 0
  BY DEF Sending
<1>5. QED
  BY <1>2, <1>3, <1>4, WithinUpdate

\* What the API does with a call nobody waits for.
LEMMA LateKeeps ==
    ASSUME TelegramInv, NEW u \in Updates, CaptureLate(u) \/ DropLate(u)
    PROVE  TelegramInv'
<1> USE TelegramShapes DEF CaptureLate, DropLate
<1>1. stored \in [Updates -> Nat] /\ late \in [Updates -> Nat]
  BY DEF TelegramInv, TelegramTypeOK
<1>2. /\ stored' \in [Updates -> Nat] /\ late' \in [Updates -> Nat]
      /\ \A v \in Updates : /\ stored'[v] >= stored[v]
                            /\ stored'[v] + late'[v] <= stored[v] + late[v]
  <2>1. stored[u] \in Nat /\ late[u] \in Nat /\ late[u] - 1 \in Nat
    BY <1>1
  <2>2. CASE CaptureLate(u)
    BY <1>1, <2>1, <2>2
  <2>3. CASE DropLate(u)
    BY <1>1, <2>1, <2>3
  <2>4. QED
    BY <2>2, <2>3
<1>3. TelegramTypeOK'
  BY <1>2 DEF TelegramInv, TelegramTypeOK
<1>4. PollerOK'
  BY DEF TelegramInv, PollerOK
<1>5. Handled'
  <2>1. ASSUME NEW v \in DOMAIN feed, stored[v] > 0 PROVE stored'[v] > 0
    <3>1. v \in Updates /\ stored'[v] \in Nat /\ stored'[v] >= stored[v]
      BY <1>2
    <3>2. QED
      BY <2>1, <3>1
  <2>2. QED
    BY <2>1 DEF TelegramInv, Handled
<1>6. SentOnce'
  <2>1. ASSUME NEW v \in Updates
        PROVE  stored'[v] + late'[v] + Sending(v)' + ToCome(v)' + restarts
                 <= stored[v] + late[v] + Sending(v) + ToCome(v) + restarts'
    <3>1. /\ Sending(v)' = Sending(v) /\ ToCome(v)' = ToCome(v)
          /\ Sending(v) \in Nat /\ ToCome(v) \in Nat
      BY DEF Sending, ToCome
    <3>2. /\ stored'[v] \in Nat /\ late'[v] \in Nat
          /\ stored'[v] + late'[v] <= stored[v] + late[v]
      BY <1>2
    <3>3. /\ stored[v] \in Nat /\ late[v] \in Nat /\ restarts \in Nat
          /\ restarts' = restarts
      OBVIOUS
    <3> HIDE TelegramShapes DEF CaptureLate, DropLate
    <3>4. QED
      BY <3>1, <3>2, <3>3
  <2>2. QED
    BY <1>3, <2>1, AddsUp
<1>7. QED
  BY <1>3, <1>4, <1>5, <1>6 DEF TelegramInv

\* A death forgets the offset and allows each update to be sent once more.
LEMMA DieKeeps ==
    ASSUME TelegramInv, Die
    PROVE  TelegramInv'
<1>1. /\ late \in [Updates -> Nat] /\ stored \in [Updates -> Nat] /\ restarts \in Nat
      /\ feed \in Seq(Kinds) /\ confirmed \in 0..MaxUpdates
  BY DEF TelegramInv, TelegramTypeOK
<1>2. /\ poller' = [at |-> "down", offset |-> 0, batch |-> {}, on |-> 0, reply |-> "none"]
      /\ restarts' = restarts + 1
      /\ UNCHANGED <<feed, confirmed, stored, told, failed>>
  BY DEF Die, Fresh
<1>3. Calling(Captured) => poller.at = "calling" /\ poller.on \in Updates
  BY TelegramShapes DEF TelegramInv, PollerOK, Calling
<1>4. late' = IF Calling(Captured) THEN [late EXCEPT ![poller.on] = @ + 1] ELSE late
  BY DEF Die
<1>5. late' \in [Updates -> Nat]
  BY <1>1, <1>3, <1>4
<1>6. \A u \in Updates : late'[u] <= late[u] + Sending(u)
  BY <1>1, <1>3, <1>4 DEF Sending
<1>7. TelegramTypeOK'
  <2>1. poller' \in Poller
    BY <1>2, TelegramAssumption DEF Poller
  <2>2. QED
    BY <1>2, <1>5, <2>1 DEF TelegramInv, TelegramTypeOK
<1>8. PollerOK'
  BY <1>1, <1>2 DEF TelegramInv, PollerOK
<1>9. Handled'
  BY <1>1, <1>2, TelegramShapes DEF TelegramInv, Handled, PollerOK
<1>10. SentOnce'
  <2>1. ASSUME NEW u \in Updates
        PROVE  stored'[u] + late'[u] + Sending(u)' + ToCome(u)' + restarts
                 <= stored[u] + late[u] + Sending(u) + ToCome(u) + restarts'
    <3>1. /\ Sending(u) \in Nat /\ ToCome(u) \in Nat
          /\ Sending(u)' = 0 /\ ToCome(u)' \in 0..1
      BY <1>2 DEF Sending, ToCome
    <3>2. /\ late[u] \in Nat /\ late'[u] \in Nat /\ late'[u] <= late[u] + Sending(u)
          /\ stored'[u] = stored[u] /\ stored[u] \in Nat
      BY <1>1, <1>2, <1>5, <1>6
    <3>3. QED
      BY <1>1, <1>2, <3>1, <3>2
  <2>2. QED
    BY <1>7, <2>1, AddsUp
<1>11. QED
  BY <1>7, <1>8, <1>9, <1>10 DEF TelegramInv

LEMMA StartKeeps ==
    ASSUME TelegramInv, Start
    PROVE  TelegramInv'
<1> USE TelegramShapes DEF Start, Fresh
<1>1. poller' = [at |-> "idle", offset |-> 0, batch |-> {}, on |-> 0, reply |-> "none"]
  OBVIOUS
<1>2. TelegramTypeOK'
  BY <1>1, TelegramAssumption DEF TelegramInv, TelegramTypeOK, Poller
<1>3. PollerOK' /\ Handled'
  BY <1>1 DEF TelegramInv, PollerOK, Handled
<1>4. SentOnce'
  <2>1. poller.offset = 0
    BY DEF TelegramInv, PollerOK
  <2>2. \A u \in Updates : Sending(u)' = Sending(u) /\ ToCome(u)' = ToCome(u)
    BY <1>1, <2>1 DEF Sending, ToCome
  <2>3. QED
    BY <2>2 DEF TelegramInv, SentOnce
<1>5. QED
  BY <1>2, <1>3, <1>4 DEF TelegramInv

LEMMA TelegramKeeps ==
    ASSUME TelegramInv,
           \/ TelegramStep \/ TelegramFault
           \/ \E route \in Routes : Capture(route) \/ \E u \in Updates : CaptureLate(u)
    PROVE  TelegramInv'
<1>1. Routes \subseteq AllRoutes
  BY TelegramAssumption
<1>2. QED
  BY <1>1, SendKeeps, PollKeeps, TakeKeeps, AnnounceFailsKeeps, CaptureKeeps, AnswerKeeps,
     UnansweredKeeps, ToldKeeps, LateKeeps, DieKeeps, StartKeeps
     DEF TelegramStep, TelegramFault, Work

-----------------------------------------------------------------------------
(* The Discord gateway, one lemma per action.                              *)

LEMMA DiscordStarts == DiscordInit => DiscordInv
<1>1. SUFFICES ASSUME DiscordInit PROVE DiscordInv
  OBVIOUS
<1>2. NoInput \in Input
  BY DiscordAssumption DEF NoInput, Input, Stages
<1>3. DiscordTypeOK
  BY <1>1, <1>2, DiscordAssumption DEF DiscordInit, DiscordTypeOK, Bot, Down
<1>4. CardsOnce
  BY <1>1 DEF DiscordInit, CardsOnce, Down
<1>5. InputsOK
  BY <1>1, <1>2 DEF DiscordInit, InputsOK, InputOK, NoInput
<1>6. QED
  BY <1>3, <1>4, <1>5 DEF DiscordInv

LEMMA DiscordQuiet ==
    ASSUME DiscordInv, UNCHANGED discord
    PROVE  DiscordInv'
BY DEF DiscordInv, DiscordTypeOK, CardsOnce, InputsOK, discord

LEMMA CreateReviewKeeps ==
    ASSUME DiscordInv, NEW status \in Statuses, CreateReview(status)
    PROVE  DiscordInv'
<1>1. reviews \in Seq(Statuses) /\ MaxReviews \in Nat
  BY DiscordAssumption DEF DiscordInv, DiscordTypeOK
<1>2. reviews' \in Seq(Statuses) /\ Len(reviews') <= MaxReviews
  BY <1>1 DEF CreateReview
<1>3. InputsOK'
  BY DEF DiscordInv, InputsOK, CreateReview
<1>4. DiscordTypeOK'
  BY <1>2 DEF DiscordInv, DiscordTypeOK, CreateReview
<1>5. CardsOnce'
  BY DEF DiscordInv, CardsOnce, CreateReview
<1>6. QED
  BY <1>3, <1>4, <1>5 DEF DiscordInv

LEMMA BotIs ==
    ASSUME DiscordInv
    PROVE  /\ bot \in Bot /\ bot.posted \subseteq Reviews /\ bot.page \subseteq Reviews
           /\ cards \in [Reviews -> Nat] /\ unsure \subseteq Reviews /\ crashes \in Nat
           /\ \A n : Newest(n) \subseteq Reviews
<1>1. reviews \in Seq(Statuses) /\ Len(reviews) <= MaxReviews
  BY DEF DiscordInv, DiscordTypeOK
<1>2. DOMAIN reviews = 1..Len(reviews) /\ Len(reviews) \in Nat
  BY <1>1
<1>3. Pending \subseteq Reviews
  BY <1>1, <1>2, DiscordAssumption DEF Pending, Reviews
<1>4. QED
  BY <1>3 DEF Newest, DiscordInv, DiscordTypeOK, Bot

\* The steps of the thread that posts reviews, between its posts.
LEMMA PosterKeeps ==
    ASSUME DiscordInv, StartProcess \/ StartPoller \/ StartUninformed \/ PollReviews
    PROVE  DiscordInv'
<1>1. InputsOK' /\ UNCHANGED <<reviews, cards, unsure, inputs, crashes>>
  BY DEF StartProcess, StartPoller, StartUninformed, StartWith, PollReviews, DiscordInv, InputsOK
<1>2. ASSUME NEW seen \in SUBSET Reviews, StartWith(seen)
      PROVE  DiscordTypeOK' /\ CardsOnce'
  <2>1. bot' \in Bot /\ bot'.started /\ bot'.page = bot.page /\ bot'.posted = seen /\ ~bot.started
    BY <1>2, BotIs DEF StartWith, Bot
  <2>2. skipped' \subseteq Reviews
    BY <1>2 DEF StartWith, DiscordInv, DiscordTypeOK
  <2>3. QED
    BY <1>1, <2>1, <2>2 DEF DiscordInv, DiscordTypeOK, CardsOnce
<1>3. ASSUME StartPoller \/ StartUninformed PROVE DiscordTypeOK' /\ CardsOnce'
  BY <1>2, <1>3, BotIs DEF StartPoller, StartUninformed
<1>4. ASSUME StartProcess PROVE DiscordTypeOK' /\ CardsOnce'
  <2>1. bot' \in Bot /\ bot' = [bot EXCEPT !.up = TRUE] /\ skipped' = skipped
    BY <1>4, BotIs DEF StartProcess, Bot
  <2>2. bot'.started = bot.started /\ bot'.page = bot.page /\ bot'.posted = bot.posted
    BY <2>1, BotIs DEF Bot
  <2>3. QED
    BY <1>1, <2>1, <2>2 DEF DiscordInv, DiscordTypeOK, CardsOnce
<1>5. ASSUME PollReviews PROVE DiscordTypeOK' /\ CardsOnce'
  <2>1. /\ bot' \in Bot /\ bot'.started = bot.started /\ bot'.posted = bot.posted
        /\ bot'.page = ToPost /\ bot.started /\ skipped' = skipped
    BY <1>5, BotIs DEF PollReviews, Bot, ToPost
  <2>2. QED
    BY <1>1, <2>1 DEF DiscordInv, DiscordTypeOK, CardsOnce, ToPost
<1>6. QED
  BY <1>1, <1>3, <1>4, <1>5 DEF DiscordInv

LEMMA PostReviewKeeps ==
    ASSUME DiscordInv, PostReview
    PROVE  DiscordInv'
<1>1. PICK r : r = Greatest(bot.page)
  OBVIOUS
<1>2. r \in bot.page /\ r \in Reviews /\ r \notin bot.posted /\ bot.started
  BY <1>1, BotIs, GreatestIsIn DEF PostReview, DiscordInv, CardsOnce
<1>3. /\ cards' = [cards EXCEPT ![r] = @ + 1]
      /\ bot' = [bot EXCEPT !.posted = @ \cup {r}, !.page = @ \ {r}]
      /\ UNCHANGED <<reviews, unsure, skipped, inputs, crashes>>
  BY <1>1 DEF PostReview
<1>4. /\ bot' \in Bot /\ bot'.started = bot.started
      /\ bot'.posted = bot.posted \cup {r} /\ bot'.page = bot.page \ {r}
  BY <1>2, <1>3, BotIs DEF Bot
<1>5. /\ cards' \in [Reviews -> Nat]
      /\ \A o \in Reviews : cards'[o] = IF o = r THEN cards[o] + 1 ELSE cards[o]
  BY <1>2, <1>3, BotIs
<1>6. DiscordTypeOK'
  BY <1>3, <1>4, <1>5 DEF DiscordInv, DiscordTypeOK
<1>7. CardsOnce'
  BY <1>2, <1>3, <1>4, <1>5, BotIs DEF DiscordInv, CardsOnce
<1>8. QED
  BY <1>3, <1>6, <1>7 DEF DiscordInv, InputsOK

LEMMA PostFailsKeeps ==
    ASSUME DiscordInv, PostFails
    PROVE  DiscordInv'
<1>1. PICK r : r = Greatest(bot.page)
  OBVIOUS
<1>2. r \in bot.page /\ r \in Reviews
  BY <1>1, BotIs, GreatestIsIn DEF PostFails
<1>3. /\ \/ UNCHANGED <<cards, unsure>>
         \/ cards' = [cards EXCEPT ![r] = @ + 1] /\ unsure' = unsure \cup {r}
      /\ bot' = [bot EXCEPT !.page = {}, !.posted = bot.posted]
      /\ UNCHANGED <<reviews, skipped, inputs, crashes>>
  BY <1>1 DEF PostFails, KnownAfterFailure
<1>4. bot' \in Bot /\ bot'.started = bot.started /\ bot'.posted = bot.posted /\ bot'.page = {}
  BY <1>3, BotIs DEF Bot
<1>5. /\ cards' \in [Reviews -> Nat] /\ unsure' \subseteq Reviews
      /\ \A o \in Reviews \ unsure' : o \notin unsure /\ cards'[o] = cards[o]
  BY <1>2, <1>3, BotIs
<1>6. DiscordTypeOK'
  BY <1>3, <1>4, <1>5 DEF DiscordInv, DiscordTypeOK
<1>7. CardsOnce'
  BY <1>3, <1>4, <1>5 DEF DiscordInv, CardsOnce
<1>8. QED
  BY <1>3, <1>6, <1>7 DEF DiscordInv, InputsOK

\* An input is replaced by one that is sound.
LEMMA PutKeeps ==
    ASSUME DiscordInv, NEW k \in Inputs, NEW input, Put(k, input), InputOK(input)
    PROVE  InputsOK' /\ inputs' \in [Inputs -> Input]
<1>1. inputs \in [Inputs -> Input] /\ input \in Input
  BY DEF DiscordInv, DiscordTypeOK, InputOK
<1>2. \A j \in Inputs : inputs'[j] = input \/ inputs'[j] = inputs[j]
  BY <1>1 DEF Put
<1>3. \A j \in Inputs : InputOK(inputs'[j])
  BY <1>2 DEF DiscordInv, InputsOK
<1>4. QED
  BY <1>1, <1>3 DEF Put, InputsOK

\* A step of one input that keeps it sound.
LEMMA InputStepKeeps ==
    ASSUME DiscordInv, NEW k \in Inputs, NEW input, Put(k, input), InputOK(input), InputStep,
           reviews' \in Seq(Statuses), Len(reviews') <= MaxReviews
    PROVE  DiscordInv'
<1>1. InputsOK' /\ inputs' \in [Inputs -> Input]
  BY PutKeeps
<1>2. DiscordTypeOK'
  BY <1>1 DEF DiscordInv, DiscordTypeOK, InputStep
<1>3. CardsOnce'
  BY DEF DiscordInv, CardsOnce, InputStep
<1>4. QED
  BY <1>1, <1>2, <1>3 DEF DiscordInv

LEMMA InputIs ==
    ASSUME DiscordInv, NEW k \in Inputs
    PROVE  /\ InputOK(inputs[k]) /\ inputs[k] \in Input
           /\ inputs[k].at # "unsent" =>
                /\ inputs[k].act \in DOMAIN CallsOf \cup AllButtons
                /\ Len(Calls(inputs[k])) \in 1..2
           /\ reviews \in Seq(Statuses) /\ Len(reviews) <= MaxReviews
<1>1. InputOK(inputs[k]) /\ inputs[k] \in Input
  BY DEF DiscordInv, InputsOK, InputOK
<1>2. inputs[k].at # "unsent" => inputs[k].act \in DOMAIN CallsOf \cup AllButtons
  BY <1>1 DEF InputOK, Input
<1>3. QED
  BY <1>1, <1>2, CallsAre DEF DiscordInv, DiscordTypeOK

\* An effect on the reviews is a status a decision gives.
LEMMA EffectIs ==
    ASSUME DiscordInv, NEW k \in Inputs, inputs[k].at # "unsent", Effect(inputs[k])
    PROVE  reviews' \in Seq(Statuses) /\ Len(reviews') <= MaxReviews
<1>1. reviews \in Seq(Statuses) /\ Len(reviews) <= MaxReviews
  BY InputIs
<1>2. ASSUME NEW status \in Statuses, NEW r, reviews' = [reviews EXCEPT ![r] = status]
      PROVE  reviews' \in Seq(Statuses) /\ Len(reviews') = Len(reviews)
  <2>1. CASE r \in 1..Len(reviews)
    BY <1>1, <1>2, <2>1, ExceptSeq
  <2>2. CASE r \notin 1..Len(reviews)
    <3>1. DOMAIN reviews = 1..Len(reviews)
      BY <1>1
    <3>2. reviews' = reviews
      BY <1>1, <1>2, <2>2, <3>1
    <3>3. QED
      BY <1>1, <3>2
  <2>3. QED
    BY <2>1, <2>2
<1>3. ASSUME NEW act \in AllButtons PROVE Decided[act] \subseteq Statuses
  BY DEF AllButtons, Decided, Statuses
<1>4. CASE inputs[k].act \in AllButtons
  BY <1>1, <1>2, <1>3, <1>4 DEF Effect
<1>5. CASE inputs[k].act \notin AllButtons
  BY <1>1, <1>5 DEF Effect
<1>6. QED
  BY <1>4, <1>5

\* The calls of an input depend on what was done only.
LEMMA CallsOfAct ==
    ASSUME NEW a, NEW b, a.act = b.act
    PROVE  Calls(a) = Calls(b)
BY DEF Calls

\* An input is sent, acknowledged, filled in or lost before any of its calls is made.
LEMMA BeforeCallsKeeps ==
    ASSUME DiscordInv, NEW k \in Inputs,
           \/ \E button \in Buttons, r \in Reviews : Press(k, button, r)
           \/ \E command \in Commands : Command(k, command)
           \/ Fill(k) \/ Lose(k)
    PROVE  DiscordInv'
<1>1. PICK i : i = inputs[k]
  OBVIOUS
<1>2. InputOK(i) /\ i \in Input /\ reviews \in Seq(Statuses) /\ Len(reviews) <= MaxReviews
  BY <1>1, InputIs
<1>3. ASSUME NEW button \in Buttons, NEW r \in Reviews, Press(k, button, r)
      PROVE  DiscordInv'
  <2>1. PICK new : new = [NoInput EXCEPT !.at = "sent", !.act = button, !.on = r]
    OBVIOUS
  <2>2. new = [at |-> "sent", act |-> button, on |-> r, next |-> 1, done |-> {}, late |-> 0,
               doubt |-> FALSE, refused |-> FALSE]
    BY <2>1 DEF NoInput
  <2>3. button \in AllButtons /\ r \in 0..MaxReviews /\ button # "none"
    BY DiscordAssumption DEF Reviews, AllButtons
  <2>4. InputOK(new)
    BY <2>2, <2>3 DEF InputOK, Input, Stages
  <2>5. QED
    BY <1>2, <1>3, <2>1, <2>4, InputStepKeeps DEF Press
<1>4. ASSUME NEW command \in Commands, Command(k, command)
      PROVE  DiscordInv'
  <2>1. PICK new : new = [NoInput EXCEPT !.at = "sent", !.act = command]
    OBVIOUS
  <2>2. new = [at |-> "sent", act |-> command, on |-> 0, next |-> 1, done |-> {}, late |-> 0,
               doubt |-> FALSE, refused |-> FALSE]
    BY <2>1 DEF NoInput
  <2>3. command \in DOMAIN CallsOf /\ 0 \in 0..MaxReviews
    BY DiscordAssumption
  <2>4. command # "none"
    BY <2>3 DEF CallsOf
  <2>5. InputOK(new)
    BY <2>2, <2>3, <2>4 DEF InputOK, Input, Stages
  <2>6. QED
    BY <1>2, <1>4, <2>1, <2>5, InputStepKeeps DEF Command
<1>5. ASSUME NEW at \in {"filled", "lost"}, i.at \in {"sent", "form", "filled"},
             NEW new, new = [i EXCEPT !.at = at]
      PROVE  InputOK(new)
  BY <1>2, <1>5 DEF InputOK, Input, Stages
<1>6. ASSUME Fill(k) PROVE DiscordInv'
  BY <1>1, <1>2, <1>5, <1>6, InputStepKeeps DEF Fill
<1>7. ASSUME Lose(k) PROVE DiscordInv'
  BY <1>1, <1>2, <1>5, <1>7, InputStepKeeps DEF Lose
<1>8. QED
  BY <1>3, <1>4, <1>6, <1>7

\* How the calls of an input count up.
LEMMA CallsCount ==
    /\ 1..(1 - 1) = {}
    /\ \A n \in 1..2 : 1 \in 1..n
    /\ \A n \in 1..2 : \A m \in 1..n :
         /\ m \in 0..2 /\ m + 1 \in 1..3 /\ (m + 1) - 1 = m
         /\ (1..(m - 1)) \cup {m} = 1..m
         /\ 1..m \in SUBSET (1..2)
         /\ m # n => m + 1 \in 1..n
OBVIOUS

LEMMA AcknowledgeKeeps ==
    ASSUME DiscordInv, NEW k \in Inputs, Acknowledge(k)
    PROVE  DiscordInv'
<1>1. PICK i : i = inputs[k]
  OBVIOUS
<1>2. PICK new : new = [i EXCEPT !.at = IF @ = "sent" /\ i.act \in Forms THEN "form"
                                                                       ELSE "working"]
  OBVIOUS
<1>3. /\ i.at \in {"sent", "filled"} /\ Put(k, new) /\ InputStep
      /\ InputOK(i) /\ i \in Input /\ Len(Calls(i)) \in 1..2
      /\ reviews \in Seq(Statuses) /\ Len(reviews) <= MaxReviews /\ reviews' = reviews
  BY <1>1, <1>2, InputIs DEF Acknowledge
<1>4. /\ new \in Input /\ new.at \in {"form", "working"} /\ new.act = i.act
      /\ new.next = i.next /\ new.done = i.done /\ new.late = i.late
  BY <1>2, <1>3 DEF Input, Stages
<1>5. /\ i.act # "none" /\ i.late = 0 /\ i.done = {} /\ i.next = 1
  BY <1>3 DEF InputOK
<1>6. Calls(new) = Calls(i)
  BY <1>4, CallsOfAct
<1>7. 1..(1 - 1) = {} /\ 1 \in 1..Len(Calls(new))
  BY <1>3, <1>6, CallsCount
<1>8. InputOK(new)
  BY <1>4, <1>5, <1>7 DEF InputOK
<1>9. QED
  BY <1>3, <1>8, InputStepKeeps

LEMMA CallServedKeeps ==
    ASSUME DiscordInv, NEW k \in Inputs, CallServed(k)
    PROVE  DiscordInv'
<1>1. PICK i : i = inputs[k]
  OBVIOUS
<1>2. PICK new : new = [i EXCEPT !.done = @ \cup {i.next}, !.next = @ + 1,
                                 !.at = IF i.next = Len(Calls(i)) THEN "done" ELSE @]
  OBVIOUS
<1>3. /\ i.at = "working" /\ Put(k, new) /\ InputStep /\ Effect(i)
      /\ InputOK(i) /\ i \in Input /\ Len(Calls(i)) \in 1..2
  BY <1>1, <1>2, InputIs DEF CallServed
<1>4. reviews' \in Seq(Statuses) /\ Len(reviews') <= MaxReviews
  BY <1>1, <1>3, EffectIs
<1>5. /\ i.act # "none" /\ i.late = 0 /\ i.next \in 1..Len(Calls(i))
      /\ i.done = 1..(i.next - 1)
  BY <1>3 DEF InputOK
<1>6. i.next + 1 \in 1..3 /\ i.done \cup {i.next} = 1..i.next /\ 1..i.next \in SUBSET (1..2)
  <2>1. PICK m, n : m = i.next /\ n = Len(Calls(i))
    OBVIOUS
  <2>2. n \in 1..2 /\ m \in 1..n /\ i.done = 1..(m - 1)
    BY <1>3, <1>5, <2>1
  <2>3. m + 1 \in 1..3 /\ (1..(m - 1)) \cup {m} = 1..m /\ 1..m \in SUBSET (1..2)
    BY <2>2, CallsCount
  <2>4. QED
    BY <2>1, <2>2, <2>3
<1>7. new \in Input
  BY <1>2, <1>3, <1>6 DEF Input, Stages
<1>8. /\ new.at = (IF i.next = Len(Calls(i)) THEN "done" ELSE "working")
      /\ new.act = i.act /\ new.next = i.next + 1 /\ new.done = 1..i.next
      /\ new.late = 0
  BY <1>2, <1>3, <1>5, <1>6 DEF Input
<1>9. Calls(new) = Calls(i)
  BY <1>8, CallsOfAct
<1>10. (i.next + 1) - 1 = i.next
  BY <1>5
<1>11. i.next # Len(Calls(i)) => i.next + 1 \in 1..Len(Calls(i))
  BY <1>3, <1>5
<1>12. InputOK(new)
  BY <1>5, <1>7, <1>8, <1>9, <1>10, <1>11 DEF InputOK
<1>13. QED
  BY <1>3, <1>4, <1>12, InputStepKeeps

\* Only /lifeos agent sets an agent.
LEMMA AgentIsSetBy ==
    ASSUME NEW i, i.act \in DOMAIN CallsOf \cup AllButtons,
           NEW n \in 1..Len(Calls(i)), Calls(i)[n] \in Unheeded
    PROVE  i.act = "agent"
<1>1. /\ \A c : \A m \in 1..Len(<<c>>) : <<c>>[m] = c
      /\ \A c, d : \A m \in 1..Len(<<c, d>>) : <<c, d>>[m] \in {c, d}
  OBVIOUS
<1>2. ASSUME NEW c, NEW d, c # "set agent", d # "set agent",
             Calls(i) = <<c>> \/ Calls(i) = <<c, d>>
      PROVE  Calls(i)[n] # "set agent"
  <2>1. CASE Calls(i) = <<c>>
    <3>1. n \in 1..Len(<<c>>)
      BY <2>1
    <3>2. <<c>>[n] = c
      BY <1>1, <3>1
    <3>3. QED
      BY <1>2, <2>1, <3>2
  <2>2. CASE Calls(i) = <<c, d>>
    <3>1. n \in 1..Len(<<c, d>>)
      BY <2>2
    <3>2. <<c, d>>[n] \in {c, d}
      BY <1>1, <3>1
    <3>3. QED
      BY <1>2, <2>2, <3>2
  <2>3. QED
    BY <1>2, <2>1, <2>2
<1>3. Calls(i)[n] = "set agent"
  BY DEF Unheeded
<1>4. CASE i.act \in AllButtons
  <2>1. Calls(i) = <<"decide review">>
    BY <1>4 DEF Calls
  <2>2. QED
    BY <1>3, <2>1, <1>2
<1>5. CASE i.act \in DOMAIN CallsOf /\ i.act \notin AllButtons /\ i.act # "agent"
  <2>1. Calls(i) = CallsOf[i.act]
    BY <1>5 DEF Calls
  <2>2. i.act \in {"new", "thread", "iterations", "cancel", "capture", "ask", "model",
                  "autonomy", "sync", "status", "chat", "proposal", "edit"}
    BY <1>5 DEF CallsOf
  <2>3. /\ CallsOf["new"] = <<"create session">>
        /\ CallsOf["thread"] = <<"create session">>
        /\ CallsOf["capture"] = <<"capture">>
        /\ CallsOf["ask"] = <<"ask">>
        /\ CallsOf["model"] = <<"set model">>
        /\ CallsOf["autonomy"] = <<"set autonomy">>
        /\ CallsOf["chat"] = <<"chat">>
        /\ CallsOf["proposal"] = <<"decide proposal">>
        /\ CallsOf["edit"] = <<"revise proposal">>
    BY DEF CallsOf
  <2>4. /\ CallsOf["iterations"] = <<"resolve session", "set iterations">>
        /\ CallsOf["cancel"] = <<"find session", "cancel session">>
        /\ CallsOf["sync"] = <<"sync agents", "sync tools">>
        /\ CallsOf["status"] = <<"readiness", "providers">>
    BY DEF CallsOf
  <2>5. \/ \E c : c # "set agent" /\ CallsOf[i.act] = <<c>>
        \/ \E c, d : c # "set agent" /\ d # "set agent" /\ CallsOf[i.act] = <<c, d>>
    <3>1. ASSUME i.act \in {"iterations", "cancel", "sync", "status"}
          PROVE  \E c, d : c # "set agent" /\ d # "set agent" /\ CallsOf[i.act] = <<c, d>>
      BY <2>4, <3>1
    <3>2. ASSUME i.act \notin {"iterations", "cancel", "sync", "status"}
          PROVE  \E c : c # "set agent" /\ CallsOf[i.act] = <<c>>
      BY <2>2, <2>3, <3>2
    <3>3. QED
      BY <3>1, <3>2
  <2>6. QED
    BY <1>3, <2>1, <2>5, <1>2
<1>6. QED
  BY <1>4, <1>5

LEMMA CallRefusedKeeps ==
    ASSUME DiscordInv, NEW k \in Inputs, CallRefused(k)
    PROVE  DiscordInv'
<1>1. PICK i : i = inputs[k]
  OBVIOUS
<1>2. PICK new : new = [i EXCEPT !.refused = TRUE,
                          !.at = IF Calls(i)[i.next] \in Unheeded THEN "done" ELSE "refused"]
  OBVIOUS
<1>3. /\ i.at = "working" /\ Put(k, new) /\ InputStep /\ InputOK(i) /\ i \in Input
      /\ i.act \in DOMAIN CallsOf \cup AllButtons
      /\ reviews \in Seq(Statuses) /\ Len(reviews) <= MaxReviews /\ reviews' = reviews
  BY <1>1, <1>2, InputIs DEF CallRefused
<1>4. /\ i.act # "none" /\ i.late = 0 /\ i.next \in 1..Len(Calls(i))
      /\ i.done = 1..(i.next - 1)
  BY <1>3 DEF InputOK
<1>5. /\ new \in Input /\ new.refused /\ new.act = i.act /\ new.next = i.next
      /\ new.done = i.done /\ new.late = i.late
      /\ new.at = (IF Calls(i)[i.next] \in Unheeded THEN "done" ELSE "refused")
  BY <1>2, <1>3 DEF Input, Stages
<1>6. Calls(new) = Calls(i)
  BY <1>5, CallsOfAct
<1>7. Calls(i)[i.next] \in Unheeded => i.act = "agent"
  BY <1>3, <1>4, AgentIsSetBy
<1>8. InputOK(new)
  BY <1>4, <1>5, <1>6, <1>7 DEF InputOK
<1>9. QED
  BY <1>3, <1>8, InputStepKeeps

LEMMA CallFailsKeeps ==
    ASSUME DiscordInv, NEW k \in Inputs, CallFails(k)
    PROVE  DiscordInv'
<1>1. PICK i : i = inputs[k]
  OBVIOUS
<1>2. PICK gone \in {0, i.next} :
        Put(k, [i EXCEPT !.at = AfterFailure(i), !.late = gone, !.doubt = gone # 0])
  BY <1>1 DEF CallFails
<1>3. PICK new : new = [i EXCEPT !.at = "failed", !.late = gone, !.doubt = gone # 0]
  OBVIOUS
<1>4. /\ i.at = "working" /\ Put(k, new) /\ InputStep
      /\ InputOK(i) /\ i \in Input /\ Len(Calls(i)) \in 1..2
      /\ reviews \in Seq(Statuses) /\ Len(reviews) <= MaxReviews /\ reviews' = reviews
  BY <1>1, <1>2, <1>3, InputIs DEF CallFails, AfterFailure
<1>5. /\ i.act # "none" /\ i.late = 0 /\ i.next \in 1..Len(Calls(i))
      /\ i.done = 1..(i.next - 1)
  BY <1>4 DEF InputOK
<1>6. gone \in 0..2
  <2>1. i.next \in 0..2
    BY <1>4, <1>5, CallsCount
  <2>2. QED
    BY <2>1
<1>7. /\ new \in Input /\ new.at = "failed" /\ new.act = i.act /\ new.next = i.next
      /\ new.done = i.done /\ new.late = gone /\ new.doubt = (gone # 0)
  BY <1>3, <1>4, <1>6 DEF Input, Stages
<1>8. Calls(new) = Calls(i)
  BY <1>7, CallsOfAct
<1>9. InputOK(new)
  BY <1>5, <1>7, <1>8 DEF InputOK
<1>10. QED
  BY <1>4, <1>9, InputStepKeeps

\* A call nobody waits for was given up: its input failed in doubt, or is silent.
LEMMA LateServedKeeps ==
    ASSUME DiscordInv, NEW k \in Inputs, ServedLate(k) \/ FailedLate(k)
    PROVE  DiscordInv'
<1>1. PICK i : i = inputs[k]
  OBVIOUS
<1>2. PICK served \in SUBSET {i.late} : Put(k, [i EXCEPT !.done = @ \cup served, !.late = 0])
  <2>1. CASE ServedLate(k)
    BY <1>1, <2>1 DEF ServedLate
  <2>2. CASE FailedLate(k)
    <3>1. i \in Input
      BY <1>1, InputIs
    <3>2. [i EXCEPT !.done = @ \cup {}, !.late = 0] = [i EXCEPT !.late = 0]
      BY <3>1 DEF Input
    <3>3. QED
      BY <1>1, <2>2, <3>2 DEF FailedLate
  <2>3. QED
    BY <2>1, <2>2
<1>3. PICK new : new = [i EXCEPT !.done = @ \cup served, !.late = 0]
  OBVIOUS
<1>4. /\ i.late # 0 /\ Put(k, new) /\ InputStep /\ InputOK(i) /\ i \in Input
      /\ reviews \in Seq(Statuses) /\ Len(reviews) <= MaxReviews
  BY <1>1, <1>2, <1>3, InputIs DEF ServedLate, FailedLate
<1>5. /\ (i.at \in {"failed", "told failed"} /\ i.doubt) \/ i.at = "silent"
      /\ i.at # "unsent" /\ i.act # "none"
  BY <1>4 DEF InputOK, Input, Stages
<1>6. reviews' \in Seq(Statuses) /\ Len(reviews') <= MaxReviews
  BY <1>1, <1>4, <1>5, EffectIs DEF ServedLate, FailedLate
<1>7. i.late \in 1..2
  BY <1>4 DEF Input
<1>8. /\ new \in Input /\ new.at = i.at /\ new.act = i.act /\ new.doubt = i.doubt
  <2>1. i.done \cup served \in SUBSET (1..2) /\ 0 \in 0..2
    <3>1. i.done \in SUBSET (1..2)
      BY <1>4 DEF Input
    <3>2. served \subseteq 1..2
      BY <1>7
    <3>3. QED
      BY <3>1, <3>2
  <2>2. QED
    BY <1>3, <1>4, <2>1 DEF Input
<1>9. InputOK(new)
  BY <1>5, <1>8 DEF InputOK
<1>10. QED
  BY <1>4, <1>6, <1>9, InputStepKeeps

LEMMA ReportKeeps ==
    ASSUME DiscordInv, NEW k \in Inputs, Report(k) \/ ReportFails(k)
    PROVE  DiscordInv'
<1>1. PICK i : i = inputs[k]
  OBVIOUS
<1>2. PICK at \in {"told ok", "told failed", "told refused", "silent"} :
        /\ Put(k, [i EXCEPT !.at = at])
        /\ at = "told ok" => i.at = "done"
        /\ at = "told failed" => i.at = "failed"
        /\ at = "told refused" => i.at = "refused"
  <2>1. CASE Report(k)
    <3>1. i.at \in {"done", "failed", "refused"} /\ Put(k, [i EXCEPT !.at = Told[i.at]])
      BY <1>1, <2>1 DEF Report, Ended
    <3>2. /\ Told["done"] = "told ok"
          /\ Told["failed"] = "told failed"
          /\ Told["refused"] = "told refused"
      BY DEF Told
    <3>3. QED
      BY <3>1, <3>2
  <2>2. CASE ReportFails(k)
    BY <1>1, <2>2 DEF ReportFails
  <2>3. QED
    BY <2>1, <2>2
<1>3. PICK new : new = [i EXCEPT !.at = at]
  OBVIOUS
<1>4. /\ i.at \in {"done", "failed", "refused"} /\ Put(k, new) /\ InputStep /\ InputOK(i) /\ i \in Input
      /\ reviews \in Seq(Statuses) /\ Len(reviews) <= MaxReviews /\ reviews' = reviews
  BY <1>1, <1>2, <1>3, InputIs DEF Report, ReportFails, Ended
<1>5. /\ new \in Input /\ new.at = at /\ new.act = i.act /\ new.next = i.next
      /\ new.done = i.done /\ new.late = i.late /\ new.doubt = i.doubt
      /\ new.refused = i.refused
  BY <1>3, <1>4 DEF Input, Stages
<1>6. Calls(new) = Calls(i)
  BY <1>5, CallsOfAct
<1>7. InputOK(new)
  BY <1>2, <1>4, <1>5, <1>6 DEF InputOK
<1>8. QED
  BY <1>4, <1>7, InputStepKeeps

\* A crash leaves the calls of the working threads to the API, and tells nobody.
LEMMA CrashKeeps ==
    ASSUME DiscordInv, Crash
    PROVE  DiscordInv'
<1>1. /\ crashes' = crashes + 1 /\ bot' = Down
      /\ UNCHANGED <<reviews, cards, unsure, skipped>>
  BY DEF Crash
<1>2. ASSUME NEW k \in Inputs PROVE InputOK(inputs'[k])
  <2>1. PICK i : i = inputs[k]
    OBVIOUS
  <2>2. InputOK(i) /\ i \in Input
    BY <2>1, InputIs
  <2>3. PICK new : new = inputs'[k]
    OBVIOUS
  <2>4. \/ i.at = "working" /\ new = [i EXCEPT !.at = "silent", !.late = i.next]
        \/ i.at \in {"done", "failed", "refused"} /\ new = [i EXCEPT !.at = "silent"]
        \/ new = i
    BY <2>1, <2>3 DEF Crash, Ended
  <2>5. CASE i.at = "working" /\ new = [i EXCEPT !.at = "silent", !.late = i.next]
    <3>1. i.next \in 0..2
      <4>1. Len(Calls(i)) \in 1..2 /\ i.next \in 1..Len(Calls(i))
        BY <2>1, <2>2, <2>5, InputIs DEF InputOK
      <4>2. QED
        BY <4>1, CallsCount
    <3>2. new \in Input /\ new.at = "silent" /\ new.act = i.act /\ i.act # "none"
      BY <2>2, <2>5, <3>1 DEF Input, Stages, InputOK
    <3>3. QED
      BY <2>3, <3>2 DEF InputOK
  <2>6. CASE i.at \in {"done", "failed", "refused"} /\ new = [i EXCEPT !.at = "silent"]
    <3>1. new \in Input /\ new.at = "silent" /\ new.act = i.act /\ i.act # "none"
      BY <2>2, <2>6 DEF Input, Stages, InputOK
    <3>2. QED
      BY <2>3, <3>1 DEF InputOK
  <2>7. QED
    BY <2>2, <2>3, <2>4, <2>5, <2>6
<1>3. inputs' \in [Inputs -> Input]
  <2>1. \E f : inputs' = [k \in Inputs |-> f[k]]
    <3>1. inputs' = [k \in Inputs |-> inputs'[k]]
      BY DEF Crash, Ended
    <3>2. QED
      BY <3>1
  <2>2. \A k \in Inputs : inputs'[k] \in Input
    BY <1>2 DEF InputOK
  <2>3. QED
    BY <2>1, <2>2
<1>4. bot' \in Bot /\ crashes' \in Nat
  BY <1>1, BotIs DEF Bot, Down
<1>5. DiscordTypeOK'
  BY <1>1, <1>3, <1>4 DEF DiscordInv, DiscordTypeOK
<1>6. CardsOnce'
  BY <1>1, <1>4, BotIs DEF CardsOnce, Down
<1>7. QED
  BY <1>2, <1>5, <1>6 DEF DiscordInv, InputsOK

LEMMA DiscordKeeps ==
    ASSUME DiscordInv,
           \/ DiscordStep \/ DiscordFault
           \/ \E status \in Statuses : CreateReview(status)
    PROVE  DiscordInv'
BY CreateReviewKeeps, PosterKeeps, PostReviewKeeps, PostFailsKeeps, BeforeCallsKeeps,
   AcknowledgeKeeps, CallServedKeeps, CallRefusedKeeps, CallFailsKeeps, LateServedKeeps,
   ReportKeeps, CrashKeeps
   DEF DiscordStep, DiscordFault, Poster

-----------------------------------------------------------------------------
(* Both gateways and the API.                                              *)

LEMMA GatewaysInit == Init => GatewaysInv
BY TelegramStarts, DiscordStarts DEF Init, GatewaysInv

LEMMA GatewaysStep == GatewaysInv /\ [Next]_vars => GatewaysInv'
<1>1. SUFFICES ASSUME GatewaysInv, [Next]_vars PROVE GatewaysInv'
  OBVIOUS
<1>2. TelegramInv /\ DiscordInv
  BY <1>1 DEF GatewaysInv
<1>3. ASSUME UNCHANGED vars PROVE GatewaysInv'
  BY <1>2, <1>3, TelegramQuiet, DiscordQuiet DEF vars, GatewaysInv
<1>4. ASSUME (TelegramStep \/ TelegramFault) /\ UNCHANGED discord PROVE GatewaysInv'
  BY <1>2, <1>4, TelegramKeeps, DiscordQuiet DEF GatewaysInv
<1>5. ASSUME (DiscordStep \/ DiscordFault) /\ UNCHANGED telegram PROVE GatewaysInv'
  BY <1>2, <1>5, TelegramQuiet, DiscordKeeps DEF GatewaysInv
<1>6. ASSUME NEW u, NEW route, WithReview(u, route) PROVE DiscordInv'
  <2>1. UNCHANGED discord \/ \E status \in Statuses : CreateReview(status)
    BY <1>6 DEF WithReview, ReviewOf, Statuses
  <2>2. QED
    BY <1>2, <2>1, DiscordQuiet, DiscordKeeps
<1>7. ASSUME CaptureStored PROVE GatewaysInv'
  <2>1. PICK route \in Routes : Capture(route) /\ WithReview(poller.on, route)
    BY <1>7 DEF CaptureStored
  <2>2. PICK u : u = poller.on
    OBVIOUS
  <2>3. TelegramInv' /\ DiscordInv'
    BY <1>2, <1>6, <2>1, <2>2, TelegramKeeps
  <2>4. QED
    BY <2>3 DEF GatewaysInv
<1>8. ASSUME NEW u \in Updates, StoredLate(u) PROVE GatewaysInv'
  <2>1. PICK route \in Routes : CaptureLate(u) /\ WithReview(u, route)
    BY <1>8 DEF StoredLate
  <2>2. TelegramInv' /\ DiscordInv'
    BY <1>2, <1>6, <2>1, TelegramKeeps
  <2>3. QED
    BY <2>2 DEF GatewaysInv
<1>9. CASE Next
  BY <1>1, <1>4, <1>5, <1>7, <1>8, <1>9 DEF Next, Step, Fault
<1>10. QED
  BY <1>1, <1>3, <1>9

LEMMA GatewaysInvAlways == Spec => []GatewaysInv
BY GatewaysInit, GatewaysStep, PTL DEF Spec

\* Both gateways keep their shapes, for any number of updates, reviews and inputs.
THEOREM GatewaysTyped == Spec => []GatewaysTypeOK
<1>1. GatewaysInv => GatewaysTypeOK
  BY DEF GatewaysInv, TelegramInv, DiscordInv, GatewaysTypeOK
<1>2. QED
  BY <1>1, GatewaysInvAlways, PTL

\* What Telegram has forgotten is stored, unless a call about it failed while the process
\* ran: whenever the process dies, it is sent again what it had not confirmed.
THEOREM NothingForgottenUnstored == Spec => []ForgottenIsStored
<1>1. ASSUME GatewaysInv, NEW u \in DOMAIN feed, u <= confirmed, feed[u] \in Captured
      PROVE  stored[u] > 0 \/ u \in failed
  <2>1. TelegramInv
    BY <1>1 DEF GatewaysInv
  <2>2. u \in Nat /\ confirmed \in Nat
    BY <2>1, TelegramShapes
  <2>3. poller.at = "calling" => poller.on > confirmed
    BY <2>1 DEF TelegramInv, PollerOK
  <2>4. \/ stored[u] > 0
        \/ u \in failed
        \/ poller.at = "calling" /\ poller.on = u
    BY <1>1, <2>1 DEF TelegramInv, Handled
  <2>5. QED
    BY <1>1, <2>2, <2>3, <2>4
<1>2. GatewaysInv => ForgottenIsStored
  BY <1>1 DEF ForgottenIsStored
<1>3. QED
  BY <1>2, GatewaysInvAlways, PTL

\* Failed calls, calls served late and deaths of the process store a message once more for
\* each death, and never otherwise.
THEOREM OnlyRestartsRepeat == Spec => []RepeatedOnlyByRestart
<1>1. ASSUME GatewaysInv, NEW u \in Updates PROVE stored[u] <= 1 + restarts
  <2>1. TelegramInv
    BY <1>1 DEF GatewaysInv
  <2>2. stored[u] \in Nat /\ late[u] \in Nat /\ restarts \in Nat
    BY <2>1, TelegramShapes
  <2>3. Sending(u) \in Nat /\ ToCome(u) \in Nat
    BY DEF Sending, ToCome
  <2>4. stored[u] + late[u] + Sending(u) + ToCome(u) <= 1 + restarts
    BY <2>1 DEF TelegramInv, SentOnce
  <2>5. QED
    BY <2>2, <2>3, <2>4
<1>2. GatewaysInv => RepeatedOnlyByRestart
  BY <1>1 DEF RepeatedOnlyByRestart
<1>3. QED
  BY <1>2, GatewaysInvAlways, PTL

\* A second card of a review has a cause: a crash of the process, or a post whose answer
\* was lost.
THEOREM SecondCardsAreExplained == Spec => []CardsExplained
<1>1. GatewaysInv => CardsExplained
  BY DEF GatewaysInv, DiscordInv, DiscordTypeOK, CardsOnce, CardsExplained
<1>2. QED
  BY <1>1, GatewaysInvAlways, PTL

\* The owner is told of a success when every call took effect, or the API refused to set
\* an agent; of a refusal when that call did nothing; and of a failure when some call did
\* nothing, unless it was left open.
THEOREM ReportsAreTrue == Spec => []ReportIsTrue
<1>1. ASSUME GatewaysInv, NEW k \in Inputs
      PROVE  LET input == inputs[k]
             IN /\ input.at = "told ok" => \/ input.done = 1..Len(Calls(input))
                                           \/ input.act = "agent" /\ input.refused
                /\ input.at = "told refused" => input.next \notin input.done
                /\ input.at = "told failed" /\ input.done = 1..Len(Calls(input)) => input.doubt
  <2>1. PICK i : i = inputs[k]
    OBVIOUS
  <2>2. InputOK(i) /\ i \in Input
    BY <1>1, <2>1, InputIs DEF GatewaysInv
  <2>3. i.at = "told ok" => i.done = 1..Len(Calls(i)) \/ (i.act = "agent" /\ i.refused)
    BY <2>2 DEF InputOK
  <2>4. ASSUME i.next \in 1..Len(Calls(i)), i.done = 1..(i.next - 1)
        PROVE  i.next \notin i.done /\ i.done # 1..Len(Calls(i))
    <3>1. i.next \notin 1..(i.next - 1)
      BY <2>4
    <3>2. QED
      BY <2>4, <3>1
  <2>5. i.at = "told refused" => i.next \notin i.done
    BY <2>2, <2>4 DEF InputOK
  <2>6. i.at = "told failed" /\ ~i.doubt => i.done # 1..Len(Calls(i))
    BY <2>2, <2>4 DEF InputOK
  <2>7. i.doubt \in BOOLEAN
    BY <2>2 DEF Input
  <2>8. QED
    BY <2>1, <2>3, <2>5, <2>6, <2>7
<1>2. GatewaysInv => ReportIsTrue
  BY <1>1 DEF ReportIsTrue
<1>3. QED
  BY <1>2, GatewaysInvAlways, PTL

=============================================================================

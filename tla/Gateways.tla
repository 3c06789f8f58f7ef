------------------------------- MODULE Gateways -------------------------------
(***************************************************************************)
(* The two gateways and the API between them: a message of the owner comes *)
(* in by Telegram, the API makes a review of it, Discord shows its card,   *)
(* and the owner decides it there.                                         *)
(***************************************************************************)
EXTENDS TelegramGateway, DiscordGateway

CONSTANT MaxFaults   \* bound: how many calls fail and processes die

ASSUME FaultAssumption == MaxFaults \in Nat

VARIABLES
    asked,  \* the reviews the captures of an update were made into
    faults  \* how many faults there were

vars == <<telegram, discord, asked, faults>>

Init ==
    /\ TelegramInit
    /\ DiscordInit
    /\ asked = [u \in Updates |-> {}]
    /\ faults = 0

\* The statuses of the reviews a capture is stored with (see Captures).
ReviewOf(route) ==
    CASE route = "review_required"   -> "pending"
      [] route = "ask_clarification" -> "needs_clarification"
      [] OTHER                       -> "none"

\* A capture is committed together with its review.
WithReview(u, route) ==
    IF ReviewOf(route) = "none" THEN UNCHANGED <<discord, asked>>
    ELSE /\ CreateReview(ReviewOf(route))
         /\ asked' = [asked EXCEPT ![u] = @ \cup {Len(reviews')}]

CaptureStored == \E route \in Routes : Capture(route) /\ WithReview(poller.on, route)

StoredLate(u) == \E route \in Routes : CaptureLate(u) /\ WithReview(u, route)

Step ==
    \/ TelegramStep /\ UNCHANGED <<discord, asked>>
    \/ DiscordStep /\ UNCHANGED <<telegram, asked>>
    \/ CaptureStored
    \/ \E u \in Updates : StoredLate(u)

Fault ==
    \/ TelegramFault /\ UNCHANGED <<discord, asked>>
    \/ DiscordFault /\ UNCHANGED <<telegram, asked>>

Next ==
    \/ Step /\ UNCHANGED faults
    \/ Fault /\ faults < MaxFaults /\ faults' = faults + 1

Spec == Init /\ [][Next]_vars

\* Both gateways run, are started again after they died, and are served; a fault is
\* not the rule (there are MaxFaults of them).
FairSpec ==
    /\ Spec
    /\ WF_vars((Work /\ UNCHANGED <<discord, asked, faults>>) \/ (CaptureStored /\ UNCHANGED faults))
    /\ WF_vars(Poster /\ UNCHANGED <<telegram, asked, faults>>)

-----------------------------------------------------------------------------
\* The states of both gateways keep their shapes.
GatewaysTypeOK == TelegramTypeOK /\ DiscordTypeOK

-----------------------------------------------------------------------------
(* What the code says and does not keep.                                   *)

\* "I need one detail; I asked in Discord." (map_capture_reply): something about the
\* message appears in Discord.
AskedInDiscord ==
    \A u \in Updates :
        <<u, "ask_clarification">> \in told ~> \E r \in asked[u] : cards[r] > 0
=============================================================================

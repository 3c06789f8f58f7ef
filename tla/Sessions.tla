------------------------------ MODULE Sessions ------------------------------
(***************************************************************************)
(* Agent sessions: how a message finds or creates the session of the place *)
(* it was written in, the run it starts, and the commands that act on the  *)
(* session of a place (routers/sessions.py, the frame of a turn in         *)
(* services/agent_runtime.py, `/lifeos` in the Discord gateway).           *)
(*                                                                         *)
(* A request is one transaction, except the commands `/lifeos agent`,      *)
(* `/lifeos iterations` and `/lifeos cancel`, which are two: the gateway   *)
(* resolves the session of the place and then acts on its id.  A request   *)
(* keeps the row it loaded (`seen`) and the row as it changed it (`mine`); *)
(* a flush writes the columns that differ and locks the row to the end of  *)
(* the transaction.  A run and its messages become visible with the commit *)
(* of their turn.  What a turn says is external: it ends in any status the *)
(* action loop can return.                                                 *)
(*                                                                         *)
(* The session and the run that a request creates carry its id.            *)
(***************************************************************************)
EXTENDS Integers, FiniteSets

CONSTANTS
    Requests,     \* ids of messages and commands
    Channels,     \* Discord channels
    Threads,      \* Discord threads; to Discord a thread is a channel, too
    Agents,       \* AGENTS: ids of the agents there are
    Asked,        \* agents a request may ask for, known or not
    Caps,         \* iteration caps a request may ask for
    DefaultCap,   \* agent.default_iteration_cap
    Asks,         \* what requests ask for, see Request
    Missing,      \* None
    MaxInFlight   \* bound: requests open at a time

VARIABLES
    sessions,  \* agent_sessions, by the request that created the row
    runs,      \* agent_runs, by the request whose turn they are
    user,      \* whether the owner has a row in users
    clock,     \* utc_now(): grows with every stamp
    \* the requests being served
    pc, req,
    on,        \* the session a request works on
    seen, mine,
    locks,     \* whether it has flushed an update of that session's row
    adds,      \* whether it inserts the owner's row
    met        \* history: the pairs of requests that were open together

rows  == <<sessions, runs, user, clock>>
local == <<on, seen, mine, locks, adds>>
vars  == <<rows, pc, req, local, met>>

\* Where a message comes from: a channel, or a thread, in which case the channel id
\* is that of the thread and Discord may or may not say that it is one.
Places == [channel : Channels, thread : {Missing}]
          \cup {[channel |-> t, thread |-> u] : t \in Threads, u \in {Missing}}
          \cup {[channel |-> t, thread |-> t] : t \in Threads}

\* `/lifeos thread` binds the thread it is in or one it creates, or else the channel
\* itself.
ThreadPlaces == [channel : Channels, thread : Threads]
                \cup {[channel |-> c, thread |-> c] : c \in Channels \cup Threads}

NoPlace == [channel |-> Missing, thread |-> Missing]

Creations == {"new", "thread"}
Commands  == {"agent", "iterations", "cancel"}
Request(act, at, agent, cap) == [act |-> act, at |-> at, agent |-> agent, cap |-> cap]
NoRequest == Request("none", NoPlace, Missing, Missing)

\* The owner, known by a user id, asks in Discord, or through the API, where a chat
\* may ask for an agent and a cap as well.
AgentsFor(act) == IF act \in {"iterations", "cancel"} THEN {Missing} ELSE Asked \cup {Missing}
CapsFor(act)   == IF act \in {"agent", "cancel"} THEN {Missing} ELSE Caps \cup {Missing}
PlacesFor(act) == IF act = "thread" THEN ThreadPlaces ELSE Places

Statuses == {"completed", "needs_clarification", "waiting_approval",
             "waiting_confirmation", "failed"}

\* The columns of a session and of a run.
SessionColumns ==
    [agent : Agents \cup Asked, cap : 1..50, channel : Channels \cup Threads,
     thread : Channels \cup Threads \cup {Missing}, last : Requests \cup {Missing},
     touched : Nat]
RunColumns == [session : Requests, status : Statuses \cup {"cancelled"},
               agent : Agents \cup Asked, cap : 1..50, at : Nat]

ASSUME SessionAssumption ==
    /\ "orchestrator" \in Agents
    /\ Channels \cap Threads = {}
    /\ Caps \cup {DefaultCap} \subseteq 1..50
    /\ Missing \notin Requests \cup Channels \cup Threads \cup Agents \cup Asked
    /\ Missing \notin SessionColumns
    /\ Missing \notin RunColumns
    /\ MaxInFlight \in Nat \ {0}
    /\ \A r \in Asks : /\ r.act \in {"chat"} \cup Creations \cup Commands
                       /\ r = Request(r.act, r.at, r.agent, r.cap)
                       /\ r.at \in PlacesFor(r.act)
                       /\ r.agent \in AgentsFor(r.act)
                       /\ r.cap \in CapsFor(r.act)

Ended    == {"unsent", "committed", "none", "not_found", "refused", "aborted"}
Open(q)  == pc[q] \notin Ended
InFlight == {q \in Requests : Open(q)}

Init ==
    /\ sessions = [q \in Requests |-> Missing]
    /\ runs = [q \in Requests |-> Missing]
    /\ user \in BOOLEAN
    /\ clock = 0
    /\ pc = [q \in Requests |-> "unsent"]
    /\ req = [q \in Requests |-> NoRequest]
    /\ on = [q \in Requests |-> Missing]
    /\ seen = [q \in Requests |-> Missing]
    /\ mine = [q \in Requests |-> Missing]
    /\ locks = [q \in Requests |-> FALSE]
    /\ adds = [q \in Requests |-> FALSE]
    /\ met = {}

-----------------------------------------------------------------------------
(* Finding and creating a session.                                         *)

Existing == {s \in Requests : sessions[s] # Missing}

\* The most recently updated one of a set of sessions, or none.
Latest(S) ==
    IF S = {} THEN Missing
    ELSE CHOOSE s \in S : \A o \in S : sessions[o].touched <= sessions[s].touched

OfThread(place)  == {s \in Existing : /\ place.thread # Missing
                                      /\ sessions[s].thread = place.thread}
OfChannel(place) == {s \in Existing : sessions[s].channel = place.channel}

\* Faulty: a message without a thread is not matched by its channel.
FindInThread(place) == Latest(OfThread(place))

\* _find_bound_session: by thread if there is one, else by channel.
Find(place) ==
    IF OfThread(place) # {} THEN Latest(OfThread(place)) ELSE Latest(OfChannel(place))

\* Faulty: the agent a message asks for replaces any other.
WithRequestAlways(row, r) ==
    [row EXCEPT !.cap = IF r.cap = Missing THEN @ ELSE r.cap,
                !.agent = IF r.agent = Missing THEN @ ELSE r.agent]

\* What a message that found its session changes; it replaces only the orchestrator.
WithRequest(row, r) ==
    [row EXCEPT !.cap = IF r.cap = Missing THEN @ ELSE r.cap,
                !.agent = IF r.agent # Missing /\ @ = "orchestrator" THEN r.agent ELSE @]

\* Faulty: an agent that does not exist is stored.
AgentAsAsked(agent) == agent

AgentOr(agent) == IF agent \in Agents THEN agent ELSE "orchestrator"

\* _create_session_row; a command resolves its place without naming an agent or a cap.
NewRow(r) ==
    [agent |-> IF r.act \in Commands THEN "orchestrator" ELSE AgentOr(r.agent),
     cap |-> IF r.act \in Commands \/ r.cap = Missing THEN DefaultCap ELSE r.cap,
     channel |-> r.at.channel, thread |-> r.at.thread, last |-> Missing,
     touched |-> clock + 1]

Arrive(q, r) ==
    /\ pc[q] = "unsent"
    /\ Cardinality(InFlight) < MaxInFlight
    /\ req' = [req EXCEPT ![q] = r]
    /\ met' = met \cup {{q, o} : o \in InFlight}
    /\ UNCHANGED <<sessions, runs, user>>

\* Faulty: the owner's row is not looked for.
MustAddAlways == TRUE

\* _ensure_user: whether the owner's row is to be inserted.
MustAdd == ~user

\* The session is created at the next step.
Seek(q, r) ==
    /\ on' = [on EXCEPT ![q] = q]
    /\ seen' = [seen EXCEPT ![q] = NewRow(r)]
    /\ mine' = [mine EXCEPT ![q] = NewRow(r)]
    /\ adds' = [adds EXCEPT ![q] = MustAdd]
    /\ clock' = clock + 1
    /\ pc' = [pc EXCEPT ![q] = "creating"]
    /\ UNCHANGED locks

\* _resolve_session.  A command commits the stamp it makes here; the stamp of a chat is
\* overwritten when its turn ends.
Resolve(q, r) ==
    /\ r.act \in {"chat"} \cup Commands
    /\ Arrive(q, r)
    /\ LET s == Find(r.at)
       IN IF s # Missing
          THEN /\ on' = [on EXCEPT ![q] = s]
               /\ seen' = [seen EXCEPT ![q] = sessions[s]]
               /\ mine' = [mine EXCEPT ![q] =
                    [(IF r.act = "chat" THEN WithRequest(sessions[s], r) ELSE sessions[s])
                        EXCEPT !.touched = clock + 1]]
               /\ clock' = clock + 1
               /\ pc' = [pc EXCEPT ![q] = IF r.act = "chat" THEN "bound" ELSE "resolving"]
               /\ UNCHANGED <<locks, adds>>
          ELSE IF r.act = "cancel"
               THEN /\ pc' = [pc EXCEPT ![q] = "none"]
                    /\ UNCHANGED <<clock, local>>
               ELSE Seek(q, r)

\* A thread that Discord creates is one nobody wrote in.
FreshThread(r) ==
    r.at.channel \in Channels /\ r.at.thread \in Threads =>
        \A o \in Requests : r.at.thread \notin {req[o].at.channel, req[o].at.thread}

\* `/lifeos new` and `/lifeos thread` create a session whatever there is.
CreateSession(q, r) ==
    /\ r.act \in Creations
    /\ FreshThread(r)
    /\ Arrive(q, r)
    /\ Seek(q, r)

\* POST /api/sessions/{id}/messages names its session and changes nothing of it yet.
PostMessage(q, s) ==
    /\ sessions[s] # Missing
    /\ Arrive(q, [NoRequest EXCEPT !.act = "post"])
    /\ on' = [on EXCEPT ![q] = s]
    /\ seen' = [seen EXCEPT ![q] = sessions[s]]
    /\ mine' = [mine EXCEPT ![q] = sessions[s]]
    /\ pc' = [pc EXCEPT ![q] = "bound"]
    /\ UNCHANGED <<clock, locks, adds>>

\* A request that ends forgets what it knew and gives up its locks.
Forget(q) ==
    /\ seen' = [seen EXCEPT ![q] = Missing]
    /\ mine' = [mine EXCEPT ![q] = Missing]
    /\ locks' = [locks EXCEPT ![q] = FALSE]
    /\ adds' = [adds EXCEPT ![q] = FALSE]

\* Nobody else holds the row of the session.
Free(q) == \A o \in InFlight \ {q} : on[o] = on[q] => ~locks[o]

\* Nobody else is about to commit the owner's row.
UserFree(q) == \A o \in InFlight \ {q} : ~(adds[o] /\ locks[o])

\* The inserts of the owner and of the session; a second insert of the owner waits
\* for the first and fails if that was committed.
Insert(q) ==
    /\ pc[q] = "creating"
    /\ adds[q] => UserFree(q)
    /\ IF adds[q] /\ user
       THEN /\ pc' = [pc EXCEPT ![q] = "refused"]
            /\ Forget(q)
       ELSE /\ pc' = [pc EXCEPT ![q] = IF req[q].act = "chat" THEN "bound" ELSE "resolving"]
            /\ locks' = [locks EXCEPT ![q] = TRUE]
            /\ UNCHANGED <<seen, mine, adds>>
    /\ UNCHANGED <<rows, req, on, met>>

-----------------------------------------------------------------------------
(* Turns and commands.                                                     *)

\* run_agent_message adds the run and flushes: a chat message has updated the row
\* of its session and locks it.
StartRun(q) ==
    /\ pc[q] = "bound"
    /\ mine[q] # seen[q] => Free(q)
    /\ locks' = [locks EXCEPT ![q] = @ \/ mine[q] # seen[q]]
    /\ pc' = [pc EXCEPT ![q] = "running"]
    /\ UNCHANGED <<rows, req, on, seen, mine, adds, met>>

\* Faulty: a run that failed does not become the last one of its session.
LastAfterSuccess(q, status) == IF status = "failed" THEN mine[q].last ELSE q

LastAfter(q, status) == q

\* Faulty: every column is written as the request knows it.
WrittenWhole(q, row) == row

\* The row a commit leaves: the columns that `row` changed, over the row as it is.
Written(q, row) ==
    IF sessions[on[q]] = Missing THEN row
    ELSE [c \in DOMAIN row |-> IF row[c] # seen[q][c] THEN row[c] ELSE sessions[on[q]][c]]

Commit(q, row) ==
    /\ Free(q)
    /\ sessions' = [sessions EXCEPT ![on[q]] = Written(q, row)]
    /\ user' = (user \/ adds[q])

\* _finish_run stamps the session and the run, ...
EndTurn(q) ==
    /\ pc[q] = "running"
    /\ mine' = [mine EXCEPT ![q].touched = clock + 1]
    /\ clock' = clock + 1
    /\ pc' = [pc EXCEPT ![q] = "ending"]
    /\ UNCHANGED <<sessions, runs, user, req, on, seen, locks, adds, met>>

\* ... may wait at its flush for the row of the session, and commits.
FinishRun(q) ==
    /\ pc[q] = "ending"
    /\ \E status \in Statuses :
         /\ Commit(q, [mine[q] EXCEPT !.last = LastAfter(q, status)])
         /\ runs' = [runs EXCEPT ![q] = [session |-> on[q], status |-> status,
                                         agent |-> mine[q].agent, cap |-> mine[q].cap,
                                         at |-> mine[q].touched]]
    /\ pc' = [pc EXCEPT ![q] = "committed"]
    /\ Forget(q)
    /\ UNCHANGED <<clock, req, on, met>>

\* The commit of a creation, or of the first transaction of a command.
CommitSession(q) ==
    /\ pc[q] = "resolving"
    /\ Commit(q, mine[q])
    /\ pc' = [pc EXCEPT ![q] = IF req[q].act \in Creations THEN "committed" ELSE "resolved"]
    /\ Forget(q)
    /\ UNCHANGED <<runs, clock, req, on, met>>

\* What a command has to do: nothing if it only asks, names no agent there is, or
\* finds no run.
Idle(q, row) ==
    \/ req[q].act = "agent" /\ req[q].agent \notin Agents
    \/ req[q].act = "iterations" /\ req[q].cap = Missing
    \/ req[q].act = "cancel" /\ row.last = Missing

\* The second transaction of a command loads the row again and changes it.
Load(q) ==
    /\ pc[q] = "resolved"
    /\ LET row == sessions[on[q]]
       IN IF Idle(q, row)
          THEN /\ pc' = [pc EXCEPT ![q] = "none"]
               /\ UNCHANGED <<clock, seen, mine>>
          ELSE /\ seen' = [seen EXCEPT ![q] = row]
               /\ mine' = [mine EXCEPT ![q] =
                    [row EXCEPT !.touched = clock + 1,
                                !.agent = IF req[q].act = "agent" THEN req[q].agent ELSE @,
                                !.cap = IF req[q].act = "iterations" THEN req[q].cap ELSE @]]
               /\ clock' = clock + 1
               /\ pc' = [pc EXCEPT ![q] = "loaded"]
    /\ UNCHANGED <<sessions, runs, user, req, on, locks, adds, met>>

\* A cancel marks the run that was the last one when it loaded the row.
CommitCommand(q) ==
    /\ pc[q] = "loaded"
    /\ Commit(q, mine[q])
    /\ runs' = IF req[q].act = "cancel"
               THEN [runs EXCEPT ![seen[q].last].status = "cancelled"]
               ELSE runs
    /\ pc' = [pc EXCEPT ![q] = "committed"]
    /\ Forget(q)
    /\ UNCHANGED <<clock, req, on, met>>

\* A lost connection, a timeout or a crash, at any point.
Abort(q) ==
    /\ Open(q)
    /\ pc' = [pc EXCEPT ![q] = "aborted"]
    /\ on' = [on EXCEPT ![q] = Missing]
    /\ Forget(q)
    /\ UNCHANGED <<rows, req, met>>

Next ==
    \/ \E q \in Requests, r \in Asks : Resolve(q, r) \/ CreateSession(q, r)
    \/ \E q, s \in Requests : PostMessage(q, s)
    \/ \E q \in Requests :
         \/ Insert(q)
         \/ StartRun(q)
         \/ EndTurn(q)
         \/ FinishRun(q)
         \/ CommitSession(q)
         \/ Load(q)
         \/ CommitCommand(q)
         \/ Abort(q)

Spec == Init /\ [][Next]_vars

-----------------------------------------------------------------------------
(* Properties.                                                             *)

\* The agents that sessions come to have: those there are, and those a chat names.
Named == Agents \cup ({req[q].agent : q \in {o \in Requests : req[o].act = "chat"}} \ {Missing})

Row == [agent : Named, cap : 1..50, channel : Channels \cup Threads,
        thread : Channels \cup Threads \cup {Missing}, last : Requests \cup {Missing},
        touched : 0..clock]
Run == [session : Requests, status : Statuses \cup {"cancelled"}, agent : Named,
        cap : 1..50, at : 1..clock]

\* Type invariant.  A session and a run name an agent there is, whatever a command asks
\* for (_create_session_row, set_session_agent); only a chat that finds a session of the
\* orchestrator puts in its place what it names, unchecked (_resolve_session).  A run
\* has its session.
TypeOK ==
    /\ \A q \in Requests : /\ sessions[q] \in Row \cup {Missing}
                           /\ runs[q] \in Run \cup {Missing}
                           /\ on[q] \in Requests \cup {Missing}
                           /\ runs[q] # Missing => sessions[runs[q].session] # Missing
    /\ user \in BOOLEAN
    /\ clock \in Nat
    /\ locks \in [Requests -> BOOLEAN]
    /\ adds \in [Requests -> BOOLEAN]

Met(q, o) == {q, o} \in met
RunsOf(s) == {r \in Requests : runs[r] # Missing /\ runs[r].session = s}

\* The last run of a session (what `/lifeos cancel` acts on and a correction refers
\* to) is its most recent one, except for runs that were served together with it:
\* no command and no other turn brings an older run back.
LastRunIsLatest ==
    \A s \in Existing : RunsOf(s) # {} =>
        /\ sessions[s].last \in RunsOf(s)
        /\ \A r \in RunsOf(s) \ {sessions[s].last} :
              runs[r].at < runs[sessions[s].last].at \/ Met(r, sessions[s].last)

\* A session made because none was found (by a chat or by `/lifeos agent` and
\* `/lifeos iterations`) is the only session of its channel of this kind, unless two
\* such requests were served together.
OneSessionPerPlace ==
    LET made == {s \in Existing : req[s].act \notin Creations}
    IN \A s, o \in made :
         s # o /\ sessions[s].channel = sessions[o].channel => Met(s, o)

\* The insert of the owner's row fails only against another request that was served
\* at the same time and created a session, too.
RefusedOnlyByRace ==
    \A q \in Requests : pc[q] = "refused" =>
        \E o \in Requests : Met(q, o) /\ sessions[o] # Missing

Commits(q) == pc[q] # pc'[q] /\ pc'[q] \in {"committed", "resolved"}

\* What a request writes to a session it did not create is what it asked for: the
\* agent and the cap that the owner chose survive every turn and every command that
\* does not name others, and a chat takes a session from the orchestrator only.
ChoicesStay ==
    [][\A q \in Requests : Commits(q) /\ sessions[on[q]] # Missing =>
        LET old == sessions[on[q]]
            new == sessions'[on[q]]
        IN /\ new.cap # old.cap => new.cap = req[q].cap
           /\ new.agent # old.agent =>
                /\ new.agent = req[q].agent
                /\ req[q].act = "agent" \/ seen[q].agent = "orchestrator"]_vars

\* `/lifeos cancel` hits the most recent run of the session, except for runs that were
\* served together with that run or with the command.
CancelHitsLast ==
    [][\A q, r \in Requests :
        (/\ Commits(q) /\ req[q].act = "cancel"
         /\ r \in RunsOf(on[q]) /\ r # seen[q].last /\ pc'[q] = "committed") =>
            \/ runs[r].at < runs[seen[q].last].at
            \/ Met(r, seen[q].last)
            \/ Met(r, q)]_vars

=============================================================================

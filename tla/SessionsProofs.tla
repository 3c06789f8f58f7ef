---------------------------- MODULE SessionsProofs ----------------------------
(* What the runs of Sessions check, for any number of requests, channels,       *)
(* threads and agents.                                                          *)
(*                                                                              *)
(* One invariant carries all of it.  Its heart is MetOpen: requests that are    *)
(* open together have met.  What a request found when it came in (no session of *)
(* its channel, no row of the owner, the last run of its session) is true until *)
(* it ends, except for what another one has changed that was open meanwhile,    *)
(* and that one it has met.                                                     *)
EXTENDS Sessions, FiniteSetTheorems, WellFoundedInduction, TLAPS

\* The stages of a request that holds a row, and of one that is being served.
Holding == {"creating", "bound", "running", "ending", "resolving", "loaded"}
Serving == Holding \cup {"resolved"}

\* The last run that a row of session s names has been committed, and is one of s.
LastIsRun(s, row) ==
    row.last # Missing => /\ row.last \in Requests
                          /\ runs[row.last] # Missing /\ runs[row.last].session = s

\* What a request asked for, and the stages it can be in.
Asking(q) ==
    /\ pc[q] \in Serving \cup Ended
    /\ IF pc[q] = "unsent" THEN req[q] = NoRequest
                           ELSE req[q] \in Asks \/ req[q] = [NoRequest EXCEPT !.act = "post"]
    /\ pc[q] \in {"bound", "running", "ending"} => req[q].act \in {"chat", "post"}
    /\ pc[q] = "resolving" => req[q].act \in Creations \cup Commands
    /\ pc[q] \in {"resolved", "loaded"} => req[q].act \in Commands

\* The row a request found, and what it has changed of it.
Holds(q) ==
    /\ seen[q] \in Row /\ mine[q] \in Row
    /\ \A c \in {"channel", "thread", "last"} : mine[q][c] = seen[q][c]
    /\ LastIsRun(on[q], seen[q])
    /\ mine[q].cap # seen[q].cap => mine[q].cap = req[q].cap
    /\ mine[q].agent # seen[q].agent =>
          /\ mine[q].agent = req[q].agent
          /\ req[q].act = "agent" \/ seen[q].agent = "orchestrator"
    /\ pc[q] = "ending" => mine[q].touched > 0

\* A request is at work on a session that is stored, or on its own, which it creates.
Working(q) ==
    /\ on[q] \in Requests
    /\ sessions[on[q]] = Missing => on[q] = q /\ pc[q] \in Holding \ {"loaded"}
                                    /\ req[q].act \in {"chat"} \cup Creations \cup Commands
                                    /\ mine[q].channel = req[q].at.channel
    /\ pc[q] = "creating" => sessions[on[q]] = Missing
    /\ adds[q] => on[q] = q /\ sessions[q] = Missing
    /\ pc[q] = "loaded" /\ req[q].act = "cancel" => seen[q].last # Missing

Served(q) ==
    /\ Asking(q)
    /\ Open(q) => Working(q)
    /\ pc[q] \in Holding => Holds(q)
    /\ ~Open(q) => ~adds[q] /\ on[q] \in Requests \cup {Missing}

StoredOK ==
    /\ \A s \in Requests : sessions[s] # Missing =>
          /\ sessions[s] \in Row /\ LastIsRun(s, sessions[s])
          /\ pc[s] # "unsent"
    /\ \A q \in Requests : runs[q] # Missing =>
          /\ runs[q] \in Run /\ sessions[runs[q].session] # Missing
          /\ pc[q] = "committed"

Maps ==
    /\ DOMAIN sessions = Requests /\ DOMAIN runs = Requests
    /\ DOMAIN pc = Requests /\ DOMAIN req = Requests /\ DOMAIN on = Requests
    /\ DOMAIN seen = Requests /\ DOMAIN mine = Requests
    /\ locks \in [Requests -> BOOLEAN] /\ adds \in [Requests -> BOOLEAN]
    /\ user \in BOOLEAN /\ clock \in Nat

MetOpen(q) == \A o \in Requests : Open(q) /\ Open(o) /\ q # o => Met(q, o)

\* A turn that ends is later than every other run it has not met.
EndsLast(q) ==
    \A r \in Requests : pc[q] = "ending" /\ runs[r] # Missing =>
        runs[r].at < mine[q].touched \/ Met(r, q)

\* A request that creates a session has met whoever made one of its channel.
Made(s) == sessions[s] # Missing /\ req[s].act \notin Creations

Pending(q) == Open(q) /\ sessions[on[q]] = Missing /\ req[q].act \notin Creations

CreatesFirst(q) ==
    \A s \in Requests :
        Pending(q) /\ Made(s) /\ sessions[s].channel = mine[q].channel => Met(s, q)

\* A request that adds the owner's row although there is one, or was refused for it,
\* has met who added it.
AddsByRace(q) ==
    (adds[q] /\ user) \/ pc[q] = "refused" =>
        \E o \in Requests : Met(q, o) /\ sessions[o] # Missing

\* A cancel goes for the run that was the last one, or has met who ran since.
CancelsLast(q) ==
    \A r \in Requests :
        (/\ pc[q] = "loaded" /\ req[q].act = "cancel"
         /\ runs[r] # Missing /\ runs[r].session = on[q] /\ r # seen[q].last) =>
            \/ runs[r].at < runs[seen[q].last].at
            \/ Met(r, seen[q].last)
            \/ Met(r, q)

Races(q) ==
    MetOpen(q) /\ EndsLast(q) /\ CreatesFirst(q) /\ AddsByRace(q) /\ CancelsLast(q)

SessionsInv ==
    /\ Maps /\ StoredOK
    /\ \A q \in Requests : Served(q)
    /\ \A q \in Requests : Races(q)
    /\ LastRunIsLatest /\ OneSessionPerPlace

-----------------------------------------------------------------------------
(* Rows.                                                                        *)

ColumnsOfRow == {"agent", "cap", "channel", "thread", "last", "touched"}

\* A row, column by column.
LEMMA RowByColumn ==
    ASSUME NEW r
    PROVE  r \in Row <=>
             /\ r = [c \in ColumnsOfRow |-> r[c]]
             /\ r.agent \in Named /\ r.cap \in 1..50
             /\ r.channel \in Channels \cup Threads
             /\ r.thread \in Channels \cup Threads \cup {Missing}
             /\ r.last \in Requests \cup {Missing}
             /\ r.touched \in 0..clock
BY DEF Row, ColumnsOfRow

\* What a commit leaves of a row is a row, and each column of it is the one the request
\* changed or the one that was there.
LEMMA WrittenColumns ==
    ASSUME NEW q \in Requests, NEW row \in Row
    PROVE  /\ sessions[on[q]] = Missing => Written(q, row) = row
           /\ sessions[on[q]] # Missing =>
                \A c \in ColumnsOfRow :
                    Written(q, row)[c] =
                        IF row[c] # seen[q][c] THEN row[c] ELSE sessions[on[q]][c]
<1>1. DOMAIN row = ColumnsOfRow
    BY DEF Row, ColumnsOfRow
<1> QED BY <1>1 DEF Written

LEMMA WrittenIsRow ==
    ASSUME NEW q \in Requests, NEW row \in Row,
           sessions[on[q]] # Missing => sessions[on[q]] \in Row
    PROVE  Written(q, row) \in Row
<1>1. CASE sessions[on[q]] = Missing
    BY <1>1 DEF Written
<1>2. CASE sessions[on[q]] # Missing
    <2> DEFINE W == Written(q, row)
    <2>1. DOMAIN row = ColumnsOfRow
        BY DEF Row, ColumnsOfRow
    <2>2. W = [c \in ColumnsOfRow |->
                  IF row[c] # seen[q][c] THEN row[c] ELSE sessions[on[q]][c]]
        BY <1>2, <2>1 DEF Written
    <2>3. \A c \in ColumnsOfRow : W[c] = row[c] \/ W[c] = sessions[on[q]][c]
        BY <2>2
    <2>4. W = [c \in ColumnsOfRow |-> W[c]]
        BY <2>2
    <2> HIDE DEF W
    <2>5. sessions[on[q]] \in Row
        BY <1>2
    <2>6. /\ W.agent = row.agent \/ W.agent = sessions[on[q]].agent
          /\ W.cap = row.cap \/ W.cap = sessions[on[q]].cap
          /\ W.channel = row.channel \/ W.channel = sessions[on[q]].channel
          /\ W.thread = row.thread \/ W.thread = sessions[on[q]].thread
          /\ W.last = row.last \/ W.last = sessions[on[q]].last
          /\ W.touched = row.touched \/ W.touched = sessions[on[q]].touched
        BY <2>3 DEF ColumnsOfRow
    <2>7. /\ W.agent \in Named /\ W.cap \in 1..50
          /\ W.channel \in Channels \cup Threads
          /\ W.thread \in Channels \cup Threads \cup {Missing}
          /\ W.last \in Requests \cup {Missing}
          /\ W.touched \in 0..clock
        BY <2>5, <2>6, RowByColumn
    <2>8. W \in Row
        BY <2>4, <2>7, RowByColumn
    <2> QED BY <2>8 DEF W
<1> QED BY <1>1, <1>2

\* Rows stay rows as time goes by and messages come in.
LEMMA RowsGrow ==
    ASSUME clock \in Nat, clock' \in Nat, clock <= clock', Named \subseteq Named'
    PROVE  Row \subseteq Row' /\ Run \subseteq Run'
<1>1. 0..clock \subseteq 0..clock' /\ 1..clock \subseteq 1..clock'
    OBVIOUS
<1> QED BY <1>1 DEF Row, Run

-----------------------------------------------------------------------------
(* A step of one request, seen from the others.                                 *)

\* What a step of q leaves as it is.
Elsewhere(q) ==
    \A o \in Requests \ {q} :
        /\ pc'[o] = pc[o] /\ req'[o] = req[o] /\ on'[o] = on[o]
        /\ seen'[o] = seen[o] /\ mine'[o] = mine[o]
        /\ locks'[o] = locks[o] /\ adds'[o] = adds[o]

\* Sessions, runs and the owner's row stay; only q adds some, while it is served.
Grows(q) ==
    /\ clock' \in Nat /\ clock <= clock'
    /\ Named \subseteq Named'
    /\ met \subseteq met'
    /\ user => user'
    /\ \A s \in Requests : sessions[s] # Missing =>
          /\ sessions'[s] # Missing /\ sessions'[s].channel = sessions[s].channel
          /\ req'[s] = req[s]
    /\ \A r \in Requests : runs[r] # Missing =>
          /\ runs'[r] # Missing
          /\ runs'[r].session = runs[r].session /\ runs'[r].at = runs[r].at
    /\ \A s \in Requests : sessions[s] = Missing /\ sessions'[s] # Missing => s = q /\ Open(q)
    /\ \A r \in Requests : runs[r] = Missing /\ runs'[r] # Missing => r = q /\ Open(q)
    /\ user' /\ ~user => Open(q) /\ sessions'[q] # Missing

\* The others keep what they know and have to do.
LEMMA OthersServed ==
    ASSUME clock \in Nat,
           NEW q \in Requests, Elsewhere(q), Grows(q),
           NEW o \in Requests \ {q}, Served(o)
    PROVE  Served(o)'
<1>1. /\ pc'[o] = pc[o] /\ req'[o] = req[o] /\ on'[o] = on[o]
      /\ seen'[o] = seen[o] /\ mine'[o] = mine[o]
      /\ locks'[o] = locks[o] /\ adds'[o] = adds[o]
    BY DEF Elsewhere
<1>2. Row \subseteq Row'
    BY RowsGrow DEF Grows
<1>3. Asking(o)'
    BY <1>1 DEF Served, Asking
<1>4. Open(o)' <=> Open(o)
    BY <1>1 DEF Open
<1>5. ASSUME Open(o)
      PROVE  Working(o)'
    <2>1. Working(o)
        BY <1>5 DEF Served
    <2>2. /\ sessions[on[o]] # Missing => sessions'[on[o]] # Missing
          /\ on[o] = o /\ sessions[o] = Missing => sessions'[o] = Missing
        BY <2>1 DEF Grows, Working
    <2> QED BY <1>1, <2>1, <2>2 DEF Working
<1>6. ASSUME pc[o] \in Holding
      PROVE  Holds(o)'
    <2>1. Holds(o)
        BY <1>6 DEF Served
    <2>2. LastIsRun(on[o], seen[o])'
        BY <1>1, <2>1 DEF Holds, LastIsRun, Grows
    <2> QED BY <1>1, <1>2, <2>1, <2>2 DEF Holds
<1> QED BY <1>1, <1>3, <1>4, <1>5, <1>6 DEF Served

LEMMA OthersRaces ==
    ASSUME Maps, StoredOK, \A p \in Requests : Served(p),
           NEW q \in Requests, Elsewhere(q), Grows(q), MetOpen(q), MetOpen(q)',
           NEW o \in Requests \ {q}, Races(o)
    PROVE  Races(o)'
<1>1. /\ pc'[o] = pc[o] /\ req'[o] = req[o] /\ on'[o] = on[o]
      /\ seen'[o] = seen[o] /\ mine'[o] = mine[o]
      /\ locks'[o] = locks[o] /\ adds'[o] = adds[o]
    BY DEF Elsewhere
<1>2. Open(o)' <=> Open(o)
    BY <1>1 DEF Open
<1>3. \A p, r \in Requests : Met(p, r) => Met(p, r)'
    BY DEF Met, Grows
<1>4. \A p, r \in Requests : Met(p, r) <=> Met(r, p)
    BY DEF Met
<1>5. \A p, r \in Requests : Met(p, r)' <=> Met(r, p)'
    BY DEF Met
\* Whoever is open meets q when q adds something.
<1>6. Open(o) /\ Open(q) => Met(q, o)' /\ Met(o, q)'
    BY <1>3, <1>4 DEF MetOpen
<1>7. MetOpen(o)'
    <2> SUFFICES ASSUME NEW p \in Requests, Open(o)', Open(p)', o # p
                 PROVE  Met(o, p)'
        BY DEF MetOpen
    <2>1. CASE p = q
        BY <2>1, <1>5 DEF MetOpen
    <2>2. CASE p # q
        <3>1. Open(p)
            BY <2>2 DEF Open, Elsewhere
        <3>2. Open(o) /\ MetOpen(o)
            BY <1>2 DEF Races
        <3>3. Met(o, p)
            BY <3>1, <3>2 DEF MetOpen
        <3> QED BY <3>3, <1>3
    <2> QED BY <2>1, <2>2
<1>8. EndsLast(o)'
    <2> SUFFICES ASSUME NEW r \in Requests, pc[o] = "ending", runs'[r] # Missing
                 PROVE  runs'[r].at < mine[o].touched \/ Met(r, o)'
        BY <1>1 DEF EndsLast
    <2>1. EndsLast(o) /\ Open(o)
        BY DEF Races, Open, Ended
    <2>2. CASE runs[r] # Missing
        <3>1. runs'[r].at = runs[r].at
            BY <2>2 DEF Grows
        <3>2. runs[r].at < mine[o].touched \/ Met(r, o)
            BY <2>1, <2>2 DEF EndsLast
        <3> QED BY <3>1, <3>2, <1>3
    <2>3. CASE runs[r] = Missing
        BY <2>1, <2>3, <1>6 DEF Grows
    <2> QED BY <2>2, <2>3
<1>9. CreatesFirst(o)'
    <2> SUFFICES ASSUME NEW s \in Requests, Pending(o)', Made(s)',
                        sessions'[s].channel = mine[o].channel
                 PROVE  Met(s, o)'
        BY <1>1 DEF CreatesFirst
    <2>1. Pending(o)
        <3>1. Open(o) /\ Working(o)
            BY <1>2 DEF Pending, Served
        <3>2. on[o] \in Requests /\ sessions'[on[o]] = Missing
            BY <1>1, <3>1 DEF Pending, Working
        <3>3. sessions[on[o]] = Missing
            BY <3>2 DEF Grows
        <3> QED BY <1>1, <3>1, <3>3 DEF Pending
    <2>2. CASE sessions[s] # Missing
        <3>1. sessions'[s].channel = sessions[s].channel /\ Made(s)
            BY <2>2 DEF Grows, Made
        <3>2. Met(s, o)
            BY <2>1, <3>1 DEF Races, CreatesFirst
        <3> QED BY <3>2, <1>3
    <2>3. CASE sessions[s] = Missing
        <3>1. s = q /\ Open(q)
            BY <2>3 DEF Grows, Made
        <3> QED BY <2>1, <3>1, <1>6 DEF Pending
    <2> QED BY <2>2, <2>3
<1>10. AddsByRace(o)'
    <2> SUFFICES ASSUME (adds[o] /\ user') \/ pc[o] = "refused"
                 PROVE  \E p \in Requests : Met(o, p)' /\ sessions'[p] # Missing
        BY <1>1 DEF AddsByRace
    <2>1. CASE user \/ pc[o] = "refused"
        <3>1. PICK p \in Requests : Met(o, p) /\ sessions[p] # Missing
            BY <2>1 DEF Races, AddsByRace
        <3> QED BY <3>1, <1>3 DEF Grows
    <2>2. CASE ~(user \/ pc[o] = "refused")
        <3>1. adds[o] /\ Open(q) /\ sessions'[q] # Missing
            BY <2>2 DEF Grows
        <3>2. Open(o)
            BY <3>1 DEF Served
        <3> QED BY <3>1, <3>2, <1>6
    <2> QED BY <2>1, <2>2
<1>11. CancelsLast(o)'
    <2> SUFFICES ASSUME NEW r \in Requests,
                        pc[o] = "loaded", req[o].act = "cancel", runs'[r] # Missing,
                        runs'[r].session = on[o], r # seen[o].last
                 PROVE  \/ runs'[r].at < runs'[seen[o].last].at
                        \/ Met(r, seen[o].last)'
                        \/ Met(r, o)'
        BY <1>1 DEF CancelsLast
    <2>1. Open(o) /\ Working(o) /\ Holds(o) /\ CancelsLast(o)
        BY DEF Races, Served, Open, Ended, Holding
    <2>2. seen[o].last \in Requests /\ runs[seen[o].last] # Missing
        BY <2>1 DEF Working, Holds, LastIsRun
    <2>3. CASE runs[r] # Missing
        <3>1. /\ runs'[r].at = runs[r].at /\ runs'[r].session = runs[r].session
              /\ runs'[seen[o].last].at = runs[seen[o].last].at
            BY <2>2, <2>3 DEF Grows
        <3>2. \/ runs[r].at < runs[seen[o].last].at
              \/ Met(r, seen[o].last)
              \/ Met(r, o)
            BY <2>1, <2>3, <3>1 DEF CancelsLast
        <3> QED BY <1>1, <3>1, <3>2 DEF Met, Grows
    <2>4. CASE runs[r] = Missing
        BY <2>1, <2>4, <1>6 DEF Grows
    <2> QED BY <2>3, <2>4
<1> QED BY <1>7, <1>8, <1>9, <1>10, <1>11 DEF Races

LEMMA StepKeeps ==
    ASSUME SessionsInv, NEW q \in Requests, Elsewhere(q), Grows(q),
           Maps', StoredOK', Served(q)', Races(q)', LastRunIsLatest', OneSessionPerPlace'
    PROVE  SessionsInv'
<1>1. \A o \in Requests : Served(o)'
    BY OthersServed DEF SessionsInv, Maps
<1>2. MetOpen(q) /\ MetOpen(q)'
    BY DEF SessionsInv, Races
<1>3. \A o \in Requests : Races(o)'
    BY <1>2, OthersRaces DEF SessionsInv
<1> QED BY <1>1, <1>3 DEF SessionsInv

\* A step that stores nothing.
LEMMA QuietKeeps ==
    ASSUME SessionsInv, NEW q \in Requests, Elsewhere(q), Maps',
           UNCHANGED <<sessions, runs, user>>, clock <= clock', met \subseteq met',
           Named \subseteq Named',
           pc[q] # "committed", pc'[q] # "unsent", pc[q] # "unsent" => req'[q] = req[q],
           Served(q)', Races(q)'
    PROVE  SessionsInv'
<1>1. Row \subseteq Row' /\ Run \subseteq Run'
    BY RowsGrow DEF SessionsInv, Maps
<1>2. \A s \in Requests : sessions[s] # Missing => req'[s] = req[s]
    BY DEF SessionsInv, StoredOK, Elsewhere
<1>3. Grows(q)
    BY <1>2 DEF Grows, SessionsInv, Maps
<1>4. StoredOK'
    <2>1. \A s \in Requests : pc[s] # "unsent" => pc'[s] # "unsent"
        BY DEF Elsewhere
    <2>2. \A r \in Requests : pc[r] = "committed" => pc'[r] = "committed"
        BY DEF Elsewhere
    <2> QED BY <1>1, <2>1, <2>2 DEF SessionsInv, StoredOK, LastIsRun
<1>5. \A p, r \in Requests : Met(p, r) => Met(p, r)'
    BY DEF Met
<1>6. LastRunIsLatest'
    <2> SUFFICES ASSUME NEW s \in Existing', RunsOf(s)' # {}
                 PROVE  /\ sessions[s].last \in RunsOf(s)'
                        /\ \A r \in RunsOf(s)' \ {sessions[s].last} :
                              \/ runs[r].at < runs[sessions[s].last].at
                              \/ {r, sessions[s].last} \in met'
        BY DEF LastRunIsLatest, Met
    <2>1. s \in Existing /\ RunsOf(s)' = RunsOf(s)
        BY DEF Existing, RunsOf
    <2>2. /\ sessions[s].last \in RunsOf(s)
          /\ \A r \in RunsOf(s) \ {sessions[s].last} :
                runs[r].at < runs[sessions[s].last].at \/ {r, sessions[s].last} \in met
        BY <2>1 DEF SessionsInv, LastRunIsLatest, Met
    <2> QED BY <2>1, <2>2
<1>7. OneSessionPerPlace'
    <2> SUFFICES ASSUME NEW s \in Requests, NEW o \in Requests, Made(s)', Made(o)',
                        s # o, sessions[s].channel = sessions[o].channel
                 PROVE  Met(s, o)'
        BY DEF OneSessionPerPlace, Existing, Made
    <2>1. Made(s) /\ Made(o)
        BY <1>2 DEF Made
    <2> QED BY <2>1, <1>5 DEF SessionsInv, OneSessionPerPlace, Existing, Made
<1> QED BY <1>3, <1>4, <1>6, <1>7, StepKeeps

-----------------------------------------------------------------------------
(* What requests ask for.                                                       *)

LEMMA WhatIsAsked ==
    ASSUME NEW r \in Asks
    PROVE  /\ r.act \in {"chat"} \cup Creations \cup Commands
           /\ r.at.channel \in Channels \cup Threads
           /\ r.at.thread \in Channels \cup Threads \cup {Missing}
           /\ r.agent \in Asked \cup {Missing}
           /\ r.cap # Missing => r.cap \in 1..50
<1>1. /\ r.act \in {"chat"} \cup Creations \cup Commands
      /\ r.at \in PlacesFor(r.act)
      /\ r.agent \in AgentsFor(r.act)
      /\ r.cap \in CapsFor(r.act)
      /\ Caps \subseteq 1..50
    BY SessionAssumption
<1>2. r.at \in Places \cup ThreadPlaces
    BY <1>1 DEF PlacesFor
<1>3. \A p \in Places \cup ThreadPlaces :
         /\ p.channel \in Channels \cup Threads
         /\ p.thread \in Channels \cup Threads \cup {Missing}
    BY DEF Places, ThreadPlaces
<1>4. r.agent \in Asked \cup {Missing}
    BY <1>1 DEF AgentsFor
<1>5. r.cap # Missing => r.cap \in 1..50
    BY <1>1 DEF CapsFor
<1> QED BY <1>1, <1>2, <1>3, <1>4, <1>5

\* Every agent that a session can have is one there is or one that was asked for.
LEMMA NamedIsAsked ==
    ASSUME \A q \in Requests : Served(q)
    PROVE  Named \subseteq Agents \cup Asked
<1> SUFFICES ASSUME NEW q \in Requests, req[q].act = "chat", req[q].agent # Missing
             PROVE  req[q].agent \in Asked
    BY DEF Named
<1>1. req[q] \in Asks
    BY DEF Served, Asking, NoRequest, Request
<1> QED BY <1>1, WhatIsAsked

LEMMA RowsAreThere ==
    ASSUME Named \subseteq Agents \cup Asked, clock \in Nat
    PROVE  Missing \notin Row /\ Missing \notin Run
<1>1. Row \subseteq SessionColumns
    BY DEF Row, SessionColumns
<1>2. Run \subseteq RunColumns
    BY DEF Run, RunColumns
<1> QED BY <1>1, <1>2, SessionAssumption

LEMMA NewRowIsRow ==
    ASSUME clock \in Nat, clock' = clock + 1, Named \subseteq Named', NEW r \in Asks
    PROVE  /\ NewRow(r) \in Row'
           /\ NewRow(r).channel = r.at.channel
           /\ NewRow(r).last = Missing
           /\ NewRow(r).touched > 0
<1>1. Agents \subseteq Named'
    BY DEF Named
<1>2. "orchestrator" \in Agents /\ DefaultCap \in 1..50
    BY SessionAssumption
<1>3. /\ NewRow(r).agent \in Agents
      /\ NewRow(r).cap \in 1..50
    BY <1>2, WhatIsAsked DEF NewRow, AgentOr
<1>4. /\ NewRow(r).channel \in Channels \cup Threads
      /\ NewRow(r).thread \in Channels \cup Threads \cup {Missing}
      /\ NewRow(r).last = Missing
      /\ NewRow(r).touched \in 0..clock'
      /\ NewRow(r).touched > 0
      /\ NewRow(r).channel = r.at.channel
    BY WhatIsAsked DEF NewRow
<1>5. NewRow(r) = [c \in ColumnsOfRow |-> NewRow(r)[c]]
    BY DEF NewRow, ColumnsOfRow
<1> HIDE DEF NewRow
<1>6. NewRow(r) \in Row'
    BY <1>1, <1>3, <1>4, <1>5 DEF Row, ColumnsOfRow
<1> QED BY <1>4, <1>6

-----------------------------------------------------------------------------
(* The steps that store nothing.                                                *)

\* A step that keeps what was found, and goes on with it or gives it up.
LEMMA RacesStay ==
    ASSUME NEW q \in Requests, Races(q), Elsewhere(q),
           UNCHANGED <<sessions, runs, user, req, met>>,
           Open(q)' => Open(q) /\ on'[q] = on[q] /\ mine'[q].channel = mine[q].channel,
           pc'[q] \notin {"ending", "loaded"},
           adds'[q] => adds[q], pc'[q] = "refused" => adds[q] /\ user
    PROVE  Races(q)'
<1>1. \A o \in Requests : Open(o)' => Open(o)
    BY DEF Open, Elsewhere
<1>2. MetOpen(q)'
    BY <1>1 DEF Races, MetOpen, Met
<1>3. EndsLast(q)' /\ CancelsLast(q)'
    BY DEF EndsLast, CancelsLast
<1>4. CreatesFirst(q)'
    BY DEF Races, CreatesFirst, Pending, Made, Met
<1>5. AddsByRace(q)'
    BY DEF Races, AddsByRace, Met
<1> QED BY <1>2, <1>3, <1>4, <1>5 DEF Races

LEMMA InsertKeeps ==
    ASSUME SessionsInv, NEW q \in Requests, Insert(q)
    PROVE  SessionsInv'
<1> USE DEF Forget
<1>1. Maps /\ Served(q) /\ Races(q) /\ pc[q] = "creating"
    BY DEF SessionsInv, Insert
<1>2. Open(q) /\ Working(q) /\ Holds(q) /\ Asking(q)
    BY <1>1 DEF Served, Open, Ended, Holding
<1>3. Maps'
    BY <1>1 DEF Insert, Maps, rows
<1>4. Elsewhere(q)
    BY <1>1 DEF Insert, Elsewhere, Maps
<1>5. UNCHANGED <<sessions, runs, user, clock, req, met, on>> /\ Named' = Named
    BY DEF Insert, rows, Named
<1>6. CASE adds[q] /\ user
    <2>1. pc'[q] = "refused" /\ ~adds'[q] /\ ~locks'[q]
        BY <1>1, <1>6 DEF Insert, Maps
    <2>2. Served(q)'
        BY <1>2, <1>5, <2>1 DEF Served, Asking, Working, Open, Ended, Holding
    <2>3. Races(q)'
        BY <1>1, <1>4, <1>5, <1>6, <2>1, RacesStay DEF Open, Ended
    <2> QED BY <1>1, <1>3, <1>4, <1>5, <2>1, <2>2, <2>3, QuietKeeps DEF Maps
<1>7. CASE ~(adds[q] /\ user)
    <2>1. /\ pc'[q] = IF req[q].act = "chat" THEN "bound" ELSE "resolving"
          /\ seen'[q] = seen[q] /\ mine'[q] = mine[q] /\ adds'[q] = adds[q]
        BY <1>1, <1>7 DEF Insert, Maps
    <2>2. Asking(q)'
        BY <1>1, <1>2, <1>5, <2>1 DEF Asking, Working, Serving, Holding
    <2>3. Working(q)'
        BY <1>1, <1>2, <1>5, <2>1 DEF Working, Holding
    <2>4. Holds(q)'
        BY <1>2, <1>5, <2>1 DEF Holds, Row, LastIsRun
    <2>5. Served(q)'
        BY <2>1, <2>2, <2>3, <2>4 DEF Served, Open, Ended
    <2>6. Races(q)'
        BY <1>1, <1>2, <1>4, <1>5, <2>1, RacesStay DEF Open, Ended
    <2> QED BY <1>1, <1>3, <1>4, <1>5, <2>1, <2>5, <2>6, QuietKeeps DEF Maps
<1> QED BY <1>6, <1>7

LEMMA StartRunKeeps ==
    ASSUME SessionsInv, NEW q \in Requests, StartRun(q)
    PROVE  SessionsInv'
<1>1. Maps /\ Served(q) /\ Races(q) /\ pc[q] = "bound"
    BY DEF SessionsInv, StartRun
<1>2. Open(q) /\ Working(q) /\ Holds(q) /\ Asking(q)
    BY <1>1 DEF Served, Open, Ended, Holding
<1>3. Maps'
    <2>1. locks' \in [Requests -> BOOLEAN]
        <3>1. (locks[q] \/ mine[q] # seen[q]) \in BOOLEAN
            BY <1>1 DEF Maps
        <3> QED BY <1>1, <3>1 DEF StartRun, Maps
    <2> QED BY <1>1, <2>1 DEF StartRun, Maps, rows
<1>4. Elsewhere(q)
    BY <1>1 DEF StartRun, Elsewhere, Maps
<1>5. /\ UNCHANGED <<sessions, runs, user, clock, req, met, on, seen, mine, adds>>
      /\ Named' = Named
    BY DEF StartRun, rows, Named
<1>6. pc'[q] = "running"
    BY <1>1 DEF StartRun, Maps
<1>7. Asking(q)'
    BY <1>1, <1>2, <1>5, <1>6 DEF Asking, Serving, Holding
<1>8. Working(q)'
    BY <1>1, <1>2, <1>5, <1>6 DEF Working, Holding
<1>9. Holds(q)'
    BY <1>2, <1>5, <1>6 DEF Holds, Row, LastIsRun
<1>10. Served(q)'
    BY <1>6, <1>7, <1>8, <1>9 DEF Served, Open, Ended
<1>11. Races(q)'
    BY <1>1, <1>2, <1>4, <1>5, <1>6, RacesStay DEF Open, Ended
<1> QED BY <1>1, <1>3, <1>4, <1>5, <1>6, <1>10, <1>11, QuietKeeps DEF Maps

LEMMA AbortKeeps ==
    ASSUME SessionsInv, NEW q \in Requests, Abort(q)
    PROVE  SessionsInv'
<1> USE DEF Forget
<1>1. Maps /\ Served(q) /\ Races(q) /\ Open(q)
    BY DEF SessionsInv, Abort
<1>2. Maps'
    BY <1>1 DEF Abort, Maps, rows
<1>3. Elsewhere(q)
    BY <1>1 DEF Abort, Elsewhere, Maps
<1>4. UNCHANGED <<sessions, runs, user, clock, req, met>> /\ Named' = Named
    BY DEF Abort, rows, Named
<1>5. pc'[q] = "aborted" /\ on'[q] = Missing /\ ~adds'[q] /\ ~locks'[q]
    BY <1>1 DEF Abort, Maps
<1>6. Served(q)'
    BY <1>1, <1>4, <1>5 DEF Served, Asking, Open, Ended, Holding
<1>7. Races(q)'
    BY <1>1, <1>3, <1>4, <1>5, RacesStay DEF Open, Ended
<1> QED BY <1>1, <1>2, <1>3, <1>4, <1>5, <1>6, <1>7, QuietKeeps DEF Maps, Open, Ended

\* A row that is stamped, and given an agent and a cap.
LEMMA StampedRow ==
    ASSUME clock \in Nat, clock' = clock + 1, Named \subseteq Named', NEW r \in Row,
           NEW n, n = [r EXCEPT !.touched = clock + 1, !.agent = n.agent, !.cap = n.cap],
           n.agent \in Named', n.cap \in 1..50
    PROVE  n \in Row' /\ n.touched = clock + 1
<1>1. /\ r = [c \in ColumnsOfRow |-> r[c]]
      /\ r.channel \in Channels \cup Threads
      /\ r.thread \in Channels \cup Threads \cup {Missing}
      /\ r.last \in Requests \cup {Missing}
    BY RowByColumn
<1>2. DOMAIN r = ColumnsOfRow
    BY <1>1
<1>3. /\ n.channel = r.channel /\ n.thread = r.thread /\ n.last = r.last
      /\ n.touched = clock + 1
      /\ DOMAIN n = ColumnsOfRow
    BY <1>2 DEF ColumnsOfRow
<1>4. n = [c \in ColumnsOfRow |-> n[c]]
    BY <1>2, <1>3
<1>5. clock + 1 \in 0..clock'
    OBVIOUS
<1> QED BY <1>1, <1>3, <1>4, <1>5 DEF Row, ColumnsOfRow

LEMMA EndTurnKeeps ==
    ASSUME SessionsInv, NEW q \in Requests, EndTurn(q)
    PROVE  SessionsInv'
<1>1. Maps /\ Served(q) /\ Races(q) /\ pc[q] = "running"
    BY DEF SessionsInv, EndTurn
<1>2. Open(q) /\ Working(q) /\ Holds(q) /\ Asking(q)
    BY <1>1 DEF Served, Open, Ended, Holding
<1>3. Maps'
    BY <1>1 DEF EndTurn, Maps
<1>4. Elsewhere(q)
    BY <1>1 DEF EndTurn, Elsewhere, Maps
<1>5. /\ UNCHANGED <<sessions, runs, user, req, met, on, seen, adds>>
      /\ Named' = Named /\ clock' = clock + 1 /\ clock \in Nat
    BY <1>1 DEF EndTurn, Named, Maps
<1>6. pc'[q] = "ending" /\ mine'[q] = [mine[q] EXCEPT !.touched = clock + 1]
    BY <1>1 DEF EndTurn, Maps
<1>7. /\ mine'[q] \in Row' /\ mine'[q].touched = clock + 1
      /\ \A c \in ColumnsOfRow \ {"touched"} : mine'[q][c] = mine[q][c]
    <2>1. mine[q] \in Row /\ DOMAIN mine[q] = ColumnsOfRow
        BY <1>2 DEF Holds, Row, ColumnsOfRow
    <2>2. \A c \in ColumnsOfRow \ {"touched"} : mine'[q][c] = mine[q][c]
        BY <1>6, <2>1
    <2>3. mine'[q].agent \in Named' /\ mine'[q].cap \in 1..50
        BY <1>5, <2>1, <2>2, RowByColumn DEF ColumnsOfRow
    <2>4. mine'[q] = [mine[q] EXCEPT !.touched = clock + 1, !.agent = mine'[q].agent,
                                     !.cap = mine'[q].cap]
        BY <1>6, <2>1, <2>2 DEF ColumnsOfRow
    <2>5. mine'[q] \in Row' /\ mine'[q].touched = clock + 1
        BY <1>5, <2>1, <2>3, <2>4, StampedRow
    <2> QED BY <2>2, <2>5
<1>8. /\ mine'[q].channel = mine[q].channel /\ mine'[q].thread = mine[q].thread
      /\ mine'[q].last = mine[q].last
      /\ mine'[q].agent = mine[q].agent /\ mine'[q].cap = mine[q].cap
    BY <1>7 DEF ColumnsOfRow
<1>9. Asking(q)'
    BY <1>1, <1>2, <1>5, <1>6 DEF Asking, Serving, Holding
<1>10. Working(q)'
    BY <1>1, <1>2, <1>5, <1>6, <1>8 DEF Working, Holding
<1>11. Holds(q)'
    <2>1. seen'[q] \in Row'
        BY <1>2, <1>5, RowsGrow DEF Holds
    <2>2. mine'[q].touched > 0
        BY <1>5, <1>7
    <2>3. LastIsRun(on[q], seen[q])'
        BY <1>2, <1>5 DEF Holds, LastIsRun
    <2>4. \A c \in {"channel", "thread", "last"} : mine'[q][c] = seen'[q][c]
        BY <1>2, <1>5, <1>7 DEF Holds, ColumnsOfRow
    <2> QED BY <1>2, <1>5, <1>7, <1>8, <2>1, <2>2, <2>3, <2>4 DEF Holds
<1>12. Served(q)'
    BY <1>6, <1>9, <1>10, <1>11 DEF Served, Open, Ended
<1>13. Races(q)'
    <2>1. \A o \in Requests : Open(o)' <=> Open(o)
        BY <1>1, <1>4, <1>6 DEF Open, Ended, Elsewhere
    <2>2. MetOpen(q)'
        BY <1>1, <1>5, <2>1 DEF Races, MetOpen, Met
    <2>3. EndsLast(q)'
        <3> SUFFICES ASSUME NEW r \in Requests, runs[r] # Missing
                     PROVE  runs[r].at < clock + 1
            BY <1>5, <1>7 DEF EndsLast
        <3>1. runs[r] \in Run
            BY DEF SessionsInv, StoredOK
        <3>2. runs[r].at \in 1..clock
            BY <3>1 DEF Run
        <3> QED BY <3>2, <1>5
    <2>4. CreatesFirst(q)'
        BY <1>1, <1>2, <1>5, <1>8 DEF Races, CreatesFirst, Pending, Made, Met
    <2>5. AddsByRace(q)' /\ CancelsLast(q)'
        BY <1>1, <1>5, <1>6 DEF Races, AddsByRace, CancelsLast, Met
    <2> QED BY <2>2, <2>3, <2>4, <2>5 DEF Races
<1> QED BY <1>1, <1>3, <1>4, <1>5, <1>6, <1>12, <1>13, QuietKeeps DEF Maps

LEMMA LoadKeeps ==
    ASSUME SessionsInv, NEW q \in Requests, Load(q)
    PROVE  SessionsInv'
<1> DEFINE row == sessions[on[q]]
<1>1. Maps /\ Served(q) /\ Races(q) /\ pc[q] = "resolved"
    BY DEF SessionsInv, Load
<1>2. Open(q) /\ Working(q) /\ Asking(q) /\ req[q].act \in Commands
    BY <1>1 DEF Served, Open, Ended, Serving, Asking
<1>3. on[q] \in Requests /\ row # Missing /\ ~adds[q]
    BY <1>1, <1>2 DEF Working, Holding
<1>4. Maps'
    BY <1>1 DEF Load, Maps
<1>5. Elsewhere(q)
    BY <1>1 DEF Load, Elsewhere, Maps
<1>6. UNCHANGED <<sessions, runs, user, req, met, on, adds>> /\ Named' = Named /\ clock \in Nat
    BY <1>1 DEF Load, Named, Maps
<1>7. CASE Idle(q, row)
    <2>1. pc'[q] = "none" /\ UNCHANGED <<clock, seen, mine>>
        BY <1>1, <1>7 DEF Load, Maps
    <2>2. Served(q)'
        BY <1>2, <1>3, <1>6, <2>1 DEF Served, Asking, Open, Ended, Holding
    <2>3. Races(q)'
        BY <1>1, <1>5, <1>6, <2>1, RacesStay DEF Open, Ended
    <2> QED BY <1>1, <1>4, <1>5, <1>6, <2>1, <2>2, <2>3, QuietKeeps DEF Maps
<1>8. CASE ~Idle(q, row)
    <2>1. /\ pc'[q] = "loaded" /\ seen'[q] = row /\ clock' = clock + 1
          /\ mine'[q] = [row EXCEPT !.touched = clock + 1,
                                    !.agent = IF req[q].act = "agent" THEN req[q].agent ELSE @,
                                    !.cap = IF req[q].act = "iterations" THEN req[q].cap ELSE @]
        BY <1>1, <1>8 DEF Load, Maps
    <2>2. row \in Row /\ LastIsRun(on[q], row)
        BY <1>3 DEF SessionsInv, StoredOK
    <2> HIDE DEF row
    <2>3. req[q] \in Asks
        BY <1>1, <1>2 DEF Asking, Commands, NoRequest, Request
    <2>4. DOMAIN row = ColumnsOfRow
        BY <2>2 DEF Row, ColumnsOfRow
    <2>5. /\ mine'[q].channel = row.channel /\ mine'[q].thread = row.thread
          /\ mine'[q].last = row.last
          /\ mine'[q].agent = IF req[q].act = "agent" THEN req[q].agent ELSE row.agent
          /\ mine'[q].cap = IF req[q].act = "iterations" THEN req[q].cap ELSE row.cap
        BY <2>1, <2>4 DEF ColumnsOfRow
    <2>6. mine'[q].agent \in Named' /\ mine'[q].cap \in 1..50
        <3>1. req[q].act = "agent" => req[q].agent \in Named'
            BY <1>6, <1>8 DEF Idle, Named
        <3>2. req[q].act = "iterations" => req[q].cap \in 1..50
            BY <1>8, <2>3, WhatIsAsked DEF Idle
        <3> QED BY <1>6, <2>2, <2>5, <3>1, <3>2, RowByColumn
    <2>7. mine'[q] \in Row' /\ mine'[q].touched = clock + 1
        <3>1. mine'[q] = [row EXCEPT !.touched = clock + 1, !.agent = mine'[q].agent,
                                     !.cap = mine'[q].cap]
            BY <2>1, <2>4, <2>5 DEF ColumnsOfRow
        <3> QED BY <1>6, <2>1, <2>2, <2>6, <3>1, StampedRow
    <2>8. Asking(q)'
        BY <1>1, <1>2, <1>6, <2>1 DEF Asking, Serving, Holding
    <2>9. Working(q)'
        <3>1. req[q].act = "cancel" => row.last # Missing
            BY <1>8 DEF Idle
        <3> QED BY <1>3, <1>6, <2>1, <3>1 DEF Working, row
    <2>10. Holds(q)'
        <3>1. seen'[q] \in Row'
            BY <1>6, <2>1, <2>2, RowsGrow
        <3>2. LastIsRun(on[q], seen[q])'
            BY <1>6, <2>1, <2>2 DEF LastIsRun
        <3> QED BY <1>6, <2>1, <2>5, <2>7, <3>1, <3>2 DEF Holds
    <2>11. Served(q)'
        BY <2>1, <2>8, <2>9, <2>10 DEF Served, Open, Ended
    <2>12. Races(q)'
        <3>1. \A o \in Requests : Open(o)' <=> Open(o)
            BY <1>2, <1>5, <2>1 DEF Open, Ended, Elsewhere
        <3>2. MetOpen(q)'
            BY <1>1, <1>6, <3>1 DEF Races, MetOpen, Met
        <3>3. EndsLast(q)' /\ AddsByRace(q)'
            BY <1>1, <1>3, <1>6, <2>1 DEF EndsLast, AddsByRace
        <3>4. CreatesFirst(q)'
            BY <1>3, <1>6 DEF CreatesFirst, Pending, row
        <3>5. CancelsLast(q)'
            <4> SUFFICES ASSUME NEW r \in Requests, runs[r] # Missing,
                                runs[r].session = on[q], r # row.last
                         PROVE  runs[r].at < runs[row.last].at \/ {r, row.last} \in met
                BY <1>6, <2>1 DEF CancelsLast, Met
            <4>1. on[q] \in Existing /\ r \in RunsOf(on[q])
                BY <1>3 DEF Existing, RunsOf, row
            <4>2. LastRunIsLatest
                BY DEF SessionsInv
            <4> QED BY <4>1, <4>2 DEF LastRunIsLatest, Met, row
        <3> QED BY <3>2, <3>3, <3>4, <3>5 DEF Races
    <2>13. clock <= clock' /\ met \subseteq met' /\ Named \subseteq Named'
        BY <1>6, <2>1
    <2> QED BY <1>1, <1>4, <1>5, <1>6, <2>1, <2>11, <2>12, <2>13, QuietKeeps
<1> QED BY <1>7, <1>8

-----------------------------------------------------------------------------
(* How a request comes in.                                                      *)

\* A set of numbers has a least one.
LEMMA LeastOf ==
    ASSUME NEW S \in SUBSET Nat, S # {}
    PROVE  \E n \in S : \A m \in S : n <= m
<1> DEFINE Below == {0..n : n \in S}
<1>1. Below \subseteq FiniteSubsetsOf(Nat)
  <2>1. \A n \in Nat : 0..n \in SUBSET Nat /\ IsFiniteSet(0..n)
    BY FS_Interval
  <2>2. QED
    BY <2>1 DEF FiniteSubsetsOf
<1>2. Below # {}
  OBVIOUS
<1> HIDE DEF Below
<1>3. PICK x \in Below : \A y \in Below : ~(<<y, x>> \in StrictSubsetOrdering(Nat))
  BY <1>1, <1>2, FS_StrictSubsetOrderingWellFounded, WFMin
<1>4. PICK n \in S : x = 0..n
  BY <1>3 DEF Below
<1>5. ASSUME NEW m \in S PROVE n <= m
  <2>1. SUFFICES ASSUME m < n PROVE FALSE
    OBVIOUS
  <2>2. 0..m \in Below
    BY DEF Below
  <2>3. 0..m \subseteq 0..n /\ n \in 0..n /\ n \notin 0..m
    BY <2>1
  <2>4. <<0..m, x>> \in StrictSubsetOrdering(Nat)
    BY <1>4, <2>3 DEF StrictSubsetOrdering
  <2>5. QED
    BY <1>3, <2>2, <2>4
<1> QED
  BY <1>5

\* Of sessions there are, one is the most recently updated.
LEMMA LatestIsThere ==
    ASSUME SessionsInv, NEW S \in SUBSET Existing, S # {}
    PROVE  Latest(S) \in S
<1> DEFINE ages == {clock - sessions[s].touched : s \in S}
<1>1. clock \in Nat
    BY DEF SessionsInv, Maps
<1>2. \A s \in S : sessions[s].touched \in 0..clock
    BY DEF SessionsInv, StoredOK, Existing, Row
<1>3. ages \in SUBSET Nat /\ ages # {}
    BY <1>1, <1>2
<1>4. PICK n \in ages : \A m \in ages : n <= m
    <2> HIDE DEF ages
    <2> QED BY <1>3, LeastOf
<1>5. PICK s \in S : n = clock - sessions[s].touched
    BY <1>4
<1>6. \A o \in S : sessions[o].touched <= sessions[s].touched
    <2> SUFFICES ASSUME NEW o \in S
                 PROVE  sessions[o].touched <= sessions[s].touched
        OBVIOUS
    <2>1. clock - sessions[s].touched <= clock - sessions[o].touched
        BY <1>4, <1>5
    <2> QED BY <1>1, <1>2, <2>1
<1> QED BY <1>6 DEF Latest

\* A place where no session is found is one of whose channel there is none.
LEMMA FindsAny ==
    ASSUME SessionsInv, NEW place
    PROVE  /\ Find(place) # Missing => Find(place) \in Existing
           /\ Find(place) = Missing =>
                \A s \in Existing : sessions[s].channel # place.channel
<1>1. OfThread(place) \in SUBSET Existing /\ OfChannel(place) \in SUBSET Existing
    BY DEF OfThread, OfChannel
<1>2. \A s \in Existing : s # Missing
    BY SessionAssumption DEF Existing
<1>3. CASE OfThread(place) # {}
    <2>1. Find(place) \in Existing
        BY <1>1, <1>3, LatestIsThere DEF Find
    <2> QED BY <1>2, <2>1
<1>4. CASE OfThread(place) = {} /\ OfChannel(place) # {}
    <2>1. Find(place) \in Existing
        BY <1>1, <1>4, LatestIsThere DEF Find
    <2> QED BY <1>2, <2>1
<1>5. CASE OfThread(place) = {} /\ OfChannel(place) = {}
    <2>1. Find(place) = Missing
        BY <1>5 DEF Find, Latest
    <2> QED BY <1>5, <2>1 DEF OfChannel
<1> QED BY <1>3, <1>4, <1>5

\* What is so of every request that comes in.
LEMMA Arrives ==
    ASSUME SessionsInv, NEW q \in Requests, NEW r, Arrive(q, r), DOMAIN pc' = Requests
    PROVE  /\ pc[q] = "unsent" /\ ~Open(q) /\ ~adds[q] /\ on[q] \in Requests \cup {Missing}
           /\ sessions[q] = Missing /\ runs[q] = Missing
           /\ req' = [req EXCEPT ![q] = r] /\ req'[q] = r
           /\ UNCHANGED <<sessions, runs, user>>
           /\ Named \subseteq Named'
           /\ met \subseteq met'
           /\ \A o \in Requests : Open(o) => {q, o} \in met'
<1>1. /\ pc[q] = "unsent"
      /\ req' = [req EXCEPT ![q] = r]
      /\ UNCHANGED <<sessions, runs, user>>
      /\ met' = met \cup {{q, o} : o \in InFlight}
    BY DEF Arrive
<1>2. ~Open(q) /\ ~adds[q] /\ on[q] \in Requests \cup {Missing}
    BY <1>1 DEF SessionsInv, Served, Open, Ended
<1>3. sessions[q] = Missing /\ runs[q] = Missing
    BY <1>1 DEF SessionsInv, StoredOK
<1>4. req[q] = NoRequest
    BY <1>1 DEF SessionsInv, Served, Asking
<1>5. DOMAIN req = Requests
    BY DEF SessionsInv, Maps
<1>6. Named \subseteq Named'
    <2>1. \A o \in Requests : req[o].act = "chat" => req'[o] = req[o]
        BY <1>1, <1>4, <1>5 DEF NoRequest, Request
    <2> QED BY <2>1 DEF Named
<1>7. \A o \in Requests : Open(o) => {q, o} \in met'
    BY <1>1 DEF InFlight
<1> QED BY <1>1, <1>2, <1>3, <1>5, <1>6, <1>7

\* Whoever comes in has met all that are open.
LEMMA ArrivesAmong ==
    ASSUME SessionsInv, NEW q \in Requests, NEW r, Arrive(q, r), DOMAIN pc' = Requests,
           Elsewhere(q)
    PROVE  MetOpen(q)'
<1> SUFFICES ASSUME NEW o \in Requests, Open(o)', o # q
             PROVE  {q, o} \in met'
    BY DEF MetOpen, Met
<1>1. Open(o)
    BY DEF Elsewhere, Open
<1> QED BY <1>1, Arrives

LEMMA SeekKeeps ==
    ASSUME SessionsInv, NEW q \in Requests, NEW r \in Asks, Arrive(q, r), Seek(q, r),
           r.act \notin Creations =>
               \A s \in Existing : sessions[s].channel # r.at.channel
    PROVE  SessionsInv'
<1>1. Maps
    BY DEF SessionsInv
<1>2. Maps'
    <2>1. MustAdd \in BOOLEAN
        BY <1>1 DEF MustAdd, Maps
    <2> QED BY <1>1, <2>1 DEF Arrive, Seek, Maps
<1>3. DOMAIN pc' = Requests
    BY <1>2 DEF Maps
<1>4. /\ pc[q] = "unsent" /\ sessions[q] = Missing /\ runs[q] = Missing
      /\ req'[q] = r /\ UNCHANGED <<sessions, runs, user>>
      /\ Named \subseteq Named' /\ met \subseteq met'
    BY <1>3, Arrives
<1>5. Elsewhere(q)
    BY <1>1 DEF Arrive, Seek, Elsewhere, Maps
<1>6. /\ pc'[q] = "creating" /\ on'[q] = q
      /\ seen'[q] = NewRow(r) /\ mine'[q] = NewRow(r)
      /\ adds'[q] = ~user /\ clock' = clock + 1 /\ clock \in Nat
    BY <1>1 DEF Seek, Maps, MustAdd
<1>7. /\ NewRow(r) \in Row' /\ NewRow(r).channel = r.at.channel
      /\ NewRow(r).last = Missing
    BY <1>4, <1>6, NewRowIsRow
<1>8. r.act \in {"chat"} \cup Creations \cup Commands
    BY WhatIsAsked
<1> HIDE DEF NewRow
<1>9. Served(q)'
    <2>1. Asking(q)'
        BY <1>4, <1>6 DEF Asking, Serving, Holding
    <2>2. Working(q)'
        BY <1>4, <1>6, <1>7, <1>8 DEF Working, Holding
    <2>3. Holds(q)'
        BY <1>6, <1>7 DEF Holds, LastIsRun
    <2> QED BY <1>6, <2>1, <2>2, <2>3 DEF Served, Open, Ended
<1>10. Races(q)'
    <2>1. MetOpen(q)'
        BY <1>3, <1>5, ArrivesAmong
    <2>2. EndsLast(q)' /\ CancelsLast(q)' /\ AddsByRace(q)'
        BY <1>4, <1>6 DEF EndsLast, CancelsLast, AddsByRace
    <2>3. CreatesFirst(q)'
        BY <1>4, <1>6, <1>7 DEF CreatesFirst, Pending, Made, Existing
    <2> QED BY <2>1, <2>2, <2>3 DEF Races
<1>11. clock <= clock' /\ pc'[q] # "unsent"
    BY <1>6
<1> QED BY <1>2, <1>4, <1>5, <1>9, <1>10, <1>11, QuietKeeps

\* A request that works on a session there is.
LEMMA BoundKeeps ==
    ASSUME SessionsInv, NEW q \in Requests, NEW r, Arrive(q, r), Maps', Elsewhere(q),
           r \in Asks \/ r = [NoRequest EXCEPT !.act = "post"],
           NEW s \in Existing, on'[q] = s, seen'[q] = sessions[s], ~adds'[q],
           clock <= clock',
           pc'[q] = IF r.act \in {"chat", "post"} THEN "bound" ELSE "resolving",
           mine'[q] \in Row',
           \A c \in {"channel", "thread", "last"} : mine'[q][c] = sessions[s][c],
           mine'[q].cap # sessions[s].cap => mine'[q].cap = r.cap,
           mine'[q].agent # sessions[s].agent =>
               mine'[q].agent = r.agent /\ sessions[s].agent = "orchestrator"
    PROVE  SessionsInv'
<1>1. DOMAIN pc' = Requests
    BY DEF Maps
<1>2. /\ pc[q] = "unsent" /\ req'[q] = r /\ UNCHANGED <<sessions, runs, user>>
      /\ Named \subseteq Named' /\ met \subseteq met'
    BY <1>1, Arrives
<1>3. clock \in Nat /\ clock' \in Nat
    BY DEF SessionsInv, Maps
<1>4. s \in Requests /\ sessions[s] # Missing
    BY DEF Existing
<1>5. sessions[s] \in Row' /\ LastIsRun(s, sessions[s])
    BY <1>2, <1>3, <1>4, RowsGrow DEF SessionsInv, StoredOK
<1>6. Asking(q)'
    <2>1. r.act \in {"chat", "post"} \cup Creations \cup Commands
        BY WhatIsAsked DEF NoRequest, Request
    <2> QED BY <1>2, <2>1 DEF Asking, Serving, Holding
<1>7. Working(q)'
    BY <1>2, <1>4 DEF Working
<1>8. Holds(q)'
    BY <1>2, <1>5 DEF Holds, LastIsRun
<1>9. Served(q)'
    BY <1>6, <1>7, <1>8 DEF Served, Open, Ended
<1>10. Races(q)'
    <2>1. MetOpen(q)'
        BY <1>1, ArrivesAmong
    <2>2. EndsLast(q)' /\ CancelsLast(q)' /\ AddsByRace(q)'
        BY DEF EndsLast, CancelsLast, AddsByRace
    <2>3. CreatesFirst(q)'
        BY <1>2, <1>4 DEF CreatesFirst, Pending
    <2> QED BY <2>1, <2>2, <2>3 DEF Races
<1> QED BY <1>2, <1>9, <1>10, QuietKeeps

LEMMA ResolveKeeps ==
    ASSUME SessionsInv, NEW q \in Requests, NEW r \in Asks, Resolve(q, r)
    PROVE  SessionsInv'
<1> DEFINE s == Find(r.at)
           row == sessions[s]
<1>1. Maps /\ Arrive(q, r) /\ r.act \in {"chat"} \cup Commands /\ clock \in Nat
    BY DEF SessionsInv, Resolve, Maps
<1>2. CASE s # Missing
    <2>1. s \in Existing /\ s \in Requests
        BY <1>2, FindsAny DEF Existing
    <2>2. /\ on' = [on EXCEPT ![q] = s]
          /\ seen' = [seen EXCEPT ![q] = row]
          /\ mine' = [mine EXCEPT ![q] =
               [(IF r.act = "chat" THEN WithRequest(row, r) ELSE row) EXCEPT !.touched = clock + 1]]
          /\ clock' = clock + 1
          /\ pc' = [pc EXCEPT ![q] = IF r.act = "chat" THEN "bound" ELSE "resolving"]
          /\ UNCHANGED <<locks, adds>>
        BY <1>2 DEF Resolve
    <2> HIDE DEF s
    <2>3. Maps' /\ DOMAIN pc' = Requests
        BY <1>1, <2>2 DEF Arrive, Maps
    <2>4. Elsewhere(q)
        BY <1>1, <2>2 DEF Arrive, Elsewhere, Maps
    <2>5. Named \subseteq Named' /\ ~adds'[q] /\ req'[q] = r
        BY <1>1, <2>2, <2>3, Arrives
    <2>6. row \in Row
        BY <2>1 DEF SessionsInv, StoredOK, Existing
    <2>7. DOMAIN row = ColumnsOfRow
        BY <2>6 DEF Row, ColumnsOfRow
    <2>8. /\ on'[q] = s /\ seen'[q] = row
          /\ pc'[q] = IF r.act = "chat" THEN "bound" ELSE "resolving"
          /\ mine'[q] = [(IF r.act = "chat" THEN WithRequest(row, r) ELSE row)
                            EXCEPT !.touched = clock + 1]
        BY <1>1, <2>2 DEF Maps
    <2> DEFINE cap == IF r.act # "chat" \/ r.cap = Missing THEN row.cap ELSE r.cap
               agent == IF r.act = "chat" /\ r.agent # Missing /\ row.agent = "orchestrator"
                        THEN r.agent ELSE row.agent
    <2> HIDE DEF row
    <2>9. /\ mine'[q].channel = row.channel /\ mine'[q].thread = row.thread
          /\ mine'[q].last = row.last
          /\ mine'[q].cap = cap /\ mine'[q].agent = agent
          /\ DOMAIN mine'[q] = ColumnsOfRow
          /\ mine'[q].touched = clock + 1
        <3>1. CASE r.act = "chat"
            BY <2>7, <2>8, <3>1 DEF WithRequest, ColumnsOfRow
        <3>2. CASE r.act # "chat"
            BY <2>7, <2>8, <3>2 DEF ColumnsOfRow
        <3> QED BY <3>1, <3>2
    <2>10. mine'[q] = [row EXCEPT !.touched = clock + 1, !.agent = mine'[q].agent,
                                  !.cap = mine'[q].cap]
        <3>1. CASE r.act = "chat"
            BY <2>7, <2>8, <2>9, <3>1 DEF WithRequest, ColumnsOfRow
        <3>2. CASE r.act # "chat"
            BY <2>7, <2>8, <2>9, <3>2 DEF ColumnsOfRow
        <3> QED BY <3>1, <3>2
    <2>11. mine'[q].agent \in Named' /\ mine'[q].cap \in 1..50
        <3>1. row.agent \in Named /\ row.cap \in 1..50
            BY <2>6, RowByColumn
        <3>2. r.act = "chat" /\ r.agent # Missing => r.agent \in Named'
            BY <2>5 DEF Named
        <3>3. r.cap # Missing => r.cap \in 1..50
            BY WhatIsAsked
        <3> QED BY <2>5, <2>9, <3>1, <3>2, <3>3
    <2>12. mine'[q] \in Row'
        BY <1>1, <2>2, <2>5, <2>6, <2>10, <2>11, StampedRow
    <2>13. \A c \in {"channel", "thread", "last"} : mine'[q][c] = row[c]
        BY <2>9
    <2>14. pc'[q] = IF r.act \in {"chat", "post"} THEN "bound" ELSE "resolving"
        BY <1>1, <2>8 DEF Commands
    <2>15. clock <= clock'
        BY <1>1, <2>2
    <2>16. /\ mine'[q].cap # row.cap => mine'[q].cap = r.cap
           /\ mine'[q].agent # row.agent =>
                 mine'[q].agent = r.agent /\ row.agent = "orchestrator"
        BY <2>9
    <2>17. /\ seen'[q] = sessions[s]
           /\ \A c \in {"channel", "thread", "last"} : mine'[q][c] = sessions[s][c]
           /\ mine'[q].cap # sessions[s].cap => mine'[q].cap = r.cap
           /\ mine'[q].agent # sessions[s].agent =>
                  mine'[q].agent = r.agent /\ sessions[s].agent = "orchestrator"
        BY <2>8, <2>13, <2>16 DEF row
    <2>18. on'[q] = s /\ ~adds'[q] /\ Arrive(q, r)
        BY <1>1, <2>5, <2>8
    <2> HIDE DEF cap, agent
    <2> QED BY <2>1, <2>3, <2>4, <2>12, <2>14, <2>15, <2>17, <2>18, BoundKeeps
<1>3. CASE s = Missing /\ r.act = "cancel"
    <2>1. pc' = [pc EXCEPT ![q] = "none"] /\ UNCHANGED <<clock, local>>
        BY <1>3 DEF Resolve
    <2>2. Maps' /\ DOMAIN pc' = Requests
        BY <1>1, <2>1 DEF Arrive, Maps, local
    <2>3. Elsewhere(q)
        BY <1>1, <2>1 DEF Arrive, Elsewhere, Maps, local
    <2>4. /\ pc[q] = "unsent" /\ ~adds[q] /\ on[q] \in Requests \cup {Missing}
          /\ UNCHANGED <<sessions, runs, user>> /\ req'[q] = r
          /\ Named \subseteq Named' /\ met \subseteq met'
        BY <1>1, <2>2, Arrives
    <2>5. pc'[q] = "none" /\ UNCHANGED <<on, adds>>
        BY <1>1, <2>1 DEF Maps, local
    <2>6. Served(q)'
        BY <2>4, <2>5 DEF Served, Asking, Open, Ended, Holding
    <2>7. Races(q)'
        BY <2>4, <2>5 DEF Races, MetOpen, EndsLast, CreatesFirst, Pending, AddsByRace,
                         CancelsLast, Open, Ended
    <2>8. clock <= clock'
        BY <1>1, <2>1
    <2> QED BY <2>2, <2>3, <2>4, <2>5, <2>6, <2>7, <2>8, QuietKeeps
<1>4. CASE s = Missing /\ r.act # "cancel"
    <2>1. Seek(q, r)
        BY <1>4 DEF Resolve
    <2>2. \A o \in Existing : sessions[o].channel # r.at.channel
        BY <1>4, FindsAny
    <2> QED BY <1>1, <2>1, <2>2, SeekKeeps
<1> QED BY <1>2, <1>3, <1>4

LEMMA CreateKeeps ==
    ASSUME SessionsInv, NEW q \in Requests, NEW r \in Asks, CreateSession(q, r)
    PROVE  SessionsInv'
BY SeekKeeps DEF CreateSession

LEMMA PostKeeps ==
    ASSUME SessionsInv, NEW q \in Requests, NEW s \in Requests, PostMessage(q, s)
    PROVE  SessionsInv'
<1> DEFINE r == [NoRequest EXCEPT !.act = "post"]
<1>1. Maps /\ Arrive(q, r) /\ s \in Existing
    BY DEF SessionsInv, PostMessage, Existing
<1>2. /\ on' = [on EXCEPT ![q] = s]
      /\ seen' = [seen EXCEPT ![q] = sessions[s]]
      /\ mine' = [mine EXCEPT ![q] = sessions[s]]
      /\ pc' = [pc EXCEPT ![q] = "bound"]
      /\ UNCHANGED <<clock, locks, adds>>
    BY DEF PostMessage
<1>3. r.act = "post"
    BY DEF NoRequest, Request
<1> HIDE DEF r
<1>4. Maps' /\ DOMAIN pc' = Requests /\ clock <= clock'
    BY <1>1, <1>2 DEF Arrive, Maps
<1>5. Elsewhere(q)
    BY <1>1, <1>2 DEF Arrive, Elsewhere, Maps
<1>6. ~adds'[q] /\ Named \subseteq Named'
    BY <1>1, <1>2, <1>4, Arrives
<1>7. /\ on'[q] = s /\ seen'[q] = sessions[s] /\ mine'[q] = sessions[s]
      /\ pc'[q] = IF r.act \in {"chat", "post"} THEN "bound" ELSE "resolving"
    BY <1>1, <1>2, <1>3 DEF Maps
<1>8. mine'[q] \in Row'
    <2>1. sessions[s] \in Row
        BY <1>1 DEF SessionsInv, StoredOK, Existing
    <2>2. clock \in Nat /\ clock' \in Nat
        BY <1>1, <1>2 DEF Maps
    <2> QED BY <1>4, <1>6, <1>7, <2>1, <2>2, RowsGrow
<1>9. r \in Asks \/ r = [NoRequest EXCEPT !.act = "post"]
    BY DEF r
<1> QED BY <1>1, <1>4, <1>5, <1>6, <1>7, <1>8, <1>9, BoundKeeps

-----------------------------------------------------------------------------
(* The commits.                                                                 *)

\* What a commit stores, whatever it does to runs.
LEMMA CommitStores ==
    ASSUME SessionsInv, NEW q \in Requests, Open(q), pc[q] \in Holding,
           NEW row \in Row, Commit(q, row)
    PROVE  /\ DOMAIN sessions' = Requests
           /\ \A s \in Requests \ {on[q]} : sessions'[s] = sessions[s]
           /\ on[q] \in Requests /\ sessions'[on[q]] \in Row /\ sessions'[on[q]] # Missing
           /\ sessions[on[q]] = Missing => on[q] = q /\ sessions'[on[q]] = row
           /\ sessions[on[q]] # Missing =>
                 \A c \in ColumnsOfRow : sessions'[on[q]][c] =
                     IF row[c] # seen[q][c] THEN row[c] ELSE sessions[on[q]][c]
<1>1. Maps /\ Working(q) /\ Served(q)
    BY DEF SessionsInv, Served
<1>2. on[q] \in Requests
    BY <1>1 DEF Working
<1>3. sessions' = [sessions EXCEPT ![on[q]] = Written(q, row)] /\ user' = (user \/ adds[q])
    BY DEF Commit
<1>4. sessions[on[q]] # Missing => sessions[on[q]] \in Row
    BY <1>2 DEF SessionsInv, StoredOK
<1>5. Written(q, row) \in Row
    BY <1>4, WrittenIsRow
<1>6. Missing \notin Row
    BY <1>1, NamedIsAsked, RowsAreThere DEF SessionsInv, Maps
<1>7. sessions'[on[q]] = Written(q, row)
    BY <1>1, <1>2, <1>3 DEF Maps
<1>8. \A s \in Requests \ {on[q]} : sessions'[s] = sessions[s]
    BY <1>1, <1>3 DEF Maps
<1>9. sessions[on[q]] = Missing => on[q] = q
    BY <1>1 DEF Working
<1>10. DOMAIN sessions' = Requests
    BY <1>1, <1>3 DEF Maps
<1> QED BY <1>2, <1>5, <1>6, <1>7, <1>8, <1>9, <1>10, WrittenColumns

\* The owner's row comes with the session of the request that added it.
LEMMA CommitAdds ==
    ASSUME SessionsInv, NEW q \in Requests, Open(q), pc[q] \in Holding,
           NEW row \in Row, Commit(q, row)
    PROVE  /\ user' \in BOOLEAN
           /\ user => user'
           /\ user' /\ ~user => sessions'[q] # Missing
<1>1. user \in BOOLEAN /\ adds[q] \in BOOLEAN /\ (adds[q] => on[q] = q)
    BY DEF SessionsInv, Maps, Served, Working
<1>2. user' = (user \/ adds[q])
    BY DEF Commit
<1>3. sessions'[on[q]] # Missing
    BY CommitStores
<1> QED BY <1>1, <1>2, <1>3

\* What a commit does to runs.
RunsGrow(q) ==
    /\ DOMAIN runs' = Requests
    /\ \A r \in Requests : runs[r] # Missing =>
          /\ runs'[r] # Missing /\ runs'[r] \in Run
          /\ runs'[r].session = runs[r].session /\ runs'[r].at = runs[r].at
    /\ \A r \in Requests : runs[r] = Missing /\ runs'[r] # Missing => r = q

LEMMA CommitKeeps ==
    ASSUME SessionsInv, NEW q \in Requests, Open(q), pc[q] \in Holding, Elsewhere(q), Maps',
           NEW row \in Row, row.channel = mine[q].channel, Commit(q, row), RunsGrow(q),
           UNCHANGED <<clock, req, on, met>>, ~adds'[q],
           \/ pc'[q] = "committed"
           \/ pc'[q] = "resolved" /\ req[q].act \in Commands,
           LastRunIsLatest', StoredOK'
    PROVE  SessionsInv'
<1>1. Maps /\ Served(q) /\ Working(q) /\ Asking(q) /\ Holds(q) /\ Races(q)
    BY DEF SessionsInv, Served
<1>2. /\ DOMAIN sessions' = Requests
      /\ \A s \in Requests \ {on[q]} : sessions'[s] = sessions[s]
      /\ on[q] \in Requests /\ sessions'[on[q]] \in Row /\ sessions'[on[q]] # Missing
      /\ sessions[on[q]] = Missing => on[q] = q /\ sessions'[on[q]] = row
      /\ sessions[on[q]] # Missing =>
            \A c \in ColumnsOfRow : sessions'[on[q]][c] =
                IF row[c] # seen[q][c] THEN row[c] ELSE sessions[on[q]][c]
    BY CommitStores
<1>3. row.channel = seen[q].channel
    BY <1>1 DEF Holds
<1>4. \A s \in Requests : sessions[s] # Missing =>
         sessions'[s] # Missing /\ sessions'[s].channel = sessions[s].channel
    BY <1>2, <1>3 DEF ColumnsOfRow
<1>5. \A s \in Requests : sessions[s] = Missing /\ sessions'[s] # Missing =>
         s = q /\ on[q] = q /\ sessions'[q].channel = mine[q].channel
    BY <1>2
<1>6. Named' = Named /\ clock \in Nat
    BY <1>1 DEF Named, Maps
<1>7. Grows(q)
    <2>1. clock' \in Nat /\ clock <= clock' /\ met \subseteq met' /\ Named \subseteq Named'
        BY <1>6
    <2>2. \A s \in Requests : sessions[s] # Missing =>
             /\ sessions'[s] # Missing /\ sessions'[s].channel = sessions[s].channel
             /\ req'[s] = req[s]
        BY <1>4
    <2>3. \A s \in Requests : sessions[s] = Missing /\ sessions'[s] # Missing =>
             s = q /\ Open(q)
        BY <1>5
    <2>4. /\ \A r \in Requests : runs[r] # Missing =>
                /\ runs'[r] # Missing
                /\ runs'[r].session = runs[r].session /\ runs'[r].at = runs[r].at
          /\ \A r \in Requests : runs[r] = Missing /\ runs'[r] # Missing =>
                r = q /\ Open(q)
        BY DEF RunsGrow
    <2>5. (user => user') /\ (user' /\ ~user => Open(q) /\ sessions'[q] # Missing)
        BY CommitAdds
    <2> QED BY <2>1, <2>2, <2>3, <2>4, <2>5 DEF Grows
<1>8. Served(q)'
    <2>1. Asking(q)'
        BY <1>1 DEF Asking, Serving, Ended, Holding
    <2>2. pc'[q] = "resolved" => Working(q)'
        BY <1>2 DEF Working
    <2> QED BY <1>2, <2>1, <2>2 DEF Served, Open, Ended, Holding
<1>9. Races(q)'
    <2>1. \A o \in Requests \ {q} : Open(o)' <=> Open(o)
        BY DEF Open, Elsewhere
    <2>2. MetOpen(q)'
        BY <1>1, <2>1 DEF Races, MetOpen, Met
    <2>3. EndsLast(q)' /\ CancelsLast(q)' /\ AddsByRace(q)'
        BY DEF EndsLast, CancelsLast, AddsByRace
    <2>4. CreatesFirst(q)'
        BY <1>2 DEF CreatesFirst, Pending
    <2> QED BY <2>2, <2>3, <2>4 DEF Races
<1>10. OneSessionPerPlace'
    <2> SUFFICES ASSUME NEW s \in Requests, NEW o \in Requests, Made(s)', Made(o)',
                        s # o, sessions'[s].channel = sessions'[o].channel
                 PROVE  {s, o} \in met
        BY DEF OneSessionPerPlace, Existing, Made, Met
    <2>1. ASSUME NEW p \in Requests, Made(p), Made(q)', sessions[q] = Missing,
                 sessions'[p].channel = sessions'[q].channel
          PROVE  {p, q} \in met
        <3>1. sessions[p].channel = mine[q].channel /\ Pending(q)
            BY <1>4, <1>5, <2>1 DEF Made, Pending
        <3> QED BY <1>1, <2>1, <3>1 DEF Races, CreatesFirst, Met
    <2>2. CASE sessions[s] # Missing /\ sessions[o] # Missing
        <3>1. Made(s) /\ Made(o) /\ sessions[s].channel = sessions[o].channel
            BY <1>4, <2>2 DEF Made
        <3> QED BY <3>1 DEF SessionsInv, OneSessionPerPlace, Existing, Made, Met
    <2>3. CASE sessions[o] = Missing
        <3>1. o = q /\ sessions[s] # Missing
            BY <1>5, <2>3 DEF Made
        <3>2. Made(s)
            BY <3>1 DEF Made
        <3> QED BY <2>1, <2>3, <3>1, <3>2
    <2>4. CASE sessions[s] = Missing
        <3>1. s = q /\ sessions[o] # Missing
            BY <1>5, <2>4 DEF Made
        <3>2. Made(o)
            BY <3>1 DEF Made
        <3>3. {o, q} \in met
            BY <2>1, <2>4, <3>1, <3>2
        <3>4. {o, q} = {s, o}
            BY <3>1
        <3> QED BY <3>3, <3>4
    <2> QED BY <2>2, <2>3, <2>4
<1> QED BY <1>7, <1>8, <1>9, <1>10, StepKeeps

\* A commit that adds no run leaves the last run of its session to be the last.
LEMMA PlainCommit ==
    ASSUME SessionsInv, NEW q \in Requests, Open(q), pc[q] \in Holding, Elsewhere(q),
           Commit(q, mine[q]), RunsGrow(q),
           \A r \in Requests : runs'[r] # Missing => runs[r] # Missing,
           UNCHANGED <<clock, req, on, met>>, pc'[q] # "unsent"
    PROVE  LastRunIsLatest' /\ StoredOK'
<1>1. Maps /\ Served(q) /\ Working(q) /\ Holds(q)
    BY DEF SessionsInv, Served
<1>2. mine[q] \in Row /\ mine[q].last = seen[q].last /\ LastIsRun(on[q], seen[q])
    BY <1>1 DEF Holds
<1>3. /\ DOMAIN sessions' = Requests
      /\ \A s \in Requests \ {on[q]} : sessions'[s] = sessions[s]
      /\ on[q] \in Requests /\ sessions'[on[q]] \in Row /\ sessions'[on[q]] # Missing
      /\ sessions[on[q]] = Missing => on[q] = q /\ sessions'[on[q]] = mine[q]
      /\ sessions[on[q]] # Missing =>
            \A c \in ColumnsOfRow : sessions'[on[q]][c] =
                IF mine[q][c] # seen[q][c] THEN mine[q][c] ELSE sessions[on[q]][c]
    BY <1>2, CommitStores
<1>4. sessions[on[q]] # Missing => sessions'[on[q]].last = sessions[on[q]].last
    BY <1>2, <1>3 DEF ColumnsOfRow
<1>5. \A s \in Requests : sessions[s] # Missing =>
         sessions'[s] # Missing /\ sessions'[s].last = sessions[s].last
    BY <1>3, <1>4
<1>6. Row' = Row /\ Run' = Run
    BY DEF Row, Run, Named
<1>7. StoredOK'
    <2>1. ASSUME NEW s \in Requests, sessions'[s] # Missing
          PROVE  /\ sessions'[s] \in Row' /\ LastIsRun(s, sessions[s])'
                 /\ pc'[s] # "unsent"
        <3>1. CASE sessions[s] # Missing
            <4>1. sessions'[s] \in Row
                BY <1>3, <3>1 DEF SessionsInv, StoredOK
            <4>2. LastIsRun(s, sessions[s]) /\ pc[s] # "unsent"
                BY <3>1 DEF SessionsInv, StoredOK
            <4>3. LastIsRun(s, sessions[s])'
                BY <1>5, <3>1, <4>2 DEF LastIsRun, RunsGrow
            <4>4. pc'[s] # "unsent"
                BY <4>2 DEF Elsewhere
            <4> QED BY <1>6, <4>1, <4>3, <4>4
        <3>2. CASE sessions[s] = Missing
            <4>1. s = on[q] /\ s = q /\ sessions'[s] = mine[q]
                BY <1>3, <2>1, <3>2
            <4>2. LastIsRun(s, sessions[s])'
                BY <1>2, <4>1 DEF LastIsRun, RunsGrow
            <4> QED BY <1>2, <1>6, <4>1, <4>2
        <3> QED BY <3>1, <3>2
    <2>2. ASSUME NEW r \in Requests, runs'[r] # Missing
          PROVE  /\ runs'[r] \in Run' /\ sessions'[runs'[r].session] # Missing
                 /\ pc'[r] = "committed"
        <3>1. runs[r] # Missing
            BY <2>2
        <3>2. /\ runs[r] \in Run /\ sessions[runs[r].session] # Missing
              /\ pc[r] = "committed"
            BY <3>1 DEF SessionsInv, StoredOK
        <3>3. runs'[r] \in Run /\ runs'[r].session = runs[r].session
            BY <3>1 DEF RunsGrow
        <3>4. runs[r].session \in Requests
            BY <3>2 DEF Run
        <3>5. pc'[r] = "committed"
            BY <3>2 DEF Elsewhere, Holding
        <3> QED BY <1>5, <1>6, <3>2, <3>3, <3>4, <3>5
    <2> QED BY <2>1, <2>2 DEF StoredOK
<1>8. LastRunIsLatest'
    <2> SUFFICES ASSUME NEW s \in Existing', RunsOf(s)' # {}
                 PROVE  /\ sessions'[s].last \in RunsOf(s)'
                        /\ \A r \in RunsOf(s)' \ {sessions'[s].last} :
                              \/ runs'[r].at < runs'[sessions'[s].last].at
                              \/ {r, sessions'[s].last} \in met
        BY DEF LastRunIsLatest, Met
    <2>1. RunsOf(s)' = RunsOf(s)
        BY DEF RunsOf, RunsGrow
    <2>2. s \in Existing
        <3>1. PICK r \in Requests : runs[r] # Missing /\ runs[r].session = s
            BY <2>1 DEF RunsOf
        <3>2. sessions[s] # Missing
            BY <3>1 DEF SessionsInv, StoredOK
        <3> QED BY <3>2 DEF Existing
    <2>3. sessions'[s].last = sessions[s].last
        BY <1>5, <2>2 DEF Existing
    <2>4. /\ sessions[s].last \in RunsOf(s)
          /\ \A r \in RunsOf(s) \ {sessions[s].last} :
                runs[r].at < runs[sessions[s].last].at \/ {r, sessions[s].last} \in met
        BY <2>1, <2>2 DEF SessionsInv, LastRunIsLatest, Met
    <2>5. \A r \in RunsOf(s) : runs'[r].at = runs[r].at
        BY DEF RunsOf, RunsGrow
    <2> QED BY <2>1, <2>3, <2>4, <2>5
<1> QED BY <1>7, <1>8

LEMMA CommitSessionKeeps ==
    ASSUME SessionsInv, NEW q \in Requests, CommitSession(q)
    PROVE  SessionsInv'
<1> USE DEF Forget
<1>1. Maps /\ Served(q) /\ pc[q] = "resolving"
    BY DEF SessionsInv, CommitSession
<1>2. Open(q) /\ Holds(q) /\ Asking(q) /\ pc[q] \in Holding
    BY <1>1 DEF Served, Open, Ended, Holding
<1>3. mine[q] \in Row
    BY <1>2 DEF Holds
<1>4. Elsewhere(q)
    BY <1>1 DEF CommitSession, Elsewhere, Maps
<1>5. Commit(q, mine[q]) /\ UNCHANGED <<clock, req, on, met, runs>>
    BY DEF CommitSession
<1>6. Maps'
    <2>1. DOMAIN sessions' = Requests /\ user' \in BOOLEAN
        BY <1>2, <1>3, <1>5, CommitStores, CommitAdds
    <2>2. /\ DOMAIN pc' = Requests /\ DOMAIN seen' = Requests /\ DOMAIN mine' = Requests
          /\ locks' \in [Requests -> BOOLEAN] /\ adds' \in [Requests -> BOOLEAN]
        BY <1>1 DEF CommitSession, Maps
    <2> QED BY <1>1, <1>5, <2>1, <2>2 DEF Maps
<1>7. ~adds'[q] /\ pc'[q] = IF req[q].act \in Creations THEN "committed" ELSE "resolved"
    BY <1>1 DEF CommitSession, Maps
<1>8. RunsGrow(q)
    BY <1>1, <1>5 DEF RunsGrow, SessionsInv, StoredOK, Maps
<1>9. LastRunIsLatest' /\ StoredOK'
    BY <1>2, <1>4, <1>5, <1>7, <1>8, PlainCommit
<1>10. req[q].act \in Creations \cup Commands
    BY <1>1, <1>2 DEF Asking
<1> QED BY <1>2, <1>3, <1>4, <1>5, <1>6, <1>7, <1>8, <1>9, <1>10, CommitKeeps

LEMMA CommitCommandKeeps ==
    ASSUME SessionsInv, NEW q \in Requests, CommitCommand(q)
    PROVE  SessionsInv'
<1> USE DEF Forget
<1>1. Maps /\ Served(q) /\ pc[q] = "loaded"
    BY DEF SessionsInv, CommitCommand
<1>2. Open(q) /\ Holds(q) /\ Working(q) /\ pc[q] \in Holding
    BY <1>1 DEF Served, Open, Ended, Holding
<1>3. mine[q] \in Row
    BY <1>2 DEF Holds
<1>4. Elsewhere(q)
    BY <1>1 DEF CommitCommand, Elsewhere, Maps
<1>5. Commit(q, mine[q]) /\ UNCHANGED <<clock, req, on, met>>
    BY DEF CommitCommand
<1>6. ~adds'[q] /\ pc'[q] = "committed"
    BY <1>1 DEF CommitCommand, Maps
<1>7. RunsGrow(q) /\ \A r \in Requests : runs'[r] # Missing => runs[r] # Missing
    <2>1. CASE req[q].act # "cancel"
        BY <1>1, <2>1 DEF CommitCommand, RunsGrow, SessionsInv, StoredOK, Maps
    <2>2. CASE req[q].act = "cancel"
        <3> DEFINE l == seen[q].last
        <3>1. l \in Requests /\ runs[l] # Missing
            BY <1>1, <1>2, <2>2 DEF Working, Holds, LastIsRun
        <3>2. runs' = [runs EXCEPT ![l].status = "cancelled"]
            BY <2>2 DEF CommitCommand
        <3> HIDE DEF l
        <3>3. runs[l] \in Run
            BY <3>1 DEF SessionsInv, StoredOK
        <3>4. /\ runs'[l] = [runs[l] EXCEPT !.status = "cancelled"]
              /\ DOMAIN runs' = Requests
              /\ \A r \in Requests \ {l} : runs'[r] = runs[r]
            BY <1>1, <3>1, <3>2 DEF Maps
        <3>5. /\ runs'[l] \in Run
              /\ runs'[l].session = runs[l].session /\ runs'[l].at = runs[l].at
            BY <3>3, <3>4 DEF Run
        <3>6. runs'[l] # Missing
            BY <1>1, <3>5, NamedIsAsked, RowsAreThere DEF SessionsInv, Maps
        <3>7. \A r \in Requests \ {l} : runs[r] # Missing => runs[r] \in Run
            BY DEF SessionsInv, StoredOK
        <3>8. \A r \in Requests : runs[r] # Missing =>
                 /\ runs'[r] # Missing /\ runs'[r] \in Run
                 /\ runs'[r].session = runs[r].session /\ runs'[r].at = runs[r].at
            BY <3>4, <3>5, <3>6, <3>7
        <3> QED BY <3>1, <3>4, <3>8 DEF RunsGrow
    <2> QED BY <2>1, <2>2
<1>8. Maps'
    <2>1. DOMAIN sessions' = Requests /\ user' \in BOOLEAN
        BY <1>2, <1>3, <1>5, CommitStores, CommitAdds
    <2>2. /\ DOMAIN pc' = Requests /\ DOMAIN seen' = Requests /\ DOMAIN mine' = Requests
          /\ locks' \in [Requests -> BOOLEAN] /\ adds' \in [Requests -> BOOLEAN]
        BY <1>1 DEF CommitCommand, Maps
    <2> QED BY <1>1, <1>5, <1>7, <2>1, <2>2 DEF Maps, RunsGrow
<1>9. LastRunIsLatest' /\ StoredOK'
    BY <1>2, <1>4, <1>5, <1>6, <1>7, PlainCommit
<1> QED BY <1>2, <1>3, <1>4, <1>5, <1>6, <1>7, <1>8, <1>9, CommitKeeps

\* The row a turn leaves names its run.
LEMMA FinishedRow ==
    ASSUME NEW q \in Requests, NEW old \in Row
    PROVE  /\ [old EXCEPT !.last = q] \in Row
           /\ [old EXCEPT !.last = q].last = q
           /\ \A c \in ColumnsOfRow \ {"last"} : [old EXCEPT !.last = q][c] = old[c]
<1>1. DOMAIN old = ColumnsOfRow
    BY DEF Row, ColumnsOfRow
<1>2. /\ [old EXCEPT !.last = q].last = q
      /\ \A c \in ColumnsOfRow \ {"last"} : [old EXCEPT !.last = q][c] = old[c]
    BY <1>1 DEF ColumnsOfRow
<1>3. [old EXCEPT !.last = q] \in Row
    BY DEF Row
<1> QED BY <1>2, <1>3

LEMMA FinishRunKeeps ==
    ASSUME SessionsInv, NEW q \in Requests, FinishRun(q)
    PROVE  SessionsInv'
<1> USE DEF Forget
<1> DEFINE row == [mine[q] EXCEPT !.last = q]
           s == on[q]
<1>1. Maps /\ Served(q) /\ Races(q) /\ pc[q] = "ending"
    BY DEF SessionsInv, FinishRun
<1>2. Open(q) /\ Holds(q) /\ Working(q) /\ pc[q] \in Holding
    BY <1>1 DEF Served, Open, Ended, Holding
<1>3. mine[q] \in Row /\ mine[q].touched > 0 /\ mine[q].channel = seen[q].channel
    BY <1>1, <1>2 DEF Holds
<1>4. PICK status \in Statuses :
         /\ Commit(q, row)
         /\ runs' = [runs EXCEPT ![q] = [session |-> on[q], status |-> status,
                                         agent |-> mine[q].agent, cap |-> mine[q].cap,
                                         at |-> mine[q].touched]]
    BY DEF FinishRun, LastAfter
<1>5. /\ row \in Row /\ row.last = q
      /\ \A c \in ColumnsOfRow \ {"last"} : row[c] = mine[q][c]
    BY <1>3, FinishedRow
<1> HIDE DEF row
<1>6. UNCHANGED <<clock, req, on, met>> /\ ~adds'[q] /\ pc'[q] = "committed"
    BY <1>1 DEF FinishRun, Maps
<1>7. Elsewhere(q)
    BY <1>1 DEF FinishRun, Elsewhere, Maps
<1>8. runs[q] = Missing
    BY <1>1 DEF SessionsInv, StoredOK
<1>9. s \in Requests
    BY <1>2 DEF Working
<1>10. /\ runs'[q] = [session |-> s, status |-> status, agent |-> mine[q].agent,
                      cap |-> mine[q].cap, at |-> mine[q].touched]
       /\ DOMAIN runs' = Requests
       /\ \A r \in Requests \ {q} : runs'[r] = runs[r]
    BY <1>1, <1>4 DEF Maps
<1>11. /\ runs'[q] \in Run /\ runs'[q].session = s /\ runs'[q].at = mine[q].touched
    <2>1. clock \in Nat
        BY <1>1 DEF Maps
    <2>2. mine[q].touched \in 1..clock /\ mine[q].agent \in Named /\ mine[q].cap \in 1..50
        BY <1>3, <2>1, RowByColumn
    <2> QED BY <1>9, <1>10, <2>2 DEF Run
<1>12. runs'[q] # Missing
    BY <1>1, <1>11, NamedIsAsked, RowsAreThere DEF SessionsInv, Maps
<1>13. RunsGrow(q)
    BY <1>8, <1>10 DEF RunsGrow, SessionsInv, StoredOK
<1>14. /\ DOMAIN sessions' = Requests
       /\ \A o \in Requests \ {s} : sessions'[o] = sessions[o]
       /\ sessions'[s] \in Row /\ sessions'[s] # Missing
       /\ sessions[s] = Missing => s = q /\ sessions'[s] = row
       /\ sessions[s] # Missing =>
             \A c \in ColumnsOfRow : sessions'[s][c] =
                 IF row[c] # seen[q][c] THEN row[c] ELSE sessions[s][c]
    BY <1>2, <1>4, <1>5, CommitStores
<1>15. sessions'[s].last = q
    <2>1. seen[q].last # q
        BY <1>2, <1>8, SessionAssumption DEF Holds, LastIsRun
    <2> QED BY <1>5, <1>14, <2>1 DEF ColumnsOfRow
<1>16. Maps'
    <2>1. DOMAIN sessions' = Requests /\ user' \in BOOLEAN
        BY <1>2, <1>4, <1>5, CommitStores, CommitAdds
    <2>2. /\ DOMAIN pc' = Requests /\ DOMAIN seen' = Requests /\ DOMAIN mine' = Requests
          /\ locks' \in [Requests -> BOOLEAN] /\ adds' \in [Requests -> BOOLEAN]
        BY <1>1 DEF FinishRun, Maps
    <2> QED BY <1>1, <1>6, <1>10, <2>1, <2>2 DEF Maps
<1>17. Row' = Row /\ Run' = Run
    BY <1>6 DEF Row, Run, Named
<1>18. StoredOK'
    <2>1. ASSUME NEW o \in Requests, sessions'[o] # Missing
          PROVE  /\ sessions'[o] \in Row' /\ LastIsRun(o, sessions[o])'
                 /\ pc'[o] # "unsent"
        <3>1. CASE o # s
            <4>1. /\ sessions[o] \in Row /\ sessions'[o] = sessions[o]
                  /\ LastIsRun(o, sessions[o]) /\ pc[o] # "unsent"
                BY <1>14, <2>1, <3>1 DEF SessionsInv, StoredOK
            <4>2. LastIsRun(o, sessions[o])'
                BY <1>13, <4>1 DEF LastIsRun, RunsGrow
            <4>3. pc'[o] # "unsent"
                BY <1>6, <1>7, <4>1 DEF Elsewhere
            <4> QED BY <1>17, <4>1, <4>2, <4>3
        <3>2. CASE o = s
            <4>1. LastIsRun(o, sessions[o])'
                BY <1>11, <1>12, <1>15, <3>2 DEF LastIsRun
            <4>2. pc'[o] # "unsent"
                <5>1. CASE sessions[s] = Missing
                    BY <1>6, <1>14, <3>2, <5>1
                <5>2. CASE sessions[s] # Missing
                    <6>1. pc[s] # "unsent"
                        BY <1>9, <5>2 DEF SessionsInv, StoredOK
                    <6> QED BY <1>6, <1>7, <1>9, <3>2, <6>1 DEF Elsewhere
                <5> QED BY <5>1, <5>2
            <4> QED BY <1>14, <1>17, <3>2, <4>1, <4>2
        <3> QED BY <3>1, <3>2
    <2>2. ASSUME NEW r \in Requests, runs'[r] # Missing
          PROVE  /\ runs'[r] \in Run' /\ sessions'[runs'[r].session] # Missing
                 /\ pc'[r] = "committed"
        <3>1. CASE r = q
            BY <1>6, <1>11, <1>14, <1>17, <3>1
        <3>2. CASE r # q
            <4>1. /\ runs'[r] = runs[r] /\ runs[r] \in Run
                  /\ sessions[runs[r].session] # Missing /\ pc[r] = "committed"
                BY <1>10, <2>2, <3>2 DEF SessionsInv, StoredOK
            <4>2. runs[r].session \in Requests
                BY <4>1 DEF Run
            <4>3. sessions'[runs[r].session] # Missing
                BY <1>14, <4>1, <4>2
            <4>4. pc'[r] = "committed"
                BY <1>7, <3>2, <4>1 DEF Elsewhere
            <4> QED BY <1>17, <4>1, <4>3, <4>4
        <3> QED BY <3>1, <3>2
    <2> QED BY <2>1, <2>2 DEF StoredOK
<1>19. LastRunIsLatest'
    <2> SUFFICES ASSUME NEW o \in Requests, sessions'[o] # Missing, RunsOf(o)' # {}
                 PROVE  /\ sessions'[o].last \in RunsOf(o)'
                        /\ \A r \in RunsOf(o)' \ {sessions'[o].last} :
                              \/ runs'[r].at < runs'[sessions'[o].last].at
                              \/ {r, sessions'[o].last} \in met
        BY <1>6 DEF LastRunIsLatest, Met, Existing
    <2>1. CASE o = s
        <3>1. q \in RunsOf(o)'
            BY <1>11, <1>12, <2>1 DEF RunsOf
        <3>2. ASSUME NEW r \in RunsOf(o)', r # q
              PROVE  runs'[r].at < runs'[q].at \/ {r, q} \in met
            <4>1. r \in Requests /\ runs'[r] = runs[r] /\ runs[r] # Missing
                BY <1>10, <3>2 DEF RunsOf
            <4>2. runs[r].at < mine[q].touched \/ Met(r, q)
                BY <1>1, <4>1 DEF Races, EndsLast
            <4>3. runs'[r].at = runs[r].at /\ runs'[q].at = mine[q].touched
                BY <1>11, <4>1
            <4>4. Met(r, q) <=> {r, q} \in met
                BY DEF Met
            <4> QED BY <4>2, <4>3, <4>4
        <3> QED BY <1>15, <2>1, <3>1, <3>2
    <2>2. CASE o # s
        <3>1. sessions'[o] = sessions[o]
            BY <1>14, <2>2
        <3>2. RunsOf(o)' = RunsOf(o)
            BY <1>8, <1>10, <1>11, <2>2 DEF RunsOf
        <3>3. /\ sessions[o].last \in RunsOf(o)
              /\ \A r \in RunsOf(o) \ {sessions[o].last} :
                    runs[r].at < runs[sessions[o].last].at \/ {r, sessions[o].last} \in met
            BY <3>1, <3>2 DEF SessionsInv, LastRunIsLatest, Met, Existing
        <3>4. \A r \in RunsOf(o) : runs'[r] = runs[r]
            BY <1>8, <1>10 DEF RunsOf
        <3> QED BY <3>1, <3>2, <3>3, <3>4
    <2> QED BY <2>1, <2>2
<1>20. row.channel = mine[q].channel
    BY <1>5 DEF ColumnsOfRow
<1> QED BY <1>2, <1>4, <1>5, <1>6, <1>7, <1>13, <1>16, <1>18, <1>19, <1>20, CommitKeeps

-----------------------------------------------------------------------------
(* The theorems.                                                                *)

LEMMA SessionsInvInit == Init => SessionsInv
<1> SUFFICES ASSUME Init PROVE SessionsInv
    OBVIOUS
<1>1. Maps
    BY DEF Init, Maps
<1>2. StoredOK
    BY DEF Init, StoredOK
<1>3. \A q \in Requests : Served(q)
    BY DEF Init, Served, Asking, Open, Ended, Holding
<1>4. \A q \in Requests : Races(q)
    BY DEF Init, Races, MetOpen, EndsLast, CreatesFirst, Pending, AddsByRace, CancelsLast,
           Open, Ended
<1>5. LastRunIsLatest /\ OneSessionPerPlace
    BY DEF Init, LastRunIsLatest, OneSessionPerPlace, Existing
<1> QED BY <1>1, <1>2, <1>3, <1>4, <1>5 DEF SessionsInv

LEMMA SessionsInvNext == SessionsInv /\ [Next]_vars => SessionsInv'
<1> SUFFICES ASSUME SessionsInv, [Next]_vars PROVE SessionsInv'
    OBVIOUS
<1>1. CASE \E q \in Requests, r \in Asks : Resolve(q, r) \/ CreateSession(q, r)
    BY <1>1, ResolveKeeps, CreateKeeps
<1>2. CASE \E q, s \in Requests : PostMessage(q, s)
    BY <1>2, PostKeeps
<1>3. ASSUME NEW q \in Requests,
             \/ Insert(q) \/ StartRun(q) \/ EndTurn(q) \/ FinishRun(q)
             \/ CommitSession(q) \/ Load(q) \/ CommitCommand(q) \/ Abort(q)
      PROVE  SessionsInv'
    BY <1>3, InsertKeeps, StartRunKeeps, EndTurnKeeps, FinishRunKeeps, CommitSessionKeeps,
       LoadKeeps, CommitCommandKeeps, AbortKeeps
<1>4. CASE UNCHANGED vars
    <2>1. /\ UNCHANGED <<sessions, runs, user, clock>>
          /\ UNCHANGED <<pc, req, on, seen, mine, locks, adds, met>>
        BY <1>4 DEF vars, rows, local
    <2>2. Row' = Row /\ Run' = Run
        BY <2>1 DEF Row, Run, Named
    <2>3. Maps' /\ StoredOK'
        BY <2>1, <2>2 DEF SessionsInv, Maps, StoredOK, LastIsRun
    <2>4. ASSUME NEW q \in Requests PROVE Served(q)'
        BY <2>1, <2>2 DEF SessionsInv, Served, Asking, Working, Holds, LastIsRun, Open
    <2>5. ASSUME NEW q \in Requests PROVE Races(q)'
        <3>1. MetOpen(q)' /\ EndsLast(q)'
            BY <2>1 DEF SessionsInv, Races, MetOpen, EndsLast, Open, Met
        <3>2. CreatesFirst(q)' /\ AddsByRace(q)' /\ CancelsLast(q)'
            BY <2>1 DEF SessionsInv, Races, CreatesFirst, AddsByRace, CancelsLast, Pending,
                       Made, Open, Met
        <3> QED BY <3>1, <3>2 DEF Races
    <2>6. LastRunIsLatest' /\ OneSessionPerPlace'
        BY <2>1 DEF SessionsInv, LastRunIsLatest, OneSessionPerPlace, Existing, RunsOf, Met
    <2> QED BY <2>3, <2>4, <2>5, <2>6 DEF SessionsInv
<1> QED BY <1>1, <1>2, <1>3, <1>4 DEF Next

\* What every state is like.
THEOREM SessionsInvAlways == Spec => []SessionsInv
BY SessionsInvInit, SessionsInvNext, PTL DEF Spec

\* A session and a run name agents there are or that a chat named; a run has its session.
THEOREM SessionsTyped == Spec => []TypeOK
<1>1. SessionsInv => TypeOK
    <2> SUFFICES ASSUME SessionsInv, NEW q \in Requests
                 PROVE  /\ sessions[q] \in Row \cup {Missing}
                        /\ runs[q] \in Run \cup {Missing}
                        /\ on[q] \in Requests \cup {Missing}
                        /\ runs[q] # Missing => sessions[runs[q].session] # Missing
        BY DEF TypeOK, SessionsInv, Maps
    <2>1. on[q] \in Requests \cup {Missing}
        BY DEF SessionsInv, Served, Working
    <2> QED BY <2>1 DEF SessionsInv, StoredOK
<1> QED BY <1>1, SessionsInvAlways, PTL

\* The last run of a session is its most recent one, but for runs it was served with.
THEOREM LastIsLatest == Spec => []LastRunIsLatest
<1>1. SessionsInv => LastRunIsLatest
    BY DEF SessionsInv
<1> QED BY <1>1, SessionsInvAlways, PTL

\* Two sessions of a channel that messages and commands made for want of one were made
\* by requests served together.
THEOREM PlacesDoubleByRace == Spec => []OneSessionPerPlace
<1>1. SessionsInv => OneSessionPerPlace
    BY DEF SessionsInv
<1> QED BY <1>1, SessionsInvAlways, PTL

\* The owner's row is refused only to who was served with the one that added it.
THEOREM RefusalsAreRaces == Spec => []RefusedOnlyByRace
<1>1. SessionsInv => RefusedOnlyByRace
    BY DEF SessionsInv, Races, AddsByRace, RefusedOnlyByRace
<1> QED BY <1>1, SessionsInvAlways, PTL

\* A commit is the end of a turn, of a creation or of a command.
LEMMA CommitsAre ==
    ASSUME SessionsInv, Next, NEW q \in Requests, Commits(q)
    PROVE  FinishRun(q) \/ CommitSession(q) \/ CommitCommand(q)
<1> USE DEF Forget
<1>1. Maps /\ pc[q] # pc'[q] /\ pc'[q] \in {"committed", "resolved"}
    BY DEF SessionsInv, Commits
<1>2. ASSUME NEW p \in Requests, NEW r \in Asks, Resolve(p, r) \/ CreateSession(p, r)
      PROVE  FALSE
    BY <1>1, <1>2 DEF Resolve, CreateSession, Seek, Maps
<1>3. ASSUME NEW p \in Requests, NEW s \in Requests, PostMessage(p, s) PROVE FALSE
    BY <1>1, <1>3 DEF PostMessage, Maps
<1>4. ASSUME NEW p \in Requests,
             Insert(p) \/ StartRun(p) \/ EndTurn(p) \/ Load(p) \/ Abort(p)
      PROVE  FALSE
    BY <1>1, <1>4 DEF Insert, StartRun, EndTurn, Load, Abort, Maps
<1>5. ASSUME NEW p \in Requests, FinishRun(p) \/ CommitSession(p) \/ CommitCommand(p)
      PROVE  p = q
    BY <1>1, <1>5 DEF FinishRun, CommitSession, CommitCommand, Maps
<1> QED BY <1>2, <1>3, <1>4, <1>5 DEF Next

\* What is committed is the row the request holds, but for the run it names.
LEMMA CommitsARow ==
    ASSUME SessionsInv, Next, NEW q \in Requests, Commits(q)
    PROVE  \E row \in Row : /\ Commit(q, row) /\ Open(q) /\ pc[q] \in Holding
                            /\ row.cap = mine[q].cap /\ row.agent = mine[q].agent
<1>1. pc[q] \in {"ending", "resolving", "loaded"}
    BY CommitsAre DEF FinishRun, CommitSession, CommitCommand
<1>2. Open(q) /\ pc[q] \in Holding /\ mine[q] \in Row
    BY <1>1 DEF SessionsInv, Served, Holds, Open, Ended, Holding
<1>3. CASE FinishRun(q)
    <2>1. Commit(q, [mine[q] EXCEPT !.last = q])
        BY <1>3 DEF FinishRun, LastAfter
    <2>2. /\ [mine[q] EXCEPT !.last = q] \in Row
          /\ \A c \in ColumnsOfRow \ {"last"} : [mine[q] EXCEPT !.last = q][c] = mine[q][c]
        BY <1>2, FinishedRow
    <2> QED BY <1>2, <2>1, <2>2 DEF ColumnsOfRow
<1>4. CASE CommitSession(q) \/ CommitCommand(q)
    BY <1>2, <1>4 DEF CommitSession, CommitCommand
<1> QED BY <1>3, <1>4, CommitsAre

\* What a request writes to a session it did not create is what it asked for.
THEOREM ChoicesAlwaysStay == Spec => ChoicesStay
<1>1. SessionsInv /\ [Next]_vars => [\A q \in Requests :
          Commits(q) /\ sessions[on[q]] # Missing =>
              LET old == sessions[on[q]]
                  new == sessions'[on[q]]
              IN /\ new.cap # old.cap => new.cap = req[q].cap
                 /\ new.agent # old.agent =>
                      /\ new.agent = req[q].agent
                      /\ req[q].act = "agent" \/ seen[q].agent = "orchestrator"]_vars
    <2> SUFFICES ASSUME SessionsInv, Next, NEW q \in Requests, Commits(q),
                        sessions[on[q]] # Missing
                 PROVE  LET old == sessions[on[q]]
                            new == sessions'[on[q]]
                        IN /\ new.cap # old.cap => new.cap = req[q].cap
                           /\ new.agent # old.agent =>
                                /\ new.agent = req[q].agent
                                /\ req[q].act = "agent" \/ seen[q].agent = "orchestrator"
        OBVIOUS
    <2>1. PICK row \in Row : /\ Commit(q, row) /\ Open(q) /\ pc[q] \in Holding
                             /\ row.cap = mine[q].cap /\ row.agent = mine[q].agent
        BY CommitsARow
    <2>2. Holds(q)
        BY <2>1 DEF SessionsInv, Served
    <2>3. \A c \in ColumnsOfRow : sessions'[on[q]][c] =
              IF row[c] # seen[q][c] THEN row[c] ELSE sessions[on[q]][c]
        BY <2>1, CommitStores
    <2> QED BY <2>1, <2>2, <2>3 DEF Holds, ColumnsOfRow
<1> QED BY <1>1, SessionsInvAlways, PTL DEF Spec, ChoicesStay

\* `/lifeos cancel` hits the most recent run of the session, but for races.
THEOREM CancelsHitLast == Spec => CancelHitsLast
<1>1. SessionsInv /\ [Next]_vars => [\A q, r \in Requests :
          (/\ Commits(q) /\ req[q].act = "cancel"
           /\ r \in RunsOf(on[q]) /\ r # seen[q].last /\ pc'[q] = "committed") =>
              \/ runs[r].at < runs[seen[q].last].at
              \/ Met(r, seen[q].last)
              \/ Met(r, q)]_vars
    <2> SUFFICES ASSUME SessionsInv, Next, NEW q \in Requests, NEW r \in Requests,
                        Commits(q), req[q].act = "cancel", r \in RunsOf(on[q]),
                        r # seen[q].last, pc'[q] = "committed"
                 PROVE  \/ runs[r].at < runs[seen[q].last].at
                        \/ Met(r, seen[q].last)
                        \/ Met(r, q)
        OBVIOUS
    <2>1. pc[q] = "loaded"
        <3>1. Asking(q) /\ pc[q] # pc'[q]
            BY DEF SessionsInv, Served, Commits
        <3>2. FinishRun(q) \/ CommitSession(q) \/ CommitCommand(q)
            BY CommitsAre
        <3> QED BY <3>1, <3>2 DEF Asking, FinishRun, CommitSession, CommitCommand, Creations,
                                  SessionsInv, Maps
    <2> QED BY <2>1 DEF SessionsInv, Races, CancelsLast, RunsOf
<1> QED BY <1>1, SessionsInvAlways, PTL DEF Spec, CancelHitsLast

================================================================================

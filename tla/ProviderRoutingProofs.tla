------------------------- MODULE ProviderRoutingProofs -------------------------
(* What the runs of the configuration check, for any set of agents, providers,    *)
(* tools, routes and requests, and any files and changes.                         *)
(*                                                                                *)
(* Three parts: a route calls only providers that were on, in spite of the shared *)
(* dict; it gives up only after its last choice; and the rows of the              *)
(* configuration keep their columns, what the owner asked for, and one permission *)
(* of a pair, through starts, syncs and changes that overlap (ConfigInv).         *)
EXTENDS ProviderRouting, FiniteSetTheorems, SequenceTheorems, WellFoundedInduction, TLAPS

Waiting(q) == route[q].stage = "providers"   \* its rows are not in the dict yet
Using(q)   == route[q].stage = "models"      \* its rows were put into the dict

\* The shape of the state.
Shape ==
    /\ DOMAIN route = Routes
    /\ \A q \in Routes : DOMAIN route[q] = DOMAIN Unrouted
    /\ DOMAIN cache = {"providers", "models"}
    /\ DOMAIN cache.providers \subseteq Providers
    /\ starts \in Nat

\* Seeding gives every provider a row, and no row is ever deleted.
Stored == Up => \A p \in Providers : Provider(p) \in DOMAIN db

\* Whatever may come into the dict while a route is under way was on in its time: the
\* rows in the database, those its rivals wait with, its own, and those in the dict
\* once its own are in.
Accounted ==
    \A q \in InFlight :
        /\ Up
        /\ OnIn(ProviderRows(db)) \subseteq route[q].seen
        /\ \A o \in Routes : Waiting(o) => OnIn(route[o].rows) \subseteq route[q].seen
        /\ Using(q) => OnIn(cache.providers) \subseteq route[q].seen

\* A route waits with the rows of all providers.
Whole == \A q \in Routes : Waiting(q) => DOMAIN route[q].rows = Providers

Inv == Shape /\ Stored /\ Accounted /\ Whole /\ CalledWhenOn

-----------------------------------------------------------------------------
(* The loop of the router.                                                   *)

LEMMA RefIsOn ==
    ASSUME NEW dict, NEW p, DOMAIN dict.providers \subseteq Providers
    PROVE  Ref(dict, p) \in Seq(OnIn(dict.providers))
<1>1. CASE p \in DOMAIN dict.providers /\ On(dict.providers[p])
  <2>1. p \in OnIn(dict.providers) /\ Tries[p] \in Nat
    BY <1>1, RoutingAssumption DEF OnIn
  <2> QED BY <1>1, <2>1 DEF Ref
<1>2. CASE ~(p \in DOMAIN dict.providers /\ On(dict.providers[p]))
  BY <1>2, EmptySeq DEF Ref
<1> QED BY <1>1, <1>2

\* A route has no choice but providers that are on in the dict.
LEMMA ChoicesAreOn ==
    ASSUME NEW dict, NEW agent, DOMAIN dict.providers \subseteq Providers
    PROVE  ChoicesFor(dict, agent) \in Seq(OnIn(dict.providers))
<1>1. CASE agent \notin DOMAIN dict.models
  BY <1>1 DEF ChoicesFor
<1>2. CASE agent \in DOMAIN dict.models
  <2> DEFINE model == dict.models[agent]
             second == IF model.fallback = "on" THEN Ref(dict, model.secondary) ELSE <<>>
  <2>1. Ref(dict, model.primary) \in Seq(OnIn(dict.providers))
    BY RefIsOn
  <2>2. second \in Seq(OnIn(dict.providers))
    BY RefIsOn, EmptySeq
  <2>3. ChoicesFor(dict, agent) = Ref(dict, model.primary) \o second
    BY <1>2 DEF ChoicesFor
  <2> HIDE DEF second, model
  <2> QED BY <2>1, <2>2, <2>3
<1> QED BY <1>1, <1>2

\* What is called is one of the choices.
LEMMA CalledAreChoices ==
    ASSUME NEW S, NEW choices \in Seq(S), NEW answers \in [DOMAIN choices -> Answers]
    PROVE  {choices[n] : n \in DOMAIN Called(answers)} \subseteq S
<1>1. DOMAIN Called(answers) \subseteq DOMAIN choices
  BY DEF Called
<1>2. \A n \in DOMAIN choices : choices[n] \in S
  OBVIOUS
<1> QED BY <1>1, <1>2

-----------------------------------------------------------------------------
(* The configuration keeps its rows.                                         *)

\* A request that begins stores nothing.
LEMMA AskKeepsRows ==
    ASSUME NEW r \in Requests, Ask(r)
    PROVE  db' = db /\ starts' = starts
<1>1. ASSUME NEW s, NEW keys, NEW to, NEW asks, Begin(s, keys, to, asks)
      PROVE  db' = db /\ starts' = starts
  BY <1>1 DEF Begin
<1>2. ASSUME NEW s, Refuse(s) PROVE db' = db /\ starts' = starts
  BY <1>2 DEF Refuse
<1>3. ASSUME NEW a, NEW change, PatchAgent(r, a, change) PROVE db' = db /\ starts' = starts
  BY <1>1, <1>2, <1>3 DEF PatchAgent
<1>4. ASSUME NEW a, NEW change, PatchModel(r, a, change) PROVE db' = db /\ starts' = starts
  BY <1>1, <1>4 DEF PatchModel
<1>5. ASSUME NEW p, NEW change, PatchProvider(r, p, change) PROVE db' = db /\ starts' = starts
  BY <1>1, <1>2, <1>5 DEF PatchProvider
<1>6. ASSUME NEW change, PatchSettings(r, change) PROVE db' = db /\ starts' = starts
  BY <1>1, <1>6 DEF PatchSettings
<1>7. ASSUME NEW pair, NEW effect, PutPermission(r, pair, effect)
      PROVE  db' = db /\ starts' = starts
  BY <1>1, <1>7 DEF PutPermission
<1>8. ASSUME NEW n, NEW pair, NEW effect, PatchPermission(r, n, pair, effect)
      PROVE  db' = db /\ starts' = starts
  BY <1>1, <1>2, <1>8 DEF PatchPermission
<1>9. SyncAgents(r) => db' = db /\ starts' = starts
  BY <1>1 DEF SyncAgents
<1>10. SyncTools(r) => db' = db /\ starts' = starts
  BY <1>1 DEF SyncTools
<1>11. ASSUME NEW pair, ToolCall(r, pair) PROVE db' = db /\ starts' = starts
  BY <1>11 DEF ToolCall
<1> QED
  BY <1>3, <1>4, <1>5, <1>6, <1>7, <1>8, <1>9, <1>10, <1>11 DEF Ask

\* A commit changes rows and adds some.
LEMMA CommitKeepsRows ==
    ASSUME NEW r \in Requests, Commit(r)
    PROVE  DOMAIN db \subseteq DOMAIN db' /\ starts' = starts
  BY DEF Commit, Over

\* Seeding adds the rows of the file that are missing.
LEMMA SeedStores ==
    ASSUME Start, starts \in Nat
    PROVE  /\ \A p \in Providers : Provider(p) \in DOMAIN db'
           /\ starts' \in Nat
<1>1. \A p \in Providers : Provider(p) \in DOMAIN Rows(YamlKeys, YamlRow)
  BY DEF YamlKeys, Rows
<1>2. \A k \in DOMAIN Rows(YamlKeys, YamlRow) : k \in DOMAIN db'
  BY DEF Start, Seeded, Over
<1>3. starts' \in Nat
  BY DEF Start
<1> QED BY <1>1, <1>2, <1>3

-----------------------------------------------------------------------------
(* The invariant.                                                            *)

LEMMA InitInv == Init => Inv
<1> SUFFICES ASSUME Init PROVE Inv
  OBVIOUS
<1>1. Shape
  BY ConfigAssumption DEF Init, ConfigInit, Shape, File
<1>2. \A q \in Routes : ~Waiting(q) /\ ~Using(q) /\ route[q].answers = <<>>
  BY DEF Init, Waiting, Using, Unrouted
<1>3. Stored
  BY DEF Init, ConfigInit, Stored, Up
<1>4. Accounted /\ Whole
  BY <1>2 DEF Accounted, Whole, InFlight, Waiting, Using
<1>5. CalledWhenOn
  BY <1>2 DEF CalledWhenOn
<1> QED BY <1>1, <1>3, <1>4, <1>5 DEF Inv

\* A route that begins accounts for the rows of the moment and of those that wait.
LEMMA StartInv ==
    ASSUME Inv, NEW q \in Routes, NEW agent \in Routers, StartRoute(q, agent)
    PROVE  Inv'
<1> USE DEF Inv
<1>1. /\ db' = db /\ starts' = starts /\ cache' = cache /\ Up
      /\ route[q] = Unrouted
  BY DEF StartRoute, config
<1>2. /\ DOMAIN route' = Routes
      /\ \A o \in Routes \ {q} : route'[o] = route[o]
      /\ DOMAIN route'[q] = DOMAIN Unrouted
      /\ route'[q].answers = <<>>
  BY DEF StartRoute, Shape, Unrouted
<1>3. \/ /\ route'[q].stage = "done"
      \/ /\ route'[q].stage = "providers"
         /\ route'[q].rows = ProviderRows(db)
         /\ route'[q].seen = Findable
  BY DEF StartRoute, Shape, Unrouted
<1>4. DOMAIN ProviderRows(db) = Providers
  BY <1>1 DEF ProviderRows, Stored
<1>5. Shape' /\ Stored'
  BY <1>1, <1>2 DEF Shape, Stored, Up
<1>6. Whole'
  BY <1>2, <1>3, <1>4 DEF Whole, Waiting
<1>7. CalledWhenOn'
  BY <1>2 DEF CalledWhenOn
<1>8. ProviderRows(db)' = ProviderRows(db)
  BY <1>1 DEF ProviderRows
<1>9. /\ OnIn(ProviderRows(db)) \subseteq Findable
      /\ \A o \in Routes : Waiting(o) => OnIn(route[o].rows) \subseteq Findable
  BY DEF Findable, Waiting, InFlight
<1>10. Accounted'
  <2> SUFFICES ASSUME NEW p \in Routes, (p \in InFlight)'
               PROVE  /\ Up'
                      /\ OnIn(ProviderRows(db))' \subseteq route'[p].seen
                      /\ \A o \in Routes : Waiting(o)' => OnIn(route'[o].rows) \subseteq route'[p].seen
                      /\ Using(p)' => OnIn(cache'.providers) \subseteq route'[p].seen
    BY DEF Accounted, InFlight
  <2>1. OnIn(ProviderRows(db))' = OnIn(ProviderRows(db))
    BY <1>8 DEF OnIn
  <2>2. CASE p = q
    <3>1. route'[p].stage = "providers" /\ route'[p].seen = Findable
      BY <1>3, <2>2 DEF InFlight
    <3>2. \A o \in Routes : Waiting(o)' => OnIn(route'[o].rows) \subseteq Findable
      BY <1>2, <1>3, <1>9 DEF Waiting
    <3> QED BY <1>1, <1>9, <2>1, <2>2, <3>1, <3>2 DEF Up, Using
  <2>3. CASE p # q
    <3>1. p \in InFlight /\ route'[p] = route[p]
      BY <1>2, <2>3 DEF InFlight
    <3>2. \A o \in Routes : Waiting(o)' => OnIn(route'[o].rows) \subseteq route[p].seen
      BY <1>2, <1>3, <3>1 DEF Waiting, Accounted
    <3> QED BY <1>1, <2>1, <3>1, <3>2 DEF Accounted, Up, Using
  <2> QED BY <2>2, <2>3
<1> QED BY <1>5, <1>6, <1>7, <1>10

\* The rows that go into the dict are accounted for by every route under way.
LEMMA ProvidersInv ==
    ASSUME Inv, NEW q \in Routes, GotProviders(q)
    PROVE  Inv'
<1> USE DEF Inv
<1>1. db' = db /\ starts' = starts /\ Waiting(q)
  BY DEF GotProviders, config, Waiting
<1>2. /\ DOMAIN cache' = {"providers", "models"}
      /\ cache'.providers = NewProviders(route[q].rows)
  BY DEF GotProviders, Shape
<1>3. /\ DOMAIN cache'.providers \subseteq Providers
      /\ OnIn(cache'.providers) \subseteq OnIn(route[q].rows)
  <2>1. CASE route[q].rows = Empty
    <3>1. Providers = {}
      BY <1>1, <2>1 DEF Whole, Empty
    <3> QED BY <1>2, <2>1, <3>1 DEF NewProviders, Shape, OnIn
  <2>2. CASE route[q].rows # Empty
    BY <1>1, <1>2, <2>2 DEF NewProviders, Whole
  <2> QED BY <2>1, <2>2
<1>4. /\ DOMAIN route' = Routes
      /\ \A o \in Routes \ {q} : route'[o] = route[o]
      /\ DOMAIN route'[q] = DOMAIN Unrouted
      /\ route'[q].stage = "models"
      /\ route'[q].seen = route[q].seen
      /\ route'[q].answers = route[q].answers
      /\ route'[q].choices = route[q].choices
  BY DEF GotProviders, Shape, Unrouted
<1>5. Shape' /\ Stored'
  BY <1>1, <1>2, <1>3, <1>4 DEF Shape, Stored, Up
<1>6. Whole'
  BY <1>4 DEF Whole, Waiting
<1>7. CalledWhenOn'
  BY <1>4 DEF CalledWhenOn
<1>8. Accounted'
  <2> SUFFICES ASSUME NEW p \in Routes, (p \in InFlight)'
               PROVE  /\ Up'
                      /\ OnIn(ProviderRows(db))' \subseteq route'[p].seen
                      /\ \A o \in Routes : Waiting(o)' => OnIn(route'[o].rows) \subseteq route'[p].seen
                      /\ Using(p)' => OnIn(cache'.providers) \subseteq route'[p].seen
    BY DEF Accounted, InFlight
  <2>1. p \in InFlight /\ route'[p].seen = route[p].seen
    BY <1>1, <1>4 DEF InFlight, Waiting
  <2>2. \A o \in Routes : Waiting(o)' => Waiting(o) /\ route'[o] = route[o]
    BY <1>4 DEF Waiting
  <2>3. OnIn(cache'.providers) \subseteq route[p].seen
    BY <1>1, <1>3, <2>1 DEF Accounted
  <2>4. OnIn(ProviderRows(db))' = OnIn(ProviderRows(db))
    BY <1>1 DEF OnIn, ProviderRows
  <2> QED BY <1>1, <2>1, <2>2, <2>3, <2>4 DEF Accounted, Up
<1> QED BY <1>5, <1>6, <1>7, <1>8

\* What a route calls is on in the dict, and so accounted for.
LEMMA ModelsInv ==
    ASSUME Inv, NEW q \in Routes, GotModels(q)
    PROVE  Inv'
<1> USE DEF Inv
<1>1. db' = db /\ starts' = starts /\ Using(q) /\ q \in InFlight
  BY DEF GotModels, config, Using, InFlight
<1>2. DOMAIN cache' = {"providers", "models"} /\ cache'.providers = cache.providers
  BY DEF GotModels, Shape
<1> DEFINE choices == ChoicesFor(cache', route[q].agent)
<1>3. PICK answers \in [DOMAIN choices -> Answers] :
         route' = [route EXCEPT ![q].stage = "done", ![q].rows = Empty,
                                ![q].choices = choices, ![q].answers = Called(answers),
                                ![q].result = Result(route[q].agent, route[q].mode, Called(answers))]
  BY DEF GotModels
<1>4. choices \in Seq(OnIn(cache.providers))
  BY <1>2, ChoicesAreOn DEF Shape
<1>5. {choices[n] : n \in DOMAIN Called(answers)} \subseteq OnIn(cache.providers)
  BY <1>3, <1>4, CalledAreChoices
<1> HIDE DEF choices
<1>6. /\ DOMAIN route' = Routes
      /\ \A o \in Routes \ {q} : route'[o] = route[o]
      /\ DOMAIN route'[q] = DOMAIN Unrouted
      /\ route'[q].stage = "done"
      /\ route'[q].choices = choices
      /\ route'[q].answers = Called(answers)
      /\ route'[q].seen = route[q].seen
  BY <1>3 DEF Shape, Unrouted
<1>7. Shape' /\ Stored'
  BY <1>1, <1>2, <1>6 DEF Shape, Stored, Up
<1>8. Whole'
  BY <1>6 DEF Whole, Waiting
<1>9. CalledWhenOn'
  <2>1. OnIn(cache.providers) \subseteq route[q].seen
    BY <1>1 DEF Accounted
  <2> QED BY <1>5, <1>6, <2>1 DEF CalledWhenOn
<1>10. Accounted'
  <2>1. ProviderRows(db)' = ProviderRows(db)
    BY <1>1 DEF ProviderRows
  <2>2. \A p \in Routes : (p \in InFlight)' => p \in InFlight /\ route'[p] = route[p]
    BY <1>6 DEF InFlight
  <2>3. \A p \in Routes : Waiting(p)' => Waiting(p) /\ route'[p] = route[p]
    BY <1>6 DEF Waiting
  <2> QED
    BY <1>1, <1>2, <2>1, <2>2, <2>3 DEF Accounted, Up, Using, OnIn, InFlight
<1> QED BY <1>7, <1>8, <1>9, <1>10

\* What a change turns on is accounted for at once; rows stay.
LEMMA ReconfigureInv ==
    ASSUME Inv, Reconfigure
    PROVE  Inv'
<1> USE DEF Inv
<1>1. DOMAIN db \subseteq DOMAIN db' /\ starts' = starts
  BY AskKeepsRows, CommitKeepsRows DEF Reconfigure, AddFile
<1>2. cache' = cache
  BY DEF Reconfigure
<1>3. /\ DOMAIN route' = Routes
      /\ \A q \in Routes \ InFlight : route'[q] = route[q]
      /\ \A q \in InFlight :
            route'[q] = [route[q] EXCEPT !.seen = @ \cup OnIn(ProviderRows(db'))]
  BY DEF Reconfigure, InFlight
<1>4. \A q \in Routes :
         /\ DOMAIN route'[q] = DOMAIN Unrouted
         /\ route'[q].stage = route[q].stage /\ route'[q].rows = route[q].rows
         /\ route'[q].answers = route[q].answers /\ route'[q].choices = route[q].choices
         /\ route[q].seen \subseteq route'[q].seen
         /\ q \in InFlight => OnIn(ProviderRows(db')) \subseteq route'[q].seen
  <2> TAKE q \in Routes
  <2>1. CASE q \in InFlight
    <3> DEFINE on == OnIn(ProviderRows(db'))
    <3>1. route'[q] = [route[q] EXCEPT !.seen = @ \cup on]
      BY <1>3, <2>1
    <3> HIDE DEF on
    <3>2. /\ route'[q].seen = route[q].seen \cup on
          /\ DOMAIN route'[q] = DOMAIN route[q]
          /\ route'[q].stage = route[q].stage /\ route'[q].rows = route[q].rows
          /\ route'[q].answers = route[q].answers /\ route'[q].choices = route[q].choices
      BY <3>1 DEF Shape, Unrouted
    <3> QED BY <3>2 DEF Shape, on
  <2>2. CASE q \notin InFlight
    BY <1>3, <2>2 DEF Shape
  <2> QED BY <2>1, <2>2
<1>5. Shape' /\ Stored'
  BY <1>1, <1>2, <1>3, <1>4 DEF Shape, Stored, Up
<1>6. Whole' /\ CalledWhenOn'
  BY <1>4 DEF Whole, Waiting, CalledWhenOn
<1>7. InFlight' = InFlight /\ \A q \in Routes : Waiting(q)' = Waiting(q) /\ Using(q)' = Using(q)
  BY <1>4 DEF InFlight, Waiting, Using
<1>8. OnIn(ProviderRows(db))' = OnIn(ProviderRows(db'))
  BY DEF OnIn, ProviderRows
<1>9. Accounted'
  <2> SUFFICES ASSUME NEW p \in InFlight
               PROVE  /\ Up'
                      /\ OnIn(ProviderRows(db))' \subseteq route'[p].seen
                      /\ \A o \in Routes : Waiting(o)' => OnIn(route'[o].rows) \subseteq route'[p].seen
                      /\ Using(p)' => OnIn(cache'.providers) \subseteq route'[p].seen
    BY <1>7 DEF Accounted
  <2>1. p \in Routes
    BY DEF InFlight
  <2>2. OnIn(ProviderRows(db))' \subseteq route'[p].seen
    BY <1>4, <1>8, <2>1
  <2>3. \A o \in Routes : Waiting(o)' => OnIn(route'[o].rows) \subseteq route'[p].seen
    BY <1>4, <1>7, <2>1 DEF Accounted
  <2>4. Using(p)' => OnIn(cache'.providers) \subseteq route'[p].seen
    BY <1>2, <1>4, <1>7, <2>1 DEF Accounted
  <2> QED BY <1>1, <2>2, <2>3, <2>4 DEF Accounted, Up
<1> QED BY <1>5, <1>6, <1>9

\* Nothing is under way after a restart.
LEMMA RestartInv ==
    ASSUME Inv, Restart
    PROVE  Inv'
<1> USE DEF Inv
<1>1. (\A p \in Providers : Provider(p) \in DOMAIN db') /\ starts' \in Nat
  BY SeedStores DEF Restart, Shape
<1>2. /\ DOMAIN cache' = {"providers", "models"}
      /\ DOMAIN cache'.providers = Providers
  BY DEF Restart, File
<1> DEFINE lost == [Unrouted EXCEPT !.stage = "lost"]
<1>3. /\ DOMAIN lost = DOMAIN Unrouted
      /\ lost.stage = "lost" /\ lost.answers = <<>>
  BY DEF Unrouted
<1>4. route' = [q \in Routes |-> IF q \in InFlight THEN lost ELSE route[q]]
  BY DEF Restart
<1> HIDE DEF lost
<1>5. /\ DOMAIN route' = Routes
      /\ \A q \in Routes : \/ q \notin InFlight /\ route'[q] = route[q]
                           \/ /\ DOMAIN route'[q] = DOMAIN Unrouted
                              /\ route'[q].stage = "lost" /\ route'[q].answers = <<>>
  BY <1>3, <1>4
<1>6. Shape' /\ Stored'
  BY <1>1, <1>2, <1>5 DEF Shape, Stored, Up
<1>7. \A q \in Routes : ~Waiting(q)' /\ ~Using(q)' /\ q \notin InFlight'
  <2> SUFFICES ASSUME NEW q \in Routes
               PROVE  route'[q].stage \notin {"providers", "models"}
    BY DEF Waiting, Using, InFlight
  <2> QED BY <1>5 DEF Waiting, Using, InFlight
<1>8. Whole' /\ Accounted'
  BY <1>7 DEF Whole, Accounted, InFlight
<1>9. CalledWhenOn'
  BY <1>5 DEF CalledWhenOn
<1> QED BY <1>6, <1>8, <1>9

LEMMA NextInv == Inv /\ [Next]_vars => Inv'
<1> SUFFICES ASSUME Inv, [Next]_vars PROVE Inv'
  OBVIOUS
<1>1. CASE RouteStep
  BY <1>1, StartInv, ProvidersInv, ModelsInv DEF RouteStep
<1>2. CASE Reconfigure
  BY <1>2, ReconfigureInv
<1>3. CASE Restart
  BY <1>3, RestartInv
<1>4. CASE UNCHANGED vars
  BY <1>4 DEF vars, config, routing, Inv, Shape, Stored, Accounted, Whole, CalledWhenOn,
              InFlight, Waiting, Using, Up, ProviderRows, OnIn
<1> QED BY <1>1, <1>2, <1>3, <1>4 DEF Next

\* No route calls a provider that was off the whole time, whatever the requests, the
\* routes and the files: all share one dict, and the last one to write it wins.
THEOREM CallsOnlyWhatWasOn == Spec => []CalledWhenOn
<1>1. Inv => CalledWhenOn
  BY DEF Inv
<1> QED BY InitInv, NextInv, <1>1, PTL DEF Spec

-----------------------------------------------------------------------------
(* Giving up.                                                                *)

\* Every nonempty set of naturals has a least element.
LEMMA LeastOf ==
    ASSUME NEW S \in SUBSET Nat, S # {}
    PROVE  \E n \in S : \A m \in S : n <= m
<1> DEFINE Below == {0..n : n \in S}
<1>1. Below \subseteq FiniteSubsetsOf(Nat)
  <2>1. \A n \in Nat : 0..n \in SUBSET Nat /\ IsFiniteSet(0..n)
    BY FS_Interval
  <2>2. QED
    BY <2>1 DEF FiniteSubsetsOf
<1>2. Below # {}
  OBVIOUS
<1> HIDE DEF Below
<1>3. PICK x \in Below : \A y \in Below : ~(<<y, x>> \in StrictSubsetOrdering(Nat))
  BY <1>1, <1>2, FS_StrictSubsetOrderingWellFounded, WFMin
<1>4. PICK n \in S : x = 0..n
  BY <1>3 DEF Below
<1>5. ASSUME NEW m \in S PROVE n <= m
  <2>1. SUFFICES ASSUME m < n PROVE FALSE
    OBVIOUS
  <2>2. 0..m \in Below
    BY DEF Below
  <2>3. 0..m \subseteq 0..n /\ n \in 0..n /\ n \notin 0..m
    BY <2>1
  <2>4. <<0..m, x>> \in StrictSubsetOrdering(Nat)
    BY <1>4, <2>3 DEF StrictSubsetOrdering
  <2>5. QED
    BY <1>3, <2>2, <2>4
<1> QED
  BY <1>5

\* The loop runs to the first answer that is no error, or through all choices.
LEMMA CalledToTheFirst ==
    ASSUME NEW L \in Nat, NEW answers \in [1..L -> Answers]
    PROVE  \E n \in 0..L : /\ DOMAIN Called(answers) = 1..n
                           /\ n = L \/ (n > 0 /\ answers[n] # "error")
<1> DEFINE Stops == {m \in 1..L : answers[m] # "error"}
           C     == {k \in 1..L : \A m \in 1..(k - 1) : answers[m] = "error"}
<1>1. DOMAIN Called(answers) = C
  BY DEF Called, Stopped
<1>2. CASE Stops = {}
  <2>1. \A k \in 1..L : \A m \in 1..(k - 1) : m \in 1..L
    OBVIOUS
  <2>2. C = 1..L
    BY <1>2, <2>1
  <2>3. L \in 0..L
    OBVIOUS
  <2> QED BY <1>1, <2>2, <2>3
<1>3. CASE Stops # {}
  <2>1. Stops \in SUBSET Nat
    OBVIOUS
  <2>2. PICK f \in Stops : \A m \in Stops : f <= m
    BY <1>3, <2>1, LeastOf
  <2>3. f \in 1..L /\ answers[f] # "error" /\ f \in 0..L /\ f > 0
    BY <2>2
  <2>4. ASSUME NEW k \in 1..L PROVE k \in C <=> k <= f
    <3>1. ASSUME k \in C, k > f PROVE FALSE
      <4>1. f \in 1..(k - 1)
        BY <2>3, <3>1
      <4> QED BY <2>3, <3>1, <4>1
    <3>2. ASSUME k <= f, NEW m \in 1..(k - 1) PROVE answers[m] = "error"
      <4>1. m \in 1..L /\ ~(f <= m)
        BY <2>3, <3>2
      <4> QED BY <2>2, <4>1
    <3> QED BY <2>3, <3>1, <3>2
  <2>5. C = 1..f
    BY <2>3, <2>4
  <2> QED BY <1>1, <2>3, <2>5
<1> QED BY <1>2, <1>3

\* A route that used none of its answers tried all of its choices, or was stopped by an
\* answer that was no error and of no use.
LEMMA GaveUpLast ==
    ASSUME NEW S, NEW choices \in Seq(S), NEW answers \in [DOMAIN choices -> Answers],
           NEW agent, NEW mode, Result(agent, mode, Called(answers)) # "provider"
    PROVE  \/ Len(Called(answers)) = Len(choices)
           \/ Called(answers)[Len(Called(answers))] \in {"odd", "useless"}
<1> DEFINE L == Len(choices)
           c == Called(answers)
<1>1. L \in Nat /\ answers \in [1..L -> Answers]
  OBVIOUS
<1>2. PICK n \in 0..L : /\ DOMAIN c = 1..n
                        /\ n = L \/ (n > 0 /\ answers[n] # "error")
  BY <1>1, CalledToTheFirst
<1>3. c = [k \in 1..n |-> answers[k]]
  BY <1>2 DEF Called
<1>4. c \in Seq(Answers) /\ Len(c) = n
  <2>1. n \in Nat /\ \A k \in 1..n : answers[k] \in Answers
    BY <1>1, <1>2
  <2> HIDE DEF c
  <2> QED BY <1>3, <2>1
<1>5. CASE n # L
  <2>1. n > 0 /\ answers[n] # "error" /\ n \in 1..n /\ n \in 1..L
    BY <1>1, <1>2, <1>5
  <2>2. c[Len(c)] = answers[n] /\ c # <<>>
    BY <1>3, <1>4, <2>1
  <2>3. answers[n] # "good"
    BY <2>2 DEF Result
  <2> QED BY <1>1, <2>1, <2>2, <2>3 DEF Answers
<1> QED BY <1>4, <1>5

\* What a step does to the outcome of a route: nothing, or it is fresh, or it is that
\* of a loop that ran through the choices in the dict.
Outcome(x) == <<x.result, x.mode, x.answers, x.choices>>

LEMMA OutcomeOfStep ==
    ASSUME Inv, LastResort, [Next]_vars, NEW q \in Routes
    PROVE  \/ Outcome(route'[q]) = Outcome(route[q])
           \/ route'[q].result = "none" \/ route'[q].mode = "deterministic"
           \/ /\ route'[q].result # "provider" =>
                    \/ Len(route'[q].answers) = Len(route'[q].choices)
                    \/ route'[q].answers[Len(route'[q].answers)] \in {"odd", "useless"}
<1> USE DEF Inv
<1>1. ASSUME NEW o \in Routes, NEW agent \in Routers, StartRoute(o, agent)
      PROVE  \/ route'[q] = route[q]
             \/ route'[q].result = "none" \/ route'[q].mode = "deterministic"
  BY <1>1 DEF StartRoute, Shape, Unrouted
<1>2. ASSUME NEW o \in Routes, GotProviders(o)
      PROVE  Outcome(route'[q]) = Outcome(route[q])
  BY <1>2 DEF GotProviders, Shape, Unrouted, Outcome
<1>3. ASSUME NEW o \in Routes, GotModels(o)
      PROVE  \/ route'[q] = route[q]
             \/ route'[q].result # "provider" =>
                    \/ Len(route'[q].answers) = Len(route'[q].choices)
                    \/ route'[q].answers[Len(route'[q].answers)] \in {"odd", "useless"}
  <2> DEFINE choices == ChoicesFor(cache', route[o].agent)
  <2>1. PICK answers \in [DOMAIN choices -> Answers] :
           route' = [route EXCEPT ![o].stage = "done", ![o].rows = Empty,
                                  ![o].choices = choices, ![o].answers = Called(answers),
                                  ![o].result = Result(route[o].agent, route[o].mode, Called(answers))]
    BY <1>3 DEF GotModels
  <2>2. DOMAIN cache' = {"providers", "models"} /\ cache'.providers = cache.providers
    BY <1>3 DEF GotModels, Shape
  <2>3. choices \in Seq(OnIn(cache.providers))
    BY <2>2, ChoicesAreOn DEF Shape
  <2> HIDE DEF choices
  <2>4. \/ q # o /\ route'[q] = route[q]
        \/ /\ route'[q].choices = choices
           /\ route'[q].answers = Called(answers)
           /\ route'[q].result = Result(route[o].agent, route[o].mode, Called(answers))
    BY <2>1 DEF Shape, Unrouted
  <2> QED BY <2>1, <2>3, <2>4, GaveUpLast
<1>4. ASSUME Reconfigure PROVE Outcome(route'[q]) = Outcome(route[q])
  <2> DEFINE on == OnIn(ProviderRows(db'))
  <2>1. route'[q] \in {route[q], [route[q] EXCEPT !.seen = @ \cup on]}
    BY <1>4 DEF Reconfigure
  <2> HIDE DEF on
  <2> QED BY <2>1 DEF Outcome, Shape, Unrouted
<1>5. ASSUME Restart PROVE route'[q] = route[q] \/ route'[q].result = "none"
  BY <1>5 DEF Restart, Unrouted
<1>6. ASSUME UNCHANGED vars PROVE route'[q] = route[q]
  BY <1>6 DEF vars, routing
<1> QED
  BY <1>1, <1>2, <1>3, <1>4, <1>5, <1>6 DEF Next, RouteStep, Outcome

\* A route falls back to the local rules, or refuses, only when the last of its choices
\* failed, or a provider answered with something that is of no use: whatever the
\* providers, their order, their keys and the changes of the owner.
THEOREM FallsBackLast == Spec => []LastResort
<1>1. Init => LastResort
  BY DEF Init, LastResort, Unrouted
<1>2. Inv /\ LastResort /\ [Next]_vars => LastResort'
  <2> SUFFICES ASSUME Inv, LastResort, [Next]_vars, NEW q \in Routes,
                      route'[q].result \in {"rules", "refused"}
               PROVE  \/ route'[q].mode = "deterministic"
                      \/ Len(route'[q].answers) = Len(route'[q].choices)
                      \/ route'[q].answers[Len(route'[q].answers)] \in {"odd", "useless"}
    BY DEF LastResort
  <2> QED BY OutcomeOfStep DEF LastResort, Outcome
<1> QED BY InitInv, NextInv, <1>1, <1>2, PTL DEF Spec

-----------------------------------------------------------------------------
(* The owner's word: the invariant of the configuration.                     *)

\* Columns that requests change without being asked to: the name, the count of the
\* changes and the risk of a tool are the program's.
Own == {"display", "version", "risk"}

\* What an open request has read and what it is going to write.
FromFits(from) ==
    /\ DOMAIN from \subseteq DOMAIN db
    /\ \A k \in DOMAIN from : DOMAIN from[k] = Columns(k)
    /\ \A a \in Agents : Agent(a) \in DOMAIN from =>
          /\ \/ db[Agent(a)].autonomy = from[Agent(a)].autonomy
             \/ db[Agent(a)].autonomy \in P!AutonomyModes
          /\ from[Agent(a)].version \in Nat
          /\ from[Agent(a)].version <= 1 + patches[a]

ToFits(from, to, asks) ==
    /\ DOMAIN from \subseteq DOMAIN to
    /\ \A k \in DOMAIN to : DOMAIN to[k] = Columns(k)
    /\ \A k \in DOMAIN to : k[1] = "perm" => k \in DOMAIN from \/ k = NewPerm
    /\ NewPerm \in DOMAIN to => /\ DOMAIN to = {NewPerm}
                                /\ DOMAIN from = {} /\ DOMAIN asks = {}
    /\ \A k \in DOMAIN from : \A c \in DOMAIN to[k] \ Own :
          from[k][c] = to[k][c] \/ (k \in DOMAIN asks /\ c \in DOMAIN asks[k])

AsksFit(from, to, asks) ==
    /\ DOMAIN asks \subseteq DOMAIN to
    /\ \A k \in DOMAIN asks :
          /\ DOMAIN asks[k] \subseteq Columns(k) \ {"version", "risk"}
          /\ \A c \in DOMAIN asks[k] \ {"settings"} : to[k][c] = asks[k][c]
          /\ "settings" \in DOMAIN asks[k] =>
                to[k].settings = Over(asks[k].settings,
                                      IF k \in DOMAIN from THEN from[k].settings ELSE Empty)

AgentsFit(from, to, asks) ==
    \A a \in Agents :
        /\ Agent(a) \in DOMAIN asks =>
              /\ Agent(a) \in DOMAIN from
              /\ to[Agent(a)].version = from[Agent(a)].version + 1
              /\ "autonomy" \in DOMAIN asks[Agent(a)] =>
                    asks[Agent(a)].autonomy \in P!AutonomyModes
        /\ Agent(a) \in DOMAIN to \ DOMAIN asks =>
              to[Agent(a)].version = IF Agent(a) \in DOMAIN from THEN from[Agent(a)].version ELSE 1

Fits(from, to, asks) ==
    FromFits(from) /\ ToFits(from, to, asks) /\ AsksFit(from, to, asks)
    /\ AgentsFit(from, to, asks)

RequestsFit ==
    /\ DOMAIN req = Requests
    /\ \A r \in Requests : /\ DOMAIN req[r] = DOMAIN Idle
                           /\ r \in Open => Fits(req[r].from, req[r].to, req[r].asks)

\* A request that is alone is the only one, and what it found missing is missing still.
AloneKnows ==
    \A r \in Open : req[r].alone =>
        /\ Open = {r}
        /\ NewPerm \in DOMAIN req[r].to => PermsOf(db, req[r].to[NewPerm].pair) = {}

\* Permissions are numbered one by one.
Numbered == \E n \in Nat : Keys("perm") = {Perm(i) : i \in 1..n}

RowsTyped == \A k \in DOMAIN db : DOMAIN db[k] = Columns(k)

WordsTyped ==
    /\ DOMAIN told \subseteq DOMAIN db
    /\ \A k \in DOMAIN told : DOMAIN told[k] \subseteq Columns(k) \ {"version", "risk"}
    /\ \A a \in Agents : Agent(a) \in DOMAIN told /\ "autonomy" \in DOMAIN told[Agent(a)] =>
          db[Agent(a)].autonomy \in P!AutonomyModes

\* An agent that has no row was never changed.
Counted ==
    /\ patches \in [Agents -> Nat]
    /\ \A a \in Agents : IF Agent(a) \in DOMAIN db THEN db[Agent(a)].version \in Nat
                         ELSE patches[a] = 0

ConfigInv ==
    /\ RequestsFit /\ AloneKnows
    /\ RowsTyped /\ Numbered
    /\ WordsTyped /\ Counted
    /\ OwnersWordKept /\ VersionCounts
    /\ DOMAIN calls \subseteq Requests

\* The columns of the keys there are.
LEMMA ColumnsOfKeys ==
    /\ \A a : Agent(a)[1] = "agent"
              /\ Columns(Agent(a)) = {"display", "enabled", "autonomy", "version"}
    /\ \A a : Model(a)[1] = "model" /\ Columns(Model(a)) = ModelColumns
    /\ \A p : Provider(p)[1] = "provider" /\ Columns(Provider(p)) = ProviderColumns
    /\ \A s : Setting(s)[1] = "setting" /\ Columns(Setting(s)) = {"value"}
    /\ \A t : Tool(t)[1] = "tool" /\ Columns(Tool(t)) = {"risk"}
    /\ \A n : Perm(n)[1] = "perm" /\ Columns(Perm(n)) = {"pair", "effect"}
  BY DEF Columns, Agent, Model, Provider, Setting, Tool, Perm

LEMMA KeysDiffer ==
    /\ \A a, b : Agent(a) = Agent(b) => a = b
    /\ \A m, n : Perm(m) = Perm(n) => m = n
  BY DEF Agent, Perm

\* A key that is drawn later is no key yet.
LEMMA NewPermIsNew ==
    ASSUME Numbered PROVE NewPerm \notin DOMAIN db
<1>1. PICK n \in Nat : Keys("perm") = {Perm(i) : i \in 1..n}
  BY DEF Numbered
<1>2. ASSUME NewPerm \in DOMAIN db PROVE FALSE
  <2>1. NewPerm \in Keys("perm")
    BY <1>2, ColumnsOfKeys DEF Keys, NewPerm
  <2>2. PICK i \in 1..n : NewPerm = Perm(i)
    BY <1>1, <2>1
  <2> QED BY <2>2, KeysDiffer DEF NewPerm
<1> QED BY <1>2

\* A request that begins reads rows as they are; what it will write must fit them.
LEMMA BeginKeeps ==
    ASSUME ConfigInv, NEW r \in Requests, NEW keys, NEW to, NEW asks,
           Begin(r, keys, to, asks),
           NEW from, from = [k \in keys \cap DOMAIN db |-> db[k]],
           ToFits(from, to, asks), AsksFit(from, to, asks), AgentsFit(from, to, asks),
           NewPerm \in DOMAIN to => PermsOf(db, to[NewPerm].pair) = {}
    PROVE  ConfigInv'
<1> USE DEF ConfigInv
<1>1. UNCHANGED <<db, calls, files, starts, told, crossed, patches>> /\ req[r] = Idle
  BY DEF Begin
<1>2. from = Rows(keys \cap DOMAIN db, LAMBDA k : db[k])
  BY DEF Rows
<1>3. FromFits(from)
  BY ColumnsOfKeys DEF FromFits, RowsTyped, Counted, VersionCounts
<1> DEFINE new == [NewRequest(from, to, asks) EXCEPT !.alone = Open = {}]
<1>4. /\ DOMAIN new = DOMAIN Idle /\ new.stage = "open"
      /\ new.from = from /\ new.to = to /\ new.asks = asks
      /\ new.alone <=> Open = {}
  BY DEF NewRequest, Idle
<1>5. req' = [s \in Requests |-> IF s = r THEN new
                                 ELSE IF s \in Open THEN [req[s] EXCEPT !.alone = FALSE]
                                 ELSE req[s]]
  BY <1>2 DEF Begin
<1> HIDE DEF new
<1>6. /\ DOMAIN req' = Requests /\ req'[r] = new
      /\ \A s \in Requests \ {r} :
            /\ DOMAIN req'[s] = DOMAIN Idle /\ req'[s].stage = req[s].stage
            /\ req'[s].from = req[s].from /\ req'[s].to = req[s].to
            /\ req'[s].asks = req[s].asks
            /\ s \in Open => ~req'[s].alone
  BY <1>5 DEF RequestsFit, Idle
<1>7. Open' = Open \cup {r} /\ r \notin Open
  BY <1>1, <1>4, <1>6 DEF Open, Idle
<1>8. RequestsFit'
  <2>1. ASSUME NEW s \in Requests, s \in Open'
        PROVE  Fits(req[s].from, req[s].to, req[s].asks)'
    <3> DEFINE f == req'[s].from
               t == req'[s].to
               a == req'[s].asks
    <3>1. FromFits(f) /\ ToFits(f, t, a) /\ AsksFit(f, t, a) /\ AgentsFit(f, t, a)
      <4>1. CASE s = r
        BY <1>3, <1>4, <1>6, <4>1
      <4>2. CASE s # r
        BY <1>6, <1>7, <2>1, <4>2 DEF RequestsFit, Fits
      <4> QED BY <4>1, <4>2
    <3> QED BY <1>1, <3>1 DEF Fits, FromFits, ToFits, AsksFit, AgentsFit
  <2>2. \A s \in Requests : DOMAIN req'[s] = DOMAIN Idle
    BY <1>4, <1>6
  <2> QED BY <1>6, <2>1, <2>2 DEF RequestsFit
<1>9. AloneKnows'
  <2> SUFFICES ASSUME NEW s \in Open', req'[s].alone
               PROVE  /\ Open' = {s}
                      /\ NewPerm \in DOMAIN req'[s].to => PermsOf(db', req'[s].to[NewPerm].pair) = {}
    BY DEF AloneKnows
  <2>1. s = r /\ Open = {}
    BY <1>4, <1>6, <1>7 DEF Open
  <2> QED BY <1>1, <1>4, <1>6, <1>7, <2>1
<1>10. RowsTyped' /\ Numbered' /\ WordsTyped' /\ Counted'
  BY <1>1 DEF RowsTyped, Numbered, Keys, WordsTyped, Counted
<1>11. OwnersWordKept' /\ VersionCounts' /\ (DOMAIN calls \subseteq Requests)'
  BY <1>1 DEF OwnersWordKept, VersionCounts
<1> QED BY <1>8, <1>9, <1>10, <1>11

\* A request that ends without an effect changes no row.
LEMMA EndKeeps ==
    ASSUME ConfigInv, NEW r \in Requests, req' = [req EXCEPT ![r] = Done],
           UNCHANGED <<db, told, crossed, patches>>, DOMAIN calls' \subseteq Requests
    PROVE  ConfigInv'
<1> USE DEF ConfigInv
<1>1. DOMAIN Done = DOMAIN Idle /\ Done.stage # "open"
  BY DEF Done, Idle
<1>2. /\ DOMAIN req' = Requests /\ req'[r] = Done
      /\ \A s \in Requests \ {r} : req'[s] = req[s]
  BY DEF RequestsFit
<1>3. Open' = Open \ {r}
  BY <1>1, <1>2 DEF Open
<1>4. \A s \in Open' : req'[s] = req[s] /\ s \in Requests
  BY <1>1, <1>2 DEF Open
<1>5. RequestsFit'
  <2>1. \A s \in Requests : DOMAIN req'[s] = DOMAIN Idle
    BY <1>1, <1>2 DEF RequestsFit
  <2>2. ASSUME NEW s \in Open' PROVE Fits(req[s].from, req[s].to, req[s].asks)'
    <3>1. Fits(req[s].from, req[s].to, req[s].asks) /\ req'[s] = req[s]
      BY <1>3, <1>4, <2>2 DEF RequestsFit
    <3> QED BY <3>1 DEF Fits, FromFits, ToFits, AsksFit, AgentsFit
  <2> QED BY <1>2, <2>1, <2>2 DEF RequestsFit
<1>6. AloneKnows'
  BY <1>3, <1>4 DEF AloneKnows, PermsOf
<1>7. RowsTyped' /\ Numbered' /\ WordsTyped' /\ Counted'
  BY DEF RowsTyped, Numbered, Keys, WordsTyped, Counted
<1>8. OwnersWordKept' /\ VersionCounts'
  BY DEF OwnersWordKept, VersionCounts
<1> QED BY <1>5, <1>6, <1>7, <1>8


LEMMA NormalChangeIsTyped ==
    ASSUME NEW change \in AgentChanges
    PROVE  /\ DOMAIN NormalChange(change) \subseteq {"display", "enabled", "autonomy"}
           /\ "autonomy" \in DOMAIN NormalChange(change) =>
                 NormalChange(change).autonomy \in P!AutonomyModes
<1>1. DOMAIN change \subseteq {"display", "enabled", "autonomy"}
  BY ConfigAssumption
<1>2. \A x : P!Normalize(x) \in P!AutonomyModes
  BY DEF P!Normalize, P!AutonomyModes
<1>3. CASE "autonomy" \in DOMAIN change
  <2>1. NormalChange(change) = [change EXCEPT !.autonomy = P!Normalize(change.autonomy)]
    BY <1>3 DEF NormalChange
  <2> QED BY <1>1, <1>2, <1>3, <2>1
<1>4. CASE "autonomy" \notin DOMAIN change
  BY <1>1, <1>4 DEF NormalChange
<1> QED BY <1>3, <1>4

\* A change of an agent counts its version and does what it says.
LEMMA ChangedIsTyped ==
    ASSUME NEW row, DOMAIN row = {"display", "enabled", "autonomy", "version"},
           NEW change, DOMAIN change \subseteq {"display", "enabled", "autonomy"}
    PROVE  /\ DOMAIN Changed(row, change) = DOMAIN row
           /\ Changed(row, change).version = row.version + 1
           /\ \A c \in DOMAIN change : Changed(row, change)[c] = change[c]
           /\ \A c \in DOMAIN row \ (DOMAIN change \cup {"version"}) :
                 Changed(row, change)[c] = row[c]
<1>1. Patched(row, change) = Over(change, row)
  BY DEF Patched
<1> DEFINE new == Over(change, row)
<1>2. /\ DOMAIN new = DOMAIN row
      /\ \A c \in DOMAIN change : new[c] = change[c]
      /\ \A c \in DOMAIN row \ DOMAIN change : new[c] = row[c]
  BY DEF Over
<1> HIDE DEF new
<1>3. Changed(row, change) = [new EXCEPT !.version = new.version + 1]
  BY <1>1 DEF Changed, new
<1>4. "version" \in DOMAIN new /\ new.version = row.version
  BY <1>2
<1> QED BY <1>2, <1>3, <1>4

LEMMA PatchAgentKeeps ==
    ASSUME ConfigInv, NEW r \in Requests, NEW a \in Agents, NEW change \in AgentChanges,
           PatchAgent(r, a, change)
    PROVE  ConfigInv'
<1> DEFINE k == Agent(a)
           nc == NormalChange(change)
           to == Single(k, Changed(db[k], nc))
           asks == Single(k, nc)
           from == [x \in {k} \cap DOMAIN db |-> db[x]]
<1>1. CASE k \notin DOMAIN db
  <2>1. Refuse(r)
    BY <1>1 DEF PatchAgent
  <2> QED BY <2>1, EndKeeps DEF Refuse, ConfigInv
<1>2. CASE k \in DOMAIN db
  <2>1. Begin(r, {k}, to, asks)
    BY <1>2 DEF PatchAgent
  <2>2. DOMAIN db[k] = {"display", "enabled", "autonomy", "version"} /\ Columns(k) = DOMAIN db[k]
    BY <1>2, ColumnsOfKeys DEF ConfigInv, RowsTyped
  <2>3. /\ DOMAIN nc \subseteq {"display", "enabled", "autonomy"}
        /\ "autonomy" \in DOMAIN nc => nc.autonomy \in P!AutonomyModes
    BY NormalChangeIsTyped
  <2> DEFINE new == Changed(db[k], nc)
  <2>4. /\ DOMAIN new = DOMAIN db[k]
        /\ new.version = db[k].version + 1
        /\ \A c \in DOMAIN nc : new[c] = nc[c]
        /\ \A c \in DOMAIN db[k] \ (DOMAIN nc \cup {"version"}) : new[c] = db[k][c]
    BY <2>2, <2>3, ChangedIsTyped
  <2>5. DOMAIN from = {k} /\ from[k] = db[k]
    BY <1>2
  <2>6. DOMAIN to = {k} /\ to[k] = new /\ DOMAIN asks = {k} /\ asks[k] = nc
    BY DEF Single
  <2>7. k[1] = "agent" /\ k # NewPerm /\ \A b \in Agents : Agent(b) = k => b = a
    BY ColumnsOfKeys, KeysDiffer DEF NewPerm
  <2>8. Begin(r, {k}, to, asks) /\ from = [x \in {k} \cap DOMAIN db |-> db[x]]
    BY <2>1
  <2> HIDE DEF new, to, asks, from, nc
  <2>9. ToFits(from, to, asks)
    BY <2>2, <2>4, <2>5, <2>6, <2>7 DEF ToFits, Own
  <2>10. AsksFit(from, to, asks)
    BY <2>2, <2>3, <2>4, <2>5, <2>6 DEF AsksFit
  <2>11. AgentsFit(from, to, asks)
    BY <2>3, <2>4, <2>5, <2>6, <2>7 DEF AgentsFit
  <2> QED BY <2>6, <2>7, <2>8, <2>9, <2>10, <2>11, BeginKeeps
<1> QED BY <1>1, <1>2

\* Models and providers have settings, which are merged key by key.
LEMMA PatchedIsTyped ==
    ASSUME NEW row, "settings" \in DOMAIN row, NEW change, DOMAIN change \subseteq DOMAIN row
    PROVE  /\ DOMAIN Patched(row, change) = DOMAIN row
           /\ \A c \in DOMAIN change \ {"settings"} : Patched(row, change)[c] = change[c]
           /\ \A c \in DOMAIN row \ DOMAIN change : Patched(row, change)[c] = row[c]
           /\ "settings" \in DOMAIN change =>
                 Patched(row, change).settings = Over(change.settings, row.settings)
<1> DEFINE new == Over(change, row)
           merged == Over(change.settings, row.settings)
<1>1. /\ DOMAIN new = DOMAIN row
      /\ \A c \in DOMAIN change : new[c] = change[c]
      /\ \A c \in DOMAIN row \ DOMAIN change : new[c] = row[c]
  BY DEF Over
<1>2. Patched(row, change) = IF "settings" \in DOMAIN change
                             THEN [new EXCEPT !.settings = merged] ELSE new
  BY DEF Patched
<1> HIDE DEF new, merged
<1>3. /\ DOMAIN Patched(row, change) = DOMAIN row
      /\ \A c \in DOMAIN change \ {"settings"} : Patched(row, change)[c] = change[c]
      /\ \A c \in DOMAIN row \ DOMAIN change : Patched(row, change)[c] = row[c]
      /\ "settings" \in DOMAIN change => Patched(row, change).settings = merged
  BY <1>1, <1>2
<1> QED BY <1>3 DEF merged

\* A patch of one row of settings, of a model or of a provider.
LEMMA PatchKeeps ==
    ASSUME ConfigInv, NEW r \in Requests, NEW k, NEW old, NEW change,
           k[1] \in {"model", "provider"},
           "settings" \in Columns(k), DOMAIN change \subseteq Columns(k),
           DOMAIN old = Columns(k),
           k \in DOMAIN db => old = db[k],
           k \notin DOMAIN db => old.settings = Empty,
           Begin(r, {k}, Single(k, Patched(old, change)), Single(k, change))
    PROVE  ConfigInv'
<1> DEFINE new == Patched(old, change)
           to == Single(k, new)
           asks == Single(k, change)
           from == [x \in {k} \cap DOMAIN db |-> db[x]]
<1>1. /\ DOMAIN new = Columns(k)
      /\ \A c \in DOMAIN change \ {"settings"} : new[c] = change[c]
      /\ \A c \in DOMAIN old \ DOMAIN change : new[c] = old[c]
      /\ "settings" \in DOMAIN change => new.settings = Over(change.settings, old.settings)
  BY PatchedIsTyped
<1>2. /\ DOMAIN from = {k} \cap DOMAIN db
      /\ k \in DOMAIN from => from[k] = old
      /\ k \notin DOMAIN from => old.settings = Empty
  OBVIOUS
<1>3. DOMAIN to = {k} /\ to[k] = new /\ DOMAIN asks = {k} /\ asks[k] = change
  BY DEF Single
<1>4. k[1] # "perm" /\ k # NewPerm /\ \A a : k # Agent(a)
  BY ColumnsOfKeys DEF NewPerm
<1>5. {"version", "risk"} \cap Columns(k) = {}
  BY DEF Columns, ModelColumns, ProviderColumns
<1>6. Begin(r, {k}, to, asks) /\ from = [x \in {k} \cap DOMAIN db |-> db[x]]
  OBVIOUS
<1> HIDE DEF new, to, asks, from
<1>7. ToFits(from, to, asks)
  BY <1>1, <1>2, <1>3, <1>4 DEF ToFits
<1>8. AsksFit(from, to, asks)
  BY <1>1, <1>2, <1>3, <1>5 DEF AsksFit
<1>9. AgentsFit(from, to, asks)
  BY <1>2, <1>3, <1>4 DEF AgentsFit
<1> QED BY <1>3, <1>4, <1>6, <1>7, <1>8, <1>9, BeginKeeps


LEMMA PatchModelKeeps ==
    ASSUME ConfigInv, NEW r \in Requests, NEW a \in Agents, NEW change \in ModelChanges,
           PatchModel(r, a, change)
    PROVE  ConfigInv'
<1> DEFINE k == Model(a)
           old == IF k \in DOMAIN db THEN db[k] ELSE NoModel
<1>1. k[1] = "model" /\ Columns(k) = ModelColumns
  BY ColumnsOfKeys
<1>2. DOMAIN NoModel = ModelColumns /\ NoModel.settings = Empty
  BY DEF NoModel, ModelColumns
<1>3. /\ DOMAIN old = Columns(k)
      /\ k \in DOMAIN db => old = db[k]
      /\ k \notin DOMAIN db => old.settings = Empty
  BY <1>1, <1>2 DEF ConfigInv, RowsTyped
<1>4. "settings" \in Columns(k) /\ DOMAIN change \subseteq Columns(k)
  BY <1>1, ConfigAssumption DEF ModelColumns
<1>5. Begin(r, {k}, Single(k, Patched(old, change)), Single(k, change))
  BY DEF PatchModel
<1> HIDE DEF k, old
<1> QED BY <1>1, <1>3, <1>4, <1>5, PatchKeeps

LEMMA PatchProviderKeeps ==
    ASSUME ConfigInv, NEW r \in Requests, NEW p \in Providers, NEW change \in ProviderChanges,
           PatchProvider(r, p, change)
    PROVE  ConfigInv'
<1> DEFINE k == Provider(p)
<1>1. k[1] = "provider" /\ Columns(k) = ProviderColumns
  BY ColumnsOfKeys
<1>2. "settings" \in Columns(k) /\ DOMAIN change \subseteq Columns(k)
  BY <1>1, ConfigAssumption DEF ProviderColumns
<1>3. CASE k \in DOMAIN db
  <2>1. DOMAIN db[k] = Columns(k)
    BY <1>3 DEF ConfigInv, RowsTyped
  <2>2. Begin(r, {k}, Single(k, Patched(db[k], change)), Single(k, change))
    BY <1>3 DEF PatchProvider
  <2> HIDE DEF k
  <2> QED BY <1>1, <1>2, <1>3, <2>1, <2>2, PatchKeeps
<1>4. CASE k \notin DOMAIN db
  <2>1. Refuse(r)
    BY <1>4 DEF PatchProvider
  <2> QED BY <2>1, EndKeeps DEF Refuse, ConfigInv
<1> QED BY <1>3, <1>4

\* What is stored as it was asked for: settings and permissions.
LEMMA StoreKeeps ==
    ASSUME ConfigInv, NEW r \in Requests, NEW rows, Begin(r, DOMAIN rows, rows, rows),
           \A k \in DOMAIN rows : /\ k[1] = "setting" \/ (k[1] = "perm" /\ k \in DOMAIN db)
                                  /\ DOMAIN rows[k] = Columns(k)
    PROVE  ConfigInv'
<1> DEFINE from == [x \in DOMAIN rows \cap DOMAIN db |-> db[x]]
<1>1. \A k \in DOMAIN rows : /\ k # NewPerm /\ \A a : k # Agent(a)
                             /\ Columns(k) \cap {"settings", "version", "risk"} = {}
  <2> SUFFICES ASSUME NEW k \in DOMAIN rows
               PROVE  /\ k # NewPerm /\ \A a : k # Agent(a)
                      /\ Columns(k) \cap {"settings", "version", "risk"} = {}
    OBVIOUS
  <2>1. NewPerm \notin DOMAIN db
    BY NewPermIsNew DEF ConfigInv
  <2>2. Columns(k) \in {{"value"}, {"pair", "effect"}}
    BY DEF Columns
  <2> QED BY <2>1, <2>2, ColumnsOfKeys DEF NewPerm
<1>2. DOMAIN from = DOMAIN rows \cap DOMAIN db /\ \A k \in DOMAIN from : from[k] = db[k]
  OBVIOUS
<1>3. Begin(r, DOMAIN rows, rows, rows) /\ from = [x \in DOMAIN rows \cap DOMAIN db |-> db[x]]
  OBVIOUS
<1> HIDE DEF from
<1>4. ToFits(from, rows, rows)
  BY <1>1, <1>2 DEF ToFits
<1>5. AsksFit(from, rows, rows)
  BY <1>1, <1>2 DEF AsksFit
<1>6. AgentsFit(from, rows, rows)
  BY <1>1, <1>2 DEF AgentsFit
<1> QED BY <1>1, <1>3, <1>4, <1>5, <1>6, BeginKeeps

LEMMA PatchSettingsKeeps ==
    ASSUME ConfigInv, NEW r \in Requests, NEW change, PatchSettings(r, change)
    PROVE  ConfigInv'
<1> DEFINE rows == [k \in {Setting(s) : s \in DOMAIN change} |-> [value |-> change[k[2]]]]
<1>1. \A k \in DOMAIN rows : k[1] = "setting" /\ DOMAIN rows[k] = Columns(k)
  BY ColumnsOfKeys
<1>2. Begin(r, DOMAIN rows, rows, rows)
  BY DEF PatchSettings
<1> HIDE DEF rows
<1> QED BY <1>1, <1>2, StoreKeeps

LEMMA MovePermissionKeeps ==
    ASSUME ConfigInv, NEW r \in Requests, NEW k \in DOMAIN db, k[1] = "perm", NEW pair, NEW effect,
           Begin(r, {k}, Single(k, PermRow(pair, effect)), Single(k, PermRow(pair, effect)))
    PROVE  ConfigInv'
<1> DEFINE rows == Single(k, PermRow(pair, effect))
<1>1. DOMAIN rows = {k} /\ rows[k] = PermRow(pair, effect)
  BY DEF Single
<1>2. DOMAIN PermRow(pair, effect) = Columns(k)
  BY DEF PermRow, Columns
<1>3. Begin(r, DOMAIN rows, rows, rows)
  BY <1>1
<1> HIDE DEF rows
<1> QED BY <1>1, <1>2, <1>3, StoreKeeps

LEMMA PutPermissionKeeps ==
    ASSUME ConfigInv, NEW r \in Requests, NEW pair, NEW effect, PutPermission(r, pair, effect)
    PROVE  ConfigInv'
<1>1. CASE PermsOf(db, pair) = {}
  <2> DEFINE to == Single(NewPerm, PermRow(pair, effect))
             from == [x \in {} \cap DOMAIN db |-> db[x]]
  <2>1. Begin(r, {}, to, Empty) /\ from = [x \in {} \cap DOMAIN db |-> db[x]]
    BY <1>1 DEF PutPermission
  <2>2. DOMAIN to = {NewPerm} /\ DOMAIN to[NewPerm] = {"pair", "effect"} /\ to[NewPerm].pair = pair
    BY DEF Single, PermRow
  <2>3. DOMAIN from = {} /\ DOMAIN Empty = {}
    BY DEF Empty
  <2>4. Columns(NewPerm) = {"pair", "effect"} /\ NewPerm[1] = "perm" /\ \A a : NewPerm # Agent(a)
    BY ColumnsOfKeys DEF NewPerm
  <2> HIDE DEF to, from
  <2>5. ToFits(from, to, Empty) /\ AsksFit(from, to, Empty) /\ AgentsFit(from, to, Empty)
    BY <2>2, <2>3, <2>4 DEF ToFits, AsksFit, AgentsFit
  <2> QED BY <1>1, <2>1, <2>2, <2>5, BeginKeeps
<1>2. CASE PermsOf(db, pair) # {}
  <2>1. PICK k \in PermsOf(db, pair) :
           Begin(r, {k}, Single(k, PermRow(pair, effect)), Single(k, PermRow(pair, effect)))
    BY <1>2 DEF PutPermission
  <2>2. k \in DOMAIN db /\ k[1] = "perm"
    BY DEF PermsOf
  <2> QED BY <2>1, <2>2, MovePermissionKeeps
<1> QED BY <1>1, <1>2

LEMMA PatchPermissionKeeps ==
    ASSUME ConfigInv, NEW r \in Requests, NEW n, NEW pair, NEW effect,
           PatchPermission(r, n, pair, effect)
    PROVE  ConfigInv'
<1>1. CASE Perm(n) \in DOMAIN db
  BY <1>1, ColumnsOfKeys, MovePermissionKeeps DEF PatchPermission
<1>2. CASE Perm(n) \notin DOMAIN db
  <2>1. Refuse(r)
    BY <1>2 DEF PatchPermission
  <2> QED BY <2>1, EndKeeps DEF Refuse, ConfigInv
<1> QED BY <1>1, <1>2

LEMMA SyncAgentsKeeps ==
    ASSUME ConfigInv, NEW r \in Requests, SyncAgents(r)
    PROVE  ConfigInv'
<1> DEFINE keys == {Agent(a) : a \in files}
           to == [k \in keys |-> IF k \in DOMAIN db THEN [db[k] EXCEPT !.display = "yaml"]
                                 ELSE SyncedAgent(k[2])]
           from == [x \in keys \cap DOMAIN db |-> db[x]]
<1>1. Begin(r, keys, to, Empty) /\ from = [x \in keys \cap DOMAIN db |-> db[x]]
  BY DEF SyncAgents, Rows
<1>2. \A k \in keys : k # NewPerm /\ k[1] # "perm"
                      /\ Columns(k) = {"display", "enabled", "autonomy", "version"}
  BY ColumnsOfKeys DEF NewPerm
<1>3. /\ DOMAIN from = keys \cap DOMAIN db
      /\ \A k \in DOMAIN from : from[k] = db[k]
      /\ DOMAIN to = keys /\ DOMAIN Empty = {}
  BY DEF Empty
<1>4. ASSUME NEW k \in DOMAIN from
      PROVE  /\ DOMAIN to[k] = Columns(k)
             /\ \A c \in Columns(k) \ {"display"} : to[k][c] = from[k][c]
  <2>1. DOMAIN db[k] = Columns(k) /\ to[k] = [db[k] EXCEPT !.display = "yaml"]
    BY <1>3, <1>4 DEF ConfigInv, RowsTyped
  <2> QED BY <1>3, <1>4, <2>1
<1>5. ASSUME NEW k \in DOMAIN to \ DOMAIN from
      PROVE  DOMAIN to[k] = Columns(k) /\ to[k].version = 1
  <2>1. to[k] = SyncedAgent(k[2])
    BY <1>3, <1>5
  <2> QED BY <1>2, <1>3, <2>1 DEF SyncedAgent, YamlAgent
<1> HIDE DEF keys, to, from
<1>6. ToFits(from, to, Empty)
  BY <1>2, <1>3, <1>4, <1>5 DEF ToFits, Own
<1>7. AsksFit(from, to, Empty)
  BY <1>3 DEF AsksFit
<1>8. AgentsFit(from, to, Empty)
  BY <1>2, <1>3, <1>4, <1>5 DEF AgentsFit
<1> QED BY <1>1, <1>2, <1>3, <1>6, <1>7, <1>8, BeginKeeps

LEMMA SyncToolsKeeps ==
    ASSUME ConfigInv, NEW r \in Requests, SyncTools(r)
    PROVE  ConfigInv'
<1> DEFINE keys == {Tool(t) : t \in Tools}
           to == [k \in keys |-> YamlTool]
           from == [x \in keys \cap DOMAIN db |-> db[x]]
<1>1. Begin(r, keys, to, Empty) /\ from = [x \in keys \cap DOMAIN db |-> db[x]]
  BY DEF SyncTools, Rows
<1>2. \A k \in keys : /\ k # NewPerm /\ k[1] # "perm" /\ \A a : k # Agent(a)
                      /\ Columns(k) = {"risk"}
  BY ColumnsOfKeys DEF NewPerm
<1>3. /\ DOMAIN from = keys \cap DOMAIN db
      /\ DOMAIN to = keys /\ DOMAIN Empty = {}
      /\ \A k \in keys : DOMAIN to[k] = {"risk"}
  BY DEF Empty, YamlTool
<1> HIDE DEF keys, to, from
<1>4. ToFits(from, to, Empty) /\ AsksFit(from, to, Empty) /\ AgentsFit(from, to, Empty)
  BY <1>2, <1>3 DEF ToFits, Own, AsksFit, AgentsFit
<1> QED BY <1>1, <1>2, <1>3, <1>4, BeginKeeps

LEMMA ToolCallKeeps ==
    ASSUME ConfigInv, NEW r \in Requests, NEW pair, ToolCall(r, pair)
    PROVE  ConfigInv'
<1>1. DOMAIN calls' \subseteq Requests
  BY DEF ToolCall, Over, Single, ConfigInv
<1> QED BY <1>1, EndKeeps DEF ToolCall

LEMMA AskKeeps ==
    ASSUME ConfigInv, NEW r \in Requests, Ask(r)
    PROVE  ConfigInv'
  BY PatchAgentKeeps, PatchModelKeeps, PatchProviderKeeps, PatchSettingsKeeps,
     PutPermissionKeeps, PatchPermissionKeeps, SyncAgentsKeeps, SyncToolsKeeps,
     ToolCallKeeps DEF Ask


-----------------------------------------------------------------------------
(* A commit.                                                                 *)

LEMMA FlushedColumns ==
    \A now, from, to :
       /\ DOMAIN Flushed(now, from, to) = DOMAIN to
       /\ \A c \in DOMAIN to :
             Flushed(now, from, to)[c] =
                IF c \in DOMAIN from /\ from[c] = to[c] THEN now[c] ELSE to[c]
  BY DEF Flushed

\* What the owner was told, after a commit.
LEMMA ToldRows ==
    ASSUME NEW asks
    PROVE  /\ DOMAIN Told(asks) = DOMAIN told \cup DOMAIN asks
           /\ \A k \in DOMAIN told \ DOMAIN asks : Told(asks)[k] = told[k]
           /\ \A k \in DOMAIN asks \ DOMAIN told : Told(asks)[k] = asks[k]
  BY DEF Told

LEMMA ToldColumns ==
    ASSUME NEW asks, NEW k \in DOMAIN asks, k \in DOMAIN told
    PROVE  /\ DOMAIN Told(asks)[k] = DOMAIN asks[k] \cup DOMAIN told[k]
           /\ \A c \in DOMAIN asks[k] \ {"settings"} : Told(asks)[k][c] = asks[k][c]
           /\ \A c \in DOMAIN told[k] \ DOMAIN asks[k] : Told(asks)[k][c] = told[k][c]
           /\ "settings" \in DOMAIN asks[k] /\ "settings" \in DOMAIN told[k] =>
                 Told(asks)[k].settings = Over(asks[k].settings, told[k].settings)
           /\ "settings" \in DOMAIN asks[k] /\ "settings" \notin DOMAIN told[k] =>
                 Told(asks)[k].settings = asks[k].settings
<1> DEFINE new == Over(asks[k], told[k])
           merged == Over(asks[k].settings, told[k].settings)
<1>1. /\ DOMAIN new = DOMAIN asks[k] \cup DOMAIN told[k]
      /\ \A c \in DOMAIN asks[k] : new[c] = asks[k][c]
      /\ \A c \in DOMAIN told[k] \ DOMAIN asks[k] : new[c] = told[k][c]
  BY DEF Over
<1>2. Told(asks)[k] = IF "settings" \in DOMAIN asks[k] /\ "settings" \in DOMAIN told[k]
                      THEN [new EXCEPT !.settings = merged] ELSE new
  BY DEF Told, Patched
<1> HIDE DEF new, merged
<1>3. /\ DOMAIN Told(asks)[k] = DOMAIN asks[k] \cup DOMAIN told[k]
      /\ \A c \in DOMAIN asks[k] \ {"settings"} : Told(asks)[k][c] = asks[k][c]
      /\ \A c \in DOMAIN told[k] \ DOMAIN asks[k] : Told(asks)[k][c] = told[k][c]
      /\ "settings" \in DOMAIN asks[k] /\ "settings" \in DOMAIN told[k] =>
            Told(asks)[k].settings = merged
      /\ "settings" \in DOMAIN asks[k] /\ "settings" \notin DOMAIN told[k] =>
            Told(asks)[k].settings = asks[k].settings
  BY <1>1, <1>2
<1> QED BY <1>3 DEF merged

\* A request that changes a column, or was asked for it, notices that it was replaced.
LEMMA Crossing ==
    ASSUME NEW q, NEW k \in DOMAIN q.from, NEW c \in DOMAIN q.to[k],
           q.from[k][c] # q.to[k][c] \/ (k \in DOMAIN q.asks /\ c \in DOMAIN q.asks[k]),
           db[k][c] # q.from[k][c]
    PROVE  <<k, c>> \in CrossedBy(q)
<1> DEFINE these(x) == {x} \X {d \in DOMAIN q.to[x] :
                          /\ \/ q.from[x][d] # q.to[x][d]
                             \/ x \in DOMAIN q.asks /\ d \in DOMAIN q.asks[x]
                          /\ db[x][d] # q.from[x][d]}
<1>1. <<k, c>> \in these(k)
  OBVIOUS
<1>2. CrossedBy(q) = UNION {these(x) : x \in DOMAIN q.from}
  BY DEF CrossedBy
<1> HIDE DEF these
<1> QED BY <1>1, <1>2

\* The rows after a commit that stores no new permission.
Wrote(from, to) ==
    /\ DOMAIN db' = DOMAIN db \cup DOMAIN to
    /\ \A k \in DOMAIN db \ DOMAIN from : k \notin DOMAIN to /\ db'[k] = db[k]
    /\ \A k \in DOMAIN from :
          /\ DOMAIN db'[k] = DOMAIN to[k]
          /\ \A c \in DOMAIN to[k] :
                db'[k][c] = IF from[k][c] = to[k][c] THEN db[k][c] ELSE to[k][c]
    /\ \A k \in DOMAIN to \ DOMAIN from : k \notin DOMAIN db /\ db'[k] = to[k]

LEMMA CommitWrites ==
    ASSUME ConfigInv, NEW r \in Open, Commit(r), NewPerm \notin DOMAIN req[r].to,
           (DOMAIN Placed(req[r].to) \ DOMAIN req[r].from) \cap DOMAIN db = {}
    PROVE  Wrote(req[r].from, req[r].to)
<1> DEFINE f == req[r].from
           t == req[r].to
<1>1. Placed(t) = t
  BY DEF Placed
<1>2. /\ DOMAIN f \subseteq DOMAIN db /\ DOMAIN f \subseteq DOMAIN t
      /\ \A k \in DOMAIN f : DOMAIN f[k] = DOMAIN t[k]
  BY DEF ConfigInv, RequestsFit, Open, Fits, FromFits, ToFits
<1>3. (DOMAIN t \ DOMAIN f) \cap DOMAIN db = {}
  BY <1>1
<1>4. db' = Over([k \in DOMAIN t |-> IF k \in DOMAIN t \ DOMAIN f THEN t[k]
                                     ELSE Flushed(db[k], f[k], t[k])], db)
  BY <1>1, <1>3 DEF Commit
<1> HIDE DEF f, t
<1>5. /\ DOMAIN db' = DOMAIN db \cup DOMAIN t
      /\ \A k \in DOMAIN t \ DOMAIN f : db'[k] = t[k]
      /\ \A k \in DOMAIN f : db'[k] = Flushed(db[k], f[k], t[k])
      /\ \A k \in DOMAIN db \ DOMAIN t : db'[k] = db[k]
  BY <1>2, <1>4 DEF Over
<1>6. Wrote(f, t)
  BY <1>2, <1>3, <1>5, FlushedColumns DEF Wrote
<1> QED BY <1>6 DEF f, t


\* A commit of rows keeps the invariant.
LEMMA WritesKeep ==
    ASSUME ConfigInv, NEW r \in Open, NEW f, NEW t, NEW a,
           f = req[r].from, t = req[r].to, a = req[r].asks,
           NewPerm \notin DOMAIN t, Wrote(f, t),
           req' = [req EXCEPT ![r] = Done], calls' = calls,
           told' = Told(a), crossed' = crossed \cup CrossedBy(req[r]),
           patches' = [x \in Agents |-> patches[x] + (IF Agent(x) \in DOMAIN a THEN 1 ELSE 0)]
    PROVE  ConfigInv'
<1> USE DEF ConfigInv
<1>1. r \in Requests /\ Fits(f, t, a)
  BY DEF RequestsFit, Open
<1>2. FromFits(f) /\ ToFits(f, t, a) /\ AsksFit(f, t, a) /\ AgentsFit(f, t, a)
  BY <1>1 DEF Fits
<1>3. /\ DOMAIN f \subseteq DOMAIN db /\ DOMAIN f \subseteq DOMAIN t /\ DOMAIN a \subseteq DOMAIN t
      /\ \A k \in DOMAIN t : DOMAIN t[k] = Columns(k)
      /\ \A k \in DOMAIN f : DOMAIN f[k] = Columns(k)
  BY <1>2 DEF FromFits, ToFits, AsksFit
<1>4. DOMAIN Done = DOMAIN Idle /\ Done.stage # "open"
  BY DEF Done, Idle
<1>5. /\ DOMAIN req' = Requests /\ req'[r] = Done
      /\ \A s \in Requests \ {r} : req'[s] = req[s]
  BY <1>1 DEF RequestsFit
<1>6. Open' = Open \ {r} /\ \A s \in Open' : s \in Requests /\ s # r
  BY <1>4, <1>5 DEF Open
\* What the owner was told, then.
<1>30. /\ DOMAIN told' = DOMAIN told \cup DOMAIN a
       /\ \A k \in DOMAIN told \ DOMAIN a : told'[k] = told[k]
       /\ \A k \in DOMAIN a \ DOMAIN told : told'[k] = a[k]
  BY ToldRows
<1>31. ASSUME NEW k \in DOMAIN a, k \in DOMAIN told
       PROVE  /\ DOMAIN told'[k] = DOMAIN a[k] \cup DOMAIN told[k]
              /\ \A c \in DOMAIN a[k] \ {"settings"} : told'[k][c] = a[k][c]
              /\ \A c \in DOMAIN told[k] \ DOMAIN a[k] : told'[k][c] = told[k][c]
              /\ "settings" \in DOMAIN a[k] /\ "settings" \in DOMAIN told[k] =>
                    told'[k].settings = Over(a[k].settings, told[k].settings)
              /\ "settings" \in DOMAIN a[k] /\ "settings" \notin DOMAIN told[k] =>
                    told'[k].settings = a[k].settings
  BY <1>31, ToldColumns
<1>7. RowsTyped'
  <2>1. \A k \in DOMAIN db' : DOMAIN db'[k] = Columns(k)
    BY <1>3 DEF Wrote, RowsTyped
  <2> QED BY <2>1 DEF RowsTyped
<1>8. Numbered'
  <2>1. \A k \in DOMAIN t : k[1] = "perm" => k \in DOMAIN db
    BY <1>2, <1>3 DEF ToFits
  <2>2. Keys("perm")' = Keys("perm")
    BY <2>1 DEF Keys, Wrote
  <2> QED BY <2>2 DEF Numbered
\* An autonomy level that changes becomes one of the four.
<1>9. ASSUME NEW x \in Agents, Agent(x) \in DOMAIN db
      PROVE  \/ db'[Agent(x)].autonomy = db[Agent(x)].autonomy
             \/ db'[Agent(x)].autonomy \in P!AutonomyModes
  <2> DEFINE k == Agent(x)
  <2>1. CASE k \notin DOMAIN f
    BY <1>9, <2>1 DEF Wrote
  <2>2. CASE k \in DOMAIN f /\ f[k].autonomy = t[k].autonomy
    BY <1>3, <2>2, ColumnsOfKeys DEF Wrote
  <2>3. CASE k \in DOMAIN f /\ f[k].autonomy # t[k].autonomy
    <3>1. "autonomy" \in DOMAIN t[k] \ Own
      BY <1>3, <2>3, ColumnsOfKeys DEF Own
    <3>2. k \in DOMAIN a /\ "autonomy" \in DOMAIN a[k]
      BY <1>2, <2>3, <3>1 DEF ToFits
    <3>3. t[k].autonomy = a[k].autonomy /\ a[k].autonomy \in P!AutonomyModes
      BY <1>2, <3>2 DEF AsksFit, AgentsFit
    <3> QED BY <2>3, <3>1, <3>3 DEF Wrote
  <2> QED BY <2>1, <2>2, <2>3
<1>10. /\ patches' \in [Agents -> Nat]
       /\ \A x \in Agents : patches[x] <= patches'[x] /\ patches[x] \in Nat
  BY DEF Counted
<1>11. RequestsFit'
  <2>1. ASSUME NEW s \in Open'
        PROVE  Fits(req[s].from, req[s].to, req[s].asks)'
    <3> DEFINE g == req[s].from
    <3>1. Fits(req[s].from, req[s].to, req[s].asks) /\ req'[s] = req[s]
      BY <1>5, <1>6, <2>1 DEF RequestsFit
    <3>2. FromFits(g)
      BY <3>1 DEF Fits
    <3>3. DOMAIN g \subseteq DOMAIN db /\ DOMAIN db \subseteq DOMAIN db'
      BY <3>2 DEF FromFits, Wrote
    <3>4. ASSUME NEW x \in Agents, Agent(x) \in DOMAIN g
          PROVE  /\ \/ db'[Agent(x)].autonomy = g[Agent(x)].autonomy
                    \/ db'[Agent(x)].autonomy \in P!AutonomyModes
                 /\ g[Agent(x)].version \in Nat
                 /\ g[Agent(x)].version <= 1 + patches'[x]
      <4>1. /\ \/ db[Agent(x)].autonomy = g[Agent(x)].autonomy
               \/ db[Agent(x)].autonomy \in P!AutonomyModes
            /\ g[Agent(x)].version \in Nat
            /\ g[Agent(x)].version <= 1 + patches[x]
        BY <3>2, <3>4 DEF FromFits
      <4>2. patches[x] \in Nat /\ patches'[x] \in Nat /\ patches[x] <= patches'[x]
        BY <1>10
      <4>3. g[Agent(x)].version <= 1 + patches'[x]
        BY <4>1, <4>2
      <4> QED BY <1>9, <3>3, <3>4, <4>1, <4>3
    <3>5. FromFits(req[s].from)'
      BY <3>1, <3>2, <3>3, <3>4 DEF FromFits
    <3> QED BY <3>1, <3>5 DEF Fits, ToFits, AsksFit, AgentsFit
  <2>2. \A s \in Requests : DOMAIN req'[s] = DOMAIN Idle
    BY <1>4, <1>5 DEF RequestsFit
  <2> QED BY <1>5, <2>1, <2>2 DEF RequestsFit
<1>12. AloneKnows'
  <2>1. \A s \in Open' : s \in Open /\ s # r /\ req'[s] = req[s]
    BY <1>5, <1>6
  <2>2. \A s \in Open' : ~req'[s].alone
    BY <2>1 DEF AloneKnows
  <2> QED BY <2>2 DEF AloneKnows
<1>13. WordsTyped'
  <2>1. DOMAIN told' \subseteq DOMAIN db'
    BY <1>3, <1>30, <1>31 DEF Wrote, WordsTyped
  <2>2. \A k \in DOMAIN a : DOMAIN a[k] \subseteq Columns(k) \ {"version", "risk"}
    BY <1>2 DEF AsksFit
  <2>3. \A k \in DOMAIN told' : DOMAIN told'[k] \subseteq Columns(k) \ {"version", "risk"}
    BY <2>2, <1>30, <1>31 DEF WordsTyped
  <2>4. ASSUME NEW x \in Agents, Agent(x) \in DOMAIN told', "autonomy" \in DOMAIN told'[Agent(x)]
        PROVE  db'[Agent(x)].autonomy \in P!AutonomyModes
    <3> DEFINE k == Agent(x)
    <3>1. CASE k \in DOMAIN a /\ "autonomy" \in DOMAIN a[k]
      <4>1. k \in DOMAIN f /\ a[k].autonomy \in P!AutonomyModes /\ t[k].autonomy = a[k].autonomy
        BY <1>2, <3>1 DEF AgentsFit, AsksFit
      <4>2. "autonomy" \in DOMAIN t[k]
        BY <1>3, <4>1, ColumnsOfKeys
      <4>3. db'[k].autonomy = IF f[k].autonomy = t[k].autonomy THEN db[k].autonomy
                              ELSE t[k].autonomy
        BY <4>1, <4>2 DEF Wrote
      <4>4. db[k].autonomy = f[k].autonomy \/ db[k].autonomy \in P!AutonomyModes
        BY <1>2, <4>1 DEF FromFits
      <4> QED BY <4>1, <4>3, <4>4
    <3>2. CASE k \in DOMAIN told /\ "autonomy" \in DOMAIN told[k]
      <4>1. db[k].autonomy \in P!AutonomyModes /\ k \in DOMAIN db
        BY <3>2 DEF WordsTyped
      <4> QED BY <1>9, <4>1
    <3> QED BY <2>4, <3>1, <3>2, <1>30, <1>31
  <2> QED BY <2>1, <2>3, <2>4 DEF WordsTyped
<1>14. Counted' /\ VersionCounts'
  <2>1. ASSUME NEW x \in Agents
        PROVE  IF Agent(x) \in DOMAIN db'
               THEN /\ db'[Agent(x)].version \in Nat
                    /\ db'[Agent(x)].version <= 1 + patches'[x]
                    /\ <<Agent(x), "version">> \notin crossed' =>
                          db'[Agent(x)].version = 1 + patches'[x]
               ELSE patches'[x] = 0
    <3> DEFINE k == Agent(x)
    <3>1. patches'[x] = patches[x] + (IF k \in DOMAIN a THEN 1 ELSE 0) /\ patches[x] \in Nat
      BY DEF Counted
    <3>2. k \in DOMAIN db => /\ db[k].version \in Nat
                             /\ db[k].version <= 1 + patches[x]
                             /\ <<k, "version">> \notin crossed => db[k].version = 1 + patches[x]
      BY DEF Counted, VersionCounts
    <3>3. k \notin DOMAIN db => patches[x] = 0
      BY DEF Counted
    <3>4. CASE k \in DOMAIN a
      <4>1. /\ k \in DOMAIN f /\ k \in DOMAIN db
            /\ t[k].version = f[k].version + 1
            /\ f[k].version \in Nat /\ f[k].version <= 1 + patches[x]
        BY <1>2, <1>3, <3>4 DEF AgentsFit, FromFits
      <4>2. "version" \in DOMAIN t[k]
        BY <1>3, <4>1, ColumnsOfKeys
      <4>3. db'[k].version = t[k].version /\ k \in DOMAIN db'
        BY <4>1, <4>2 DEF Wrote
      <4>4. <<k, "version">> \notin crossed' =>
               <<k, "version">> \notin crossed /\ db[k].version = f[k].version
        <5>1. db[k].version # f[k].version => <<k, "version">> \in CrossedBy(req[r])
          BY <4>1, <4>2, Crossing
        <5> QED BY <5>1
      <4>5. patches'[x] = patches[x] + 1 /\ patches[x] \in Nat
        BY <3>1, <3>4
      <4>6. db'[k].version = f[k].version + 1
        BY <4>1, <4>3
      <4>7. db'[k].version \in Nat /\ db'[k].version <= 1 + patches'[x]
        BY <4>1, <4>5, <4>6
      <4>8. <<k, "version">> \notin crossed' => f[k].version = 1 + patches[x]
        BY <3>2, <4>1, <4>4
      <4> QED BY <4>3, <4>5, <4>6, <4>7, <4>8
    <3>5. CASE k \notin DOMAIN a
      <4>1. crossed \subseteq crossed'
        OBVIOUS
      <4>2. CASE k \in DOMAIN db
        <5>1. db'[k].version = db[k].version /\ k \in DOMAIN db'
          <6>1. CASE k \in DOMAIN f
            <7>1. t[k].version = f[k].version /\ "version" \in DOMAIN t[k]
              BY <1>2, <1>3, <3>5, <6>1, ColumnsOfKeys DEF AgentsFit
            <7> QED BY <4>2, <6>1, <7>1 DEF Wrote
          <6> QED BY <4>2, <6>1 DEF Wrote
        <5>2. patches'[x] = patches[x]
          BY <3>1, <3>5
        <5> QED BY <3>2, <4>1, <4>2, <5>1, <5>2
      <4>3. CASE k \notin DOMAIN db
        <5>1. k \in DOMAIN db' => db'[k].version = 1
          BY <1>2, <1>3, <3>5, <4>3 DEF Wrote, AgentsFit
        <5>2. patches'[x] = 0
          BY <3>1, <3>3, <3>5, <4>3
        <5> QED BY <5>1, <5>2
      <4> QED BY <4>2, <4>3
    <3> QED BY <3>4, <3>5
  <2> QED BY <1>10, <2>1 DEF Counted, VersionCounts
<1>15. OwnersWordKept'
  <2> SUFFICES ASSUME NEW k \in DOMAIN told', NEW c \in DOMAIN told'[k] \ {"display"},
                      <<k, c>> \notin crossed'
               PROVE  Kept(db'[k], told'[k], c)
    BY DEF OwnersWordKept
  <2>1. c \notin Own /\ c \in Columns(k) /\ k \in DOMAIN db'
    BY <1>13 DEF WordsTyped, Own
  \* What the owner was told before, if it is in the row still.
  <2>2. k \in DOMAIN told /\ c \in DOMAIN told[k] => k \in DOMAIN db /\ Kept(db[k], told[k], c)
    BY DEF OwnersWordKept, WordsTyped
  <2>3. CASE k \in DOMAIN a /\ c \in DOMAIN a[k]
    <3>1. k \in DOMAIN t /\ c \in DOMAIN t[k]
      BY <1>3, <2>1, <2>3
    <3>2. CASE k \in DOMAIN f
      <4>1. db[k][c] = f[k][c]
        BY <2>3, <3>1, <3>2, Crossing
      <4>2. db'[k][c] = t[k][c]
        BY <3>1, <3>2, <4>1 DEF Wrote
      <4>3. CASE c # "settings"
        <5>1. t[k][c] = a[k][c]
          BY <1>2, <2>3, <4>3 DEF AsksFit
        <5>2. told'[k][c] = a[k][c]
          BY <2>3, <4>3, <1>30, <1>31
        <5> QED BY <4>2, <4>3, <5>1, <5>2 DEF Kept
      <4>4. CASE c = "settings"
        <5>1. db'[k].settings = Over(a[k].settings, db[k].settings)
          BY <1>2, <2>3, <3>2, <4>1, <4>2, <4>4 DEF AsksFit
        <5>2. told'[k].settings = IF k \in DOMAIN told /\ "settings" \in DOMAIN told[k]
                                  THEN Over(a[k].settings, told[k].settings) ELSE a[k].settings
          BY <2>3, <4>4, <1>30, <1>31
        <5>3. ASSUME NEW s \in DOMAIN told'[k].settings
              PROVE  /\ s \in DOMAIN db'[k].settings
                     /\ db'[k].settings[s] = told'[k].settings[s]
          <6>1. CASE s \in DOMAIN a[k].settings
            BY <5>1, <5>2, <6>1 DEF Over
          <6>2. CASE s \notin DOMAIN a[k].settings
            <7>1. /\ k \in DOMAIN told /\ "settings" \in DOMAIN told[k]
                  /\ s \in DOMAIN told[k].settings /\ told'[k].settings[s] = told[k].settings[s]
              BY <5>2, <5>3, <6>2 DEF Over
            <7>2. s \in DOMAIN db[k].settings /\ db[k].settings[s] = told[k].settings[s]
              BY <2>2, <4>4, <7>1 DEF Kept, Column
            <7> QED BY <5>1, <6>2, <7>1, <7>2 DEF Over
          <6> QED BY <6>1, <6>2
        <5> QED BY <4>4, <5>3 DEF Column, Kept
      <4> QED BY <4>3, <4>4
    <3>3. CASE k \notin DOMAIN f
      <4>1. k \notin DOMAIN db /\ db'[k] = t[k] /\ k \notin DOMAIN told
        BY <3>1, <3>3 DEF Wrote, WordsTyped
      <4>2. told'[k] = a[k]
        BY <2>3, <4>1, <1>30, <1>31
      <4>3. CASE c # "settings"
        BY <1>2, <2>3, <4>1, <4>2, <4>3 DEF AsksFit, Kept
      <4>4. CASE c = "settings"
        <5>1. db'[k].settings = Over(a[k].settings, Empty)
          BY <1>2, <2>3, <3>3, <4>1, <4>4 DEF AsksFit
        <5> QED BY <4>2, <4>4, <5>1 DEF Over, Column, Kept
      <4> QED BY <4>3, <4>4
    <3> QED BY <3>2, <3>3
  <2>4. CASE ~(k \in DOMAIN a /\ c \in DOMAIN a[k])
    <3>1. k \in DOMAIN told /\ c \in DOMAIN told[k] /\ told'[k][c] = told[k][c]
      BY <2>4, <1>30, <1>31
    <3>2. db'[k][c] = db[k][c]
      <4>1. CASE k \in DOMAIN f
        <5>1. c \in DOMAIN t[k] /\ f[k][c] = t[k][c]
          BY <1>2, <1>3, <2>1, <2>4, <4>1 DEF ToFits
        <5> QED BY <4>1, <5>1 DEF Wrote
      <4>2. CASE k \notin DOMAIN f
        BY <2>2, <3>1, <4>2 DEF Wrote
      <4> QED BY <4>1, <4>2
    <3> QED BY <2>2, <3>1, <3>2 DEF Kept
  <2> QED BY <2>3, <2>4
<1>16. (DOMAIN calls \subseteq Requests)'
  OBVIOUS
<1> QED BY <1>7, <1>8, <1>11, <1>12, <1>13, <1>14, <1>15, <1>16


LEMMA CountPerms ==
    ASSUME NEW n \in Nat
    PROVE  Cardinality({Perm(i) : i \in 1..n}) = n
<1> DEFINE S == {Perm(i) : i \in 1..n}
           f == [i \in 1..n |-> Perm(i)]
<1>1. f \in Bijection(1..n, S)
  BY KeysDiffer DEF Bijection, Injection, Surjection, IsInjective
<1>2. ExistsBijection(1..n, S)
  BY <1>1 DEF ExistsBijection
<1>3. IsFiniteSet(1..n) /\ Cardinality(1..n) = n
  BY FS_Interval
<1> HIDE DEF S, f
<1>4. Cardinality(S) = n
  BY <1>2, <1>3, FS_Bijection
<1> QED BY <1>4 DEF S

\* A permission row gets the next number when it is stored.
LEMMA CommitPlaces ==
    ASSUME ConfigInv, NEW r \in Open, NewPerm \in DOMAIN req[r].to, Commit(r)
    PROVE  LET k == Perm(1 + Cardinality(Keys("perm"))) IN
           /\ k \notin DOMAIN db /\ k[1] = "perm" /\ Columns(k) = {"pair", "effect"}
           /\ DOMAIN db' = DOMAIN db \cup {k} /\ db'[k] = req[r].to[NewPerm]
           /\ \A x \in DOMAIN db : db'[x] = db[x]
           /\ told' = Told(req[r].asks) /\ crossed' = crossed \cup CrossedBy(req[r])
           /\ patches' = [x \in Agents |->
                             patches[x] + (IF Agent(x) \in DOMAIN req[r].asks THEN 1 ELSE 0)]
           /\ calls' = calls /\ req' = [req EXCEPT ![r] = Done]
<1> USE DEF ConfigInv
<1> DEFINE row == req[r].to[NewPerm]
           a == req[r].asks
<1>1. r \in Requests /\ Fits(req[r].from, req[r].to, a)
  BY DEF RequestsFit, Open
<1>2. /\ DOMAIN req[r].to = {NewPerm} /\ DOMAIN req[r].from = {} /\ DOMAIN a = {}
      /\ DOMAIN row = {"pair", "effect"}
  BY <1>1, ColumnsOfKeys DEF Fits, ToFits, NewPerm
<1>3. PICK n \in Nat : Keys("perm") = {Perm(i) : i \in 1..n}
  BY DEF Numbered
<1> DEFINE k == Perm(1 + n)
<1>4. Cardinality(Keys("perm")) = n
  BY <1>3, CountPerms
<1>5. k \notin DOMAIN db /\ k[1] = "perm" /\ Columns(k) = {"pair", "effect"}
  <2>1. \A i \in 1..n : Perm(i) # k
    BY KeysDiffer
  <2>2. k[1] = "perm" /\ Columns(k) = {"pair", "effect"}
    BY ColumnsOfKeys
  <2> QED BY <1>3, <2>1, <2>2 DEF Keys
<1>6. Placed(req[r].to) = Single(k, row)
  BY <1>4 DEF Placed
<1>7. DOMAIN Single(k, row) = {k} /\ Single(k, row)[k] = row
  BY DEF Single
<1>8. /\ db' = Over([x \in {k} |-> row], db)
      /\ told' = Told(a) /\ crossed' = crossed \cup CrossedBy(req[r]) /\ calls' = calls
      /\ patches' = [x \in Agents |-> patches[x] + (IF Agent(x) \in DOMAIN a THEN 1 ELSE 0)]
      /\ req' = [req EXCEPT ![r] = Done]
  <2> DEFINE rows == Placed(req[r].to)
  <2>1. /\ DOMAIN rows \ DOMAIN req[r].from = {k}
        /\ DOMAIN rows = {k} /\ rows[k] = row
    BY <1>2, <1>6, <1>7
  <2>2. /\ db' = Over([x \in DOMAIN rows |-> IF x \in DOMAIN rows \ DOMAIN req[r].from
                                             THEN rows[x]
                                             ELSE Flushed(db[x], req[r].from[x], rows[x])], db)
        /\ told' = Told(a) /\ crossed' = crossed \cup CrossedBy(req[r])
        /\ patches' = [x \in Agents |-> patches[x] + (IF Agent(x) \in DOMAIN a THEN 1 ELSE 0)]
    BY <1>5, <2>1 DEF Commit
  <2> HIDE DEF rows
  <2>3. [x \in DOMAIN rows |-> IF x \in DOMAIN rows \ DOMAIN req[r].from THEN rows[x]
                               ELSE Flushed(db[x], req[r].from[x], rows[x])]
        = [x \in {k} |-> row]
    BY <2>1
  <2> QED BY <2>2, <2>3 DEF Commit
<1>9. /\ DOMAIN db' = DOMAIN db \cup {k} /\ db'[k] = row
      /\ \A x \in DOMAIN db : db'[x] = db[x]
  BY <1>5, <1>8 DEF Over
<1> QED BY <1>4, <1>5, <1>8, <1>9

\* The invariant holds after a permission got its number.
LEMMA PlaceKeeps ==
    ASSUME ConfigInv, NEW r \in Open, NewPerm \in DOMAIN req[r].to, Commit(r)
    PROVE  ConfigInv'
<1> USE DEF ConfigInv
<1> DEFINE row == req[r].to[NewPerm]
           a == req[r].asks
           k == Perm(1 + Cardinality(Keys("perm")))
<1>1. r \in Requests /\ Fits(req[r].from, req[r].to, a)
  BY DEF RequestsFit, Open
<1>2. /\ DOMAIN a = {}
      /\ DOMAIN row = {"pair", "effect"}
  BY <1>1, ColumnsOfKeys DEF Fits, ToFits, NewPerm
<1>3. PICK n \in Nat : Keys("perm") = {Perm(i) : i \in 1..n}
  BY DEF Numbered
<1>4. Cardinality(Keys("perm")) = n /\ k = Perm(1 + n)
  BY <1>3, CountPerms
<1>8. /\ k \notin DOMAIN db /\ k[1] = "perm" /\ Columns(k) = {"pair", "effect"}
      /\ DOMAIN db' = DOMAIN db \cup {k} /\ db'[k] = row
      /\ \A x \in DOMAIN db : db'[x] = db[x]
      /\ told' = Told(a) /\ crossed' = crossed \cup CrossedBy(req[r])
      /\ patches' = [x \in Agents |-> patches[x] + (IF Agent(x) \in DOMAIN a THEN 1 ELSE 0)]
      /\ calls' = calls /\ req' = [req EXCEPT ![r] = Done]
  BY CommitPlaces
<1>10. DOMAIN told' = DOMAIN told /\ \A x \in DOMAIN told : told'[x] = told[x]
  <2>1. /\ DOMAIN Told(a) = DOMAIN told \cup DOMAIN a
        /\ \A x \in DOMAIN told \ DOMAIN a : Told(a)[x] = told[x]
    BY ToldRows
  <2>2. told' = Told(a)
    BY <1>8
  <2> HIDE DEF a
  <2> QED BY <1>2, <2>1, <2>2
<1>11. patches' = patches
  <2>1. \A x \in Agents : patches'[x] = patches[x]
    BY <1>2, <1>8 DEF Counted
  <2> QED BY <1>8, <2>1 DEF Counted
<1>12. crossed \subseteq crossed'
  BY <1>8
<1> HIDE DEF k, row, a
<1>13. DOMAIN Done = DOMAIN Idle /\ Done.stage # "open"
  BY DEF Done, Idle
<1>14. /\ DOMAIN req' = Requests /\ req'[r] = Done
       /\ \A s \in Requests \ {r} : req'[s] = req[s]
  BY <1>1, <1>8 DEF RequestsFit
<1>15. Open' = Open \ {r} /\ \A s \in Open' : s \in Requests /\ s \in Open /\ s # r /\ req'[s] = req[s]
  BY <1>13, <1>14 DEF Open
<1>16. RequestsFit'
  <2>1. ASSUME NEW s \in Open' PROVE Fits(req[s].from, req[s].to, req[s].asks)'
    <3>1. Fits(req[s].from, req[s].to, req[s].asks) /\ req'[s] = req[s]
      BY <1>15, <2>1 DEF RequestsFit
    <3> QED BY <1>8, <1>11, <3>1 DEF Fits, FromFits, ToFits, AsksFit, AgentsFit
  <2>2. \A s \in Requests : DOMAIN req'[s] = DOMAIN Idle
    BY <1>13, <1>14 DEF RequestsFit
  <2> QED BY <1>14, <2>1, <2>2 DEF RequestsFit
<1>17. AloneKnows'
  <2>1. \A s \in Open' : ~req'[s].alone
    BY <1>15 DEF AloneKnows
  <2> QED BY <2>1 DEF AloneKnows
<1>18. Numbered'
  <2>1. Keys("perm")' = {Perm(i) : i \in 1..n} \cup {k}
    BY <1>3, <1>8 DEF Keys
  <2>2. 1..(1 + n) = 1..n \cup {1 + n}
    OBVIOUS
  <2>3. Keys("perm")' = {Perm(i) : i \in 1..(1 + n)}
    BY <1>4, <2>1, <2>2
  <2> QED BY <2>3 DEF Numbered
<1>19. RowsTyped'
  BY <1>2, <1>8 DEF RowsTyped
<1>20. WordsTyped'
  BY <1>8, <1>10 DEF WordsTyped
<1>21. Counted' /\ VersionCounts'
  <2>1. \A x : Agent(x) \in DOMAIN db' <=> Agent(x) \in DOMAIN db
    BY <1>8, ColumnsOfKeys
  <2> QED BY <1>8, <1>11, <1>12, <2>1 DEF Counted, VersionCounts
<1>22. OwnersWordKept'
  BY <1>8, <1>10, <1>12 DEF OwnersWordKept, WordsTyped
<1>23. (DOMAIN calls \subseteq Requests)'
  BY <1>8
<1> QED BY <1>16, <1>17, <1>18, <1>19, <1>20, <1>21, <1>22, <1>23

LEMMA CommitKeeps ==
    ASSUME ConfigInv, NEW r \in Requests, Commit(r)
    PROVE  ConfigInv'
<1> DEFINE new == DOMAIN Placed(req[r].to) \ DOMAIN req[r].from
<1>1. r \in Open /\ req' = [req EXCEPT ![r] = Done] /\ calls' = calls
  BY DEF Commit
<1>2. CASE new \cap DOMAIN db # {}
  <2>1. UNCHANGED <<db, told, crossed, patches>>
    BY <1>2 DEF Commit
  <2>2. DOMAIN calls' \subseteq Requests
    BY <1>1 DEF ConfigInv
  <2> QED BY <1>1, <2>1, <2>2, EndKeeps
<1>3. CASE new \cap DOMAIN db = {} /\ NewPerm \notin DOMAIN req[r].to
  <2>1. Wrote(req[r].from, req[r].to)
    BY <1>1, <1>3, CommitWrites
  <2>2. /\ told' = Told(req[r].asks) /\ crossed' = crossed \cup CrossedBy(req[r])
        /\ patches' = [x \in Agents |->
                          patches[x] + (IF Agent(x) \in DOMAIN req[r].asks THEN 1 ELSE 0)]
    BY <1>3 DEF Commit
  <2> QED BY <1>1, <1>3, <2>1, <2>2, WritesKeep
<1>4. CASE NewPerm \in DOMAIN req[r].to
  BY <1>1, <1>4, PlaceKeeps
<1> QED BY <1>2, <1>3, <1>4


-----------------------------------------------------------------------------
(* A start.                                                                  *)

\* The pairs of the file that need a row are numbered, each once.
LEMMA UnlistedInOrder ==
    LET new == SetToSeq(Unlisted) IN
    /\ Cardinality(Unlisted) \in Nat
    /\ new \in [1..Cardinality(Unlisted) -> Unlisted]
    /\ \A i, j \in 1..Cardinality(Unlisted) : new[i] = new[j] => i = j
<1>1. IsFiniteSet(Unlisted)
  <2>1. Unlisted \subseteq DOMAIN YamlEffect
    BY DEF Unlisted
  <2> QED BY <2>1, ConfigAssumption, FS_Subset
<1> DEFINE c == Cardinality(Unlisted)
<1>2. c \in Nat /\ ExistsBijection(1..c, Unlisted)
  BY <1>1, FS_CardinalityType
<1>3. \E f \in [1..c -> Unlisted] : IsInjective(f)
  BY <1>2 DEF ExistsBijection, Bijection, Injection
<1>4. SetToSeq(Unlisted) \in [1..c -> Unlisted] /\ IsInjective(SetToSeq(Unlisted))
  BY <1>3 DEF SetToSeq
<1> QED BY <1>2, <1>4 DEF IsInjective

NumberedTo(n) == Keys("perm") = {Perm(i) : i \in 1..n}
AddedAfter(n) == {Perm(n + i) : i \in 1..Cardinality(Unlisted)}

\* What seeding adds, and that it leaves alone what is there.
LEMMA SeededRows ==
    ASSUME ConfigInv, NEW n \in Nat, NumberedTo(n)
    PROVE  /\ DOMAIN Seeded = DOMAIN db \cup AddedAfter(n) \cup YamlKeys
           /\ \A k \in DOMAIN db : Seeded[k] = db[k]
           /\ \A i \in 1..Cardinality(Unlisted) :
                 /\ Perm(n + i) \notin DOMAIN db
                 /\ Seeded[Perm(n + i)] = PermRow(SetToSeq(Unlisted)[i],
                                                 YamlEffect[SetToSeq(Unlisted)[i]])
           /\ \A k \in YamlKeys \ DOMAIN db : Seeded[k] = YamlRow(k)
<1> DEFINE m == Cardinality(Unlisted)
           new == SetToSeq(Unlisted)
<1>1. m \in Nat /\ DOMAIN new = 1..m
  BY UnlistedInOrder
<1>2. Cardinality(Keys("perm")) = n
  BY CountPerms DEF NumberedTo
<1> DEFINE added == {Perm(n + i) : i \in 1..m}
<1>3. /\ DOMAIN YamlPerms = added
      /\ \A k \in added : YamlPerms[k] = PermRow(new[k[2] - n], YamlEffect[new[k[2] - n]])
  BY <1>1, <1>2 DEF YamlPerms
<1>4. \A i \in 1..m : Perm(n + i) \in added /\ Perm(n + i)[2] - n = i
  BY <1>1 DEF Perm
<1>5. \A i \in 1..m : Perm(n + i) \notin DOMAIN db
  <2> SUFFICES ASSUME NEW i \in 1..m, Perm(n + i) \in DOMAIN db PROVE FALSE
    OBVIOUS
  <2>1. Perm(n + i) \in Keys("perm")
    BY ColumnsOfKeys DEF Keys
  <2>2. PICK j \in 1..n : Perm(n + i) = Perm(j)
    BY <2>1 DEF NumberedTo
  <2> QED BY <1>1, <2>2, KeysDiffer
<1>6. \A k \in YamlKeys : k[1] # "perm"
  BY ColumnsOfKeys DEF YamlKeys
<1>7. \A k \in added : k[1] = "perm"
  BY ColumnsOfKeys
<1> DEFINE rest == Over(YamlPerms, Rows(YamlKeys, YamlRow))
<1>8. /\ DOMAIN rest = added \cup YamlKeys
      /\ \A k \in added : rest[k] = YamlPerms[k]
      /\ \A k \in YamlKeys : rest[k] = YamlRow(k)
  BY <1>3, <1>6, <1>7 DEF Over, Rows
<1>9. Seeded = Over(db, rest)
  BY DEF Seeded
<1> HIDE DEF rest, added
<1>10. /\ DOMAIN Seeded = DOMAIN db \cup (added \cup YamlKeys)
       /\ \A k \in DOMAIN db : Seeded[k] = db[k]
       /\ \A k \in (added \cup YamlKeys) \ DOMAIN db : Seeded[k] = rest[k]
  BY <1>8, <1>9 DEF Over
<1>11. ASSUME NEW i \in 1..m
       PROVE  /\ Perm(n + i) \notin DOMAIN db
              /\ Seeded[Perm(n + i)] = PermRow(new[i], YamlEffect[new[i]])
  <2>1. Seeded[Perm(n + i)] = YamlPerms[Perm(n + i)]
    BY <1>4, <1>5, <1>8, <1>10
  <2> QED BY <1>3, <1>4, <1>5, <2>1
<1>12. \A k \in YamlKeys \ DOMAIN db : Seeded[k] = YamlRow(k)
  BY <1>8, <1>10
<1> QED BY <1>10, <1>11, <1>12 DEF added, AddedAfter

LEMMA YamlRowsTyped ==
    ASSUME NEW k \in YamlKeys
    PROVE  /\ DOMAIN YamlRow(k) = Columns(k)
           /\ \A a : k = Agent(a) => YamlRow(k).version = 1
<1>1. CASE k[1] = "agent"
  <2>1. YamlRow(k) = YamlAgent(k[2])
    BY <1>1 DEF YamlRow
  <2> QED BY <1>1, <2>1 DEF YamlAgent, Columns
<1>2. CASE k[1] # "agent"
  <2>1. \A a : k # Agent(a)
    BY <1>2, ColumnsOfKeys
  <2>2. CASE \E a \in DOMAIN YamlModels : k = Model(a)
    BY <2>2, ColumnsOfKeys, ConfigAssumption DEF YamlRow, Model
  <2>3. CASE \E p \in Providers : k = Provider(p)
    BY <2>3, ColumnsOfKeys, ConfigAssumption DEF YamlRow, Provider
  <2>4. CASE \E t \in Tools : k = Tool(t)
    BY <2>4, ColumnsOfKeys DEF YamlRow, Tool, YamlTool
  <2>5. CASE \E s : k = Setting(s)
    <3>1. PICK s : k = Setting(s)
      BY <2>5
    <3>2. YamlRow(k) = [value |-> IF k[2] = "router.mode" THEN YamlMode ELSE "5"]
      BY <3>1 DEF YamlRow, Setting
    <3> QED BY <2>1, <3>1, <3>2, ColumnsOfKeys
  <2> QED BY <1>2, <2>1, <2>2, <2>3, <2>4, <2>5, ColumnsOfKeys DEF YamlKeys
<1> QED BY <1>1, <1>2

LEMMA StartKeeps ==
    ASSUME ConfigInv, Start
    PROVE  ConfigInv'
<1> USE DEF ConfigInv
<1>1. PICK n \in Nat : Keys("perm") = {Perm(i) : i \in 1..n}
  BY DEF Numbered
<1>2. PICK m : m = Cardinality(Unlisted)
  OBVIOUS
<1>3. m \in Nat
  BY <1>2, UnlistedInOrder
<1> DEFINE added == AddedAfter(n)
<1>4. /\ db' = Seeded /\ calls' = calls
      /\ told' = told /\ crossed' = crossed /\ patches' = patches
      /\ req' = [r \in Requests |-> IF r \in Open THEN Done ELSE req[r]]
  BY DEF Start
<1>5. /\ DOMAIN db' = DOMAIN db \cup added \cup YamlKeys
      /\ \A k \in DOMAIN db : db'[k] = db[k]
      /\ \A k \in added : \E pair, effect : db'[k] = PermRow(pair, effect)
      /\ \A k \in YamlKeys \ DOMAIN db : db'[k] = YamlRow(k)
  <2>1. NumberedTo(n)
    BY <1>1 DEF NumberedTo
  <2>2. /\ DOMAIN Seeded = DOMAIN db \cup added \cup YamlKeys
        /\ \A k \in DOMAIN db : Seeded[k] = db[k]
        /\ \A i \in 1..Cardinality(Unlisted) :
              Seeded[Perm(n + i)] = PermRow(SetToSeq(Unlisted)[i], YamlEffect[SetToSeq(Unlisted)[i]])
        /\ \A k \in YamlKeys \ DOMAIN db : Seeded[k] = YamlRow(k)
    BY <2>1, SeededRows
  <2>3. \A k \in added : \E pair, effect : Seeded[k] = PermRow(pair, effect)
    BY <2>2 DEF AddedAfter
  <2> QED BY <1>4, <2>2, <2>3
<1>6. /\ \A k \in added : k[1] = "perm" /\ Columns(k) = {"pair", "effect"}
      /\ \A k \in YamlKeys : k[1] # "perm"
  BY ColumnsOfKeys DEF YamlKeys, AddedAfter
<1> HIDE DEF added
<1>7. DOMAIN Done = DOMAIN Idle /\ Done.stage # "open"
  BY DEF Done, Idle
<1>8. /\ DOMAIN req' = Requests
      /\ \A r \in Requests : req'[r] = Done \/ (r \notin Open /\ req'[r] = req[r])
  BY <1>4
<1>9. Open' = {}
  BY <1>7, <1>8 DEF Open
<1>10. RequestsFit' /\ AloneKnows'
  BY <1>7, <1>8, <1>9 DEF RequestsFit, AloneKnows
<1>11. RowsTyped'
  <2>1. \A k \in added : DOMAIN db'[k] = Columns(k)
    BY <1>5, <1>6 DEF PermRow
  <2> QED BY <1>5, <2>1, YamlRowsTyped DEF RowsTyped
<1>12. Numbered'
  <2>1. Keys("perm")' = {Perm(i) : i \in 1..n} \cup added
    BY <1>1, <1>5, <1>6 DEF Keys
  <2>2. added = {Perm(i) : i \in (n + 1)..(n + m)}
    <3>1. \A i \in 1..m : n + i \in (n + 1)..(n + m)
      BY <1>3
    <3>2. \A j \in (n + 1)..(n + m) : j - n \in 1..m /\ n + (j - n) = j
      BY <1>3
    <3>3. \A j \in (n + 1)..(n + m) : Perm(j) \in added
      BY <1>2, <3>2 DEF added, AddedAfter
    <3>4. \A k \in added : k \in {Perm(i) : i \in (n + 1)..(n + m)}
      BY <1>2, <3>1 DEF added, AddedAfter
    <3> QED BY <3>3, <3>4
  <2>3. 1..(n + m) = 1..n \cup (n + 1)..(n + m)
    BY <1>3
  <2>4. Keys("perm")' = {Perm(i) : i \in 1..(n + m)} /\ n + m \in Nat
    BY <1>3, <2>1, <2>2, <2>3
  <2> QED BY <2>4 DEF Numbered
<1>13. WordsTyped'
  BY <1>4, <1>5 DEF WordsTyped
<1>14. Counted' /\ VersionCounts'
  <2>1. ASSUME NEW x \in Agents
        PROVE  \/ Agent(x) \notin DOMAIN db' /\ Agent(x) \notin DOMAIN db
               \/ Agent(x) \in DOMAIN db /\ Agent(x) \in DOMAIN db' /\ db'[Agent(x)] = db[Agent(x)]
               \/ /\ Agent(x) \notin DOMAIN db /\ Agent(x) \in DOMAIN db'
                  /\ db'[Agent(x)].version = 1
    <3>1. Agent(x) \notin added
      BY <1>6, ColumnsOfKeys
    <3> QED BY <1>5, <3>1, YamlRowsTyped
  <2> QED BY <1>4, <2>1 DEF Counted, VersionCounts
<1>15. OwnersWordKept'
  BY <1>4, <1>5 DEF OwnersWordKept, WordsTyped
<1>16. (DOMAIN calls \subseteq Requests)'
  BY <1>4
<1> QED BY <1>10, <1>11, <1>12, <1>13, <1>14, <1>15, <1>16

LEMMA ConfigUnchanged ==
    ASSUME ConfigInv, UNCHANGED <<db, req, calls, told, crossed, patches>>
    PROVE  ConfigInv'
<1>1. Open' = Open
  BY DEF Open
<1>2. RequestsFit'
  <2>1. ASSUME NEW s \in Requests, s \in Open
        PROVE  Fits(req[s].from, req[s].to, req[s].asks)'
    <3>1. Fits(req[s].from, req[s].to, req[s].asks)
      BY <2>1 DEF ConfigInv, RequestsFit
    <3> QED BY <3>1 DEF Fits, FromFits, ToFits, AsksFit, AgentsFit
  <2> QED BY <1>1, <2>1 DEF ConfigInv, RequestsFit
<1>3. AloneKnows'
  BY <1>1 DEF ConfigInv, AloneKnows, PermsOf
<1>4. RowsTyped' /\ Numbered' /\ WordsTyped' /\ Counted'
  BY DEF ConfigInv, RowsTyped, Numbered, Keys, WordsTyped, Counted
<1>5. OwnersWordKept' /\ VersionCounts'
  BY DEF ConfigInv, OwnersWordKept, VersionCounts
<1> QED BY <1>2, <1>3, <1>4, <1>5 DEF ConfigInv

LEMMA ConfigInvInitially == Init => ConfigInv
<1> SUFFICES ASSUME Init PROVE ConfigInv
  OBVIOUS
<1>1. /\ DOMAIN db = {} /\ DOMAIN told = {} /\ DOMAIN calls = {}
      /\ req = [r \in Requests |-> Idle] /\ patches = [a \in Agents |-> 0]
  BY DEF Init, ConfigInit, Empty
<1>2. Open = {}
  BY <1>1 DEF Open, Idle
<1>3. RequestsFit /\ AloneKnows
  BY <1>1, <1>2 DEF RequestsFit, AloneKnows
<1>4. Numbered
  <2>1. Keys("perm") = {} /\ 1..0 = {}
    BY <1>1 DEF Keys
  <2>2. Keys("perm") = {Perm(i) : i \in 1..0}
    BY <2>1
  <2> QED BY <2>2 DEF Numbered
<1>5. RowsTyped /\ WordsTyped /\ OwnersWordKept
  BY <1>1 DEF RowsTyped, WordsTyped, OwnersWordKept
<1>6. Counted /\ VersionCounts
  BY <1>1 DEF Counted, VersionCounts
<1> QED BY <1>1, <1>3, <1>4, <1>5, <1>6 DEF ConfigInv

LEMMA ConfigInvNext == ConfigInv /\ [Next]_vars => ConfigInv'
<1> SUFFICES ASSUME ConfigInv, [Next]_vars PROVE ConfigInv'
  OBVIOUS
<1>1. CASE RouteStep
  BY <1>1, ConfigUnchanged DEF RouteStep, StartRoute, GotProviders, GotModels, config
<1>2. CASE Reconfigure
  BY <1>2, AskKeeps, CommitKeeps, ConfigUnchanged DEF Reconfigure, AddFile
<1>3. CASE Restart
  BY <1>3, StartKeeps DEF Restart
<1>4. CASE UNCHANGED vars
  BY <1>4, ConfigUnchanged DEF vars, config
<1> QED BY <1>1, <1>2, <1>3, <1>4 DEF Next

LEMMA ConfigInvAlways == Spec => []ConfigInv
  BY ConfigInvInitially, ConfigInvNext, PTL DEF Spec

\* Every row of every table has the columns of its table, permissions are numbered
\* without gaps and a level that an owner set is one of the four, whatever the files
\* name and however many requests change them at a time.
THEOREM RowsAlwaysTyped == Spec => []ConfigTypeOK
<1>1. ConfigInv => ConfigTypeOK
  <2> SUFFICES ASSUME ConfigInv PROVE ConfigTypeOK
    OBVIOUS
  <2>1. \A k \in Keys("perm") : k[2] \in 1..Cardinality(Keys("perm"))
    <3>1. PICK n \in Nat : Keys("perm") = {Perm(i) : i \in 1..n}
      BY DEF ConfigInv, Numbered
    <3>2. Cardinality(Keys("perm")) = n
      BY <3>1, CountPerms
    <3>3. \A i \in 1..n : Perm(i)[2] = i
      BY DEF Perm
    <3> QED BY <3>1, <3>2, <3>3
  <2>2. \A a \in Agents :
          Agent(a) \in DOMAIN told /\ Column(told[Agent(a)], "autonomy") # {} =>
             db[Agent(a)].autonomy \in P!AutonomyModes
    BY DEF ConfigInv, WordsTyped, Column
  <2> QED BY <2>1, <2>2 DEF ConfigTypeOK, ConfigInv, RowsTyped, WordsTyped
<1> QED BY ConfigInvAlways, <1>1, PTL

\* What the owner was told is done stays done, and every change of an agent is counted,
\* through any number of requests that overlap, syncs and restarts.
THEOREM OwnerIsObeyed == Spec => []ChangesKept
<1>1. ConfigInv => ChangesKept
  BY DEF ConfigInv, ChangesKept
<1> QED BY ConfigInvAlways, <1>1, PTL


-----------------------------------------------------------------------------
(* One row of a pair.                                                        *)

LEMMA AtMostOne ==
    ASSUME NEW S, \A x, y \in S : x = y
    PROVE  ~(Cardinality(S) > 1)
<1>1. CASE S = {}
  <2>1. Cardinality(S) = 0
    BY <1>1, FS_EmptySet
  <2> QED BY <2>1
<1>2. CASE S # {}
  <2>1. PICK x \in S : S = {x}
    BY <1>2
  <2>2. Cardinality(S) = 1
    BY <2>1, FS_Singleton
  <2> QED BY <2>2
<1> QED BY <1>1, <1>2

\* A PUT that was alone, or a PATCH of no permission, doubles no pair.
LEMMA CommitDoublesNone ==
    ASSUME ConfigInv, NEW r \in Requests, Commit(r), NEW pair,
           req[r].alone, \A k \in DOMAIN req[r].from : k[1] # "perm"
    PROVE  PermsOf(db', pair) = PermsOf(db, pair) \/ ~(Cardinality(PermsOf(db', pair)) > 1)
<1>1. r \in Open /\ Fits(req[r].from, req[r].to, req[r].asks)
  BY DEF Commit, ConfigInv, RequestsFit
<1>2. CASE NewPerm \in DOMAIN req[r].to
  <2> DEFINE new == Perm(1 + Cardinality(Keys("perm")))
  <2>1. /\ new \notin DOMAIN db /\ new[1] = "perm"
        /\ DOMAIN db' = DOMAIN db \cup {new} /\ db'[new] = req[r].to[NewPerm]
        /\ \A x \in DOMAIN db : db'[x] = db[x]
    BY <1>1, <1>2, CommitPlaces
  <2> HIDE DEF new
  <2>2. PermsOf(db, req[r].to[NewPerm].pair) = {}
    BY <1>1, <1>2 DEF ConfigInv, AloneKnows
  <2>3. CASE pair = req[r].to[NewPerm].pair
    <3>1. PermsOf(db', pair) \subseteq {new}
      BY <2>1, <2>2, <2>3 DEF PermsOf
    <3> QED BY <3>1, AtMostOne
  <2>4. CASE pair # req[r].to[NewPerm].pair
    BY <2>1, <2>4 DEF PermsOf
  <2> QED BY <2>3, <2>4
<1>3. CASE NewPerm \notin DOMAIN req[r].to
  <2>1. \A k \in DOMAIN req[r].to : k[1] # "perm"
    BY <1>1, <1>3 DEF Fits, ToFits
  <2>2. CASE db' = db
    BY <2>2
  <2>3. CASE db' # db
    <3>1. (DOMAIN Placed(req[r].to) \ DOMAIN req[r].from) \cap DOMAIN db = {}
      BY <2>3 DEF Commit
    <3>2. Wrote(req[r].from, req[r].to)
      BY <1>1, <1>3, <3>1, CommitWrites
    <3>3. \A k : k[1] = "perm" => /\ k \in DOMAIN db' <=> k \in DOMAIN db
                                  /\ k \in DOMAIN db => db'[k] = db[k]
      BY <2>1, <3>2 DEF Wrote
    <3> QED BY <3>3 DEF PermsOf
  <2> QED BY <2>2, <2>3
<1> QED BY <1>2, <1>3

\* Seeding gives a row to a pair that has none, and one only.
LEMMA StartDoublesNone ==
    ASSUME ConfigInv, Start, NEW pair
    PROVE  PermsOf(db', pair) = PermsOf(db, pair) \/ ~(Cardinality(PermsOf(db', pair)) > 1)
<1>1. PICK n \in Nat : NumberedTo(n)
  BY DEF ConfigInv, Numbered, NumberedTo
<1> DEFINE m == Cardinality(Unlisted)
           new == SetToSeq(Unlisted)
<1>2. /\ DOMAIN Seeded = DOMAIN db \cup AddedAfter(n) \cup YamlKeys
      /\ \A k \in DOMAIN db : Seeded[k] = db[k]
      /\ \A i \in 1..m : /\ Perm(n + i) \notin DOMAIN db
                         /\ Seeded[Perm(n + i)] = PermRow(new[i], YamlEffect[new[i]])
  BY <1>1, SeededRows
<1>3. db' = Seeded
  BY DEF Start
<1>4. /\ m \in Nat /\ \A i \in 1..m : new[i] \in Unlisted
      /\ \A i, j \in 1..m : new[i] = new[j] => i = j
  BY UnlistedInOrder
<1>5. AddedAfter(n) = {Perm(n + i) : i \in 1..m}
  BY DEF AddedAfter
<1> HIDE DEF m, new
<1>6. \A k \in YamlKeys : k[1] # "perm"
  BY ColumnsOfKeys DEF YamlKeys
<1>7. ASSUME NEW k \in PermsOf(db', pair), k \notin PermsOf(db, pair)
      PROVE  \E i \in 1..m : k = Perm(n + i) /\ new[i] = pair
  <2>1. k \in DOMAIN db' /\ k[1] = "perm" /\ db'[k].pair = pair
    BY <1>7 DEF PermsOf
  <2>2. k \notin DOMAIN db
    BY <1>2, <1>3, <1>7, <2>1 DEF PermsOf
  <2>3. PICK i \in 1..m : k = Perm(n + i)
    BY <1>2, <1>3, <1>5, <1>6, <2>1, <2>2
  <2>4. db'[k] = PermRow(new[i], YamlEffect[new[i]])
    BY <1>2, <1>3, <2>3
  <2> QED BY <2>1, <2>3, <2>4 DEF PermRow
<1>8. PermsOf(db, pair) \subseteq PermsOf(db', pair)
  BY <1>2, <1>3 DEF PermsOf
<1>9. CASE PermsOf(db', pair) = PermsOf(db, pair)
  BY <1>9
<1>10. CASE PermsOf(db', pair) # PermsOf(db, pair)
  <2>1. PICK k \in PermsOf(db', pair) : k \notin PermsOf(db, pair)
    BY <1>8, <1>10
  <2>2. pair \in Unlisted
    BY <1>4, <1>7, <2>1
  <2>3. PermsOf(db, pair) = {}
    BY <2>2 DEF Unlisted
  <2>4. \A x, y \in PermsOf(db', pair) : x = y
    BY <1>4, <1>7, <2>3
  <2> QED BY <2>4, AtMostOne
<1> QED BY <1>9, <1>10

OnePair ==
    \A pair \in Agents \X Tools :
       Cardinality(PermsOf(db', pair)) > 1 =>
         \/ Cardinality(PermsOf(db, pair)) > 1
         \/ \E r \in Open : /\ req'[r] = Done
                            /\ ~req[r].alone \/ \E k \in DOMAIN req[r].from : k[1] = "perm"

\* A pair of agent and tool comes to have two rows only by a PUT that overlaps another
\* request, or by a PATCH that makes a row be about the pair of another one.
THEOREM PairsDoubleByOverlap == Spec => OneRowPerPair
<1>1. ConfigInv /\ [Next]_vars => [OnePair]_config
  <2> SUFFICES ASSUME ConfigInv, [Next]_vars PROVE OnePair \/ UNCHANGED config
    OBVIOUS
  <2>1. ASSUME UNCHANGED db PROVE OnePair
    BY <2>1 DEF OnePair
  <2>2. ASSUME Start PROVE OnePair
    BY <2>2, StartDoublesNone DEF OnePair
  <2>3. ASSUME NEW r \in Requests, Commit(r) PROVE OnePair
    <3>1. r \in Open /\ req'[r] = Done
      BY <2>3 DEF Commit, ConfigInv, RequestsFit
    <3>2. CASE req[r].alone /\ \A k \in DOMAIN req[r].from : k[1] # "perm"
      BY <2>3, <3>2, CommitDoublesNone DEF OnePair
    <3>3. CASE ~(req[r].alone /\ \A k \in DOMAIN req[r].from : k[1] # "perm")
      BY <3>1, <3>3 DEF OnePair
    <3> QED BY <3>2, <3>3
  <2>4. CASE RouteStep
    BY <2>4 DEF RouteStep, StartRoute, GotProviders, GotModels, config
  <2>5. CASE Reconfigure
    BY <2>1, <2>3, <2>5, AskKeepsRows DEF Reconfigure, AddFile
  <2>6. CASE Restart
    BY <2>2, <2>6 DEF Restart
  <2>7. CASE UNCHANGED vars
    BY <2>7 DEF vars
  <2> QED BY <2>4, <2>5, <2>6, <2>7 DEF Next
<1> QED BY ConfigInvAlways, <1>1, PTL DEF Spec, OneRowPerPair, OnePair

=============================================================================

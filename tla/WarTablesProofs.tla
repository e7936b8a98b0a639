-------------------------- MODULE WarTablesProofs --------------------------
(***************************************************************************)
(* Theorems about the tables that uploads and rollbacks write: nothing by  *)
(* halves, performances of players that exist, counts that cover them.     *)
(***************************************************************************)
EXTENDS WarIngestProofs

-----------------------------------------------------------------------------
(* What a step of an upload leaves alone.                                  *)

\* The other calls stay where they are.
LEMMA OthersStay ==
    ASSUME TypeOK, NEW u \in Uploads, UploadStep(u)
    PROVE  /\ req' = req
           /\ \A v \in Uploads \ {u} : up'[v] = up[v]
           /\ \A x \in Calls \ {u} : pc'[x] = pc[x] /\ open'[x] = open[x]
<1>1. up \in [Uploads -> UploadLocals] /\ DOMAIN pc = Calls /\ DOMAIN open = Calls
  BY DEF TypeOK
<1>2. CASE Fail(u)
  BY <1>1, <1>2 DEF Fail
<1>3. CASE FindWar(u) /\ ~Fail(u)
  BY <1>1, <1>3 DEF FindWar, Goto
<1>4. CASE FindSides(u) \/ BeginTx(u) \/ InsertSide(u) \/ InsertPerformances(u)
  BY <1>1, <1>2, <1>4 DEF FindSides, BeginTx, InsertSide, InsertPerformances, Goto
<1>5. CASE ReadPlayers(u) \/ CreatePlayers(u) \/ FetchPlayers(u) \/ CountGames(u)
  BY <1>1, <1>2, <1>5 DEF ReadPlayers, CreatePlayers, FetchPlayers, CountGames, Goto
<1>6. CASE CreateProfiles(u)
  BY <1>1, <1>2, <1>6 DEF CreateProfiles, Goto
<1>7. CASE AppendClasses(u) \/ ReadTop(u) \/ SetMain(u)
  BY <1>1, <1>2, <1>7 DEF AppendClasses, ReadTop, SetMain, Goto
<1>8. CASE Commit(u)
  BY <1>1, <1>2, <1>8 DEF Commit, Goto
<1> QED BY <1>3, <1>2, <1>4, <1>5, <1>6, <1>7, <1>8 DEF UploadStep

\* The steps that leave its performances as they are
LEMMA SameResolved ==
    ASSUME TypeOK, NEW u \in Uploads, UploadStep(u),
           ~Commit(u) \/ Fail(u), ~CreateProfiles(u) \/ Fail(u)
    PROVE  /\ up'[u].resolved = up[u].resolved
           /\ up'[u].pass = up[u].pass
<1>1. up \in [Uploads -> UploadLocals]
  BY DEF TypeOK
<1>2. CASE Fail(u)
  BY <1>2 DEF Fail
<1>3. CASE FindWar(u) /\ ~Fail(u)
  <2>1. up' = up \/ \E w \in wars : up' = [up EXCEPT ![u].war = w.id]
    BY <1>3 DEF FindWar
  <2> QED BY <1>1, <2>1 DEF UploadLocals
<1>4. CASE FindSides(u) \/ BeginTx(u) \/ InsertSide(u)
  BY <1>2, <1>4 DEF FindSides, BeginTx, InsertSide
<1>5. CASE ReadPlayers(u) \/ CreatePlayers(u) \/ FetchPlayers(u) \/ CountGames(u)
  BY <1>1, <1>2, <1>5 DEF ReadPlayers, CreatePlayers, FetchPlayers, CountGames,
     UploadLocals
<1>6. CASE InsertPerformances(u) \/ AppendClasses(u) \/ ReadTop(u) \/ SetMain(u)
  <2> DEFINE p == NextPlayer(u)
  <2>1. \/ up' = up
        \/ up' = [up EXCEPT ![u].todo = Resolved(u)]
        \/ up' = [up EXCEPT ![u].todo = @ \ {p}]
        \/ \E c \in Class : up' = [up EXCEPT ![u].top = c]
        \/ up' = [up EXCEPT ![u].todo = @ \ {p}, ![u].top = NoClass]
    BY <1>2, <1>6 DEF InsertPerformances, AppendClasses, ReadTop, SetMain, Fail
  <2>2. ASSUME NEW c \in Class, up' = [up EXCEPT ![u].top = c]
        PROVE  up'[u].resolved = up[u].resolved /\ up'[u].pass = up[u].pass
    BY <1>1, <2>2 DEF UploadLocals
  <2> HIDE DEF p
  <2> QED BY <1>1, <2>1, <2>2 DEF UploadLocals
<1> QED BY <1>3, <1>2, <1>4, <1>5, <1>6 DEF UploadStep

\* Nothing is taken away: players, profiles, classes and counts only come.
Mild ==
    /\ players \subseteq players' /\ players' \subseteq PlayerId
    /\ \A p \in players' \ players : ~Born(p) /\ Born(p)'
    /\ \A p \in PlayerId : profile[p] # NoProfile => profile'[p] # NoProfile
    /\ classes \subseteq classes'
    /\ \A k \in PlayerClass : games'[k] >= games[k]

LEMMA CreatePlayersMild ==
    ASSUME TypeOK, NEW u \in Uploads, CreatePlayers(u)
    PROVE  Mild
<1>1. u \in Calls /\ DOMAIN pc = Calls /\ up \in [Uploads -> UploadLocals]
  BY DEF Calls, TypeOK
<1>2. /\ up'[u].pass = up[u].pass /\ up[u].missing \subseteq Nick /\ up[u].pass \in 1..2
      /\ pc[u] = "create" /\ pc'[u] = "fetch"
  BY <1>1 DEF CreatePlayers, UploadLocals, At, Goto
<1>3. \A p \in players' \ players : p \in PlayerId /\ p.by = u /\ p.pass = up[u].pass
  BY <1>2 DEF CreatePlayers, PlayerId
<1>4. \A p \in players' \ players : ~Born(p) /\ Born(p)'
  BY <1>2, <1>3 DEF Born, Early
<1>5. /\ UNCHANGED <<profile, classes, games>> /\ games \in [PlayerClass -> Nat]
      /\ players \subseteq players' /\ players \subseteq PlayerId
  BY DEF CreatePlayers, TypeOK
<1> QED BY <1>3, <1>4, <1>5 DEF Mild

LEMMA UploadMild ==
    ASSUME TypeOK, NEW u \in Uploads, UploadStep(u)
    PROVE  Mild
<1>1. players \subseteq PlayerId /\ games \in [PlayerClass -> Nat]
      /\ profile \in [PlayerId -> Class \cup {NoClass, NoProfile}]
  BY DEF TypeOK
<1>2. CASE CreatePlayers(u)
  BY <1>2, CreatePlayersMild
<1>3. CASE UNCHANGED <<players, profile, classes, games>>
  BY <1>1, <1>3 DEF Mild
<1>4. CASE CreateProfiles(u) /\ ~Fail(u)
  <2>1. UNCHANGED <<players, classes, games>>
        /\ profile' = [p \in PlayerId |->
                IF p \in up[u].fetched /\ profile[p] = NoProfile
                THEN NoClass ELSE profile[p]]
    BY <1>4 DEF CreateProfiles
  <2> QED BY <1>1, <2>1 DEF Mild
<1>5. CASE AppendClasses(u) /\ up[u].todo # {}
  <2>1. UNCHANGED <<players, profile, games>> /\ classes \subseteq classes'
    BY <1>5 DEF AppendClasses
  <2> QED BY <1>1, <2>1 DEF Mild
<1>6. CASE CountGames(u)
  <2>1. \A k \in PlayerClass : Increment(u, k) \in Nat
    BY IncrementType
  <2>2. UNCHANGED <<players, profile, classes>>
        /\ games' = [k \in PlayerClass |-> games[k] + Increment(u, k)]
    BY <1>6 DEF CountGames
  <2>3. \A k \in PlayerClass : games'[k] >= games[k]
    BY <1>1, <2>1, <2>2
  <2> QED BY <1>1, <2>2, <2>3 DEF Mild
<1>7. CASE SetMain(u) /\ ~Fail(u)
  <2>1. up[u].top # NoProfile
    BY FreshAssumption DEF TypeOK, UploadLocals
  <2>2. UNCHANGED <<players, classes, games>>
        /\ profile' = [profile EXCEPT ![NextPlayer(u)] = up[u].top]
    BY <1>7 DEF SetMain
  <2> QED BY <1>1, <2>1, <2>2 DEF Mild
<1>8. CASE Fail(u)
  BY <1>3, <1>8 DEF Fail, tables
<1> QED BY <1>2, <1>3, <1>4, <1>5, <1>6, <1>7, <1>8 DEF UploadStep, tables, FindWar,
        FindSides, ReadPlayers, FetchPlayers, BeginTx, InsertSide, InsertPerformances,
        AppendClasses, ReadTop, Commit

-----------------------------------------------------------------------------
(* Who has been stored once stays so, and is not stored again.             *)

LEMMA Progress ==
    ASSUME TypeOK, PhasesInv, NEW u \in Uploads, UploadStep(u)
    PROVE  \/ up[u].pass = 1 /\ up'[u].pass = 2
           \/ /\ up'[u].pass = up[u].pass
              /\ pc[u] \notin Early => pc'[u] \notin Early
<1>1. /\ u \in Calls /\ DOMAIN pc = Calls /\ up \in [Uploads -> UploadLocals]
      /\ Phase(u)
  BY DEF Calls, TypeOK, PhasesInv
<1>2. CASE Fail(u)
  BY <1>1, <1>2 DEF Fail, Early
<1>3. CASE Commit(u) /\ ~Fail(u)
  <2>1. up[u].pass = 1 /\ up'[u].pass = 2
    BY <1>1, <1>3 DEF Commit, At, Phase, InTx, NoLocals
  <2> QED BY <2>1
<1>4. CASE CreateProfiles(u) /\ ~Fail(u)
  <2>1. up'[u].pass = up[u].pass
    <3>1. \/ up' = up
          \/ up' = [up EXCEPT ![u].fetched = {}]
          \/ \E res \in Resolutions(u) :
                up' = [up EXCEPT ![u].resolved = res, ![u].fetched = {}]
      BY <1>4 DEF CreateProfiles
    <3>2. ASSUME NEW res \in Resolutions(u),
                 up' = [up EXCEPT ![u].resolved = res, ![u].fetched = {}]
          PROVE  up'[u].pass = up[u].pass
      BY <1>1, <3>2 DEF UploadLocals
    <3> QED BY <1>1, <3>1, <3>2 DEF UploadLocals
  <2>2. pc'[u] \in {"failed", "begin", "done"}
    BY <1>1, <1>4 DEF CreateProfiles, Goto
  <2> QED BY <2>1, <2>2 DEF Early
<1>5. CASE ~Fail(u) /\ ~Commit(u) /\ ~CreateProfiles(u)
  <2>1. up'[u].pass = up[u].pass
    BY <1>5, SameResolved
  <2>2. pc[u] \notin Early => pc'[u] \notin Early
    BY <1>1, <1>5 DEF UploadStep, FindWar, FindSides, ReadPlayers, CreatePlayers,
       FetchPlayers, BeginTx, InsertSide, InsertPerformances, AppendClasses,
       CountGames, ReadTop, SetMain, At, Goto, Early
  <2> QED BY <2>1, <2>2
<1> QED BY <1>2, <1>3, <1>4, <1>5

\* A step of an upload
LEMMA BornStays ==
    ASSUME TypeOK, PhasesInv, NEW u \in Uploads, UploadStep(u),
           NEW p \in PlayerId, Born(p)
    PROVE  Born(p)'
<1>1. p.by \in Uploads /\ p.pass \in 1..2 /\ up[p.by].pass \in 1..2
  BY DEF PlayerId, TypeOK, UploadLocals
<1>2. CASE p.by = u
  BY <1>1, <1>2, Progress DEF Born
<1>3. CASE p.by # u
  <2>1. up'[p.by] = up[p.by] /\ pc'[p.by] = pc[p.by]
    BY <1>1, <1>3, OthersStay DEF Calls
  <2> QED BY <2>1 DEF Born
<1> QED BY <1>2, <1>3

LEMMA UploadBorn ==
    ASSUME TypeOK, PhasesInv, BornInv, ResolvedInv, NEW u \in Uploads, UploadStep(u)
    PROVE  BornInv'
<1>1. Mild
  BY UploadMild
<1>2. ASSUME NEW p \in players'
      PROVE  Born(p)'
  BY <1>1, <1>2, BornStays DEF BornInv, Mild
<1>3. ASSUME NEW p \in PlayerId, profile'[p] # NoProfile
      PROVE  p \in players'
  <2>1. profile \in [PlayerId -> Class \cup {NoClass, NoProfile}]
    BY DEF TypeOK
  <2>2. CASE UNCHANGED profile
    BY <1>1, <1>3, <2>2 DEF BornInv, Mild
  <2>3. CASE CreateProfiles(u) /\ ~Fail(u)
    BY <1>1, <1>3, <2>3 DEF CreateProfiles, BornInv, Mild
  <2>4. CASE SetMain(u) /\ ~Fail(u)
    BY <1>1, <1>3, <2>1, <2>4 DEF SetMain, BornInv, Mild
  <2> QED BY <2>2, <2>3, <2>4 DEF UploadStep, tables, FindWar, FindSides, ReadPlayers,
          CreatePlayers, FetchPlayers, BeginTx, InsertSide, InsertPerformances,
          AppendClasses, CountGames, ReadTop, Commit, Fail
<1>4. ASSUME NEW k \in PlayerClass, games'[k] > 0
      PROVE  Born(k.player)'
  <2>1. k.player \in PlayerId
    BY DEF PlayerClass
  <2>2. CASE games[k] > 0
    BY <2>1, <2>2, BornStays DEF BornInv
  <2>3. CASE ~(games[k] > 0)
    <3>1. CountGames(u)
      BY <1>4, <2>3 DEF UploadStep, tables, FindWar, FindSides, ReadPlayers,
         CreatePlayers, FetchPlayers, CreateProfiles, BeginTx, InsertSide,
         InsertPerformances, AppendClasses, ReadTop, SetMain, Commit, Fail
    <3> DEFINE s == up[u].resolved
               hits == {n \in DOMAIN s : s[n] = k}
    <3>2. games[k] = 0 /\ Increment(u, k) \in Nat /\ IsFiniteSet(hits)
      <4>1. games[k] \in Nat
        BY DEF TypeOK
      <4> QED BY <2>3, <4>1, IncrementType
    <3>3. games'[k] = games[k] + Increment(u, k)
      BY <3>1 DEF CountGames
    <3>4. Cardinality(hits) # 0
      BY <1>4, <3>2, <3>3 DEF Increment
    <3>5. hits # {}
      BY <3>4, FS_EmptySet
    <3>6. PICK n \in DOMAIN s : s[n] = k
      BY <3>5
    <3>7. k.player \in Resolved(u)
      BY <3>6 DEF Resolved, Range
    <3>8. Born(k.player)
      BY <3>1, <3>7 DEF CountGames, At, ResolvedInv, Carries, InTx
    <3> QED BY <2>1, <3>8, BornStays
  <2> QED BY <2>2, <2>3
<1> QED BY <1>2, <1>3, <1>4 DEF BornInv

-----------------------------------------------------------------------------
(* What an upload carries stays what its request reports.                  *)

LEMMA CarriesKept ==
    ASSUME TypeOK, PhasesInv, NEW u \in Uploads, UploadStep(u),
           NEW v \in Uploads, Carries(v), up'[v].resolved = up[v].resolved
    PROVE  Carries(v)'
<1>1. Resolved(v)' = Resolved(v) /\ Resolved(v) \subseteq PlayerId /\ req' = req
  BY ResolvedType, OthersStay DEF Resolved
<1>2. ASSUME NEW p \in Resolved(v)
      PROVE  Born(p)' /\ (p \in players' => profile'[p] # NoProfile)
  <2>1. Born(p) /\ p \in PlayerId /\ (p \in players => profile[p] # NoProfile)
    BY <1>1 DEF Carries
  <2>2. Mild
    BY UploadMild
  <2> QED BY <2>1, <2>2, BornStays DEF Mild
<1> QED BY <1>1, <1>2 DEF Carries

LEMMA SameInterval ==
    ASSUME NEW a \in Nat, NEW b \in Nat, 1..a = 1..b
    PROVE  a = b
<1>1. ~(a < b)
  <2> SUFFICES ASSUME a < b PROVE FALSE
    OBVIOUS
  <2>1. b \in 1..b /\ b \notin 1..a
    OBVIOUS
  <2> QED BY <2>1
<1>2. ~(b < a)
  <2> SUFFICES ASSUME b < a PROVE FALSE
    OBVIOUS
  <2>1. a \in 1..a /\ a \notin 1..b
    OBVIOUS
  <2> QED BY <2>1
<1> QED BY <1>1, <1>2

\* The second upsert is left out: its players go to the background job.
LEMMA CreateProfilesCarries ==
    ASSUME TypeOK, PhasesInv, BornInv, NEW u \in Uploads, CreateProfiles(u),
           pc'[u] = "begin"
    PROVE  Carries(u)'
<1> DEFINE stats == req[u].stats
<1>1. /\ u \in Calls /\ DOMAIN pc = Calls /\ up \in [Uploads -> UploadLocals]
      /\ profile \in [PlayerId -> Class \cup {NoClass, NoProfile}]
      /\ players \subseteq PlayerId
  BY DEF TypeOK, Calls
<1>2. PICK res \in Resolutions(u) :
         /\ up' = [up EXCEPT ![u].resolved = res, ![u].fetched = {}]
         /\ up[u].fetched \subseteq players
         /\ profile' = [p \in PlayerId |->
                IF p \in up[u].fetched /\ profile[p] = NoProfile
                THEN NoClass ELSE profile[p]]
         /\ UNCHANGED <<players, req>>
  BY <1>1 DEF CreateProfiles, Goto, Fail
<1>3. up'[u].resolved = res
  BY <1>1, <1>2 DEF UploadLocals
<1>4. stats \in Seq(Entry)
  BY StatsType
<1>5. PICK match \in Matches(up[u].fetched, stats) :
         res = [n \in DOMAIN stats |-> [player |-> match[n], class |-> stats[n].class]]
  BY DEF Resolutions
<1>6. /\ match \in [DOMAIN stats -> up[u].fetched]
      /\ \A n \in DOMAIN stats : <<match[n].nick, stats[n].nick>> \in Alike
  BY <1>5 DEF Matches
<1>7. res \in Seq(PlayerClass) /\ DOMAIN res = DOMAIN stats /\ Len(res) = Len(stats)
  <2>1. res \in Seq(PlayerClass)
    BY ResolutionsType
  <2>2. DOMAIN res = DOMAIN stats
    BY <1>5
  <2>3. DOMAIN res = 1..Len(res) /\ DOMAIN stats = 1..Len(stats)
        /\ Len(res) \in Nat /\ Len(stats) \in Nat
    BY <1>4, <2>1
  <2> QED BY <2>1, <2>2, <2>3, SameInterval
<1>8. \A n \in DOMAIN res : res[n].player = match[n] /\ res[n].player \in up[u].fetched
  BY <1>5, <1>6, <1>7
<1>9. Resolved(u)' \subseteq up[u].fetched
  BY <1>3, <1>8 DEF Resolved, Range
<1>10. ASSUME NEW p \in Resolved(u)'
       PROVE  Born(p)' /\ profile'[p] # NoProfile
  <2>1. p \in players /\ p \in up[u].fetched
    BY <1>2, <1>9
  <2>2. Born(p) /\ p \in PlayerId
    BY <1>1, <2>1 DEF BornInv
  <2>3. UploadStep(u)
    BY DEF UploadStep
  <2>4. profile'[p] # NoProfile
    BY <1>2, <2>1, <2>2, FreshAssumption
  <2> QED BY <2>2, <2>3, <2>4, BornStays
<1> QED BY <1>2, <1>3, <1>6, <1>7, <1>8, <1>10 DEF Carries

LEMMA UploadResolved ==
    ASSUME TypeOK, PhasesInv, BornInv, ResolvedInv, PhasesInv',
           NEW u \in Uploads, UploadStep(u)
    PROVE  ResolvedInv'
<1>1. /\ u \in Calls /\ DOMAIN pc = Calls /\ DOMAIN open = Calls
      /\ players \subseteq players'
  BY UploadMild DEF TypeOK, Calls, Mild
<1>2. ASSUME NEW v \in Uploads \ {u}
      PROVE  /\ pc'[v] \in InTx \cup {"begin"} => Carries(v)'
             /\ open'[v] /\ pc'[v] \notin {"side", "rows"} =>
                   Resolved(v)' \subseteq players'
  <2>1. up'[v] = up[v] /\ pc'[v] = pc[v] /\ open'[v] = open[v]
    BY OthersStay DEF Calls
  <2> QED BY <1>1, <2>1, CarriesKept DEF ResolvedInv, Resolved
<1>3. CASE pc'[u] \notin InTx \cup {"begin"}
  BY <1>2, <1>3 DEF ResolvedInv, PhasesInv, Phase
<1>4. CASE CreateProfiles(u) /\ pc'[u] \in InTx \cup {"begin"}
  <2>1. pc'[u] = "begin"
    BY <1>1, <1>4 DEF CreateProfiles, Fail, Goto, InTx
  <2> QED BY <1>2, <1>4, <2>1, CreateProfilesCarries DEF ResolvedInv, PhasesInv, Phase, InTx
<1>5. CASE ~CreateProfiles(u) /\ pc'[u] \in InTx \cup {"begin"}
  <2>1. ~Fail(u) /\ ~Commit(u)
    BY <1>1, <1>5 DEF Fail, Commit, Goto, InTx
  <2>2. up'[u].resolved = up[u].resolved
    BY <1>5, <2>1, SameResolved
  <2>3. pc[u] \in InTx \cup {"begin"}
    BY <1>1, <1>5, <2>1 DEF UploadStep, FindWar, FindSides, ReadPlayers, CreatePlayers,
       FetchPlayers, BeginTx, InsertSide, InsertPerformances, AppendClasses,
       CountGames, ReadTop, SetMain, At, Goto, InTx
  <2>4. Carries(u)'
    BY <2>2, <2>3, CarriesKept DEF ResolvedInv
  <2>5. open'[u] /\ pc'[u] \notin {"side", "rows"} => Resolved(u)' \subseteq players'
    <3>1. Resolved(u)' = Resolved(u)
      BY <2>2 DEF Resolved
    <3>2. CASE InsertPerformances(u)
      BY <1>1, <2>1, <3>1, <3>2 DEF InsertPerformances
    <3>3. CASE pc[u] \notin {"side", "rows"}
      <4>1. open'[u] => open[u] \/ pc'[u] = "side"
        BY <1>1, <1>5, <2>1 DEF UploadStep, FindWar, FindSides, ReadPlayers,
           CreatePlayers, FetchPlayers, BeginTx, InsertSide, InsertPerformances,
           AppendClasses, CountGames, ReadTop, SetMain, Goto
      <4> QED BY <1>1, <3>1, <3>3, <4>1 DEF ResolvedInv
    <3>4. CASE InsertSide(u)
      BY <1>1, <2>1, <3>4 DEF InsertSide, Goto
    <3> QED BY <1>5, <2>1, <3>2, <3>3, <3>4 DEF UploadStep, FindWar, FindSides,
            ReadPlayers, CreatePlayers, FetchPlayers, BeginTx, AppendClasses,
            CountGames, ReadTop, SetMain, At
  <2> QED BY <1>2, <2>4, <2>5 DEF ResolvedInv
<1> QED BY <1>3, <1>4, <1>5

-----------------------------------------------------------------------------
(* The rows of the three tables come together.                             *)

LEMMA PassStays ==
    ASSUME TypeOK, PhasesInv, NEW u \in Uploads, UploadStep(u),
           NEW v \in Uploads, up[v].pass = 2
    PROVE  up'[v].pass = 2
<1>1. CASE v = u
  BY <1>1, Progress
<1>2. CASE v # u
  BY <1>2, OthersStay
<1> QED BY <1>1, <1>2

\* Only a commit changes what is stored of wars.
LEMMA StoredStay ==
    ASSUME NEW u \in Uploads, UploadStep(u), ~Commit(u) \/ Fail(u)
    PROVE  UNCHANGED <<wars, sides, perfs>>
  BY DEF UploadStep, tables, FindWar, FindSides, ReadPlayers, CreatePlayers,
     FetchPlayers, CreateProfiles, BeginTx, InsertSide, InsertPerformances,
     AppendClasses, CountGames, ReadTop, SetMain, Fail

\* What a commit stores
LEMMA Commits ==
    ASSUME TypeOK, PhasesInv, NEW u \in Uploads, Commit(u), ~Fail(u)
    PROVE  /\ open[u] /\ pc[u] = "commit" /\ up[u].pass = 1
           /\ wars' = wars \cup (IF up[u].war = NoWar THEN {NewWar(u)} ELSE {})
           /\ sides' = sides \cup {NewSide(u)}
           /\ NewSide(u).id = u /\ NewSide(u).war = WarOf(u)
           /\ up'[u].pass = 2
           /\ perfs'[u] = up[u].resolved
           /\ \A v \in Uploads \ {u} : perfs'[v] = perfs[v]
           /\ UNCHANGED <<players, classes, profile, games>>
<1>1. Phase(u) /\ up \in [Uploads -> UploadLocals] /\ DOMAIN perfs = Uploads
  BY DEF PhasesInv, TypeOK
<1>2. pc[u] = "commit" /\ open[u] /\ up[u].pass = 1
  BY <1>1 DEF Commit, At, Phase, InTx
<1>3. up'[u].pass = 2
  BY <1>1, <1>2 DEF Commit, NoLocals
<1>4. NewSide(u).id = u /\ NewSide(u).war = WarOf(u)
  BY DEF NewSide
<1> QED BY <1>1, <1>2, <1>3, <1>4 DEF Commit

LEMMA UploadSides ==
    ASSUME TypeOK, PhasesInv, SidesInv, NEW u \in Uploads, UploadStep(u)
    PROVE  SidesInv'
<1>1. \A s \in sides : s.id \in Uploads /\ up[s.id].pass = 2
  BY DEF TypeOK, SideRow, SidesInv
<1>2. CASE ~Commit(u) \/ Fail(u)
  BY <1>1, <1>2, PassStays, StoredStay DEF SidesInv
<1>3. CASE Commit(u) /\ ~Fail(u)
  <2>1. \A s \in sides : s.id # u /\ up'[s.id].pass = 2
    BY <1>1, <1>3, Commits, PassStays
  <2> QED BY <1>3, <2>1, Commits DEF SidesInv
<1> QED BY <1>2, <1>3

LEMMA UploadAllOrNothing ==
    ASSUME TypeOK, PhasesInv, SidesInv, ResolvedInv, AllOrNothing,
           NEW u \in Uploads, UploadStep(u)
    PROVE  AllOrNothing'
<1>1. req' = req /\ SidesInv'
  BY OthersStay, UploadSides
<1>2. \A v \in Uploads : pc'[v] = "failed" /\ up'[v].pass = 1 => ~Committed(v)'
  BY <1>1 DEF SidesInv, Committed
<1>3. CASE ~Commit(u) \/ Fail(u)
  BY <1>1, <1>2, <1>3, StoredStay DEF AllOrNothing, Committed
<1>4. CASE Commit(u) /\ ~Fail(u)
  <2>1. Len(perfs'[u]) = Len(req[u].stats) /\ Committed(u)'
    BY <1>4, Commits DEF ResolvedInv, Carries, InTx, Committed
  <2>2. ASSUME NEW v \in Uploads \ {u}
        PROVE  perfs'[v] = perfs[v] /\ (Committed(v)' <=> Committed(v))
    BY <1>4, Commits DEF Committed
  <2>3. ASSUME NEW w \in wars'
        PROVE  \E s \in sides' : s.war = w.id
    <3>1. CASE w \in wars
      BY <1>4, <3>1, Commits DEF AllOrNothing
    <3>2. CASE w \notin wars
      BY <1>4, <3>2, Commits DEF WarOf, NewWar
    <3> QED BY <3>1, <3>2
  <2> QED BY <1>1, <1>2, <2>1, <2>2, <2>3 DEF AllOrNothing
<1> QED BY <1>3, <1>4

-----------------------------------------------------------------------------
(* Performances name players that are there.                               *)

LEMMA UploadAttributed ==
    ASSUME TypeOK, PhasesInv, BornInv, ResolvedInv, PerformancesAttributed,
           NEW u \in Uploads, UploadStep(u)
    PROVE  PerformancesAttributed'
<1>1. /\ req' = req /\ players \subseteq players' /\ players \subseteq PlayerId
      /\ \A p \in PlayerId : profile[p] # NoProfile => profile'[p] # NoProfile
  BY OthersStay, UploadMild DEF Mild, TypeOK
<1>2. ASSUME NEW v \in Uploads, perfs'[v] = perfs[v], NEW n \in DOMAIN perfs'[v],
             perfs'[v][n].player # NoPlayer
      PROVE  LET p == perfs'[v][n].player
             IN  /\ p \in players' /\ profile'[p] # NoProfile
                 /\ <<p.nick, req'[v].stats[n].nick>> \in Alike
  BY <1>1, <1>2 DEF PerformancesAttributed
<1>3. CASE ~Commit(u) \/ Fail(u)
  BY <1>2, <1>3, StoredStay DEF PerformancesAttributed
<1>4. CASE Commit(u) /\ ~Fail(u)
  <2>1. ASSUME NEW n \in DOMAIN perfs'[u]
        PROVE  LET p == perfs'[u][n].player
               IN  /\ p \in players' /\ profile'[p] # NoProfile
                   /\ <<p.nick, req'[u].stats[n].nick>> \in Alike
    <3>1. /\ perfs'[u] = up[u].resolved /\ UNCHANGED <<players, profile>>
          /\ Carries(u) /\ Resolved(u) \subseteq players
      BY <1>4, Commits DEF ResolvedInv, InTx
    <3>2. perfs'[u][n].player \in Resolved(u)
      BY <3>1 DEF Resolved, Range
    <3> QED BY <1>1, <3>1, <3>2 DEF Carries
  <2> QED BY <1>2, <1>4, <2>1, Commits DEF PerformancesAttributed
<1> QED BY <1>3, <1>4

-----------------------------------------------------------------------------
(* Main classes are earned.                                                *)

LEMMA SameNextPlayer ==
    ASSUME NEW v \in Uploads, up'[v].todo = up[v].todo,
           up'[v].resolved = up[v].resolved
    PROVE  NextPlayer(v)' = NextPlayer(v)
  BY DEF NextPlayer

LEMMA UploadTop ==
    ASSUME TypeOK, PhasesInv, TopInv, NEW u \in Uploads, UploadStep(u)
    PROVE  TopInv'
<1>1. /\ u \in Calls /\ DOMAIN pc = Calls /\ up \in [Uploads -> UploadLocals]
  BY DEF TypeOK, Calls
<1>2. ASSUME NEW v \in Uploads, NEW p \in PlayerId, NEW c,
             pc[v] = "main", NextPlayer(v) = p, up[v].top = c
      PROVE  \/ c \in Class /\ games'[[player |-> p, class |-> c]] > 0
             \/ Born(p)' /\ p \notin players'
  <2>1. CASE c \in Class /\ Games(p, c) > 0
    <3>1. [player |-> p, class |-> c] \in PlayerClass
      BY <2>1 DEF PlayerClass
    <3>2. games'[[player |-> p, class |-> c]] >= games[[player |-> p, class |-> c]]
          /\ games[[player |-> p, class |-> c]] \in Nat
          /\ games'[[player |-> p, class |-> c]] \in Nat
      BY <3>1, UploadMild, UploadStepType DEF Mild, TypeOK
    <3> QED BY <2>1, <3>2 DEF Games
  <2>2. CASE Born(p) /\ p \notin players
    BY <2>2, UploadMild, BornStays DEF Mild
  <2> QED BY <1>2, <2>1, <2>2 DEF TopInv
<1> SUFFICES ASSUME NEW v \in Uploads, pc'[v] = "main", NEW p \in PlayerId,
                    p = NextPlayer(v)', NEW c, c = up'[v].top
             PROVE  \/ c \in Class /\ games'[[player |-> p, class |-> c]] > 0
                    \/ Born(p)' /\ p \notin players'
  BY DEF TopInv, Games
<1>3. CASE v # u
  <2>1. up'[v] = up[v] /\ pc'[v] = pc[v]
    BY <1>3, OthersStay DEF Calls
  <2>2. NextPlayer(v)' = NextPlayer(v)
    BY <2>1, SameNextPlayer
  <2> QED BY <1>2, <2>1, <2>2
<1>4. CASE v = u
  <2>1. ReadTop(u)
    BY <1>1, <1>4 DEF UploadStep, FindWar, FindSides, ReadPlayers, CreatePlayers,
       FetchPlayers, CreateProfiles, BeginTx, InsertSide, InsertPerformances,
       AppendClasses, CountGames, SetMain, Commit, Fail, At, Goto
  <2>2. PICK d \in Class : /\ IsTop(NextPlayer(u), d)
                           /\ up' = [up EXCEPT ![u].top = d]
                           /\ games' = games
    BY <1>1, <1>4, <2>1 DEF ReadTop, At, Goto, tables
  <2>3. /\ up'[u].top = d /\ up'[u].todo = up[u].todo
        /\ up'[u].resolved = up[u].resolved
    BY <1>1, <2>2 DEF UploadLocals
  <2>4. NextPlayer(u)' = NextPlayer(u)
    BY <2>3, SameNextPlayer
  <2>5. c = d /\ p = NextPlayer(u)
    BY <1>4, <2>3, <2>4
  <2>6. Games(p, c) > 0
    BY <2>2, <2>5 DEF IsTop
  <2> QED BY <2>2, <2>5, <2>6 DEF Games
<1> QED BY <1>3, <1>4

LEMMA UploadMain ==
    ASSUME TypeOK, PhasesInv, BornInv, TopInv, MainClassEarned,
           NEW u \in Uploads, UploadStep(u)
    PROVE  MainClassEarned'
<1> SUFFICES ASSUME NEW p \in PlayerId, NEW c \in Class, profile'[p] = c
             PROVE  games'[[player |-> p, class |-> c]] > 0
  BY DEF MainClassEarned, Games
<1> DEFINE k == [player |-> p, class |-> c]
<1>1. /\ k \in PlayerClass
      /\ profile \in [PlayerId -> Class \cup {NoClass, NoProfile}]
  BY DEF PlayerClass, TypeOK
<1>2. games'[k] >= games[k] /\ games[k] \in Nat /\ games'[k] \in Nat
  BY <1>1, UploadMild, UploadStepType DEF Mild, TypeOK
<1>3. games[k] > 0
  <2>1. CASE profile[p] = c
    BY <2>1 DEF MainClassEarned, Games
  <2>2. CASE profile[p] # c
    <3>1. CASE CreateProfiles(u) /\ ~Fail(u)
      BY <2>2, <3>1, FreshAssumption DEF CreateProfiles
    <3>2. CASE SetMain(u) /\ ~Fail(u)
      <4>1. p = NextPlayer(u) /\ c = up[u].top /\ profile[p] # NoProfile
            /\ pc[u] = "main"
        BY <1>1, <2>2, <3>2 DEF SetMain, At
      <4> QED BY <4>1 DEF TopInv, BornInv, Games
    <3> QED BY <2>2, <3>1, <3>2 DEF UploadStep, tables, FindWar, FindSides,
            ReadPlayers, CreatePlayers, FetchPlayers, BeginTx, InsertSide,
            InsertPerformances, AppendClasses, CountGames, ReadTop, Commit, Fail
  <2> QED BY <2>1, <2>2
<1> QED BY <1>2, <1>3

-----------------------------------------------------------------------------
(* The rows of a player and class, stored or about to be                   *)

LEMMA RowIn ==
    ASSUME NEW k, NEW us, NEW i
    PROVE  i \in RowsOf(k, us) <=>
              \/ i \in Played(k)
              \/ \E v \in us : \E n \in DOMAIN up[v].resolved :
                    i = <<v, n>> /\ up[v].resolved[n] = k
  BY DEF RowsOf

LEMMA StoredIn ==
    ASSUME NEW k, NEW i
    PROVE  i \in Played(k) <=>
              \E v \in Uploads : \E n \in DOMAIN perfs[v] :
                  i = <<v, n>> /\ perfs[v][n] = k
  BY DEF Played

LEMMA RowInNext ==
    ASSUME NEW k, NEW us, NEW i
    PROVE  i \in RowsOf(k, us)' <=>
              \/ i \in Played(k)'
              \/ \E v \in us : \E n \in DOMAIN up'[v].resolved :
                    i = <<v, n>> /\ up'[v].resolved[n] = k
  BY DEF RowsOf

LEMMA RowsShrink ==
    ASSUME NEW k, NEW us, NEW vs, vs \subseteq us, perfs' = perfs,
           \A v \in vs : up'[v].resolved = up[v].resolved
    PROVE  RowsOf(k, vs)' \subseteq RowsOf(k, us) /\ Played(k)' = Played(k)
<1>1. Played(k)' = Played(k)
  BY DEF Played
<1> QED BY <1>1, RowIn, RowInNext

LEMMA RowsSame ==
    ASSUME NEW k, NEW us, perfs' = perfs,
           \A v \in us : up'[v].resolved = up[v].resolved
    PROVE  RowsOf(k, us)' = RowsOf(k, us)
<1>1. Played(k)' = Played(k)
  BY DEF Played
<1>2. ASSUME NEW i
      PROVE  i \in RowsOf(k, us)' <=> i \in RowsOf(k, us)
  BY <1>1, RowIn, RowInNext
<1> QED BY <1>2 DEF RowsOf

\* An upload that has counted its rows adds as many as it has counted.
LEMMA RowsCounted ==
    ASSUME TypeOK, NEW u \in Uploads, CountGames(u), perfs[u] = <<>>,
           NEW us \in SUBSET Uploads, u \notin us, NEW k, IsFiniteSet(RowsOf(k, us))
    PROVE  /\ IsFiniteSet(RowsOf(k, us \cup {u})')
           /\ Cardinality(RowsOf(k, us \cup {u})')
                = Cardinality(RowsOf(k, us)) + Increment(u, k)
<1> DEFINE s == up[u].resolved
           hits == {n \in DOMAIN s : s[n] = k}
           new == {<<u, n>> : n \in hits}
           old == RowsOf(k, us)
<1>1. IsFiniteSet(hits) /\ Cardinality(hits) = Increment(u, k)
  BY IncrementType DEF Increment
<1>2. IsFiniteSet(new) /\ Cardinality(new) = Cardinality(hits)
  <2> DEFINE f == [n \in hits |-> <<u, n>>]
  <2>1. f \in Bijection(hits, new)
    BY DEF Bijection, Injection, Surjection, IsInjective
  <2> QED BY <1>1, <2>1, FS_Bijection DEF ExistsBijection
<1>3. (\A v \in Uploads : up'[v].resolved = up[v].resolved) /\ perfs' = perfs
  <2>1. up \in [Uploads -> UploadLocals]
    BY DEF TypeOK
  <2> QED BY <2>1 DEF CountGames, UploadLocals
<1>4. Played(k)' = Played(k)
  BY <1>3 DEF Played
<1>5. RowsOf(k, us \cup {u})' = old \cup new
  <2>1. ASSUME NEW i
        PROVE  i \in RowsOf(k, us \cup {u})' <=> i \in old \cup new
    BY <1>3, <1>4, RowIn, RowInNext
  <2> QED BY <2>1 DEF RowsOf
<1>6. old \cap new = {}
  <2>1. \A n : <<u, n>> \notin Played(k)
    BY StoredIn
  <2> QED BY <2>1, RowIn
<1>7. Cardinality(old) \in Nat /\ Cardinality(new) \in Nat /\ Cardinality({}) = 0
  BY <1>1, <1>2, FS_CardinalityType, FS_EmptySet
<1>8. /\ IsFiniteSet(old \cup new)
      /\ Cardinality(old \cup new) = Cardinality(old) + Cardinality(new)
  <2>1. Cardinality(old \cup new) = Cardinality(old) + Cardinality(new)
                                     - Cardinality(old \cap new)
        /\ IsFiniteSet(old \cup new)
    BY <1>1, <1>2, FS_Union
  <2>2. Cardinality(old \cap new) = 0
    <3> HIDE DEF old, new
    <3> QED BY <1>6, <1>7, Zenon
  <2> HIDE DEF old, new
  <2> QED BY <1>7, <2>1, <2>2
<1> QED BY <1>1, <1>2, <1>5, <1>8

\* A commit turns what an upload carries into what is stored.
LEMMA RowsCommitted ==
    ASSUME TypeOK, PhasesInv, NEW u \in Uploads, Commit(u), ~Fail(u), perfs[u] = <<>>,
           NEW us \in SUBSET Uploads, u \in us, NEW k
    PROVE  RowsOf(k, us \ {u})' = RowsOf(k, us)
<1>1. /\ perfs'[u] = up[u].resolved
      /\ \A v \in Uploads \ {u} : perfs'[v] = perfs[v]
      /\ \A v \in us \ {u} : up'[v] = up[v]
  <2>1. \A v \in Uploads \ {u} : up'[v] = up[v]
    BY DEF Commit, Fail, TypeOK
  <2> QED BY <2>1, Commits
<1>2. ASSUME NEW i
      PROVE  i \in Played(k)' <=>
                \/ i \in Played(k)
                \/ \E n \in DOMAIN up[u].resolved :
                      i = <<u, n>> /\ up[u].resolved[n] = k
  BY <1>1, StoredIn DEF Played
<1>3. ASSUME NEW i
      PROVE  i \in RowsOf(k, us \ {u})' <=> i \in RowsOf(k, us)
  BY <1>1, <1>2, RowIn, RowInNext
<1> QED BY <1>3 DEF RowsOf

-----------------------------------------------------------------------------
(* Counts cover the rows of players, and are exact while nothing fails.    *)

\* Other steps than these two start or end no counting upload unless they fail it.
LEMMA SameCounting ==
    ASSUME TypeOK, PhasesInv, NEW u \in Uploads, UploadStep(u),
           ~CountGames(u) \/ Fail(u), ~Commit(u) \/ Fail(u)
    PROVE  /\ Committing' \subseteq Committing /\ Counting' \subseteq Counting
           /\ \A v \in Counting' : up'[v].resolved = up[v].resolved
           /\ pc'[u] # "failed" => Counting' = Counting
           /\ perfs' = perfs /\ games' = games
<1>1. u \in Calls /\ DOMAIN pc = Calls /\ DOMAIN open = Calls
  BY DEF Calls, TypeOK
<1>2. \A v \in Uploads \ {u} :
         up'[v] = up[v] /\ pc'[v] = pc[v] /\ open'[v] = open[v]
  BY OthersStay DEF Calls
<1>3. CASE Fail(u)
  BY <1>1, <1>2, <1>3, FreshAssumption DEF Fail, Counting, Committing, tables
<1>4. CASE ~Fail(u)
  <2>1. games' = games /\ perfs' = perfs
    BY <1>4 DEF UploadStep, tables, FindWar, FindSides, ReadPlayers, CreatePlayers,
       FetchPlayers, CreateProfiles, BeginTx, InsertSide, InsertPerformances,
       AppendClasses, ReadTop, SetMain
  <2>2. pc'[u] # "failed" => (u \in Counting' <=> u \in Counting)
    BY <1>1, <1>4 DEF UploadStep, FindWar, FindSides, ReadPlayers, CreatePlayers,
       FetchPlayers, CreateProfiles, BeginTx, InsertSide, InsertPerformances,
       AppendClasses, ReadTop, SetMain, At, Goto, Counting
  <2>3. u \in Counting' => /\ pc'[u] # "failed"
                           /\ open'[u] = open[u]
                           /\ up'[u].resolved = up[u].resolved
    <3> SUFFICES ASSUME u \in Counting'
                 PROVE  /\ pc'[u] # "failed"
                        /\ open'[u] = open[u] /\ up'[u].resolved = up[u].resolved
      OBVIOUS
    <3>1. pc'[u] # "failed" /\ ~CreateProfiles(u) /\ ~BeginTx(u)
      BY <1>1 DEF Counting, CreateProfiles, BeginTx, Goto, Fail
    <3>2. open'[u] = open[u]
      BY <1>1, <1>4, <3>1 DEF UploadStep, FindWar, FindSides, ReadPlayers,
         CreatePlayers, FetchPlayers, InsertSide, InsertPerformances, AppendClasses,
         ReadTop, SetMain
    <3> QED BY <1>4, <3>1, <3>2, SameResolved
  <2>4. \A v \in Counting' : v # u => v \in Counting
    BY <1>2 DEF Counting
  <2>5. Counting' \subseteq Counting /\ Committing' \subseteq Committing
    BY <1>2, <2>2, <2>3, <2>4 DEF Committing, Counting
  <2>6. pc'[u] # "failed" => Counting \subseteq Counting'
    BY <1>2, <2>2 DEF Counting
  <2> QED BY <1>2, <2>1, <2>3, <2>5, <2>6 DEF Counting
<1> QED BY <1>3, <1>4

\* An upload that is counting has nothing stored.
LEMMA NothingStored ==
    ASSUME TypeOK, PhasesInv, SidesInv, AllOrNothing,
           NEW u \in Uploads, pc[u] \in InTx
    PROVE  perfs[u] = <<>>
<1>1. up[u].pass = 1
  BY DEF PhasesInv, Phase
<1>2. ~Committed(u)
  BY <1>1 DEF SidesInv, Committed
<1>3. perfs[u] \in Seq(PerformanceRow) /\ Len(perfs[u]) = 0
  BY <1>2 DEF AllOrNothing, TypeOK
<1> QED BY <1>3

LEMMA UploadClasses ==
    ASSUME TypeOK, PhasesInv, ResolvedInv, CoverInv, NEW u \in Uploads, UploadStep(u),
           PhasesInv'
    PROVE  \A v \in Uploads : Appended(v)'
<1>1. /\ u \in Calls /\ DOMAIN pc = Calls /\ DOMAIN open = Calls
      /\ up \in [Uploads -> UploadLocals] /\ classes \subseteq classes'
  BY UploadMild DEF TypeOK, Calls, Mild
<1> SUFFICES ASSUME NEW v \in Uploads, open'[v], pc'[v] \notin {"side", "rows"},
                    NEW k \in Range(up'[v].resolved)
             PROVE  k \in classes' \/ (pc'[v] = "classes" /\ k.player \in up'[v].todo)
  BY DEF Appended
<1>2. CASE v # u
  BY <1>1, <1>2, OthersStay DEF CoverInv, Appended, Calls
<1>3. CASE v = u
  <2>1. pc'[u] \in InTx \ {"side", "rows"}
    BY <1>3 DEF PhasesInv, Phase
  <2>2. ~Fail(u) /\ ~Commit(u) /\ ~CreateProfiles(u)
    BY <1>1, <2>1 DEF Fail, Commit, CreateProfiles, Goto, InTx
  <2>3. up'[u].resolved = up[u].resolved /\ k \in Range(up[u].resolved)
    BY <1>3, <2>2, SameResolved
  <2>4. k.player \in Resolved(u)
    BY <2>3 DEF Resolved
  <2>5. CASE InsertPerformances(u)
    <3>1. pc'[u] = "classes" /\ up'[u].todo = Resolved(u)
      BY <1>1, <2>2, <2>5 DEF InsertPerformances, Goto, UploadLocals
    <3> QED BY <1>3, <2>4, <3>1
  <2>6. CASE ~InsertPerformances(u)
    <3>1. open[u] /\ pc[u] \in InTx \ {"side", "rows"}
      BY <1>1, <1>3, <2>1, <2>2, <2>6 DEF UploadStep, FindWar, FindSides, ReadPlayers,
         CreatePlayers, FetchPlayers, BeginTx, InsertSide, AppendClasses, CountGames,
         ReadTop, SetMain, At, Goto, InTx
    <3>2. /\ k.player \in players
          /\ k \in classes \/ (pc[u] = "classes" /\ k.player \in up[u].todo)
      BY <2>3, <2>4, <3>1 DEF ResolvedInv, CoverInv, Appended
    <3>3. CASE AppendClasses(u) /\ up[u].todo # {}
      <4> DEFINE p == NextPlayer(u)
      <4>1. /\ classes' = classes \cup {c \in Range(up[u].resolved) :
                                            c.player = p /\ p \in players}
            /\ up' = [up EXCEPT ![u].todo = @ \ {p}] /\ pc' = pc
        BY <3>3 DEF AppendClasses
      <4>2. up'[u].todo = up[u].todo \ {p}
        BY <1>1, <4>1 DEF UploadLocals
      <4> HIDE DEF p
      <4> QED BY <1>3, <2>3, <3>2, <4>1, <4>2
    <3>4. CASE ~(AppendClasses(u) /\ up[u].todo # {})
      <4>1. pc[u] # "classes" \/ up[u].todo = {}
        BY <2>2, <3>4 DEF UploadStep, FindWar, FindSides, ReadPlayers, CreatePlayers,
           FetchPlayers, BeginTx, InsertSide, InsertPerformances, CountGames, ReadTop,
           SetMain, At
      <4> QED BY <1>1, <1>3, <3>2, <4>1
    <3> QED BY <3>3, <3>4
  <2> QED BY <2>5, <2>6
<1> QED BY <1>2, <1>3

LEMMA UploadCover ==
    ASSUME TypeOK, PhasesInv, SidesInv, ResolvedInv, AllOrNothing, CoverInv,
           NEW u \in Uploads, UploadStep(u), TypeOK', PhasesInv'
    PROVE  CoverInv'
<1>1. /\ classes \subseteq classes' /\ u \in Calls
      /\ DOMAIN pc = Calls /\ DOMAIN open = Calls
  BY UploadMild DEF Mild, TypeOK, Calls
<1> SUFFICES ASSUME NEW k \in PlayerClass, NEW us, us = Committing,
                    NEW vs, vs = Committing'
             PROVE  /\ IsFiniteSet(RowsOf(k, vs)')
                    /\ Cardinality(RowsOf(k, vs)') =< games'[k]
                    /\ Played(k)' # {} => k \in classes'
  BY UploadClasses DEF CoverInv, RowsOf
<1>2. /\ IsFiniteSet(RowsOf(k, us)) /\ Cardinality(RowsOf(k, us)) =< games[k]
      /\ Played(k) # {} => k \in classes
  BY DEF CoverInv
<1>3. /\ games[k] \in Nat /\ games'[k] \in Nat /\ Cardinality(RowsOf(k, us)) \in Nat
      /\ us \in SUBSET Uploads
  BY <1>2, FS_CardinalityType DEF TypeOK, Committing, Counting
<1>4. CASE (~CountGames(u) \/ Fail(u)) /\ (~Commit(u) \/ Fail(u))
  <2>1. vs \subseteq us /\ perfs' = perfs /\ games' = games
        /\ \A v \in vs : up'[v].resolved = up[v].resolved
    BY <1>4, SameCounting DEF Committing
  <2>2. RowsOf(k, vs)' \subseteq RowsOf(k, us) /\ Played(k)' = Played(k)
    BY <2>1, RowsShrink
  <2>3. IsFiniteSet(RowsOf(k, vs)')
        /\ Cardinality(RowsOf(k, vs)') =< Cardinality(RowsOf(k, us))
        /\ Cardinality(RowsOf(k, vs)') \in Nat
    BY <1>2, <2>2, FS_Subset, FS_CardinalityType
  <2> QED BY <1>1, <1>2, <1>3, <2>1, <2>2, <2>3
<1>5. CASE CountGames(u) /\ ~Fail(u)
  <2>1. /\ u \notin us /\ perfs[u] = <<>> /\ perfs' = perfs
        /\ pc[u] = "counts" /\ pc'[u] = "top" /\ open' = open
        /\ \A v \in Uploads \ {u} : pc'[v] = pc[v]
        /\ \A v \in Uploads : up'[v].resolved = up[v].resolved
        /\ games'[k] = games[k] + Increment(u, k)
    BY <1>1, <1>5, NothingStored DEF CountGames, At, Goto, Committing, Counting, InTx,
       TypeOK, UploadLocals
  <2>2. vs = IF open[u] THEN us \cup {u} ELSE us
    BY <2>1 DEF Committing, Counting
  <2>3. Played(k)' = Played(k)
    BY <2>1 DEF Played
  <2>4. CASE open[u]
    <3>1. /\ IsFiniteSet(RowsOf(k, vs)')
          /\ Cardinality(RowsOf(k, vs)') = Cardinality(RowsOf(k, us)) + Increment(u, k)
      BY <1>2, <1>3, <1>5, <2>1, <2>2, <2>4, RowsCounted
    <3>2. Increment(u, k) \in Nat
      BY IncrementType
    <3> QED BY <1>1, <1>2, <1>3, <2>1, <2>3, <3>1, <3>2
  <2>5. CASE ~open[u]
    <3>1. RowsOf(k, vs)' = RowsOf(k, us)
      BY <1>3, <2>1, <2>2, <2>5, RowsSame
    <3>2. Increment(u, k) \in Nat
      BY IncrementType
    <3> QED BY <1>1, <1>2, <1>3, <2>1, <2>3, <3>1, <3>2
  <2> QED BY <2>4, <2>5
<1>6. CASE Commit(u) /\ ~Fail(u)
  <2>1. /\ open[u] /\ pc[u] = "commit" /\ pc'[u] = "players" /\ ~open'[u]
        /\ \A v \in Uploads \ {u} : pc'[v] = pc[v] /\ open'[v] = open[v]
        /\ perfs[u] = <<>> /\ games' = games
    BY <1>1, <1>6, OthersStay, NothingStored DEF Commit, At, Goto, Fail, InTx, Calls
  <2>2. vs = us \ {u} /\ u \in us
    BY <2>1 DEF Committing, Counting
  <2>3. RowsOf(k, vs)' = RowsOf(k, us)
    BY <1>3, <1>6, <2>1, <2>2, RowsCommitted
  <2>4. Played(k)' # {} => k \in classes'
    <3> SUFFICES ASSUME NEW i, i \in Played(k)'
                 PROVE  k \in classes'
      OBVIOUS
    <3>1. i \in RowsOf(k, us)
      BY <2>3, RowInNext
    <3>2. CASE i \in Played(k)
      BY <1>1, <1>2, <3>2
    <3>3. CASE i \notin Played(k)
      <4>1. PICK v \in us : \E n \in DOMAIN up[v].resolved : up[v].resolved[n] = k
        BY <3>1, <3>3, RowIn
      <4>2. k \in Range(up[v].resolved)
        BY <4>1 DEF Range
      <4> QED BY <1>1, <4>1, <4>2 DEF CoverInv, Appended, Committing, Counting
    <3> QED BY <3>2, <3>3
  <2> QED BY <1>2, <2>1, <2>3, <2>4
<1> QED BY <1>4, <1>5, <1>6

LEMMA UploadExact ==
    ASSUME TypeOK, PhasesInv, SidesInv, AllOrNothing, ExactInv,
           NEW u \in Uploads, UploadStep(u), TypeOK'
    PROVE  ExactInv'
<1>1. u \in Calls /\ DOMAIN pc = Calls /\ DOMAIN open = Calls /\ u \notin Rollbacks
  BY CallsAssumption DEF TypeOK, Calls
<1> SUFFICES ASSUME Undisturbed', NEW k \in PlayerClass, NEW us, us = Counting,
                    NEW vs, vs = Counting'
             PROVE  /\ IsFiniteSet(RowsOf(k, vs)')
                    /\ games'[k] = Cardinality(RowsOf(k, vs)')
  BY DEF ExactInv, RowsOf
<1>2. pc'[u] # "failed" /\ Undisturbed
  <2>1. \A x \in Calls \ {u} : pc'[x] = pc[x]
    BY OthersStay
  <2>2. pc'[u] # "failed"
    BY DEF Undisturbed
  <2>3. pc[u] # "failed"
    BY <1>1 DEF UploadStep, FindWar, FindSides, ReadPlayers, CreatePlayers,
       FetchPlayers, CreateProfiles, BeginTx, InsertSide, InsertPerformances,
       AppendClasses, CountGames, ReadTop, SetMain, Commit, At
  <2> QED BY <1>1, <2>1, <2>2, <2>3 DEF Undisturbed, Calls
<1>3. /\ IsFiniteSet(RowsOf(k, us)) /\ games[k] = Cardinality(RowsOf(k, us))
      /\ us \in SUBSET Uploads /\ ~Fail(u)
  BY <1>1, <1>2 DEF ExactInv, Counting, Fail
<1>4. CASE ~CountGames(u) /\ ~Commit(u)
  <2>1. vs = us /\ perfs' = perfs /\ games' = games
        /\ \A v \in us : up'[v].resolved = up[v].resolved
    BY <1>2, <1>4, SameCounting
  <2> QED BY <1>3, <2>1, RowsSame
<1>5. CASE CountGames(u)
  <2>1. /\ u \notin us /\ perfs[u] = <<>>
        /\ pc[u] = "counts" /\ pc'[u] = "top"
        /\ \A v \in Uploads \ {u} : pc'[v] = pc[v]
        /\ games'[k] = games[k] + Increment(u, k)
    BY <1>1, <1>5, NothingStored DEF CountGames, At, Goto, Counting, InTx
  <2>2. vs = us \cup {u}
    BY <2>1 DEF Counting
  <2> QED BY <1>3, <1>5, <2>1, <2>2, RowsCounted
<1>6. CASE Commit(u)
  <2>1. /\ pc[u] = "commit" /\ pc'[u] = "players"
        /\ \A v \in Uploads \ {u} : pc'[v] = pc[v]
        /\ perfs[u] = <<>> /\ games' = games
    BY <1>1, <1>3, <1>6, OthersStay, NothingStored DEF Commit, At, Goto, Fail, InTx, Calls
  <2>2. vs = us \ {u} /\ u \in us
    BY <2>1 DEF Counting
  <2> QED BY <1>3, <1>6, <2>1, <2>2, RowsCommitted
<1> QED BY <1>4, <1>5, <1>6

-----------------------------------------------------------------------------
(* Steps that write no table and at most end a transaction or a call.      *)

Ending ==
    /\ UNCHANGED <<tables, req, up>>
    /\ \A v \in Uploads : /\ open'[v] => open[v]
                          /\ pc'[v] # pc[v] => pc'[v] = "failed" /\ ~open'[v]
    /\ Undisturbed' => Undisturbed

LEMMA FailEnding ==
    ASSUME TypeOK, NEW x \in Calls, Fail(x)
    PROVE  Ending
<1>1. DOMAIN pc = Calls /\ DOMAIN open = Calls
  BY DEF TypeOK
<1>2. /\ UNCHANGED <<tables, req, up>> /\ pc'[x] = "failed"
      /\ \A v \in Uploads : /\ open'[v] => open[v]
                            /\ pc'[v] # pc[v] => pc'[v] = "failed" /\ ~open'[v]
  BY <1>1 DEF Fail, Calls
<1>3. ~Undisturbed'
  BY <1>2 DEF Undisturbed, Calls, Ended
<1> QED BY <1>2, <1>3 DEF Ending

LEMMA RollbackEnding ==
    ASSUME TypeOK, NEW r \in Rollbacks,
           FindTarget(r) \/ ReadAffected(r) \/ GatherPlayers(r) \/ DeleteProfiles(r)
           \/ QueueReset(r)
    PROVE  Ending
<1>1. /\ r \in Calls /\ r \notin Uploads /\ DOMAIN pc = Calls /\ DOMAIN open = Calls
  BY CallsAssumption DEF TypeOK, Calls
<1>2. CASE Fail(r)
  BY <1>1, <1>2, FailEnding
<1>3. CASE ~Fail(r)
  <2>1. UNCHANGED <<tables, req, up>>
    BY <1>3 DEF FindTarget, ReadAffected, GatherPlayers, DeleteProfiles, QueueReset
  <2>2. \A v \in Uploads : pc'[v] = pc[v] /\ open'[v] = open[v]
    BY <1>1, <1>3 DEF FindTarget, ReadAffected, GatherPlayers, DeleteProfiles,
       QueueReset, Goto, Calls
  <2>3. \A q \in Rollbacks \ {r} : pc'[q] = pc[q]
    BY <1>1, <1>3 DEF FindTarget, ReadAffected, GatherPlayers, DeleteProfiles,
       QueueReset, Goto, Calls
  <2>4. pc[r] \in {"queue"} \cup Ended => pc'[r] \in {"queue"} \cup Ended
    BY <1>1, <1>3 DEF FindTarget, ReadAffected, GatherPlayers, DeleteProfiles,
       QueueReset, Goto, Ended
  <2>5. Undisturbed' => Undisturbed
    BY <2>2, <2>3, <2>4 DEF Undisturbed
  <2> QED BY <2>1, <2>2, <2>5 DEF Ending
<1> QED BY <1>2, <1>3

LEMMA TimeoutEnding ==
    ASSUME TypeOK, NEW x \in Calls, TxTimeout(x)
    PROVE  Ending
<1>1. UNCHANGED <<tables, req, up, pc>> /\ \A v \in Calls : open'[v] => open[v]
  BY DEF TxTimeout, TypeOK
<1> QED BY <1>1 DEF Ending, Undisturbed, Calls

LEMMA EndingTables ==
    ASSUME TablesInv, LedgerInv', Ending
    PROVE  TablesInv'
<1>1. /\ UNCHANGED <<tables, req, up>>
      /\ TypeOK /\ PhasesInv /\ TypeOK' /\ PhasesInv'
  BY DEF Ending, TablesInv, LedgerInv
<1>2. UNCHANGED <<wars, sides, perfs, players, classes, profile, games>>
  BY <1>1 DEF tables
<1>3. /\ \A v \in Uploads : /\ open'[v] => open[v] /\ pc'[v] = pc[v]
                            /\ pc'[v] # pc[v] => pc'[v] = "failed"
      /\ \A v : NextPlayer(v)' = NextPlayer(v) /\ Resolved(v)' = Resolved(v)
      /\ \A p : Born(p) /\ p.by \in Uploads => Born(p)'
  <2>1. \A v \in Uploads : /\ open'[v] => open[v] /\ pc'[v] = pc[v]
                           /\ pc'[v] # pc[v] => pc'[v] = "failed"
    BY DEF Ending
  <2>2. \A v : NextPlayer(v)' = NextPlayer(v) /\ Resolved(v)' = Resolved(v)
    BY <1>1 DEF NextPlayer, Resolved
  <2>3. \A p : Born(p) /\ p.by \in Uploads => Born(p)'
    BY <1>1, <2>1 DEF Born, Early
  <2> QED BY <2>1, <2>2, <2>3
<1>4. BornInv'
  <2>1. \A p \in players : p.by \in Uploads
    BY <1>1 DEF TypeOK, PlayerId
  <2>2. \A k \in PlayerClass : k.player.by \in Uploads
    BY DEF PlayerClass, PlayerId
  <2> QED BY <1>2, <1>3, <2>1, <2>2 DEF TablesInv, BornInv
<1>5. ResolvedInv'
  <2>1. ASSUME NEW v \in Uploads, Carries(v)
        PROVE  Carries(v)'
    <3>1. \A p \in Resolved(v) : p.by \in Uploads
      BY <1>1, ResolvedType DEF PlayerId
    <3> QED BY <1>1, <1>2, <1>3, <2>1, <3>1 DEF Carries
  <2> QED BY <1>2, <1>3, <2>1 DEF TablesInv, ResolvedInv, InTx
<1>6. SidesInv'
  BY <1>1, <1>2 DEF TablesInv, SidesInv
<1>7. TopInv'
  <2> SUFFICES ASSUME NEW v \in Uploads, pc'[v] = "main", NEW p \in PlayerId,
                      p = NextPlayer(v)', NEW c, c = up'[v].top
               PROVE  \/ c \in Class /\ games'[[player |-> p, class |-> c]] > 0
                      \/ Born(p)' /\ p \notin players'
    BY DEF TopInv, Games
  <2>1. pc[v] = "main" /\ p = NextPlayer(v) /\ c = up[v].top /\ p.by \in Uploads
    BY <1>1, <1>3 DEF PlayerId
  <2>2. \/ c \in Class /\ games[[player |-> p, class |-> c]] > 0
        \/ Born(p) /\ p \notin players
    BY <2>1 DEF TablesInv, TopInv, Games
  <2> QED BY <1>2, <1>3, <2>1, <2>2
<1>8. AllOrNothing'
  BY <1>1, <1>2, <1>6 DEF TablesInv, AllOrNothing, SidesInv, Committed
<1>9. PerformancesAttributed'
  BY <1>1, <1>2 DEF TablesInv, PerformancesAttributed
<1>10. CoverInv'
  <2>1. \A v \in Uploads : Appended(v)'
    BY <1>1, <1>2, <1>3 DEF TablesInv, CoverInv, Appended
  <2> SUFFICES ASSUME NEW k \in PlayerClass, NEW us, us = Committing,
                      NEW vs, vs = Committing'
               PROVE  /\ IsFiniteSet(RowsOf(k, vs)')
                      /\ Cardinality(RowsOf(k, vs)') =< games'[k]
                      /\ Played(k)' # {} => k \in classes'
    BY <2>1 DEF CoverInv, RowsOf
  <2>2. /\ IsFiniteSet(RowsOf(k, us)) /\ Cardinality(RowsOf(k, us)) =< games[k]
        /\ Played(k) # {} => k \in classes
    BY DEF TablesInv, CoverInv
  <2>3. games[k] \in Nat /\ vs \subseteq us
    BY <1>1, <1>3 DEF TypeOK, Committing, Counting
  <2>4. RowsOf(k, vs)' \subseteq RowsOf(k, us) /\ Played(k)' = Played(k)
    BY <1>1, <1>2, <2>3, RowsShrink
  <2>5. IsFiniteSet(RowsOf(k, vs)')
        /\ Cardinality(RowsOf(k, vs)') =< Cardinality(RowsOf(k, us))
        /\ Cardinality(RowsOf(k, vs)') \in Nat /\ Cardinality(RowsOf(k, us)) \in Nat
    BY <2>2, <2>4, FS_Subset, FS_CardinalityType
  <2> QED BY <1>2, <2>2, <2>3, <2>4, <2>5
<1>11. ExactInv'
  <2> SUFFICES ASSUME Undisturbed', NEW k \in PlayerClass, NEW us, us = Counting,
                      NEW vs, vs = Counting'
               PROVE  /\ IsFiniteSet(RowsOf(k, vs)')
                      /\ games'[k] = Cardinality(RowsOf(k, vs)')
    BY DEF ExactInv, RowsOf
  <2>1. Undisturbed /\ \A v \in Uploads : pc'[v] = pc[v]
    BY <1>3 DEF Ending, Undisturbed
  <2>2. vs = us
    BY <2>1 DEF Counting
  <2>3. RowsOf(k, vs)' = RowsOf(k, us)
    BY <1>1, <1>2, <2>2, RowsSame
  <2> QED BY <1>2, <2>1, <2>3 DEF TablesInv, ExactInv
<1>12. MainClassEarned'
  BY <1>2 DEF TablesInv, MainClassEarned, Games
<1> QED BY <1>4, <1>5, <1>6, <1>7, <1>8, <1>9, <1>10, <1>11, <1>12 DEF TablesInv

LEMMA UploadTables ==
    ASSUME TablesInv, LedgerInv', NEW u \in Uploads, UploadStep(u)
    PROVE  TablesInv'
  BY UploadBorn, UploadResolved, UploadSides, UploadTop, UploadAllOrNothing,
     UploadAttributed, UploadCover, UploadExact, UploadMain DEF TablesInv, LedgerInv

-----------------------------------------------------------------------------
(* The commit of a rollback. Open uploads past their first rows hold none  *)
(* of the players it deletes.                                              *)

\* What a rollback that commits leaves
LEMMA Deletes ==
    ASSUME TypeOK, NEW r \in Rollbacks, CommitRollback(r), ~Fail(r)
    PROVE  /\ DeleteWar(r) /\ UNCHANGED <<req, up>> /\ pc'[r] = "queue"
           /\ \A v \in Uploads : pc'[v] = pc[v] /\ open'[v] = open[v]
           /\ \A v \in Uploads : open[v] /\ pc[v] \notin {"side", "rows"} =>
                 Resolved(v) \cap rb[r].victims = {}
           /\ \A p : Born(p) /\ p.by \in Uploads => Born(p)'
<1>1. /\ r \in Calls /\ r \notin Uploads /\ DOMAIN pc = Calls /\ DOMAIN open = Calls
  BY CallsAssumption DEF TypeOK, Calls
<1>2. /\ DeleteWar(r) /\ UNCHANGED <<req, up>> /\ ~HeldByUpload(r)
      /\ Goto(r, "queue") /\ open' = [open EXCEPT ![r] = FALSE]
  BY DEF CommitRollback
<1>3. \A v \in Uploads : pc'[v] = pc[v] /\ open'[v] = open[v]
  BY <1>1, <1>2 DEF Goto, Calls
<1>4. \A p : Born(p) /\ p.by \in Uploads => Born(p)'
  BY <1>2, <1>3 DEF Born
<1> QED BY <1>1, <1>2, <1>3, <1>4 DEF HeldByUpload, Goto

LEMMA DeletesBorn ==
    ASSUME TablesInv, NEW r \in Rollbacks, CommitRollback(r), ~Fail(r)
    PROVE  BornInv' /\ ResolvedInv' /\ SidesInv' /\ MainClassEarned'
<1>1. TypeOK /\ TypeOK' /\ BornInv /\ ResolvedInv /\ SidesInv /\ MainClassEarned
  BY CommitRollbackType DEF TablesInv, LedgerInv
<1> DEFINE gone == rb[r].victims
<1>2. /\ players' = players \ gone
      /\ profile' = [p \in PlayerId |-> IF p \in gone THEN NoProfile ELSE profile[p]]
      /\ games' = [k \in PlayerClass |-> IF k.player \in gone THEN 0 ELSE games[k]]
      /\ sides' \subseteq sides /\ UNCHANGED <<req, up>>
  BY <1>1, Deletes DEF DeleteWar
<1>3. BornInv'
  <2>1. \A p \in players' : Born(p)'
    <3>1. \A p \in players : p.by \in Uploads
      BY <1>1 DEF TypeOK, PlayerId
    <3> QED BY <1>1, <1>2, <3>1, Deletes DEF BornInv
  <2>2. \A p \in PlayerId : profile'[p] # NoProfile => p \in players'
    BY <1>1, <1>2 DEF BornInv
  <2>3. \A k \in PlayerClass : games'[k] > 0 => Born(k.player)'
    <3>1. \A k \in PlayerClass : k.player.by \in Uploads
      BY DEF PlayerClass, PlayerId
    <3> QED BY <1>1, <1>2, <3>1, Deletes DEF BornInv
  <2> QED BY <2>1, <2>2, <2>3 DEF BornInv
<1>4. ResolvedInv'
  <2>1. ASSUME NEW v \in Uploads, Carries(v)
        PROVE  Carries(v)'
    <3>1. \A p \in Resolved(v) : p \in PlayerId /\ p.by \in Uploads
      BY <1>1, ResolvedType DEF PlayerId
    <3>2. Resolved(v)' = Resolved(v)
      BY <1>2 DEF Resolved
    <3>3. \A p \in Resolved(v) : Born(p)' /\ (p \in players' => profile'[p] # NoProfile)
      BY <1>1, <1>2, <2>1, <3>1, Deletes DEF Carries
    <3> QED BY <1>2, <2>1, <3>2, <3>3 DEF Carries
  <2>2. ASSUME NEW v \in Uploads, open'[v], pc'[v] \notin {"side", "rows"}
        PROVE  Resolved(v)' \subseteq players'
    BY <1>1, <1>2, <2>2, Deletes DEF ResolvedInv, Resolved
  <2> QED BY <1>1, <2>1, <2>2, Deletes DEF ResolvedInv
<1>5. SidesInv'
  BY <1>1, <1>2 DEF SidesInv
<1>6. MainClassEarned'
  <2> SUFFICES ASSUME NEW p \in PlayerId, NEW c \in Class, profile'[p] = c
               PROVE  games'[[player |-> p, class |-> c]] > 0
    BY DEF MainClassEarned, Games
  <2>1. p \notin gone /\ profile[p] = c /\ [player |-> p, class |-> c] \in PlayerClass
    BY <1>2, FreshAssumption DEF PlayerClass
  <2> QED BY <1>1, <1>2, <2>1 DEF MainClassEarned, Games
<1> QED BY <1>3, <1>4, <1>5, <1>6

LEMMA DeletesTop ==
    ASSUME TablesInv, NEW r \in Rollbacks, CommitRollback(r), ~Fail(r)
    PROVE  TopInv'
<1>1. TypeOK /\ BornInv /\ TopInv
  BY DEF TablesInv, LedgerInv
<1> DEFINE gone == rb[r].victims
<1>2. /\ players' = players \ gone
      /\ games' = [k \in PlayerClass |-> IF k.player \in gone THEN 0 ELSE games[k]]
      /\ UNCHANGED up
  BY <1>1, Deletes DEF DeleteWar
<1> SUFFICES ASSUME NEW v \in Uploads, pc'[v] = "main", NEW p \in PlayerId,
                    p = NextPlayer(v)', NEW c, c = up'[v].top
             PROVE  \/ c \in Class /\ games'[[player |-> p, class |-> c]] > 0
                    \/ Born(p)' /\ p \notin players'
  BY DEF TopInv, Games
<1>3. NextPlayer(v)' = NextPlayer(v)
  BY <1>2, SameNextPlayer
<1>4. pc[v] = "main" /\ p = NextPlayer(v) /\ c = up[v].top /\ p.by \in Uploads
  BY <1>1, <1>2, <1>3, Deletes DEF PlayerId
<1>5. CASE c \in Class /\ games[[player |-> p, class |-> c]] > 0
  <2>1. [player |-> p, class |-> c] \in PlayerClass
    BY <1>5 DEF PlayerClass
  <2>2. Born(p)'
    <3>1. Born(p)
      BY <1>1, <1>5, <2>1 DEF BornInv
    <3> QED BY <1>1, <1>4, <3>1, Deletes
  <2> QED BY <1>2, <1>5, <2>1, <2>2
<1>6. CASE Born(p) /\ p \notin players
  BY <1>1, <1>2, <1>4, <1>6, Deletes
<1> QED BY <1>1, <1>4, <1>5, <1>6 DEF TopInv, Games

\* The rows left once the war and the players in "gone" are deleted
LEMMA RowsLeft ==
    ASSUME TypeOK, NEW w, NEW gone, perfs' = PerfsWithout(w, gone), NEW v \in Uploads
    PROVE  /\ v \in SidesOf(w) => perfs'[v] = <<>>
           /\ v \notin SidesOf(w) =>
                 /\ DOMAIN perfs'[v] = DOMAIN perfs[v] /\ Len(perfs'[v]) = Len(perfs[v])
                 /\ \A n \in DOMAIN perfs[v] :
                       perfs'[v][n] = [perfs[v][n] EXCEPT
                           !.player = IF @ \in gone THEN NoPlayer ELSE @]
<1>1. perfs[v] \in Seq(PerformanceRow) /\ perfs'[v] \in Seq(PerformanceRow)
  BY PerfsWithoutType DEF TypeOK
<1>2. v \in SidesOf(w) => perfs'[v] = <<>>
  BY DEF PerfsWithout
<1>3. ASSUME v \notin SidesOf(w)
      PROVE  perfs'[v] = [n \in DOMAIN perfs[v] |-> [perfs[v][n] EXCEPT
                              !.player = IF @ \in gone THEN NoPlayer ELSE @]]
  BY <1>3 DEF PerfsWithout
<1>4. ASSUME v \notin SidesOf(w)
      PROVE  Len(perfs'[v]) = Len(perfs[v])
  <2>1. DOMAIN perfs'[v] = DOMAIN perfs[v]
    BY <1>3, <1>4
  <2>2. /\ DOMAIN perfs'[v] = 1..Len(perfs'[v]) /\ Len(perfs'[v]) \in Nat
        /\ DOMAIN perfs[v] = 1..Len(perfs[v]) /\ Len(perfs[v]) \in Nat
    BY <1>1
  <2> QED BY <2>1, <2>2, SameInterval
<1> QED BY <1>2, <1>3, <1>4

LEMMA DeletesPerformances ==
    ASSUME TablesInv, NEW r \in Rollbacks, CommitRollback(r), ~Fail(r)
    PROVE  AllOrNothing' /\ PerformancesAttributed'
<1>1. TypeOK /\ SidesInv /\ AllOrNothing /\ PerformancesAttributed
  BY DEF TablesInv, LedgerInv
<1> DEFINE w == rb[r].war
           gone == rb[r].victims
<1>2. /\ wars' = {row \in wars : row.id # w} /\ sides' = {s \in sides : s.war # w}
      /\ perfs' = PerfsWithout(w, gone) /\ players' = players \ gone
      /\ profile' = [p \in PlayerId |-> IF p \in gone THEN NoProfile ELSE profile[p]]
      /\ UNCHANGED <<req, up>> /\ \A v \in Uploads : pc'[v] = pc[v]
  BY <1>1, Deletes DEF DeleteWar
<1>3. ASSUME NEW v \in Uploads
      PROVE  Len(perfs'[v]) = IF Committed(v)' THEN Len(req'[v].stats) ELSE 0
  <2>1. CASE v \in SidesOf(w)
    <3>1. PICK s \in sides : s.id = v /\ s.war = w
      BY <2>1 DEF SidesOf
    <3>2. ~Committed(v)'
      BY <1>1, <1>2, <3>1 DEF SidesInv, Committed
    <3>3. perfs'[v] = <<>>
      BY <1>1, <1>2, <2>1, RowsLeft
    <3> QED BY <3>2, <3>3
  <2>2. CASE v \notin SidesOf(w)
    <3>1. Committed(v)' <=> Committed(v)
      BY <1>2, <2>2 DEF Committed, SidesOf
    <3> QED BY <1>1, <1>2, <2>2, <3>1, RowsLeft DEF AllOrNothing
  <2> QED BY <2>1, <2>2
<1>4. AllOrNothing'
  <2>1. \A row \in wars' : \E s \in sides' : s.war = row.id
    BY <1>1, <1>2 DEF AllOrNothing
  <2>2. \A v \in Uploads : pc'[v] = "failed" /\ up'[v].pass = 1 => ~Committed(v)'
    BY <1>1, <1>2 DEF AllOrNothing, Committed
  <2> QED BY <1>3, <2>1, <2>2 DEF AllOrNothing
<1>5. PerformancesAttributed'
  <2> SUFFICES ASSUME NEW v \in Uploads, NEW n \in DOMAIN perfs'[v],
                      NEW p, p = perfs'[v][n].player, p # NoPlayer
               PROVE  /\ p \in players' /\ profile'[p] # NoProfile
                      /\ <<p.nick, req'[v].stats[n].nick>> \in Alike
    BY DEF PerformancesAttributed
  <2>1. v \notin SidesOf(w)
    BY <1>1, <1>2, RowsLeft
  <2>2. /\ n \in DOMAIN perfs[v]
        /\ perfs'[v][n] = [perfs[v][n] EXCEPT
                              !.player = IF @ \in gone THEN NoPlayer ELSE @]
    <3>1. /\ DOMAIN perfs'[v] = DOMAIN perfs[v]
          /\ \A i \in DOMAIN perfs[v] :
                perfs'[v][i] = [perfs[v][i] EXCEPT
                    !.player = IF @ \in gone THEN NoPlayer ELSE @]
      BY <1>1, <1>2, <2>1, RowsLeft
    <3> HIDE DEF gone, w
    <3> QED BY <3>1
  <2>3. perfs[v][n] \in PerformanceRow
    BY <1>1, <2>2 DEF TypeOK
  <2>4. p = perfs[v][n].player /\ p \notin gone /\ p \in PlayerId
    BY <2>2, <2>3 DEF PerformanceRow
  <2> QED BY <1>1, <1>2, <2>2, <2>4 DEF PerformancesAttributed
<1> QED BY <1>4, <1>5

LEMMA DeletesRows ==
    ASSUME TypeOK, NEW r \in Rollbacks, CommitRollback(r), ~Fail(r),
           NEW k \in PlayerClass
    PROVE  /\ Played(k)' \subseteq Played(k)
           /\ k.player \in rb[r].victims => Played(k)' = {}
<1> DEFINE w == rb[r].war
           gone == rb[r].victims
<1>1. perfs' = PerfsWithout(w, gone)
  BY Deletes DEF DeleteWar
<1>2. ASSUME NEW i \in Played(k)'
      PROVE  i \in Played(k) /\ k.player \notin gone
  <2>1. PICK v \in Uploads : \E n \in DOMAIN perfs'[v] : i = <<v, n>> /\ perfs'[v][n] = k
    BY <1>2 DEF Played
  <2>2. PICK n \in DOMAIN perfs'[v] : i = <<v, n>> /\ perfs'[v][n] = k
    BY <2>1
  <2>3. v \notin SidesOf(w)
    BY <1>1, <2>2, RowsLeft
  <2>4. /\ DOMAIN perfs'[v] = DOMAIN perfs[v]
        /\ \A m \in DOMAIN perfs[v] :
              perfs'[v][m] = [perfs[v][m] EXCEPT
                  !.player = IF @ \in gone THEN NoPlayer ELSE @]
    BY <1>1, <2>3, RowsLeft
  <2>5. k = [perfs[v][n] EXCEPT !.player = IF @ \in gone THEN NoPlayer ELSE @]
        /\ n \in DOMAIN perfs[v]
    <3> HIDE DEF gone
    <3> QED BY <2>2, <2>4
  <2>6. perfs[v][n] \in PerformanceRow
    BY <2>5 DEF TypeOK
  <2>7. k.player # NoPlayer
    BY NoPlayerAssumption DEF PlayerClass
  <2>8. perfs[v][n].player \notin gone /\ k.player = perfs[v][n].player
        /\ k.class = perfs[v][n].class
    <3> HIDE DEF gone
    <3> QED BY <2>5, <2>6, <2>7 DEF PerformanceRow
  <2>9. perfs[v][n] = k
    BY <2>6, <2>8 DEF PerformanceRow, PlayerClass
  <2> QED BY <2>2, <2>5, <2>8, <2>9, StoredIn
<1> QED BY <1>2

LEMMA DeletesCounts ==
    ASSUME TablesInv, NEW r \in Rollbacks, CommitRollback(r), ~Fail(r), PhasesInv'
    PROVE  CoverInv' /\ ExactInv'
<1>1. TypeOK /\ CoverInv /\ PhasesInv
  BY DEF TablesInv, LedgerInv
<1> DEFINE gone == rb[r].victims
<1>2. /\ classes' = {k \in classes : k.player \notin gone}
      /\ games' = [k \in PlayerClass |-> IF k.player \in gone THEN 0 ELSE games[k]]
      /\ UNCHANGED up
      /\ \A v \in Uploads : pc'[v] = pc[v] /\ open'[v] = open[v]
      /\ \A v \in Uploads : open[v] /\ pc[v] \notin {"side", "rows"} =>
            Resolved(v) \cap gone = {}
  BY <1>1, Deletes DEF DeleteWar
<1>3. ExactInv'
  BY <1>1, Deletes DEF ExactInv, Undisturbed
<1>4. ASSUME NEW v \in Uploads
      PROVE  Appended(v)'
  <2> SUFFICES ASSUME open[v], pc[v] \notin {"side", "rows"},
                      NEW k \in Range(up[v].resolved)
               PROVE  k \in classes' \/ (pc[v] = "classes" /\ k.player \in up[v].todo)
    BY <1>2 DEF Appended
  <2>1. k.player \notin gone
    BY <1>2 DEF Resolved
  <2> QED BY <1>1, <1>2, <2>1 DEF CoverInv, Appended
<1> SUFFICES ASSUME NEW k \in PlayerClass, NEW us, us = Committing
             PROVE  /\ IsFiniteSet(RowsOf(k, us)')
                    /\ Cardinality(RowsOf(k, us)') =< games'[k]
                    /\ Played(k)' # {} => k \in classes'
  <2>1. Committing' = Committing
    BY <1>2 DEF Committing, Counting
  <2> QED BY <1>3, <1>4, <2>1 DEF CoverInv, RowsOf
<1>5. /\ IsFiniteSet(RowsOf(k, us)) /\ Cardinality(RowsOf(k, us)) =< games[k]
      /\ Played(k) # {} => k \in classes
  BY <1>1 DEF CoverInv
<1>6. RowsOf(k, us)' \subseteq RowsOf(k, us)
  BY <1>1, <1>2, DeletesRows, RowIn, RowInNext
<1>7. IsFiniteSet(RowsOf(k, us)')
      /\ Cardinality(RowsOf(k, us)') =< Cardinality(RowsOf(k, us))
      /\ Cardinality(RowsOf(k, us)') \in Nat /\ Cardinality(RowsOf(k, us)) \in Nat
  BY <1>5, <1>6, FS_Subset, FS_CardinalityType
<1>8. CASE k.player \in gone
  <2>1. Played(k)' = {}
    BY <1>1, <1>8, DeletesRows
  <2>2. \A v \in us : \A n \in DOMAIN up'[v].resolved : up'[v].resolved[n] # k
    <3> SUFFICES ASSUME NEW v \in us, NEW n \in DOMAIN up[v].resolved,
                        up[v].resolved[n] = k
                 PROVE  FALSE
      BY <1>2
    <3>1. k.player \in Resolved(v)
      BY DEF Resolved, Range
    <3>2. v \in Uploads /\ open[v] /\ pc[v] \notin {"side", "rows"}
      BY DEF Committing, Counting
    <3> QED BY <1>2, <1>8, <3>1, <3>2
  <2>3. RowsOf(k, us)' = {}
    BY <2>1, <2>2, RowInNext
  <2>4. Cardinality({}) = 0 /\ games'[k] = 0
    BY <1>2, <1>8, FS_EmptySet
  <2> QED BY <1>7, <2>1, <2>3, <2>4
<1>9. CASE k.player \notin gone
  <2>1. games'[k] = games[k] /\ games[k] \in Nat /\ (k \in classes => k \in classes')
    BY <1>1, <1>2, <1>9 DEF TypeOK
  <2>2. Played(k)' \subseteq Played(k)
    BY <1>1, DeletesRows
  <2> QED BY <1>5, <1>7, <2>1, <2>2
<1> QED BY <1>8, <1>9

LEMMA CommitRollbackTables ==
    ASSUME TablesInv, LedgerInv', NEW r \in Rollbacks, CommitRollback(r)
    PROVE  TablesInv'
<1>1. CASE Fail(r)
  BY <1>1, FailEnding, EndingTables DEF Calls, TablesInv, LedgerInv
<1>2. CASE ~Fail(r)
  BY <1>2, DeletesBorn, DeletesTop, DeletesPerformances, DeletesCounts
     DEF TablesInv, LedgerInv
<1> QED BY <1>1, <1>2

-----------------------------------------------------------------------------
(* The theorems. *)

LEMMA InitTables == Init => TablesInv
<1> SUFFICES ASSUME Init
             PROVE  TablesInv
  OBVIOUS
<1>1. LedgerInv /\ TypeOK
  BY InitLedger DEF LedgerInv
<1>2. \A u \in Uploads : pc[u] = "idle" /\ ~open[u]
  BY DEF Init, Calls
<1>3. BornInv
  BY DEF Init, BornInv
<1>4. ResolvedInv /\ SidesInv /\ TopInv
  BY <1>2 DEF Init, ResolvedInv, InTx, SidesInv, TopInv
<1>5. AllOrNothing /\ PerformancesAttributed
  BY <1>2 DEF Init, AllOrNothing, Committed, PerformancesAttributed
<1>6. Committing = {} /\ Counting = {}
  BY <1>2 DEF Committing, Counting
<1>7. \A k : Played(k) = {} /\ RowsOf(k, {}) = {}
  BY DEF Init, Played, RowsOf
<1>8. IsFiniteSet({}) /\ Cardinality({}) = 0
  BY FS_EmptySet
<1>9. CoverInv /\ ExactInv
  <2>1. \A k \in PlayerClass : games[k] = 0
    BY DEF Init
  <2>2. \A k : RowsOf(k, Committing) = {} /\ RowsOf(k, Counting) = {}
    BY <1>6, <1>7
  <2> QED BY <1>2, <1>7, <1>8, <2>1, <2>2 DEF CoverInv, Appended, ExactInv
<1>10. MainClassEarned
  BY FreshAssumption DEF Init, MainClassEarned
<1> QED BY <1>1, <1>3, <1>4, <1>5, <1>9, <1>10 DEF TablesInv

LEMMA NextTables == TablesInv /\ [Next]_vars => TablesInv'
<1> SUFFICES ASSUME TablesInv, [Next]_vars
             PROVE  TablesInv'
  OBVIOUS
<1>1. TypeOK /\ LedgerInv'
  BY NextLedger DEF TablesInv, LedgerInv
<1>2. ASSUME NEW u \in Uploads, UploadStep(u)
      PROVE  TablesInv'
  BY <1>1, <1>2, UploadTables
<1>3. ASSUME NEW r \in Rollbacks, RollbackStep(r)
      PROVE  TablesInv'
  BY <1>1, <1>3, RollbackEnding, EndingTables, CommitRollbackTables DEF RollbackStep
<1>4. ASSUME NEW x \in Calls, Interrupt(x) \/ TxTimeout(x)
      PROVE  TablesInv'
  BY <1>1, <1>4, FailEnding, TimeoutEnding, EndingTables DEF Interrupt
<1>5. CASE UNCHANGED vars
  <2>1. Ending
    BY <1>5 DEF vars, tables, Ending, Undisturbed
  <2> QED BY <1>1, <2>1, EndingTables
<1> QED BY <1>2, <1>3, <1>4, <1>5 DEF Next, AllEnded

LEMMA TablesInvariant == Spec => []TablesInv
<1> QED BY InitTables, NextTables, PTL DEF Spec

\* A side is stored with every performance of its request or not at all, a war
\* is never left without a side, and an upload that fails before its commit
\* leaves nothing, wherever it fails and whatever rollbacks do meanwhile.
THEOREM StoredAllOrNothing == Spec => []AllOrNothing
<1>1. TablesInv => AllOrNothing
  BY DEF TablesInv
<1> QED BY <1>1, TablesInvariant, PTL

\* A performance that names a player names one that is stored, has a profile and
\* a nickname alike to the reported one, although the player was resolved before
\* the transaction and rollbacks delete players in between.
THEOREM AttributedToThePresent == Spec => []PerformancesAttributed
<1>1. TablesInv => PerformancesAttributed
  BY DEF TablesInv
<1> QED BY <1>1, TablesInvariant, PTL

\* gamesCount, written outside the transaction of the rows it counts, never
\* falls behind them, and their class is in Player.classes.
THEOREM CountsAlwaysCover == Spec => []CountsCoverPerformances
<1>1. TablesInv => CountsCoverPerformances
  <2> SUFFICES ASSUME TablesInv, NEW k \in PlayerClass
               PROVE  /\ Cardinality(Played(k)) =< games[k]
                      /\ Played(k) # {} => k \in classes
    BY DEF CountsCoverPerformances
  <2>1. /\ IsFiniteSet(RowsOf(k, Committing))
        /\ Cardinality(RowsOf(k, Committing)) =< games[k]
        /\ Played(k) # {} => k \in classes
    BY DEF TablesInv, CoverInv
  <2>2. Played(k) \subseteq RowsOf(k, Committing)
    BY DEF RowsOf
  <2>3. /\ Cardinality(Played(k)) =< Cardinality(RowsOf(k, Committing))
        /\ IsFiniteSet(Played(k))
    BY <2>1, <2>2, FS_Subset
  <2>4. /\ games[k] \in Nat /\ Cardinality(Played(k)) \in Nat
        /\ Cardinality(RowsOf(k, Committing)) \in Nat
    BY <2>1, <2>3, FS_CardinalityType DEF TablesInv, LedgerInv, TypeOK
  <2> QED BY <2>1, <2>3, <2>4
<1> QED BY <1>1, TablesInvariant, PTL

\* As long as no upload has failed and no rollback has deleted anything, the
\* counts equal the rows whenever no upload is running.
THEOREM CountsAreExact == Spec => []CountsExactWithoutFailure
<1>1. TablesInv => CountsExactWithoutFailure
  <2> SUFFICES ASSUME TablesInv, \A u \in Uploads : pc[u] \in {"idle", "done"},
                      \A r \in Rollbacks : pc[r] \notin {"queue"} \cup Ended,
                      NEW k \in PlayerClass
               PROVE  games[k] = Cardinality(Played(k))
    BY DEF CountsExactWithoutFailure
  <2>1. Undisturbed /\ Counting = {}
    BY DEF Undisturbed, Counting
  <2>2. RowsOf(k, {}) = Played(k)
    BY DEF RowsOf
  <2> QED BY <2>1, <2>2 DEF TablesInv, ExactInv
<1> QED BY <1>1, TablesInvariant, PTL

\* No profile shows a main class its player has not been counted in: the class
\* read before the write is never one that a rollback has taken away since.
THEOREM MainClassesAreEarned == Spec => []MainClassEarned
<1>1. TablesInv => MainClassEarned
  BY DEF TablesInv
<1> QED BY <1>1, TablesInvariant, PTL
=============================================================================

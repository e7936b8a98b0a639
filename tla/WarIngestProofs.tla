-------------------------- MODULE WarIngestProofs --------------------------
(***************************************************************************)
(* Theorems about WarIngest for any number of calls, companies, nicknames, *)
(* requests and connections.                                               *)
(***************************************************************************)
EXTENDS WarIngest, FiniteSetTheorems, SequenceTheorems, TLAPS

-----------------------------------------------------------------------------
(* Type correctness. *)

LEMMA LocalsType ==
    ASSUME NEW l \in UploadLocals
    PROVE  /\ \A w \in Uploads : [l EXCEPT !.war = w] \in UploadLocals
           /\ \A n \in 1..2 : [l EXCEPT !.pass = n] \in UploadLocals
           /\ \A m \in SUBSET Nick : [l EXCEPT !.missing = m] \in UploadLocals
           /\ \A f \in SUBSET PlayerId : [l EXCEPT !.fetched = f] \in UploadLocals
           /\ \A r \in Seq(PlayerClass) : [l EXCEPT !.resolved = r] \in UploadLocals
           /\ \A t \in SUBSET PlayerId : [l EXCEPT !.todo = t] \in UploadLocals
           /\ \A c \in Class : [l EXCEPT !.top = c] \in UploadLocals
  BY DEF UploadLocals

LEMMA InitTypeOK == Init => TypeOK
  BY RequestsAssumption DEF Init, TypeOK, UploadLocals, NoLocals, RollbackLocals,
     UploadPc, RollbackPc, Calls

\* The program counter and the transaction flag stay in their types.
LEMMA FailType ==
    ASSUME TypeOK, NEW x \in Calls, Fail(x)
    PROVE  TypeOK'
  BY DEF TypeOK, Fail, tables, UploadPc

LEMMA FindWarType ==
    ASSUME TypeOK, NEW u \in Uploads, FindWar(u)
    PROVE  TypeOK'
<1>1. u \in Calls
  BY DEF Calls
<1>2. CASE Fail(u)
  BY <1>1, <1>2, FailType
<1>3. CASE Goto(u, "players") /\ UNCHANGED <<tables, req, up, rb, open, jobs>>
  BY <1>1, <1>3 DEF TypeOK, Goto, tables, UploadPc
<1>4. CASE /\ \E w \in wars : up' = [up EXCEPT ![u].war = w.id]
           /\ Goto(u, "sides") /\ UNCHANGED <<tables, req, rb, open, jobs>>
  <2>1. PICK w \in wars : up' = [up EXCEPT ![u].war = w.id]
    BY <1>4
  <2>2. w.id \in Uploads /\ up[u] \in UploadLocals
    BY DEF TypeOK, WarRow
  <2>3. up' \in [Uploads -> UploadLocals]
    BY <2>1, <2>2, LocalsType DEF TypeOK
  <2> QED BY <1>1, <1>4, <2>3 DEF TypeOK, Goto, tables, UploadPc
<1> QED BY <1>2, <1>3, <1>4 DEF FindWar

LEMMA StatsType ==
    ASSUME TypeOK, NEW u \in Uploads
    PROVE  /\ req[u].stats \in Seq(Entry)
           /\ Named(u) \subseteq Nick
<1>1. req[u].stats \in Seq(Entry)
  BY RequestsAssumption DEF TypeOK, Request
<1>2. \A n \in DOMAIN req[u].stats : req[u].stats[n] \in Entry
  BY <1>1
<1> QED BY <1>1, <1>2 DEF Named, Entry

LEMMA ReadPlayersType ==
    ASSUME TypeOK, NEW u \in Uploads, ReadPlayers(u)
    PROVE  TypeOK'
<1>1. u \in Calls
  BY DEF Calls
<1>2. CASE Fail(u)
  BY <1>1, <1>2, FailType
<1>3. CASE ~Fail(u)
  <2> DEFINE missing == Missing(Named(u), players)
  <2>1. /\ up' = [up EXCEPT ![u].missing = missing]
        /\ Goto(u, IF missing = {} THEN "fetch" ELSE "create")
        /\ UNCHANGED <<tables, req, rb, open, jobs>>
    BY <1>3 DEF ReadPlayers
  <2>2. missing \in SUBSET Nick
    BY StatsType DEF Missing
  <2>3. up' \in [Uploads -> UploadLocals]
    BY <2>1, <2>2, LocalsType DEF TypeOK
  <2> QED BY <1>1, <2>1, <2>3 DEF TypeOK, Goto, tables, UploadPc
<1> QED BY <1>2, <1>3

LEMMA CreatePlayersType ==
    ASSUME TypeOK, NEW u \in Uploads, CreatePlayers(u)
    PROVE  TypeOK'
<1>1. u \in Calls /\ up[u] \in UploadLocals
  BY DEF Calls, TypeOK
<1>2. up' \in [Uploads -> UploadLocals]
  <2>1. [up[u] EXCEPT !.missing = {}] \in UploadLocals
    BY <1>1, LocalsType
  <2> QED BY <2>1 DEF CreatePlayers, TypeOK
<1>3. players' \subseteq PlayerId
  <2>1. up[u].missing \subseteq Nick /\ up[u].pass \in 1..2
    BY <1>1 DEF UploadLocals
  <2> QED BY <2>1 DEF CreatePlayers, TypeOK, PlayerId
<1> QED BY <1>1, <1>2, <1>3 DEF CreatePlayers, TypeOK, Goto, UploadPc

LEMMA FetchPlayersType ==
    ASSUME TypeOK, NEW u \in Uploads, FetchPlayers(u)
    PROVE  TypeOK'
<1>1. u \in Calls /\ up[u] \in UploadLocals
  BY DEF Calls, TypeOK
<1>2. [up[u] EXCEPT !.fetched = {p \in players : p.nick \in Named(u)}] \in UploadLocals
  BY <1>1, LocalsType DEF TypeOK
<1>3. up' \in [Uploads -> UploadLocals]
  BY <1>2 DEF FetchPlayers, TypeOK
<1> QED BY <1>1, <1>3 DEF FetchPlayers, TypeOK, Goto, tables, UploadPc

LEMMA ResolutionsType ==
    ASSUME TypeOK, NEW u \in Uploads, NEW res \in Resolutions(u)
    PROVE  res \in Seq(PlayerClass) /\ Range(res) \subseteq PlayerClass
<1> DEFINE stats == req[u].stats
<1>1. stats \in Seq(Entry) /\ up[u].fetched \subseteq PlayerId
  BY StatsType DEF TypeOK, UploadLocals
<1>2. PICK match \in [DOMAIN stats -> up[u].fetched] :
         res = [n \in DOMAIN stats |-> [player |-> match[n], class |-> stats[n].class]]
  BY DEF Resolutions, Matches
<1>3. \A n \in DOMAIN stats : stats[n] \in Entry /\ match[n] \in PlayerId
  BY <1>1, <1>2
<1>4. res \in [DOMAIN stats -> PlayerClass]
  BY <1>2, <1>3 DEF Entry, PlayerClass
<1>5. DOMAIN stats = 1..Len(stats) /\ Len(stats) \in Nat
  BY <1>1
<1> QED BY <1>4, <1>5 DEF Range

LEMMA CreateProfilesType ==
    ASSUME TypeOK, NEW u \in Uploads, CreateProfiles(u)
    PROVE  TypeOK'
<1>1. u \in Calls /\ up[u] \in UploadLocals
  BY DEF Calls, TypeOK
<1>2. CASE Fail(u)
  BY <1>1, <1>2, FailType
<1>3. CASE ~Fail(u)
  <2>1. profile' \in [PlayerId -> Class \cup {NoClass, NoProfile}]
    BY <1>3 DEF CreateProfiles, TypeOK
  <2>2. UNCHANGED <<wars, sides, perfs, players, classes, games, req, rb>>
    BY <1>3 DEF CreateProfiles
  <2>3. CASE Goto(u, "failed") /\ UNCHANGED <<up, open, jobs>>
    BY <1>1, <2>1, <2>2, <2>3 DEF TypeOK, Goto, UploadPc
  <2>4. CASE /\ \E res \in Resolutions(u) :
                  up' = [up EXCEPT ![u].resolved = res, ![u].fetched = {}]
             /\ Goto(u, "begin") /\ UNCHANGED <<open, jobs>>
    <3>1. PICK res \in Resolutions(u) :
             up' = [up EXCEPT ![u].resolved = res, ![u].fetched = {}]
      BY <2>4
    <3>2. [up[u] EXCEPT !.resolved = res] \in UploadLocals
      BY <1>1, LocalsType, ResolutionsType
    <3>3. [[up[u] EXCEPT !.resolved = res] EXCEPT !.fetched = {}] \in UploadLocals
      BY <3>2, LocalsType
    <3>4. up' = [up EXCEPT ![u] = [[up[u] EXCEPT !.resolved = res] EXCEPT !.fetched = {}]]
      BY <1>1, <3>1 DEF TypeOK
    <3>5. up' \in [Uploads -> UploadLocals]
      BY <3>3, <3>4 DEF TypeOK
    <3> QED BY <1>1, <2>1, <2>2, <2>4, <3>5 DEF TypeOK, Goto, UploadPc
  <2>5. CASE /\ \E res \in Resolutions(u) : jobs' = Append(jobs,
                                        [by |-> u, rows |-> Range(res)])
             /\ up' = [up EXCEPT ![u].fetched = {}]
             /\ Goto(u, "done") /\ UNCHANGED open
    <3>1. jobs' \in Seq(Job)
      BY <1>1, <2>5, ResolutionsType DEF TypeOK, Job
    <3>2. [up[u] EXCEPT !.fetched = {}] \in UploadLocals
      BY <1>1, LocalsType
    <3>3. up' \in [Uploads -> UploadLocals]
      BY <2>5, <3>2 DEF TypeOK
    <3> QED BY <1>1, <2>1, <2>2, <2>5, <3>1, <3>3 DEF TypeOK, Goto, UploadPc
  <2> QED BY <1>3, <2>3, <2>4, <2>5 DEF CreateProfiles
<1> QED BY <1>2, <1>3

\* Steps that move the program counter, and open the transaction at most
LEMMA ControlType ==
    ASSUME TypeOK, NEW u \in Uploads,
           FindSides(u) \/ BeginTx(u) \/ InsertSide(u)
    PROVE  TypeOK'
<1>1. u \in Calls
  BY DEF Calls
<1>2. CASE Fail(u)
  BY <1>1, <1>2, FailType
<1>3. CASE ~Fail(u)
  <2>1. UNCHANGED <<tables, req, up, rb, jobs>>
    BY <1>3 DEF FindSides, BeginTx, InsertSide
  <2>2. open' \in [Calls -> BOOLEAN]
    BY <1>1, <1>3 DEF FindSides, BeginTx, InsertSide, TypeOK
  <2>3. \E label \in UploadPc : Goto(u, label)
    BY <1>3 DEF FindSides, BeginTx, InsertSide, UploadPc
  <2> QED BY <1>1, <2>1, <2>2, <2>3 DEF TypeOK, Goto, tables
<1> QED BY <1>2, <1>3

LEMMA ResolvedType ==
    ASSUME TypeOK, NEW u \in Uploads
    PROVE  Resolved(u) \subseteq PlayerId
<1>1. up[u].resolved \in Seq(PlayerClass)
  BY DEF TypeOK, UploadLocals
<1>2. Range(up[u].resolved) \subseteq PlayerClass
  BY <1>1 DEF Range
<1> QED BY <1>2 DEF Resolved, PlayerClass

LEMMA InsertPerformancesType ==
    ASSUME TypeOK, NEW u \in Uploads, InsertPerformances(u)
    PROVE  TypeOK'
<1>1. u \in Calls /\ up[u] \in UploadLocals
  BY DEF Calls, TypeOK
<1>2. CASE Fail(u)
  BY <1>1, <1>2, FailType
<1>3. CASE ~Fail(u)
  <2>1. [up[u] EXCEPT !.todo = Resolved(u)] \in UploadLocals
    BY <1>1, LocalsType, ResolvedType
  <2>2. up' \in [Uploads -> UploadLocals]
    BY <1>3, <2>1 DEF InsertPerformances, TypeOK
  <2> QED BY <1>1, <1>3, <2>2 DEF InsertPerformances, TypeOK, Goto, UploadPc, tables
<1> QED BY <1>2, <1>3

LEMMA AppendClassesType ==
    ASSUME TypeOK, NEW u \in Uploads, AppendClasses(u)
    PROVE  TypeOK'
<1>1. u \in Calls /\ up[u] \in UploadLocals /\ up[u].resolved \in Seq(PlayerClass)
  BY DEF Calls, TypeOK, UploadLocals
<1>2. CASE up[u].todo = {}
  BY <1>1, <1>2 DEF AppendClasses, TypeOK, Goto, UploadPc, tables
<1>3. CASE up[u].todo # {}
  <2> DEFINE p == NextPlayer(u)
  <2>1. Range(up[u].resolved) \subseteq PlayerClass
    BY <1>1 DEF Range
  <2>2. classes' \subseteq PlayerClass
    BY <1>3, <2>1 DEF AppendClasses, TypeOK
  <2>3. up[u].todo \ {p} \in SUBSET PlayerId
    BY <1>1 DEF UploadLocals
  <2>4. [up[u] EXCEPT !.todo = @ \ {p}] \in UploadLocals
    BY <1>1, <2>3, LocalsType
  <2>5. /\ up' = [up EXCEPT ![u].todo = @ \ {p}]
        /\ UNCHANGED <<wars, sides, perfs, players, profile, games,
                       req, pc, rb, open, jobs>>
    BY <1>3 DEF AppendClasses
  <2>6. up' \in [Uploads -> UploadLocals]
    BY <2>4, <2>5 DEF TypeOK
  <2> QED BY <2>2, <2>5, <2>6 DEF TypeOK
<1> QED BY <1>2, <1>3

\* Counting the entries of a request
LEMMA IncrementType ==
    ASSUME TypeOK, NEW u \in Uploads, NEW k
    PROVE  /\ IsFiniteSet({n \in DOMAIN up[u].resolved : up[u].resolved[n] = k})
           /\ Increment(u, k) \in Nat
<1> DEFINE s == up[u].resolved
           hits == {n \in DOMAIN s : s[n] = k}
<1>1. s \in Seq(PlayerClass)
  BY DEF TypeOK, UploadLocals
<1>2. DOMAIN s = 1..Len(s) /\ Len(s) \in Nat
  BY <1>1
<1>3. IsFiniteSet(DOMAIN s)
  BY <1>2, FS_Interval
<1>4. IsFiniteSet(hits)
  BY <1>3, FS_Subset
<1> QED BY <1>4, FS_CardinalityType DEF Increment

LEMMA CountGamesType ==
    ASSUME TypeOK, NEW u \in Uploads, CountGames(u)
    PROVE  TypeOK'
<1>1. u \in Calls /\ up[u] \in UploadLocals
  BY DEF Calls, TypeOK
<1>2. \A k \in PlayerClass : Increment(u, k) \in Nat
  BY IncrementType
<1>3. games' \in [PlayerClass -> Nat]
  BY <1>2 DEF CountGames, TypeOK
<1>4. [up[u] EXCEPT !.todo = Resolved(u)] \in UploadLocals
  BY <1>1, LocalsType, ResolvedType
<1>5. up' \in [Uploads -> UploadLocals]
  BY <1>4 DEF CountGames, TypeOK
<1> QED BY <1>1, <1>3, <1>5 DEF CountGames, TypeOK, Goto, UploadPc

LEMMA ReadTopType ==
    ASSUME TypeOK, NEW u \in Uploads, ReadTop(u)
    PROVE  TypeOK'
<1>1. u \in Calls /\ up[u] \in UploadLocals
  BY DEF Calls, TypeOK
<1>2. up' \in [Uploads -> UploadLocals]
  <2>1. CASE UNCHANGED up
    BY <2>1 DEF TypeOK
  <2>2. CASE \E c \in Class : up' = [up EXCEPT ![u].top = c]
    BY <1>1, <2>2, LocalsType DEF TypeOK
  <2>3. CASE up' = [up EXCEPT ![u].todo = @ \ {NextPlayer(u)}]
    <3>1. up[u].todo \ {NextPlayer(u)} \in SUBSET PlayerId
      BY <1>1 DEF UploadLocals
    <3>2. [up[u] EXCEPT !.todo = @ \ {NextPlayer(u)}] \in UploadLocals
      BY <1>1, <3>1, LocalsType
    <3> QED BY <2>3, <3>2 DEF TypeOK
  <2> QED BY <2>1, <2>2, <2>3 DEF ReadTop
<1>3. \E label \in UploadPc : pc' = [pc EXCEPT ![u] = label]
  <2>1. CASE pc' = pc
    BY <1>1, <2>1 DEF ReadTop, At, TypeOK, UploadPc
  <2> QED BY <2>1 DEF ReadTop, Goto, UploadPc
<1>4. UNCHANGED <<tables, req, rb, open, jobs>>
  BY DEF ReadTop
<1> QED BY <1>1, <1>2, <1>3, <1>4 DEF TypeOK, tables

LEMMA SetMainType ==
    ASSUME TypeOK, NEW u \in Uploads, SetMain(u)
    PROVE  TypeOK'
<1>1. u \in Calls /\ up[u] \in UploadLocals
  BY DEF Calls, TypeOK
<1>2. CASE Fail(u)
  BY <1>1, <1>2, FailType
<1>3. CASE ~Fail(u)
  <2> DEFINE p == NextPlayer(u)
  <2>1. /\ profile' = [profile EXCEPT ![p] = up[u].top]
        /\ up' = [up EXCEPT ![u].todo = @ \ {p}, ![u].top = NoClass]
        /\ Goto(u, "top")
        /\ UNCHANGED <<wars, sides, perfs, players, classes, games,
                       req, rb, open, jobs>>
    BY <1>3 DEF SetMain
  <2>2. profile' \in [PlayerId -> Class \cup {NoClass, NoProfile}]
    BY <1>1, <2>1 DEF TypeOK, UploadLocals
  <2>3. up' \in [Uploads -> UploadLocals]
    <3> DEFINE l == [up[u] EXCEPT !.todo = @ \ {p}, !.top = NoClass]
    <3>1. l \in UploadLocals
      BY <1>1 DEF UploadLocals
    <3>2. up' = [up EXCEPT ![u] = l]
      BY <2>1 DEF TypeOK
    <3> QED BY <3>1, <3>2 DEF TypeOK
  <2> QED BY <1>1, <2>1, <2>2, <2>3 DEF TypeOK, Goto, UploadPc
<1> QED BY <1>2, <1>3

LEMMA CommitType ==
    ASSUME TypeOK, NEW u \in Uploads, Commit(u)
    PROVE  TypeOK'
<1>1. u \in Calls /\ up[u] \in UploadLocals /\ up[u].resolved \in Seq(PlayerClass)
  BY DEF Calls, TypeOK, UploadLocals
<1>2. CASE Fail(u)
  BY <1>1, <1>2, FailType
<1>3. CASE ~Fail(u)
  <2>1. req[u] \in Request
    BY RequestsAssumption DEF TypeOK
  <2>2. NewWar(u) \in WarRow
    BY <2>1 DEF NewWar, WarRow, Winner, Request, Role
  <2>3. NewSide(u) \in SideRow
    BY <1>1, <2>1 DEF NewSide, SideRow, WarOf, Request, UploadLocals
  <2>4. up[u].resolved \in Seq(PerformanceRow)
    <3>1. PlayerClass \subseteq PerformanceRow
      BY DEF PlayerClass, PerformanceRow
    <3>2. /\ up[u].resolved \in [1..Len(up[u].resolved) -> PlayerClass]
          /\ Len(up[u].resolved) \in Nat
      BY <1>1
    <3>3. up[u].resolved \in [1..Len(up[u].resolved) -> PerformanceRow]
      BY <3>1, <3>2
    <3> QED BY <3>2, <3>3
  <2>5. perfs' \in [Uploads -> Seq(PerformanceRow)]
    <3>1. perfs' = [perfs EXCEPT ![u] = up[u].resolved]
      BY <1>3 DEF Commit
    <3> QED BY <2>4, <3>1 DEF TypeOK
  <2>6. [NoLocals EXCEPT !.pass = 2] \in UploadLocals
    <3>1. NoLocals \in UploadLocals
      BY DEF NoLocals, UploadLocals
    <3>2. 2 \in 1..2
      OBVIOUS
    <3> QED BY <3>1, <3>2, LocalsType
  <2>7. up' \in [Uploads -> UploadLocals]
    BY <1>3, <2>6 DEF Commit, TypeOK
  <2>8. wars' \subseteq WarRow /\ sides' \subseteq SideRow
    BY <1>3, <2>2, <2>3 DEF Commit, TypeOK
  <2> QED BY <1>1, <1>3, <2>5, <2>7, <2>8 DEF Commit, TypeOK, Goto, UploadPc
<1> QED BY <1>2, <1>3

LEMMA UploadStepType ==
    ASSUME TypeOK, NEW u \in Uploads, UploadStep(u)
    PROVE  TypeOK'
  BY FindWarType, ReadPlayersType, CreatePlayersType, FetchPlayersType,
     CreateProfilesType, ControlType, InsertPerformancesType, AppendClassesType, CountGamesType,
     ReadTopType, SetMainType, CommitType DEF UploadStep

LEMMA RollbackLocalsType ==
    ASSUME NEW l \in RollbackLocals
    PROVE  /\ \A w \in Uploads : [l EXCEPT !.war = w] \in RollbackLocals
           /\ \A a \in SUBSET PlayerClass : [l EXCEPT !.affected = a] \in RollbackLocals
           /\ \A v \in SUBSET PlayerId : [l EXCEPT !.victims = v] \in RollbackLocals
           /\ \A v \in SUBSET PlayerId : [l EXCEPT !.locked = v] \in RollbackLocals
  BY DEF RollbackLocals

LEMMA FoughtType ==
    ASSUME TypeOK, NEW w
    PROVE  Fought(w) \subseteq PlayerClass
<1> SUFFICES ASSUME NEW k \in Fought(w)
             PROVE  k \in PlayerClass
  OBVIOUS
<1>1. PICK s \in SidesOf(w) : k \in Range(perfs[s])
  BY DEF Fought
<1>2. s \in Uploads
  BY DEF SidesOf, TypeOK, SideRow
<1>3. k \in PerformanceRow
  BY <1>1, <1>2 DEF TypeOK, Range
<1> QED BY <1>3 DEF Fought, PerformanceRow, PlayerClass

LEMMA RollbackReadType ==
    ASSUME TypeOK, NEW r \in Rollbacks,
           FindTarget(r) \/ ReadAffected(r) \/ GatherPlayers(r) \/ DeleteProfiles(r)
    PROVE  TypeOK'
<1>1. r \in Calls /\ rb[r] \in RollbackLocals
  BY DEF Calls, TypeOK
<1>2. CASE Fail(r)
  BY <1>1, <1>2, FailType
<1>3. CASE ~Fail(r)
  <2>1. UNCHANGED <<tables, req, up, jobs>>
    BY <1>3 DEF FindTarget, ReadAffected, GatherPlayers, DeleteProfiles
  <2>2. open' \in [Calls -> BOOLEAN]
    BY <1>1, <1>3 DEF FindTarget, ReadAffected, GatherPlayers, DeleteProfiles, TypeOK
  <2>3. \E label \in RollbackPc : Goto(r, label)
    BY <1>3 DEF FindTarget, ReadAffected, GatherPlayers, DeleteProfiles, RollbackPc
  <2>4. \E l \in RollbackLocals : rb' = [rb EXCEPT ![r] = l]
    <3>1. CASE FindTarget(r)
      <4>1. PICK w \in Uploads : rb' = [rb EXCEPT ![r].war = w]
        BY <1>3, <3>1 DEF FindTarget
      <4>2. [rb[r] EXCEPT !.war = w] \in RollbackLocals
        BY <1>1, RollbackLocalsType
      <4> QED BY <4>1, <4>2 DEF TypeOK
    <3>2. CASE ReadAffected(r)
      <4>1. [rb[r] EXCEPT !.affected = Fought(rb[r].war)] \in RollbackLocals
        BY <1>1, RollbackLocalsType, FoughtType
      <4> QED BY <3>2, <4>1 DEF ReadAffected, TypeOK
    <3>3. CASE GatherPlayers(r)
      <4> DEFINE gone == {k.player : k \in Fought(rb[r].war)}
      <4>1. gone \in SUBSET PlayerId
        BY FoughtType DEF PlayerClass
      <4>2. [rb[r] EXCEPT !.victims = gone] \in RollbackLocals
        BY <1>1, <4>1, RollbackLocalsType
      <4> QED BY <3>3, <4>2 DEF GatherPlayers, TypeOK
    <3>4. CASE DeleteProfiles(r)
      <4> DEFINE locked == {p \in rb[r].victims : profile[p] # NoProfile}
      <4>1. locked \in SUBSET PlayerId
        BY <1>1 DEF RollbackLocals
      <4>2. [rb[r] EXCEPT !.locked = locked] \in RollbackLocals
        BY <1>1, <4>1, RollbackLocalsType
      <4>3. rb' = [rb EXCEPT ![r].locked = locked]
        BY <1>3, <3>4 DEF DeleteProfiles
      <4> QED BY <4>2, <4>3 DEF TypeOK
    <3> QED BY <3>1, <3>2, <3>3, <3>4
  <2>5. rb' \in [Rollbacks -> RollbackLocals]
    BY <2>4 DEF TypeOK
  <2> QED BY <1>1, <2>1, <2>2, <2>3, <2>5 DEF TypeOK, Goto, tables
<1> QED BY <1>2, <1>3

LEMMA PerfsWithoutType ==
    ASSUME TypeOK, NEW w, NEW gone
    PROVE  PerfsWithout(w, gone) \in [Uploads -> Seq(PerformanceRow)]
<1> SUFFICES ASSUME NEW s \in Uploads
             PROVE  PerfsWithout(w, gone)[s] \in Seq(PerformanceRow)
  BY DEF PerfsWithout
<1>1. perfs[s] \in Seq(PerformanceRow)
  BY DEF TypeOK
<1>2. CASE s \in SidesOf(w)
  BY <1>2 DEF PerfsWithout
<1>3. CASE s \notin SidesOf(w)
  <2> DEFINE row(n) == [perfs[s][n] EXCEPT
                           !.player = IF @ \in gone THEN NoPlayer ELSE @]
  <2>1. \A n \in DOMAIN perfs[s] : row(n) \in PerformanceRow
    <3> SUFFICES ASSUME NEW n \in DOMAIN perfs[s]
                 PROVE  row(n) \in PerformanceRow
      OBVIOUS
    <3>1. perfs[s][n] \in PerformanceRow
      BY <1>1
    <3> QED BY <3>1 DEF PerformanceRow
  <2>2. PerfsWithout(w, gone)[s] = [n \in DOMAIN perfs[s] |-> row(n)]
    BY <1>3 DEF PerfsWithout
  <2>3. DOMAIN perfs[s] = 1..Len(perfs[s]) /\ Len(perfs[s]) \in Nat
    BY <1>1
  <2> QED BY <2>1, <2>2, <2>3
<1> QED BY <1>2, <1>3

LEMMA CommitRollbackType ==
    ASSUME TypeOK, NEW r \in Rollbacks, CommitRollback(r)
    PROVE  TypeOK'
<1>1. r \in Calls /\ rb[r] \in RollbackLocals
  BY DEF Calls, TypeOK
<1>2. CASE Fail(r)
  BY <1>1, <1>2, FailType
<1>3. CASE ~Fail(r)
  <2>1. perfs' \in [Uploads -> Seq(PerformanceRow)]
    BY <1>3, PerfsWithoutType DEF CommitRollback, DeleteWar
  <2>2. /\ wars' \subseteq WarRow /\ sides' \subseteq SideRow
        /\ players' \subseteq PlayerId /\ classes' \subseteq PlayerClass
    BY <1>3 DEF CommitRollback, DeleteWar, TypeOK
  <2>3. profile' \in [PlayerId -> Class \cup {NoClass, NoProfile}]
    BY <1>3 DEF CommitRollback, DeleteWar, TypeOK
  <2>4. games' \in [PlayerClass -> Nat]
    BY <1>3 DEF CommitRollback, DeleteWar, TypeOK
  <2>5. rb' \in [Rollbacks -> RollbackLocals]
    <3> DEFINE l == [rb[r] EXCEPT !.victims = {}, !.locked = {}]
    <3>1. l \in RollbackLocals
      BY <1>1 DEF RollbackLocals
    <3>2. rb' = [rb EXCEPT ![r] = l]
      BY <1>3 DEF CommitRollback, TypeOK
    <3> QED BY <3>1, <3>2 DEF TypeOK
  <2>6. UNCHANGED <<req, up, jobs>> /\ Goto(r, "queue")
        /\ open' = [open EXCEPT ![r] = FALSE]
    BY <1>3 DEF CommitRollback
  <2> QED BY <1>1, <2>1, <2>2, <2>3, <2>4, <2>5, <2>6 DEF TypeOK, Goto, RollbackPc
<1> QED BY <1>2, <1>3

LEMMA QueueResetType ==
    ASSUME TypeOK, NEW r \in Rollbacks, QueueReset(r)
    PROVE  TypeOK'
<1>1. r \in Calls /\ rb[r] \in RollbackLocals
  BY DEF Calls, TypeOK
<1>2. jobs' \in Seq(Job)
  <2>1. [by |-> r, rows |-> rb[r].affected] \in Job
    BY <1>1 DEF RollbackLocals, Job
  <2>2. jobs \in Seq(Job)
    BY DEF TypeOK
  <2> QED BY <2>1, <2>2 DEF QueueReset
<1> QED BY <1>1, <1>2 DEF QueueReset, TypeOK, Goto, tables, RollbackPc

LEMMA NextType == TypeOK /\ [Next]_vars => TypeOK'
<1> SUFFICES ASSUME TypeOK, [Next]_vars
             PROVE  TypeOK'
  OBVIOUS
<1>1. ASSUME NEW u \in Uploads, UploadStep(u)
      PROVE  TypeOK'
  BY <1>1, UploadStepType
<1>2. ASSUME NEW r \in Rollbacks, RollbackStep(r)
      PROVE  TypeOK'
  BY <1>2, RollbackReadType, CommitRollbackType, QueueResetType DEF RollbackStep
<1>3. ASSUME NEW x \in Calls, Interrupt(x)
      PROVE  TypeOK'
  BY <1>3, FailType DEF Interrupt
<1>4. ASSUME NEW x \in Calls, TxTimeout(x)
      PROVE  TypeOK'
  BY <1>4 DEF TxTimeout, TypeOK, tables
<1>5. CASE UNCHANGED vars
  BY <1>5 DEF vars, TypeOK
<1> QED BY <1>1, <1>2, <1>3, <1>4, <1>5 DEF Next, AllEnded

\* Every table, local variable and queue of the war endpoints keeps its type,
\* in particular no count becomes negative.
THEOREM TypeCorrect == Spec => []TypeOK
<1> QED BY InitTypeOK, NextType, PTL DEF Spec

-----------------------------------------------------------------------------
(* The ledger of wars and sides. Most steps leave everything alone that    *)
(* its invariant speaks of, except where their call stands.                *)

Quiet ==
    /\ UNCHANGED <<wars, sides, req>>
    /\ \A v \in Uploads : up'[v].war = up[v].war /\ up'[v].pass = up[v].pass
    /\ \A q \in Rollbacks : rb'[q].war = rb[q].war
    /\ \A v \in Uploads : Stored(v)' => Stored(v)

LEMMA QuietStep ==
    ASSUME LedgerInv, TypeOK', Quiet
    PROVE  WarsInv' /\ TargetsInv' /\ LocksInv' /\ SidesMatchWar'
<1>1. UNCHANGED <<wars, sides, req>>
  BY DEF Quiet
<1>2. WarsInv'
  <2>1. \A w \in wars : w.id \in Uploads
    BY DEF LedgerInv, TypeOK, WarRow
  <2> QED BY <1>1, <2>1 DEF Quiet, LedgerInv, WarsInv
<1>3. TargetsInv'
  <2>1. ASSUME NEW u \in Uploads, up'[u].war # NoWar
        PROVE  /\ up'[up'[u].war].pass = 2
               /\ \A w \in wars' : w.id = up'[u].war => Plays(req'[u], w)
    <3>1. up[u].war \in Uploads
      BY <2>1 DEF Quiet, LedgerInv, TypeOK, UploadLocals
    <3> QED BY <1>1, <2>1, <3>1 DEF Quiet, LedgerInv, TargetsInv
  <2>2. ASSUME NEW q \in Rollbacks, rb'[q].war # NoWar
        PROVE  up'[rb'[q].war].pass = 2
    <3>1. rb[q].war \in Uploads
      BY <2>2 DEF Quiet, LedgerInv, TypeOK, RollbackLocals
    <3> QED BY <2>2, <3>1 DEF Quiet, LedgerInv, TargetsInv
  <2> QED BY <2>1, <2>2 DEF TargetsInv, Plays
<1>4. LocksInv'
  BY <1>1 DEF Quiet, LedgerInv, LocksInv
<1>5. SidesMatchWar'
  BY <1>1 DEF LedgerInv, SidesMatchWar, Plays
<1> QED BY <1>2, <1>3, <1>4, <1>5

\* A call that fails keeps the ledger.
LEMMA FailLedger ==
    ASSUME LedgerInv, TypeOK', NEW x \in Calls, Fail(x)
    PROVE  LedgerInv'
<1>1. Quiet
  BY DEF Fail, Quiet, Stored, tables, LedgerInv, TypeOK, Calls
<1>2. PhasesInv'
  <2> SUFFICES ASSUME NEW v \in Uploads
               PROVE  Phase(v)'
    BY DEF PhasesInv
  <2>1. Phase(v) /\ v \in Calls
    BY DEF LedgerInv, PhasesInv, Calls
  <2> QED BY <2>1 DEF Fail, Phase, LedgerInv, TypeOK, InTx
<1>3. RollbackIsFinal'
  BY CallsAssumption DEF Fail, tables, LedgerInv, RollbackIsFinal, TypeOK, Calls
<1> QED BY <1>1, <1>2, <1>3, QuietStep DEF LedgerInv

\* The steps of an upload that touch neither ledger nor locks
LEMMA QuietUpload ==
    ASSUME LedgerInv, TypeOK', NEW u \in Uploads,
           \/ FindSides(u) \/ ReadPlayers(u) \/ CreatePlayers(u) \/ FetchPlayers(u)
           \/ CreateProfiles(u) \/ InsertPerformances(u) \/ AppendClasses(u)
           \/ CountGames(u) \/ ReadTop(u) \/ SetMain(u)
    PROVE  LedgerInv'
<1>1. CASE Fail(u)
  BY <1>1, FailLedger DEF Calls
<1>2. CASE ~Fail(u)
  <2>1. UNCHANGED <<wars, sides, req, rb, open>>
    BY <1>2 DEF FindSides, ReadPlayers, CreatePlayers, FetchPlayers, CreateProfiles,
       InsertPerformances, AppendClasses, CountGames, ReadTop, SetMain, tables
  <2>2. \A v \in Uploads : up'[v].war = up[v].war /\ up'[v].pass = up[v].pass
    <3>1. up \in [Uploads -> UploadLocals]
      BY DEF LedgerInv, TypeOK
    <3>2. CASE FindSides(u)
      BY <1>2, <3>2 DEF FindSides
    <3>3. CASE ReadPlayers(u) \/ CreatePlayers(u) \/ FetchPlayers(u)
      BY <1>2, <3>1, <3>3 DEF ReadPlayers, CreatePlayers, FetchPlayers, UploadLocals
    <3>4. CASE CreateProfiles(u)
      <4>1. \/ up' = up
            \/ up' = [up EXCEPT ![u].fetched = {}]
            \/ \E res \in Resolutions(u) :
                  up' = [up EXCEPT ![u].resolved = res, ![u].fetched = {}]
        BY <1>2, <3>4 DEF CreateProfiles
      <4>2. ASSUME NEW res \in Resolutions(u),
                   up' = [up EXCEPT ![u].resolved = res, ![u].fetched = {}]
            PROVE  \A v \in Uploads : up'[v].war = up[v].war /\ up'[v].pass = up[v].pass
        BY <3>1, <4>2 DEF UploadLocals
      <4>3. CASE up' = [up EXCEPT ![u].fetched = {}]
        BY <3>1, <4>3 DEF UploadLocals
      <4> QED BY <4>1, <4>2, <4>3
    <3>5. CASE InsertPerformances(u) \/ AppendClasses(u) \/ CountGames(u)
               \/ ReadTop(u) \/ SetMain(u)
      <4> DEFINE p == NextPlayer(u)
      <4>1. \/ up' = up
            \/ up' = [up EXCEPT ![u].todo = Resolved(u)]
            \/ up' = [up EXCEPT ![u].todo = @ \ {p}]
            \/ \E c \in Class : up' = [up EXCEPT ![u].top = c]
            \/ up' = [up EXCEPT ![u].todo = @ \ {p}, ![u].top = NoClass]
        BY <1>2, <3>5 DEF InsertPerformances, AppendClasses, CountGames, ReadTop, SetMain
      <4>2. ASSUME NEW c \in Class, up' = [up EXCEPT ![u].top = c]
            PROVE  \A v \in Uploads : up'[v].war = up[v].war /\ up'[v].pass = up[v].pass
        BY <3>1, <4>2 DEF UploadLocals
      <4> HIDE DEF p
      <4> QED BY <3>1, <4>1, <4>2 DEF UploadLocals
    <3> QED BY <3>2, <3>3, <3>4, <3>5
  <2>3. \A x \in Calls \ {u} : pc'[x] = pc[x]
    BY <1>2 DEF FindSides, ReadPlayers, CreatePlayers, FetchPlayers, CreateProfiles,
       InsertPerformances, AppendClasses, CountGames, ReadTop, SetMain, Goto,
       LedgerInv, TypeOK
  <2>4. Phase(u)'
    <3>1. Phase(u) /\ u \in Calls
      BY DEF LedgerInv, PhasesInv, Calls
    <3>2. up'[u].pass = up[u].pass /\ open'[u] = open[u] /\ req' = req
      BY <2>1, <2>2
    <3>3. DOMAIN pc = Calls
      BY DEF LedgerInv, TypeOK
    <3>4. CASE FindSides(u) \/ ReadPlayers(u) \/ CreatePlayers(u) \/ FetchPlayers(u)
      BY <1>2, <3>1, <3>2, <3>3, <3>4 DEF FindSides, ReadPlayers, CreatePlayers,
         FetchPlayers, At, Goto, Phase, InTx
    <3>5. CASE CreateProfiles(u)
      <4>1. /\ pc[u] = "profiles"
            /\ \/ Goto(u, "failed") \/ Goto(u, "done")
               \/ Goto(u, "begin") /\ up[u].pass = 1
        BY <1>2, <3>5 DEF CreateProfiles, At
      <4> QED BY <3>1, <3>2, <3>3, <4>1 DEF Goto, Phase, InTx
    <3>6. CASE InsertPerformances(u) \/ AppendClasses(u) \/ CountGames(u)
               \/ ReadTop(u) \/ SetMain(u)
      <4>1. pc[u] \in InTx /\ pc'[u] \in InTx
        BY <1>2, <3>1, <3>3, <3>6 DEF InsertPerformances, AppendClasses, CountGames,
           ReadTop, SetMain, At, Goto, InTx
      <4> QED BY <3>1, <3>2, <4>1 DEF Phase, InTx
    <3> QED BY <3>4, <3>5, <3>6
  <2>5. Quiet
    <3>1. pc[u] # "side"
      BY DEF FindSides, ReadPlayers, CreatePlayers, FetchPlayers, CreateProfiles,
         InsertPerformances, AppendClasses, CountGames, ReadTop, SetMain, At
    <3> QED BY <2>1, <2>2, <2>3, <3>1 DEF Quiet, Stored, Calls
  <2>6. PhasesInv'
    BY <2>1, <2>2, <2>3, <2>4 DEF LedgerInv, PhasesInv, Phase, Calls
  <2>7. RollbackIsFinal'
    BY <2>1, <2>3, CallsAssumption DEF LedgerInv, RollbackIsFinal, Calls
  <2> QED BY <2>5, <2>6, <2>7, QuietStep DEF LedgerInv
<1> QED BY <1>1, <1>2

\* An upload that arrives may set its sights on a stored war.
LEMMA FindWarLedger ==
    ASSUME LedgerInv, TypeOK', NEW u \in Uploads, FindWar(u)
    PROVE  LedgerInv'
<1>1. u \in Calls /\ DOMAIN pc = Calls /\ Phase(u) /\ pc[u] = "idle"
      /\ up \in [Uploads -> UploadLocals]
  BY DEF LedgerInv, PhasesInv, TypeOK, Calls, FindWar, At
<1>2. CASE Fail(u)
  BY <1>1, <1>2, FailLedger
<1>3. CASE ~Fail(u)
  <2>1. /\ UNCHANGED <<wars, sides, req, rb, open>>
        /\ req[u].company # req[u].opponent
        /\ \/ Goto(u, "players") /\ up' = up
           \/ /\ Goto(u, "sides")
              /\ \E w \in wars : /\ ~Rejects(w, req[u])
                                 /\ up' = [up EXCEPT ![u].war = w.id]
    BY <1>3 DEF FindWar, tables
  <2>2. UNCHANGED <<wars, sides, req, rb, open>>
    BY <2>1
  <2>3. /\ pc'[u] \in {"players", "sides"}
        /\ \A x \in Calls \ {u} : pc'[x] = pc[x]
    <3>1. Goto(u, "players") \/ Goto(u, "sides")
      BY <2>1
    <3> QED BY <1>1, <3>1 DEF Goto
  <2>4. ~open[u]
    BY <1>1 DEF Phase, InTx
  <2>5. \A v \in Uploads : /\ up'[v].pass = up[v].pass
                           /\ v # u => up'[v].war = up[v].war
    BY <1>1, <2>1 DEF UploadLocals
  <2>6. PhasesInv'
    <3>1. Phase(u)'
      BY <2>1, <2>4, <2>2, <2>3 DEF Phase, InTx
    <3>2. ASSUME NEW v \in Uploads \ {u}
          PROVE  Phase(v)'
      <4>1. Phase(v)
        BY DEF LedgerInv, PhasesInv
      <4>2. /\ pc'[v] = pc[v] /\ open'[v] = open[v] /\ req'[v] = req[v]
            /\ up'[v].pass = up[v].pass
        BY <2>5, <2>2, <2>3 DEF Calls
      <4> QED BY <4>1, <4>2 DEF Phase
    <3> QED BY <3>1, <3>2 DEF PhasesInv
  <2>7. RollbackIsFinal'
    BY <2>2, <2>3, CallsAssumption DEF LedgerInv, RollbackIsFinal, Calls
  <2>8. CASE up' = up
    <3>1. \A v \in Uploads : Stored(v)' => Stored(v)
      BY <2>2, <2>3, <2>4 DEF Stored, Calls
    <3> QED BY <2>1, <2>6, <2>7, <2>8, <3>1, QuietStep DEF Quiet, LedgerInv
  <2>9. CASE \E w \in wars : /\ ~Rejects(w, req[u])
                             /\ up' = [up EXCEPT ![u].war = w.id]
    <3>1. PICK w \in wars : /\ ~Rejects(w, req[u])
                            /\ up' = [up EXCEPT ![u].war = w.id]
      BY <2>9
    <3>2. w.id \in Uploads /\ w \in WarRow /\ req[u].type \in Role
      BY RequestsAssumption DEF LedgerInv, TypeOK, WarRow, Request
    <3>3. up'[u].war = w.id
      BY <1>1, <3>1, <3>2 DEF UploadLocals
    <3>4. Plays(req[u], w)
      BY <3>1, <3>2 DEF Rejects, Involves, OpponentRole, Plays, Role
    <3>5. WarsInv'
      <4>1. \A x \in wars : x.id \in Uploads
        BY DEF LedgerInv, TypeOK, WarRow
      <4> QED BY <2>1, <2>5, <4>1 DEF LedgerInv, WarsInv
    <3>6. TargetsInv'
      <4>1. up'[w.id].pass = 2
        BY <2>5, <3>2 DEF LedgerInv, WarsInv
      <4>2. \A x \in wars : x.id = w.id => Plays(req[u], x)
        BY <3>4 DEF LedgerInv, WarsInv
      <4>3. ASSUME NEW v \in Uploads \ {u}, up'[v].war # NoWar
            PROVE  /\ up'[up'[v].war].pass = 2
                   /\ \A x \in wars : x.id = up'[v].war => Plays(req[v], x)
        <5>1. up[v].war \in Uploads /\ up'[v].war = up[v].war
          BY <1>1, <2>5, <4>3 DEF UploadLocals
        <5> QED BY <2>5, <4>3, <5>1 DEF LedgerInv, TargetsInv
      <4>4. ASSUME NEW q \in Rollbacks, rb'[q].war # NoWar
            PROVE  up'[rb'[q].war].pass = 2
        <5>1. rb[q].war \in Uploads
          BY <2>1, <4>4 DEF LedgerInv, TypeOK, RollbackLocals
        <5> QED BY <2>1, <2>5, <4>4, <5>1 DEF LedgerInv, TargetsInv
      <4> QED BY <2>1, <3>3, <4>1, <4>2, <4>3, <4>4 DEF TargetsInv, Plays
    <3>7. LocksInv'
      <4>1. \A v \in Uploads : Stored(v)' => v # u /\ Stored(v)
        BY <2>2, <2>3, <2>4 DEF Stored, Calls
      <4> QED BY <2>1, <2>5, <4>1 DEF LedgerInv, LocksInv
    <3>8. SidesMatchWar'
      BY <2>1 DEF LedgerInv, SidesMatchWar, Plays
    <3> QED BY <2>6, <2>7, <3>5, <3>6, <3>7, <3>8 DEF LedgerInv
  <2> QED BY <2>1, <2>8, <2>9
<1> QED BY <1>2, <1>3

\* BEGIN holds nothing but a connection.
LEMMA BeginTxLedger ==
    ASSUME LedgerInv, TypeOK', NEW u \in Uploads, BeginTx(u)
    PROVE  LedgerInv'
<1>1. u \in Calls /\ DOMAIN pc = Calls /\ DOMAIN open = Calls
      /\ Phase(u) /\ pc[u] = "begin"
  BY DEF LedgerInv, PhasesInv, TypeOK, Calls, BeginTx, At
<1>2. /\ UNCHANGED <<wars, sides, req, up, rb>>
      /\ open' = [open EXCEPT ![u] = TRUE]
      /\ Goto(u, "side")
  BY DEF BeginTx, tables
<1>3. Quiet
  BY <1>1, <1>2 DEF Quiet, Stored, Goto, Calls
<1>4. PhasesInv'
  <2>1. Phase(u)'
    BY <1>1, <1>2 DEF Goto, Phase, InTx
  <2>2. \A v \in Uploads \ {u} : Phase(v)'
    BY <1>1, <1>2 DEF Goto, Phase, LedgerInv, PhasesInv, Calls
  <2> QED BY <2>1, <2>2 DEF PhasesInv
<1>5. RollbackIsFinal'
  BY <1>1, <1>2, CallsAssumption DEF LedgerInv, RollbackIsFinal, Goto, Calls
<1> QED BY <1>3, <1>4, <1>5, QuietStep DEF LedgerInv

\* The side of an upload is inserted under the constraints of WarSide.
LEMMA InsertSideLedger ==
    ASSUME LedgerInv, TypeOK', NEW u \in Uploads, InsertSide(u)
    PROVE  LedgerInv'
<1>1. u \in Calls /\ DOMAIN pc = Calls /\ DOMAIN open = Calls
      /\ Phase(u) /\ pc[u] = "side"
  BY DEF LedgerInv, PhasesInv, TypeOK, Calls, InsertSide, At
<1>2. CASE Fail(u)
  BY <1>1, <1>2, FailLedger
<1>3. CASE ~Fail(u)
  <2>1. /\ UNCHANGED <<wars, sides, req, up, rb, open>>
        /\ open[u] /\ Goto(u, "rows")
    BY <1>3 DEF InsertSide, tables
  <2>2. \/ up[u].war = NoWar /\ {req[u].company, req[u].opponent} \subseteq Company
        \/ up[u].war # NoWar /\ ~SideContended(u) /\ ~AttachRefused(u)
    BY <1>3, <2>1 DEF InsertSide, SideRefused
  <2>3. PhasesInv'
    <3>1. Phase(u)'
      BY <1>1, <2>1 DEF Goto, Phase, InTx
    <3>2. \A v \in Uploads \ {u} : Phase(v)'
      BY <1>1, <2>1 DEF Goto, Phase, LedgerInv, PhasesInv, Calls
    <3> QED BY <3>1, <3>2 DEF PhasesInv
  <2>4. RollbackIsFinal'
    BY <1>1, <2>1, CallsAssumption DEF LedgerInv, RollbackIsFinal, Goto, Calls
  <2>5. WarsInv' /\ TargetsInv' /\ SidesMatchWar'
    BY <2>1 DEF LedgerInv, WarsInv, TargetsInv, SidesMatchWar, Plays
  <2>6. LocksInv'
    <3>1. \A v \in Uploads \ {u} : Stored(v)' = Stored(v)
      BY <1>1, <2>1 DEF Stored, Goto, Calls
    <3>2. \A v \in Uploads \ {u} : Stored(v) /\ up[v].war = up[u].war /\ up[u].war # NoWar
                                     => req[v].type # req[u].type
      BY <2>2 DEF SideContended, Stored
    <3> QED BY <2>1, <2>2, <3>1, <3>2 DEF AttachRefused, LedgerInv, LocksInv
  <2> QED BY <2>3, <2>4, <2>5, <2>6 DEF LedgerInv
<1> QED BY <1>2, <1>3

\* A commit adds the upload's side, to a war that is there or comes with it.
LEMMA CommitLedger ==
    ASSUME LedgerInv, TypeOK', NEW u \in Uploads, Commit(u)
    PROVE  LedgerInv'
<1>1. u \in Calls /\ DOMAIN pc = Calls /\ DOMAIN open = Calls
      /\ Phase(u) /\ pc[u] = "commit" /\ up \in [Uploads -> UploadLocals]
  BY DEF LedgerInv, PhasesInv, TypeOK, Calls, Commit, At
<1>2. CASE Fail(u)
  BY <1>1, <1>2, FailLedger
<1>3. CASE ~Fail(u)
  <2>1. /\ open[u] /\ Stored(u)
        /\ wars' = wars \cup (IF up[u].war = NoWar THEN {NewWar(u)} ELSE {})
        /\ sides' = sides \cup {NewSide(u)}
        /\ open' = [open EXCEPT ![u] = FALSE]
        /\ up' = [up EXCEPT ![u] = [NoLocals EXCEPT !.pass = 2]]
        /\ Goto(u, "players")
        /\ UNCHANGED <<req, rb>>
    BY <1>1, <1>3 DEF Commit, Stored
  <2>2. up[u].pass = 1 /\ req[u].company # req[u].opponent /\ req[u].type \in Role
        /\ req[u] \in Request
    BY <1>1, RequestsAssumption DEF Phase, InTx, LedgerInv, TypeOK, Request
  <2>3. /\ up'[u].pass = 2 /\ up'[u].war = NoWar
        /\ \A v \in Uploads \ {u} : up'[v] = up[v]
    BY <1>1, <2>1 DEF NoLocals
  <2>4. \A v \in Uploads : up[v].pass = 2 => up'[v].pass = 2
    BY <2>3
  <2>5. PhasesInv'
    <3>1. Phase(u)'
      BY <1>1, <2>1, <2>2 DEF Goto, Phase, InTx
    <3>2. ASSUME NEW v \in Uploads \ {u}
          PROVE  Phase(v)'
      <4>1. Phase(v) /\ v \in Calls
        BY DEF LedgerInv, PhasesInv, Calls
      <4>2. pc'[v] = pc[v] /\ open'[v] = open[v] /\ req'[v] = req[v] /\ up'[v] = up[v]
        BY <1>1, <2>1, <2>3, <4>1 DEF Goto
      <4> QED BY <4>1, <4>2 DEF Phase
    <3> QED BY <3>1, <3>2 DEF PhasesInv
  <2>6. \A w \in wars : w.id # u /\ w.id \in Uploads
    BY <2>2 DEF LedgerInv, WarsInv, TypeOK, WarRow
  <2>7. \A s \in sides : s.war # u /\ s.war \in Uploads
    BY <2>6 DEF LedgerInv, SidesMatchWar
  <2>8. NewWar(u).id = u /\ NewSide(u).war = WarOf(u) /\ NewSide(u).type = req[u].type
        /\ Plays(NewSide(u), NewWar(u)) /\ NewSide(u).company = req[u].company
    BY <2>2 DEF NewWar, NewSide, Plays, Role
  <2>9. WarsInv'
    <3>1. \A w \in wars' : w \in wars \/ w = NewWar(u)
      BY <2>1
    <3>2. \A w \in wars' : up'[w.id].pass = 2
      BY <2>3, <2>4, <2>6, <2>8, <3>1 DEF LedgerInv, WarsInv
    <3>3. \A v, w \in wars' : v.id = w.id => v = w
      BY <2>6, <2>8, <3>1 DEF LedgerInv, WarsInv
    <3> QED BY <3>2, <3>3 DEF WarsInv
  <2>10. TargetsInv'
    <3>1. ASSUME NEW v \in Uploads, up'[v].war # NoWar
          PROVE  /\ up'[up'[v].war].pass = 2
                 /\ \A w \in wars' : w.id = up'[v].war => Plays(req[v], w)
      <4>1. v # u /\ up'[v].war = up[v].war /\ up[v].war \in Uploads
        BY <1>1, <2>3, <3>1 DEF UploadLocals
      <4>2. up[v].war # u
        BY <2>2, <3>1, <4>1 DEF LedgerInv, TargetsInv
      <4> QED BY <2>1, <2>4, <2>8, <3>1, <4>1, <4>2 DEF LedgerInv, TargetsInv
    <3>2. ASSUME NEW q \in Rollbacks, rb'[q].war # NoWar
          PROVE  up'[rb'[q].war].pass = 2
      <4>1. rb[q].war \in Uploads /\ rb'[q] = rb[q]
        BY <2>1, <3>2 DEF LedgerInv, TypeOK, RollbackLocals
      <4> QED BY <2>4, <3>2, <4>1 DEF LedgerInv, TargetsInv
    <3> QED BY <2>1, <3>1, <3>2 DEF TargetsInv, Plays
  <2>11. \A v \in Uploads : Stored(v)' => v # u /\ Stored(v) /\ up'[v] = up[v]
    BY <1>1, <2>1, <2>3 DEF Stored, Goto, Calls
  <2>12. LocksInv'
    <3>1. ASSUME NEW v \in Uploads, Stored(v)', up'[v].war = NoWar
          PROVE  {req'[v].company, req'[v].opponent} \subseteq Company
      BY <2>1, <2>11, <3>1 DEF LedgerInv, LocksInv
    <3>2. ASSUME NEW v \in Uploads, Stored(v)', up'[v].war # NoWar
          PROVE  /\ \E w \in wars' : w.id = up'[v].war
                 /\ ~\E s \in sides' : s.war = up'[v].war /\ s.type = req'[v].type
      <4>1. v # u /\ Stored(v) /\ up'[v] = up[v] /\ up[v].war # NoWar
        BY <2>11, <3>2
      <4>2. PICK w \in wars : w.id = up[v].war
        BY <4>1 DEF LedgerInv, LocksInv
      <4>3. ~(NewSide(u).war = up[v].war /\ NewSide(u).type = req[v].type)
        <5>1. CASE up[u].war = NoWar
          BY <2>6, <2>8, <4>2, <5>1 DEF WarOf
        <5>2. CASE up[u].war # NoWar
          BY <2>1, <2>8, <4>1, <5>2 DEF WarOf, LedgerInv, LocksInv
        <5> QED BY <5>1, <5>2
      <4>4. ~\E s \in sides : s.war = up[v].war /\ s.type = req[v].type
        BY <4>1 DEF LedgerInv, LocksInv
      <4> QED BY <2>1, <4>1, <4>2, <4>3, <4>4
    <3>3. ASSUME NEW v \in Uploads, NEW x \in Uploads, Stored(v)', Stored(x)',
                 up'[v].war = up'[x].war, up'[v].war # NoWar, req'[v].type = req'[x].type
          PROVE  v = x
      BY <2>1, <2>11, <3>3 DEF LedgerInv, LocksInv
    <3> QED BY <3>1, <3>2, <3>3 DEF LocksInv
  <2>13. SidesMatchWar'
    <3>1. \A w \in wars' : {w.attacker, w.defender} \subseteq Company
                           /\ w.attacker # w.defender
      <4>1. up[u].war = NoWar => {req[u].company, req[u].opponent} \subseteq Company
        BY <2>1 DEF LedgerInv, LocksInv
      <4>2. up[u].war = NoWar => {NewWar(u).attacker, NewWar(u).defender} \subseteq Company
                                 /\ NewWar(u).attacker # NewWar(u).defender
        BY <2>2, <4>1 DEF NewWar
      <4> QED BY <2>1, <4>2 DEF LedgerInv, SidesMatchWar
    <3>2. \E w \in wars' : w.id = NewSide(u).war /\ Plays(NewSide(u), w)
      <4>1. CASE up[u].war = NoWar
        BY <2>1, <2>8, <4>1 DEF WarOf
      <4>2. CASE up[u].war # NoWar
        <5>1. PICK w \in wars : w.id = up[u].war
          BY <2>1, <4>2 DEF LedgerInv, LocksInv
        <5>2. Plays(req[u], w)
          BY <4>2, <5>1 DEF LedgerInv, TargetsInv
        <5> QED BY <2>1, <2>8, <4>2, <5>1, <5>2 DEF WarOf, Plays
      <4> QED BY <4>1, <4>2
    <3>3. \A s \in sides : \E w \in wars' : w.id = s.war /\ Plays(s, w)
      BY <2>1 DEF LedgerInv, SidesMatchWar
    <3>4. \A s \in sides : ~(s.war = NewSide(u).war /\ s.type = NewSide(u).type)
      BY <2>1, <2>7, <2>8 DEF WarOf, LedgerInv, LocksInv
    <3>5. \A s, t \in sides' : s.war = t.war /\ s.type = t.type => s = t
      BY <2>1, <3>4 DEF LedgerInv, SidesMatchWar
    <3> QED BY <2>1, <3>1, <3>2, <3>3, <3>5 DEF SidesMatchWar, Plays
  <2>14. RollbackIsFinal'
    <3> SUFFICES ASSUME NEW q \in Rollbacks, pc'[q] \in {"queue", "done"}
                 PROVE  /\ ~\E w \in wars' : w.id = rb'[q].war
                        /\ ~\E s \in sides' : s.war = rb'[q].war
      BY DEF RollbackIsFinal
    <3>1. pc[q] \in {"queue", "done"} /\ rb'[q] = rb[q]
      BY <1>1, <2>1, CallsAssumption DEF Goto, Calls
    <3>2. /\ ~\E w \in wars : w.id = rb[q].war
          /\ ~\E s \in sides : s.war = rb[q].war
      BY <3>1 DEF LedgerInv, RollbackIsFinal
    <3>3. rb[q].war # u
      <4>1. CASE rb[q].war = NoWar
        BY <4>1, FreshAssumption
      <4>2. CASE rb[q].war # NoWar
        BY <2>2, <4>2 DEF LedgerInv, TargetsInv
      <4> QED BY <4>1, <4>2
    <3>4. WarOf(u) # rb[q].war
      BY <2>1, <3>2, <3>3 DEF WarOf, LedgerInv, LocksInv
    <3> QED BY <2>1, <2>8, <3>1, <3>2, <3>3, <3>4
  <2> QED BY <2>5, <2>9, <2>10, <2>12, <2>13, <2>14 DEF LedgerInv
<1> QED BY <1>2, <1>3

\* A step of a rollback other than its commit
LEMMA RollbackReadLedger ==
    ASSUME LedgerInv, TypeOK', NEW r \in Rollbacks,
           FindTarget(r) \/ ReadAffected(r) \/ GatherPlayers(r) \/ DeleteProfiles(r)
           \/ QueueReset(r)
    PROVE  LedgerInv'
<1>1. r \in Calls /\ r \notin Uploads /\ DOMAIN pc = Calls /\ DOMAIN open = Calls
      /\ rb \in [Rollbacks -> RollbackLocals]
  BY CallsAssumption DEF LedgerInv, TypeOK, Calls
<1>2. CASE Fail(r)
  BY <1>1, <1>2, FailLedger
<1>3. CASE ~Fail(r)
  <2>1. UNCHANGED <<wars, sides, req, up>>
    BY <1>3 DEF FindTarget, ReadAffected, GatherPlayers, DeleteProfiles, QueueReset,
       tables
  <2>2. \A v \in Uploads : pc'[v] = pc[v] /\ open'[v] = open[v]
    BY <1>1, <1>3 DEF FindTarget, ReadAffected, GatherPlayers, DeleteProfiles,
       QueueReset, Goto, Calls
  <2>3. PhasesInv'
    BY <2>1, <2>2 DEF LedgerInv, PhasesInv, Phase
  <2>4. \A q \in Rollbacks \ {r} : pc'[q] = pc[q] /\ rb'[q] = rb[q]
    BY <1>1, <1>3 DEF FindTarget, ReadAffected, GatherPlayers, DeleteProfiles,
       QueueReset, Goto, Calls
  <2>5. CASE FindTarget(r)
    <3>1. PICK w \in wars : w.id \in Uploads /\ rb' = [rb EXCEPT ![r].war = w.id]
                            /\ Goto(r, "affected")
      BY <1>3, <2>5 DEF FindTarget
    <3>2. rb'[r].war = w.id /\ pc'[r] = "affected"
      BY <1>1, <3>1 DEF Goto, RollbackLocals
    <3>3. WarsInv' /\ SidesMatchWar'
      BY <2>1 DEF LedgerInv, WarsInv, SidesMatchWar, Plays
    <3>4. LocksInv'
      BY <2>1, <2>2 DEF LedgerInv, LocksInv, Stored
    <3>5. TargetsInv'
      <4>1. up[w.id].pass = 2
        BY DEF LedgerInv, WarsInv
      <4> QED BY <2>1, <2>4, <3>2, <4>1 DEF LedgerInv, TargetsInv, Plays
    <3>6. RollbackIsFinal'
      BY <2>1, <2>4, <3>2 DEF LedgerInv, RollbackIsFinal
    <3> QED BY <2>3, <3>3, <3>4, <3>5, <3>6 DEF LedgerInv
  <2>6. CASE ~FindTarget(r)
    <3>1. rb'[r].war = rb[r].war
      <4>1. CASE ReadAffected(r)
        BY <1>1, <4>1 DEF ReadAffected, RollbackLocals
      <4>2. CASE GatherPlayers(r)
        BY <1>1, <4>2 DEF GatherPlayers, RollbackLocals
      <4>3. CASE DeleteProfiles(r)
        BY <1>1, <1>3, <4>3 DEF DeleteProfiles, RollbackLocals
      <4>4. CASE QueueReset(r)
        BY <4>4 DEF QueueReset
      <4> QED BY <2>6, <4>1, <4>2, <4>3, <4>4
    <3>2. Quiet
      BY <2>1, <2>2, <2>4, <3>1 DEF Quiet, Stored
    <3>3. pc'[r] \in {"queue", "done"} => pc[r] \in {"queue", "done"}
      BY <1>1, <1>3, <2>6 DEF ReadAffected, GatherPlayers, DeleteProfiles,
         QueueReset, Goto
    <3>4. RollbackIsFinal'
      BY <2>1, <2>4, <3>1, <3>3 DEF LedgerInv, RollbackIsFinal
    <3> QED BY <2>3, <3>2, <3>4, QuietStep DEF LedgerInv
  <2> QED BY <2>5, <2>6
<1> QED BY <1>2, <1>3

\* The commit of a rollback removes the war with its sides; no open upload
\* holds it.
LEMMA CommitRollbackLedger ==
    ASSUME LedgerInv, TypeOK', NEW r \in Rollbacks, CommitRollback(r)
    PROVE  LedgerInv'
<1>1. r \in Calls /\ r \notin Uploads /\ DOMAIN pc = Calls /\ DOMAIN open = Calls
      /\ rb \in [Rollbacks -> RollbackLocals]
  BY CallsAssumption DEF LedgerInv, TypeOK, Calls
<1>2. CASE Fail(r)
  BY <1>1, <1>2, FailLedger
<1>3. CASE ~Fail(r)
  <2>1. /\ wars' = {w \in wars : w.id # rb[r].war}
        /\ sides' = {s \in sides : s.war # rb[r].war}
        /\ UNCHANGED <<req, up>>
        /\ ~HeldByUpload(r)
    BY <1>3 DEF CommitRollback, DeleteWar
  <2>2. \A v \in Uploads : pc'[v] = pc[v] /\ open'[v] = open[v]
    BY <1>1, <1>3 DEF CommitRollback, Goto, Calls
  <2>3. /\ rb'[r].war = rb[r].war
        /\ \A q \in Rollbacks \ {r} : rb'[q] = rb[q] /\ pc'[q] = pc[q]
    BY <1>1, <1>3 DEF CommitRollback, Goto, RollbackLocals, Calls
  <2>4. PhasesInv'
    BY <2>1, <2>2 DEF LedgerInv, PhasesInv, Phase
  <2>5. WarsInv' /\ TargetsInv'
    BY <2>1, <2>3 DEF LedgerInv, WarsInv, TargetsInv, Plays
  <2>6. LocksInv'
    <3>1. \A v \in Uploads : Stored(v) => up[v].war # rb[r].war
      BY <2>1 DEF HeldByUpload, Stored
    <3>2. \A v \in Uploads : Stored(v)' = Stored(v)
      BY <2>2 DEF Stored
    <3> QED BY <2>1, <3>1, <3>2 DEF LedgerInv, LocksInv
  <2>7. SidesMatchWar'
    BY <2>1 DEF LedgerInv, SidesMatchWar, Plays
  <2>8. RollbackIsFinal'
    BY <2>1, <2>3 DEF LedgerInv, RollbackIsFinal
  <2> QED BY <2>4, <2>5, <2>6, <2>7, <2>8 DEF LedgerInv
<1> QED BY <1>2, <1>3

LEMMA TxTimeoutLedger ==
    ASSUME LedgerInv, TypeOK', NEW x \in Calls, TxTimeout(x)
    PROVE  LedgerInv'
<1>1. UNCHANGED <<wars, sides, req, pc, up, rb>>
  BY DEF TxTimeout, tables
<1>2. \A v \in Calls : open'[v] => open[v]
  BY DEF TxTimeout, LedgerInv, TypeOK
<1>3. Quiet
  BY <1>1, <1>2 DEF Quiet, Stored, Calls
<1>4. PhasesInv'
  BY <1>1, <1>2 DEF LedgerInv, PhasesInv, Phase, Calls
<1>5. RollbackIsFinal'
  BY <1>1 DEF LedgerInv, RollbackIsFinal
<1> QED BY <1>3, <1>4, <1>5, QuietStep DEF LedgerInv

LEMMA InitLedger == Init => LedgerInv
<1> SUFFICES ASSUME Init
             PROVE  LedgerInv
  OBVIOUS
<1>1. TypeOK
  BY InitTypeOK
<1>2. PhasesInv
  BY DEF Init, PhasesInv, Phase, InTx, Calls
<1>3. WarsInv /\ SidesMatchWar /\ LocksInv
  BY DEF Init, WarsInv, SidesMatchWar, LocksInv, Stored, Calls
<1>4. TargetsInv
  BY DEF Init, TargetsInv, NoLocals
<1>5. RollbackIsFinal
  BY DEF Init, RollbackIsFinal, Calls
<1> QED BY <1>1, <1>2, <1>3, <1>4, <1>5 DEF LedgerInv

LEMMA NextLedger == LedgerInv /\ [Next]_vars => LedgerInv'
<1> SUFFICES ASSUME LedgerInv, [Next]_vars
             PROVE  LedgerInv'
  OBVIOUS
<1>1. TypeOK'
  BY NextType DEF LedgerInv
<1>2. ASSUME NEW u \in Uploads, UploadStep(u)
      PROVE  LedgerInv'
  BY <1>1, <1>2, FindWarLedger, QuietUpload, BeginTxLedger, InsertSideLedger,
     CommitLedger DEF UploadStep
<1>3. ASSUME NEW r \in Rollbacks, RollbackStep(r)
      PROVE  LedgerInv'
  BY <1>1, <1>3, RollbackReadLedger, CommitRollbackLedger DEF RollbackStep
<1>4. ASSUME NEW x \in Calls, Interrupt(x) \/ TxTimeout(x)
      PROVE  LedgerInv'
  BY <1>1, <1>4, FailLedger, TxTimeoutLedger DEF Interrupt
<1>5. CASE UNCHANGED vars
  <2>1. Quiet
    BY <1>5 DEF vars, Quiet, Stored
  <2>2. PhasesInv' /\ RollbackIsFinal'
    BY <1>5 DEF vars, LedgerInv, PhasesInv, Phase, RollbackIsFinal
  <2> QED BY <1>1, <2>1, <2>2, QuietStep DEF LedgerInv
<1> QED BY <1>2, <1>3, <1>4, <1>5 DEF Next, AllEnded

LEMMA LedgerInvariant == Spec => []LedgerInv
<1> QED BY InitLedger, NextLedger, PTL DEF Spec

\* However uploads, rollbacks and failures interleave, every side belongs to a
\* stored war between registered companies, is played by the company that has
\* its role there, and no role of a war is played twice.
THEOREM SidesAlwaysMatch == Spec => []SidesMatchWar
<1>1. LedgerInv => SidesMatchWar
  BY DEF LedgerInv
<1> QED BY <1>1, LedgerInvariant, PTL

\* Once a rollback has committed, neither its war nor a side of it comes back,
\* not even from an upload that had read the war before.
THEOREM RollbackStaysFinal == Spec => []RollbackIsFinal
<1>1. LedgerInv => RollbackIsFinal
  BY DEF LedgerInv
<1> QED BY <1>1, LedgerInvariant, PTL

-----------------------------------------------------------------------------
(*****************************************************************************)
(* The war endpoints implement the ledger of WarLedger.                      *)
(*****************************************************************************)

\* A call whose background job is queued has come to its end.
JobsInv == \A n \in DOMAIN jobs : pc[jobs[n].by] = "done"

\* By whom the background jobs were queued
Queued == [n \in DOMAIN jobs |-> jobs[n].by]

\* The ledger sees nothing of a step.
Unseen == /\ UNCHANGED <<wars, sides, jobs>>
          /\ Entered' = Entered /\ Due' = Due

LEMMA UnseenStutters == Unseen => UNCHANGED Ledger!vars
  BY DEF Unseen, Ledger!vars

-----------------------------------------------------------------------------
(* What a step leaves alone. *)

\* A call moves on without writing, and does not end.
LEMMA MoveUnseen ==
    ASSUME TypeOK, NEW x \in Calls, NEW label,
           Goto(x, label), label \notin Ended \cup {"queue"},
           pc[x] \notin Ended \cup {"queue"},
           UNCHANGED <<wars, sides, jobs>>,
           \A u \in Uploads : up'[u].pass = up[u].pass
    PROVE  Unseen
<1>1. DOMAIN pc = Calls
  BY DEF TypeOK
<1>2. Entered' = Entered
  BY DEF Entered
<1>3. Due' = Due
  BY <1>1, <1>2 DEF Due, Goto, Entered, Calls
<1> QED BY <1>2, <1>3 DEF Unseen

\* A call that ends takes itself off the list of those whose job is to come, and
\* may queue its job as it does.
LEMMA EndQueues ==
    ASSUME TypeOK, NEW x \in Calls, NEW label \in Ended, NEW rows,
           Goto(x, label), pc[x] \notin Ended,
           UNCHANGED <<wars, sides>>, \A u \in Uploads : up'[u].pass = up[u].pass,
           jobs' = jobs \/ (x \in Due /\ jobs' = Append(jobs, [by |-> x, rows |-> rows]))
    PROVE  IF x \in Due THEN Ledger!Queue(x) ELSE Unseen
<1>1. DOMAIN pc = Calls /\ jobs \in Seq(Job)
  BY DEF TypeOK
<1>2. Entered' = Entered
  BY DEF Entered
<1>3. Due' = Due \ {x}
  BY <1>1, <1>2, CallsAssumption DEF Due, Goto, Entered, Calls, Ended
<1>4. CASE x \notin Due
  BY <1>2, <1>3, <1>4 DEF Unseen
<1>5. CASE x \in Due
  <2>1. Queued' \in {Queued, Append(Queued, x)}
    <3>1. CASE jobs' = jobs
      BY <3>1 DEF Queued
    <3>2. CASE jobs' = Append(jobs, [by |-> x, rows |-> rows])
      <4>1. /\ Len(jobs) \in Nat /\ DOMAIN jobs = 1..Len(jobs)
            /\ DOMAIN jobs' = 1..(Len(jobs) + 1)
            /\ \A n \in 1..Len(jobs) : jobs'[n] = jobs[n]
            /\ jobs'[Len(jobs) + 1] = [by |-> x, rows |-> rows]
        BY <1>1, <3>2
      <4>2. Queued \in Seq(Calls)
        <5>1. \A n \in DOMAIN jobs : jobs[n].by \in Calls
          <6>1. \A n \in 1..Len(jobs) : jobs[n] \in Job
            BY <1>1, ElementOfSeq
          <6> QED BY <4>1, <6>1 DEF Job
        <5> QED BY <4>1, <5>1 DEF Queued
      <4>3. Len(Queued) = Len(jobs)
        BY <4>1, <4>2 DEF Queued
      <4>4. /\ Append(Queued, x) \in Seq(Calls)
            /\ Len(Append(Queued, x)) = Len(jobs) + 1
            /\ \A n \in 1..Len(jobs) : Append(Queued, x)[n] = jobs[n].by
            /\ Append(Queued, x)[Len(jobs) + 1] = x
        BY <4>1, <4>2, <4>3 DEF Queued
      <4>5. Queued' = Append(Queued, x)
        <5>1. Queued' = [n \in 1..(Len(jobs) + 1) |-> jobs'[n].by]
          BY <4>1 DEF Queued
        <5>2. Append(Queued, x) = [n \in 1..(Len(jobs) + 1) |-> Append(Queued, x)[n]]
          BY <4>4, LenProperties
        <5>3. \A n \in 1..(Len(jobs) + 1) : jobs'[n].by = Append(Queued, x)[n]
          BY <4>1, <4>4
        <5> QED BY <5>1, <5>2, <5>3
      <4> QED BY <4>5
    <3> QED BY <3>1, <3>2
  <2> QED BY <1>2, <1>3, <1>5, <2>1 DEF Ledger!Queue, Queued
<1> QED BY <1>4, <1>5

LEMMA FailQueues ==
    ASSUME TypeOK, NEW x \in Calls, Fail(x), pc[x] \notin Ended
    PROVE  IF x \in Due THEN Ledger!Queue(x) ELSE Unseen
<1>1. /\ Goto(x, "failed") /\ UNCHANGED <<wars, sides>> /\ jobs' = jobs
      /\ \A u \in Uploads : up'[u].pass = up[u].pass
  BY DEF Fail, Goto, tables
<1>2. "failed" \in Ended
  BY DEF Ended
<1> QED BY <1>1, <1>2, EndQueues

\* A call that is under way has queued no job.
LEMMA NotQueued ==
    ASSUME JobsInv, NEW x, pc[x] # "done"
    PROVE  x \notin {Queued[n] : n \in DOMAIN Queued}
  BY DEF JobsInv, Queued

-----------------------------------------------------------------------------
(* The steps of an upload. *)

\* pass changes with the commit only.
LEMMA SamePass ==
    ASSUME TypeOK, NEW u \in Uploads,
           \/ FindWar(u) \/ ReadPlayers(u) \/ CreatePlayers(u) \/ FetchPlayers(u)
           \/ InsertPerformances(u) \/ AppendClasses(u) \/ CountGames(u)
           \/ ReadTop(u) \/ SetMain(u)
    PROVE  \A v \in Uploads : up'[v].pass = up[v].pass
<1>1. up \in [Uploads -> UploadLocals]
  BY DEF TypeOK
<1>2. CASE UNCHANGED up
  BY <1>2
<1>3. CASE \E w \in wars : up' = [up EXCEPT ![u].war = w.id]
  BY <1>1, <1>3 DEF UploadLocals
<1>4. CASE ReadPlayers(u) \/ CreatePlayers(u) \/ FetchPlayers(u)
  BY <1>1, <1>4 DEF ReadPlayers, CreatePlayers, FetchPlayers, Fail, UploadLocals
<1>5. CASE \/ InsertPerformances(u) \/ AppendClasses(u) \/ CountGames(u)
           \/ ReadTop(u) \/ SetMain(u)
  <2> DEFINE p == NextPlayer(u)
  <2>1. \/ up' = up
        \/ up' = [up EXCEPT ![u].todo = Resolved(u)]
        \/ up' = [up EXCEPT ![u].todo = @ \ {p}]
        \/ \E c \in Class : up' = [up EXCEPT ![u].top = c]
        \/ up' = [up EXCEPT ![u].todo = @ \ {p}, ![u].top = NoClass]
    BY <1>5 DEF InsertPerformances, AppendClasses, CountGames, ReadTop, SetMain, Fail
  <2>2. ASSUME NEW c \in Class, up' = [up EXCEPT ![u].top = c]
        PROVE  \A v \in Uploads : up'[v].pass = up[v].pass
    BY <1>1, <2>2 DEF UploadLocals
  <2> HIDE DEF p
  <2> QED BY <1>1, <2>1, <2>2 DEF UploadLocals
<1> QED BY <1>2, <1>3, <1>4, <1>5 DEF FindWar, Fail

\* What the store and the queue see of an upload's step before and after its
\* commit: nothing, or its end.
LEMMA UploadMoves ==
    ASSUME TypeOK, NEW u \in Uploads,
           \/ FindWar(u) \/ FindSides(u) \/ ReadPlayers(u) \/ CreatePlayers(u)
           \/ FetchPlayers(u) \/ BeginTx(u) \/ InsertSide(u) \/ InsertPerformances(u)
           \/ AppendClasses(u) \/ CountGames(u) \/ ReadTop(u) \/ SetMain(u)
    PROVE  Ledger!Queue(u) \/ Unseen
<1>1. u \in Calls /\ DOMAIN pc = Calls
  BY DEF Calls, TypeOK
<1>2. pc[u] \notin Ended \cup {"queue"}
  BY DEF FindWar, FindSides, ReadPlayers, CreatePlayers, FetchPlayers, BeginTx,
     InsertSide, InsertPerformances, AppendClasses, CountGames, ReadTop, SetMain, At, Ended
<1>3. CASE Fail(u)
  BY <1>1, <1>2, <1>3, FailQueues
<1>4. CASE ~Fail(u)
  <2>1. \/ \E label \in UploadPc \ Ended : Goto(u, label)
        \/ pc[u] \in {"classes", "top"} /\ pc' = pc
    BY <1>4 DEF FindWar, FindSides, ReadPlayers, CreatePlayers, FetchPlayers, BeginTx,
       InsertSide, InsertPerformances, AppendClasses, CountGames, ReadTop, SetMain, At, UploadPc,
       Ended
  <2>2. PICK label \in UploadPc \ Ended : Goto(u, label)
    <3>1. CASE pc[u] \in {"classes", "top"} /\ pc' = pc
      BY <1>1, <3>1 DEF Goto, TypeOK, UploadPc, Ended
    <3> QED BY <2>1, <3>1
  <2>3. UNCHANGED <<wars, sides, jobs>>
    BY <1>4 DEF FindWar, FindSides, ReadPlayers, CreatePlayers, FetchPlayers, BeginTx,
       InsertSide, InsertPerformances, AppendClasses, CountGames, ReadTop, SetMain, tables
  <2>4. \A v \in Uploads : up'[v].pass = up[v].pass
    BY <1>4, SamePass DEF FindSides, BeginTx, InsertSide
  <2>5. label \notin Ended \cup {"queue"}
    BY <2>2 DEF UploadPc
  <2> QED BY <1>1, <1>2, <2>2, <2>3, <2>4, <2>5, MoveUnseen
<1> QED BY <1>3, <1>4

\* After the second resolution an upload queues its job and ends.
LEMMA CreateProfilesMoves ==
    ASSUME TypeOK, NEW u \in Uploads, CreateProfiles(u)
    PROVE  Ledger!Queue(u) \/ Unseen
<1>1. u \in Calls /\ DOMAIN pc = Calls /\ up \in [Uploads -> UploadLocals]
  BY DEF Calls, TypeOK
<1>2. pc[u] = "profiles" /\ pc[u] \notin Ended \cup {"queue"}
  BY DEF CreateProfiles, At, Ended
<1>3. CASE Fail(u)
  BY <1>1, <1>2, <1>3, FailQueues
<1>4. CASE ~Fail(u)
  <2>1. UNCHANGED <<wars, sides>>
    BY <1>4 DEF CreateProfiles
  <2>2. CASE Goto(u, "failed") /\ UNCHANGED <<up, open, jobs>>
    <3>1. "failed" \in Ended
      BY DEF Ended
    <3> QED BY <1>1, <1>2, <2>1, <2>2, <3>1, EndQueues
  <2>3. CASE /\ \E res \in Resolutions(u) :
                  up' = [up EXCEPT ![u].resolved = res, ![u].fetched = {}]
             /\ Goto(u, "begin") /\ UNCHANGED <<open, jobs>>
    <3>1. PICK res \in Resolutions(u) :
             up' = [up EXCEPT ![u].resolved = res, ![u].fetched = {}]
      BY <2>3
    <3>2. \A v \in Uploads : up'[v].pass = up[v].pass
      BY <1>1, <3>1 DEF UploadLocals
    <3>3. "begin" \notin Ended \cup {"queue"}
      BY DEF Ended
    <3> QED BY <1>1, <1>2, <2>1, <2>3, <3>2, <3>3, MoveUnseen
  <2>4. CASE /\ up[u].pass = 2
             /\ \E res \in Resolutions(u) : jobs' = Append(jobs,
                                        [by |-> u, rows |-> Range(res)])
             /\ up' = [up EXCEPT ![u].fetched = {}]
             /\ Goto(u, "done")
    <3>1. PICK res \in Resolutions(u) :
             jobs' = Append(jobs, [by |-> u, rows |-> Range(res)])
      BY <2>4
    <3>2. \A v \in Uploads : up'[v].pass = up[v].pass
      BY <1>1, <2>4 DEF UploadLocals
    <3>3. u \in Due /\ "done" \in Ended
      BY <1>2, <2>4 DEF Due, Entered, Ended
    <3> QED BY <1>1, <1>2, <2>1, <2>4, <3>1, <3>2, <3>3, EndQueues
  <2> QED BY <1>4, <2>2, <2>3, <2>4 DEF CreateProfiles
<1> QED BY <1>3, <1>4

\* A commit registers a war with its first side, or joins the other side to one.
LEMMA CommitWrites ==
    ASSUME LedgerInv, NEW u \in Uploads, Commit(u)
    PROVE  Ledger!Register(u) \/ Ledger!Join(u) \/ Ledger!Queue(u) \/ Unseen
<1> USE DEF LedgerInv
<1>1. u \in Calls /\ DOMAIN pc = Calls /\ up \in [Uploads -> UploadLocals]
  BY DEF Calls, TypeOK
<1>2. pc[u] = "commit" /\ pc[u] \notin Ended
  BY DEF Commit, At, Ended
<1>3. CASE ~open[u]
  BY <1>1, <1>2, <1>3, FailQueues DEF Commit
<1>4. CASE open[u]
  <2>1. /\ wars' = wars \cup (IF up[u].war = NoWar THEN {NewWar(u)} ELSE {})
        /\ sides' = sides \cup {NewSide(u)}
        /\ up' = [up EXCEPT ![u] = [NoLocals EXCEPT !.pass = 2]]
        /\ Goto(u, "players") /\ jobs' = jobs
    BY <1>4 DEF Commit
  <2>2. up[u].pass = 1 /\ req[u].company # req[u].opponent
    BY <1>2 DEF PhasesInv, Phase, InTx, Ended
  <2>3. /\ u \notin Entered
        /\ Entered' = Entered \cup {u}
    <3>1. up'[u].pass = 2 /\ \A v \in Uploads \ {u} : up'[v] = up[v]
      BY <1>1, <2>1 DEF NoLocals
    <3> QED BY <2>2, <3>1 DEF Entered
  <2>4. Due' = Due \cup {u}
    <3>1. pc'[u] = "players" /\ \A x \in Calls \ {u} : pc'[x] = pc[x]
      BY <1>1, <2>1 DEF Goto
    <3>2. Entered \subseteq Uploads
      BY DEF Entered
    <3> QED BY <2>3, <3>1, <3>2, CallsAssumption DEF Due, Calls, Ended
  <2>5. Ledger!Enter(u)
    BY <2>1, <2>3, <2>4 DEF Ledger!Enter
  <2>6. /\ req[u].type \in Role /\ req[u].slot \in Slot
        /\ Winner(req[u]) \in Role
    BY RequestsAssumption DEF TypeOK, Request, Winner, Role
  <2>7. CASE up[u].war = NoWar
    <3>1. req[u].company \in Company /\ req[u].opponent \in Company
      BY <1>2, <1>4, <2>7 DEF LocksInv, Stored
    <3> DEFINE war == NewWar(u)
    <3>2. /\ war = [id |-> u, slot |-> req[u].slot, attacker |-> war.attacker,
                    defender |-> war.defender, winner |-> Winner(req[u])]
          /\ war.attacker \in Company /\ war.defender \in Company
          /\ war.attacker # war.defender
      BY <2>2, <3>1 DEF NewWar
    <3>3. NewSide(u) = Ledger!SideOf(u, war, req[u].type)
      BY <2>6, <2>7 DEF NewSide, WarOf, NewWar, Ledger!SideOf, Ledger!Player, Role
    <3>4. wars' = wars \cup {war} /\ sides' = sides \cup {NewSide(u)}
      BY <2>1, <2>7
    <3> HIDE DEF war
    <3> QED BY <2>5, <2>6, <3>2, <3>3, <3>4 DEF Ledger!Register
  <2>8. CASE up[u].war # NoWar
    <3>1. PICK w \in wars : w.id = up[u].war
      BY <1>2, <1>4, <2>8 DEF LocksInv, Stored
    <3>2. Plays(req[u], w)
      BY <2>8, <3>1 DEF TargetsInv
    <3>3. NewSide(u) = Ledger!SideOf(u, w, req[u].type)
      BY <2>8, <3>1, <3>2 DEF NewSide, WarOf, Plays, Ledger!SideOf, Ledger!Player
    <3>4. ~\E s \in sides : s.war = w.id /\ s.type = req[u].type
      BY <1>2, <1>4, <2>8, <3>1 DEF LocksInv, Stored
    <3>5. wars' = wars /\ sides' = sides \cup {NewSide(u)}
      BY <2>1, <2>8
    <3> QED BY <2>5, <2>6, <3>3, <3>4, <3>5 DEF Ledger!Join
  <2> QED BY <2>7, <2>8
<1> QED BY <1>3, <1>4

-----------------------------------------------------------------------------
(* The steps of a rollback. *)

LEMMA RollbackMoves ==
    ASSUME TypeOK, NEW r \in Rollbacks,
           FindTarget(r) \/ ReadAffected(r) \/ GatherPlayers(r) \/ DeleteProfiles(r)
    PROVE  Ledger!Queue(r) \/ Unseen
<1>1. r \in Calls /\ DOMAIN pc = Calls
  BY DEF Calls, TypeOK
<1>2. pc[r] \notin Ended \cup {"queue"}
  BY DEF FindTarget, ReadAffected, GatherPlayers, DeleteProfiles, Ended
<1>3. CASE Fail(r)
  BY <1>1, <1>2, <1>3, FailQueues
<1>4. CASE ~Fail(r)
  <2>1. /\ \E label \in {"affected", "gather", "lock", "delete"} : Goto(r, label)
        /\ UNCHANGED <<wars, sides, jobs, up>>
    BY <1>4 DEF FindTarget, ReadAffected, GatherPlayers, DeleteProfiles, tables
  <2>2. PICK label \in {"affected", "gather", "lock", "delete"} : Goto(r, label)
    BY <2>1
  <2>3. label \notin Ended \cup {"queue"}
    BY <2>2 DEF Ended
  <2> QED BY <1>1, <1>2, <2>1, <2>2, <2>3, MoveUnseen
<1> QED BY <1>3, <1>4

\* The deletes of a rollback cancel one war, with all its sides.
LEMMA CommitRollbackCancels ==
    ASSUME LedgerInv, JobsInv, NEW r \in Rollbacks, CommitRollback(r)
    PROVE  Ledger!Cancel(r) \/ Ledger!Queue(r) \/ Unseen
<1> USE DEF LedgerInv
<1>1. r \in Calls /\ DOMAIN pc = Calls
  BY DEF Calls, TypeOK
<1>2. pc[r] = "delete" /\ pc[r] \notin Ended
  BY DEF CommitRollback, Ended
<1>3. CASE Fail(r)
  BY <1>1, <1>2, <1>3, FailQueues
<1>4. CASE ~Fail(r)
  <2>1. /\ ~Refused(r)
        /\ wars' = {w \in wars : w.id # rb[r].war}
        /\ sides' = {s \in sides : s.war # rb[r].war}
        /\ Goto(r, "queue") /\ UNCHANGED <<up, jobs>>
    BY <1>4 DEF CommitRollback, DeleteWar
  <2>2. PICK war \in wars : war.id = rb[r].war
    BY <2>1 DEF Refused
  <2>3. /\ wars' = wars \ {war}
        /\ sides' = {s \in sides : s.war # war.id}
    BY <2>1, <2>2 DEF WarsInv
  <2>4. Entered' = Entered /\ Entered \subseteq Uploads
    BY <2>1 DEF Entered
  <2>5. r \notin Due /\ Due' = Due \cup {r}
    <3>1. pc'[r] = "queue" /\ \A x \in Calls \ {r} : pc'[x] = pc[x]
      BY <1>1, <2>1 DEF Goto
    <3> QED BY <1>2, <2>4, <3>1, CallsAssumption DEF Due, Calls
  <2>6. r \notin Ledger!Range(Queued)
    BY <1>2, NotQueued DEF Ledger!Range
  <2> QED BY <2>1, <2>3, <2>4, <2>5, <2>6 DEF Ledger!Cancel, Queued
<1> QED BY <1>3, <1>4

LEMMA QueueResetEnds ==
    ASSUME TypeOK, NEW r \in Rollbacks, QueueReset(r)
    PROVE  Ledger!Queue(r) \/ Unseen
<1>1. /\ r \in Calls /\ "done" \in Ended
      /\ pc[r] \notin Ended /\ r \in Due
      /\ Goto(r, "done") /\ UNCHANGED <<wars, sides>>
      /\ \A u \in Uploads : up'[u].pass = up[u].pass
  BY DEF QueueReset, Calls, Ended, Due, tables
<1>2. \/ jobs' = jobs
      \/ jobs' = Append(jobs, [by |-> r, rows |-> rb[r].affected])
  BY DEF QueueReset
<1> QED BY <1>1, <1>2, EndQueues

-----------------------------------------------------------------------------
(* A job is queued by a call that ends with it. *)

LEMMA AppendedJob ==
    ASSUME TypeOK, JobsInv, NEW x \in Calls, NEW rows, Goto(x, "done"),
           pc[x] # "done",
           jobs' = jobs \/ jobs' = Append(jobs, [by |-> x, rows |-> rows])
    PROVE  JobsInv'
<1>1. DOMAIN pc = Calls /\ jobs \in Seq(Job)
  BY DEF TypeOK
<1>2. \A n \in DOMAIN jobs : pc'[jobs[n].by] = "done"
  <2>1. ASSUME NEW n \in DOMAIN jobs
        PROVE  jobs[n].by \in Calls /\ pc[jobs[n].by] = "done"
    <3>1. jobs[n] \in Job
      BY <1>1, ElementOfSeq, LenProperties
    <3> QED BY <3>1 DEF Job, JobsInv
  <2> QED BY <1>1, <2>1 DEF Goto
<1>3. CASE jobs' = jobs
  BY <1>2, <1>3 DEF JobsInv
<1>4. CASE jobs' = Append(jobs, [by |-> x, rows |-> rows])
  <2>1. /\ DOMAIN jobs = 1..Len(jobs) /\ Len(jobs) \in Nat
        /\ DOMAIN jobs' = 1..(Len(jobs) + 1)
        /\ \A n \in 1..Len(jobs) : jobs'[n] = jobs[n]
        /\ jobs'[Len(jobs) + 1].by = x
    BY <1>1, <1>4
  <2>2. pc'[x] = "done"
    BY <1>1 DEF Goto
  <2> QED BY <1>2, <2>1, <2>2 DEF JobsInv
<1> QED BY <1>3, <1>4

\* A call that has ended stays where it is.
LEMMA JobsStay ==
    ASSUME TypeOK, JobsInv, jobs' = jobs,
           \A x \in Calls : pc[x] = "done" => pc'[x] = "done"
    PROVE  JobsInv'
<1>1. jobs \in Seq(Job)
  BY DEF TypeOK
<1>2. \A n \in DOMAIN jobs : jobs[n].by \in Calls
  <2>1. ASSUME NEW n \in DOMAIN jobs
        PROVE  jobs[n] \in Job
    BY <1>1, ElementOfSeq, LenProperties
  <2> QED BY <2>1 DEF Job
<1> QED BY <1>2 DEF JobsInv

LEMMA NextJobs == TypeOK /\ JobsInv /\ [Next]_vars => JobsInv'
<1> SUFFICES ASSUME TypeOK, JobsInv, [Next]_vars
             PROVE  JobsInv'
  OBVIOUS
<1>1. DOMAIN pc = Calls
  BY DEF TypeOK
<1>2. ASSUME NEW u \in Uploads, CreateProfiles(u)
      PROVE  JobsInv'
  <2>1. \/ /\ jobs' = jobs
           /\ \E label : Goto(u, label)
        \/ \E res \in Resolutions(u) :
              Goto(u, "done") /\ jobs' = Append(jobs, [by |-> u, rows |-> Range(res)])
    BY <1>2 DEF CreateProfiles, Fail, Goto
  <2>2. u \in Calls /\ pc[u] # "done"
    BY <1>2 DEF CreateProfiles, At, Calls
  <2>3. CASE jobs' = jobs /\ \E label : Goto(u, label)
    BY <1>1, <2>2, <2>3, JobsStay DEF Goto
  <2> QED BY <2>1, <2>2, <2>3, AppendedJob
<1>3. ASSUME NEW u \in Uploads, UploadStep(u), ~CreateProfiles(u)
      PROVE  JobsInv'
  <2>1. pc[u] # "done" /\ jobs' = jobs /\ \A x \in Calls \ {u} : pc'[x] = pc[x]
    BY <1>1, <1>3 DEF UploadStep, FindWar, FindSides, ReadPlayers, CreatePlayers,
       FetchPlayers, BeginTx, InsertSide, InsertPerformances, AppendClasses, CountGames,
       ReadTop, SetMain, Commit, At, Goto, Fail
  <2> QED BY <2>1, JobsStay
<1>4. ASSUME NEW r \in Rollbacks, QueueReset(r)
      PROVE  JobsInv'
  BY <1>4, AppendedJob DEF QueueReset, Calls
<1>5. ASSUME NEW r \in Rollbacks, RollbackStep(r), ~QueueReset(r)
      PROVE  JobsInv'
  <2>1. pc[r] # "done" /\ jobs' = jobs /\ \A x \in Calls \ {r} : pc'[x] = pc[x]
    BY <1>1, <1>5 DEF RollbackStep, FindTarget, ReadAffected, GatherPlayers,
       DeleteProfiles, CommitRollback, Goto, Fail
  <2> QED BY <2>1, JobsStay
<1>6. ASSUME NEW x \in Calls, Interrupt(x) \/ TxTimeout(x)
      PROVE  JobsInv'
  <2>1. jobs' = jobs /\ \A y \in Calls : pc[y] = "done" => pc'[y] = "done"
    BY <1>1, <1>6 DEF Interrupt, TxTimeout, Fail, Ended
  <2> QED BY <2>1, JobsStay
<1>7. CASE UNCHANGED vars
  BY <1>7, JobsStay DEF vars
<1> QED BY <1>2, <1>3, <1>4, <1>5, <1>6, <1>7 DEF Next, AllEnded

-----------------------------------------------------------------------------
(* The refinement. *)

LEMMA InitImplements == Init => Ledger!Init
<1> SUFFICES ASSUME Init
             PROVE  Ledger!Init
  OBVIOUS
<1>1. Entered = {} /\ Due = {}
  BY DEF Init, Entered, Due, NoLocals, Calls
<1>2. [n \in DOMAIN jobs |-> jobs[n].by] = <<>>
  BY DEF Init
<1> QED BY <1>1, <1>2 DEF Init, Ledger!Init

LEMMA NextImplements ==
    LedgerInv /\ JobsInv /\ [Next]_vars => [Ledger!Next]_(Ledger!vars)
<1> SUFFICES ASSUME LedgerInv, JobsInv, [Next]_vars
             PROVE  Ledger!Next \/ Unseen
  BY UnseenStutters
<1>1. TypeOK
  BY DEF LedgerInv
<1>2. ASSUME NEW u \in Uploads, UploadStep(u)
      PROVE  Ledger!Next \/ Unseen
  BY <1>1, <1>2, UploadMoves, CreateProfilesMoves, CommitWrites
  DEF UploadStep, Ledger!Next
<1>3. ASSUME NEW r \in Rollbacks, RollbackStep(r)
      PROVE  Ledger!Next \/ Unseen
  BY <1>1, <1>3, RollbackMoves, CommitRollbackCancels, QueueResetEnds
  DEF RollbackStep, Ledger!Next
<1>4. ASSUME NEW x \in Calls, Interrupt(x)
      PROVE  Ledger!Next \/ Unseen
  BY <1>1, <1>4, FailQueues DEF Interrupt, Ledger!Next, Calls
<1>5. ASSUME NEW x \in Calls, TxTimeout(x)
      PROVE  Unseen
  BY <1>5 DEF TxTimeout, Unseen, Entered, Due, tables
<1>6. CASE UNCHANGED vars
  BY <1>6 DEF vars, Unseen, Entered, Due
<1> QED BY <1>2, <1>3, <1>4, <1>5, <1>6 DEF Next, AllEnded

\* Whatever the awaits of uploads and rollbacks let in between, each war is
\* registered, joined and cancelled in one step, against the ledger as it is then,
\* and a background job is queued at most once, after its call has written.
THEOREM EndpointsImplementLedger == Spec => ImplementsLedger
<1>1. Init => JobsInv
  BY DEF Init, JobsInv
<1>2. LedgerInv => TypeOK
  BY DEF LedgerInv
<1>3. Spec => []JobsInv
  BY <1>1, <1>2, NextJobs, TypeCorrect, PTL DEF Spec
<1> QED BY <1>3, LedgerInvariant, InitImplements, NextImplements, PTL
        DEF Spec, ImplementsLedger, Ledger!Spec
=============================================================================

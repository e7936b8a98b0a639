------------------------ MODULE PlayerQueriesProofs ------------------------
(***************************************************************************)
(* What the queries answer while uploads and rollbacks change the tables,  *)
(* for any nicknames, wars and requests.                                   *)
(***************************************************************************)
EXTENDS PlayerQueries, NicknamesProofs

-----------------------------------------------------------------------------
(* The inductive invariants *)

Player == [nick : Nick, by : Upload]
Row == [war : Upload, entry : Nat, player : Player \cup {NoPlayer}, class : Class,
        at : Nat, win : BOOLEAN]
Figure == [class : Class, games : Nat, wins : Nat]

TypeOK ==
    /\ players \subseteq Player /\ IsFiniteSet(players)
    /\ rows \subseteq Row /\ IsFiniteSet(rows)
    /\ war \in [Upload -> {"new", "resolved", "stored", "failed", "rolledback"}]
    /\ ask \in Asked
    /\ got \in [player : Player \cup {NoPlayer}, recents : SUBSET Row,
                figures : SUBSET Figure, attacked : SUBSET Upload,
                total : Nat, page : Nat \ {0}]
    /\ before \in [players : SUBSET Player, wars : SUBSET Upload]
    /\ undone \in BOOLEAN /\ grown \in BOOLEAN

\* A request goes through the queries of its kind.
Stages(kind) ==
    CASE kind = "search" -> {"idle", "page", "done"}
      [] kind = "profile" -> {"idle", "player", "recents", "sides", "figures",
                              "done", "failed"}
      [] kind = "wins" -> {"idle", "total", "rows", "done"}
      [] kind = "company" -> {"idle", "attacked", "defended", "done"}
StageInv ==
    /\ pc \in Stages(ask.kind)
    /\ pc = "idle" => got.page = FirstPage
    /\ pc \in {"idle", "player"} => got.recents = {}

\* A row belongs to a stored war, and to a player there is or to nobody.
LinkInv ==
    \A r \in rows : r.player \in players \cup {NoPlayer} /\ war[r.war] = "stored"

\* What was there when the request began goes only with a rollback.
BeforeInv ==
    /\ \A u \in before.wars : war[u] \in {"stored", "rolledback"}
    /\ ~undone => before.players \subseteq players

\* A company has been shown its wars of before, and no others.
CompanyInv ==
    ask.kind = "company" =>
        /\ pc \in {"defended", "done"} => \A u \in before.wars :
              war[u] = "stored" /\ Fought[u].attacker = ask.company => u \in got.attacked
        /\ pc = "done" => \A u \in before.wars :
              war[u] = "stored" /\ Fought[u].defender = ask.company => u \in seen
        /\ \A u \in got.attacked : u \in Upload /\ Fought[u].attacker = ask.company
        /\ pc = "done" => \A u \in seen : u \in Upload /\ Fought[u].defender = ask.company

\* What a profile shows is still there, and the figures count it.
ShownCovered ==
    \A c \in {r.class : r \in got.recents} : \E f \in got.figures :
        LET shown == {r \in got.recents : r.class = c}
        IN  /\ f.class = c /\ f.games >= Cardinality(shown)
            /\ f.wins >= Cardinality({r \in shown : r.win})
ProfileInv ==
    ask.kind = "profile" /\ ~undone =>
        /\ got.recents \subseteq PerformancesOf(got.player)
        /\ pc # "failed"
        /\ pc = "done" => ShownCovered

\* Until their page is read at least as many players qualify as were counted, and
\* more only if a war has been stored.
PageOf(total) == Least({Limit, Highest({0, total - (ask.page - 1) * Limit})})
TotalInv ==
    ask.kind = "wins" /\ ~undone =>
        /\ pc = "rows" => /\ got.total =< Cardinality(Qualified(ask.class))
                          /\ ~grown => got.total = Cardinality(Qualified(ask.class))
        /\ pc = "done" => /\ PageOf(got.total) =< Cardinality(seen)
                          /\ ~grown => PageOf(got.total) = Cardinality(seen)

\* Who matched before and has not been seen comes on the page that is next, or
\* on a later one.
Ahead(p) ==
    Offset(p, Matching(players, ask.query), ask.query) >= (got.page - 1) * Limit
PagesInv ==
    ask.kind = "search" /\ ~undone =>
        \A p \in Matching(before.players, ask.query) :
            /\ pc = "page" => p \in seen \/ Ahead(p)
            /\ pc = "done" => p \in seen

-----------------------------------------------------------------------------
(* Types *)

LEMMA ImageFinite ==
    ASSUME NEW S, IsFiniteSet(S), NEW f, f = [x \in S |-> f[x]]
    PROVE  IsFiniteSet({f[x] : x \in S})
<1>1. f \in Surjection(S, {f[x] : x \in S})
  BY DEF Surjection
<1> QED BY <1>1, FS_Surjection

LEMMA NamedFinite ==
    ASSUME NEW u \in Upload
    PROVE  Named(u) \subseteq Nick /\ IsFiniteSet(Named(u))
<1>1. PICK l : l = Lineup[u]
  OBVIOUS
<1>2. l \in Seq(Entry)
  BY <1>1, UploadsAssumption
<1>3. Named(u) = {l[n].nick : n \in 1..Len(l)}
  BY <1>1, <1>2 DEF Named, Range, Entry
<1>4. Len(l) \in Nat /\ IsFiniteSet(1..Len(l))
  BY <1>2, FS_Interval
<1>5. IsFiniteSet({l[n].nick : n \in 1..Len(l)})
  <2>1. PICK f : f = [n \in 1..Len(l) |-> l[n].nick]
    OBVIOUS
  <2>2. {f[n] : n \in 1..Len(l)} = {l[n].nick : n \in 1..Len(l)}
    BY <2>1
  <2> QED BY <1>4, <2>1, <2>2, ImageFinite
<1>6. ASSUME NEW n \in 1..Len(l) PROVE l[n].nick \in Nick
  <2>1. l[n] \in Entry
    BY <1>2
  <2> QED BY <2>1 DEF Entry
<1> QED BY <1>3, <1>5, <1>6

LEMMA PlayerNamedIs ==
    ASSUME TypeOK, NEW m \in {p.nick : p \in players}
    PROVE  PlayerNamed(m) \in players
BY DEF PlayerNamed

LEMMA TimeIsNat == Time \subseteq Nat
<1>1. Cardinality(Upload) \in Nat
  BY UploadsAssumption, FS_CardinalityType
<1> QED BY <1>1 DEF Time

LEMMA PartFinite ==
    ASSUME TypeOK, NEW p
    PROVE  /\ PerformancesOf(p) \subseteq rows
           /\ \A S \in SUBSET PerformancesOf(p) : IsFiniteSet(S) /\ Cardinality(S) \in Nat
<1>1. PerformancesOf(p) \subseteq rows
  BY DEF PerformancesOf
<1>2. \A S \in SUBSET PerformancesOf(p) : IsFiniteSet(S)
  BY <1>1, FS_Subset DEF TypeOK
<1> QED BY <1>1, <1>2, FS_CardinalityType

\* The two queries of the leaderboard, the one over the performances and the one
\* by players, speak of the same players.
LEMMA CountIsOfQualified ==
    ASSUME NEW c
    PROVE  CountQualified(c) = Cardinality(Qualified(c))
<1> DEFINE Group(p) == {r \in JoinedRows(c) : r.player = p}
           Grouped == {p \in {r.player : r \in JoinedRows(c)} : Cardinality(Group(p)) >= minGames}
<1>1. ASSUME NEW p \in players PROVE Group(p) = Counted(p, c)
  BY DEF JoinedRows, Counted, PerformancesOf
<1>2. Grouped \subseteq Qualified(c)
  <2> SUFFICES ASSUME NEW p \in Grouped PROVE p \in Qualified(c)
    OBVIOUS
  <2>1. p \in players
    BY DEF JoinedRows
  <2> QED BY <1>1, <2>1 DEF Qualified
<1>3. Qualified(c) \subseteq Grouped
  <2> SUFFICES ASSUME NEW p \in Qualified(c) PROVE p \in Grouped
    OBVIOUS
  <2>1. p \in players /\ Cardinality(Counted(p, c)) >= 1
    BY DEF Qualified, minGames
  <2>2. Counted(p, c) # {}
    <3>1. Cardinality({}) = 0
      BY FS_EmptySet
    <3> QED BY <2>1, <3>1
  <2>3. Group(p) = Counted(p, c)
    BY <1>1, <2>1
  <2>4. p \in {r.player : r \in JoinedRows(c)}
    BY <2>2, <2>3
  <2> QED BY <2>1, <2>3, <2>4 DEF minGames
<1>4. Grouped = Qualified(c)
  BY <1>2, <1>3
<1>5. CountQualified(c) = Cardinality(Grouped)
  BY DEF CountQualified
<1> HIDE DEF Grouped
<1> QED BY <1>4, <1>5

LEMMA CountedFinite ==
    ASSUME TypeOK, NEW c
    PROVE  /\ Qualified(c) \subseteq players /\ IsFiniteSet(Qualified(c))
           /\ CountQualified(c) \in Nat /\ CountQualified(c) = Cardinality(Qualified(c))
<1>1. Qualified(c) \subseteq players
  BY DEF Qualified
<1>2. IsFiniteSet(Qualified(c))
  BY <1>1, FS_Subset DEF TypeOK
<1> QED BY <1>1, <1>2, FS_CardinalityType, CountIsOfQualified

LEMMA FiguresType ==
    ASSUME TypeOK, NEW p
    PROVE  Figures(p) \in SUBSET Figure
<1> SUFFICES ASSUME NEW c \in {r.class : r \in PerformancesOf(p)}
             PROVE  FiguresOfClass(p, c) \in Figure
  BY DEF Figures
<1>1. c \in Class
  BY PartFinite DEF TypeOK, Row
<1>2. PICK mine : mine = {r \in PerformancesOf(p) : r.class = c}
  OBVIOUS
<1>3. PICK won : won = {r \in mine : r.win}
  OBVIOUS
<1>4. Cardinality(mine) \in Nat /\ Cardinality(won) \in Nat
  <2>1. mine \in SUBSET PerformancesOf(p) /\ won \in SUBSET PerformancesOf(p)
    BY <1>2, <1>3
  <2> QED BY <2>1, PartFinite
<1>5. FiguresOfClass(p, c) =
          [class |-> c, games |-> Cardinality(mine), wins |-> Cardinality(won)]
  BY <1>2, <1>3 DEF FiguresOfClass
<1> QED BY <1>1, <1>4, <1>5 DEF Figure

LEMMA TypeInit == Init => TypeOK /\ StageInv
<1> SUFFICES ASSUME Init PROVE TypeOK /\ StageInv
  OBVIOUS
<1>1. IsFiniteSet({})
  BY FS_EmptySet
<1>2. got \in [player : Player \cup {NoPlayer}, recents : SUBSET Row,
               figures : SUBSET Figure, attacked : SUBSET Upload,
               total : Nat, page : Nat \ {0}]
  BY DEF Init, Nothing, FirstPage
<1>3. before \in [players : SUBSET Player, wars : SUBSET Upload]
  BY DEF Init
<1>4. TypeOK
  BY <1>1, <1>2, <1>3 DEF Init, TypeOK
<1>5. ask.kind \in {"search", "profile", "wins", "company"}
  BY QuestionsAssumption DEF Init, Question
<1>6. StageInv
  BY <1>5 DEF Init, StageInv, Stages, Nothing
<1> QED BY <1>4, <1>6

Got == [player : Player \cup {NoPlayer}, recents : SUBSET Row,
        figures : SUBSET Figure, attacked : SUBSET Upload,
        total : Nat, page : Nat \ {0}]

LEMMA TablesTyped ==
    ASSUME TypeOK, NEW u \in Upload, Enrol(u) \/ Store(u) \/ Rollback(u)
    PROVE  TypeOK'
<1>1. CASE Enrol(u)
  <2>1. PICK fresh : fresh = {m \in Named(u) : ~\E p \in players : Alike[p.nick][m]}
    OBVIOUS
  <2>2. fresh \subseteq Nick /\ IsFiniteSet(fresh)
    BY <2>1, NamedFinite, FS_Subset
  <2>3. PICK new : new = {[nick |-> m, by |-> u] : m \in fresh}
    OBVIOUS
  <2>4. new \subseteq Player
    BY <2>2, <2>3 DEF Player
  <2>5. IsFiniteSet(new)
    <3>1. PICK f : f = [m \in fresh |-> [nick |-> m, by |-> u]]
      OBVIOUS
    <3>2. new = {f[m] : m \in fresh} /\ f = [m \in fresh |-> f[m]]
      BY <2>3, <3>1
    <3> QED BY <2>2, <3>2, ImageFinite
  <2>6. players' = players \cup new
    BY <1>1, <2>1, <2>3 DEF Enrol
  <2>7. IsFiniteSet(players')
    BY <2>5, <2>6, FS_Union DEF TypeOK
  <2> QED BY <1>1, <2>4, <2>6, <2>7 DEF TypeOK, Enrol, request
<1>2. CASE Store(u)
  <2>1. CASE rows' = rows
    BY <1>2, <2>1 DEF TypeOK, Store, request
  <2>2. CASE rows' # rows
    <3>1. PICK match \in [DOMAIN Lineup[u] -> Fetched(u)] : \E at \in Time :
            rows' = rows \cup
                  {[war |-> u, entry |-> n, player |-> match[n],
                    class |-> Lineup[u][n].class, at |-> at,
                    win |-> Fought[u].isWinner] : n \in DOMAIN Lineup[u]}
      BY <1>2, <2>2 DEF Store
    <3>2. PICK at \in Time :
            rows' = rows \cup
                  {[war |-> u, entry |-> n, player |-> match[n],
                    class |-> Lineup[u][n].class, at |-> at,
                    win |-> Fought[u].isWinner] : n \in DOMAIN Lineup[u]}
      BY <3>1
    <3>3. PICK l : l = Lineup[u]
      OBVIOUS
    <3>4. l \in Seq(Entry) /\ DOMAIN l = 1..Len(l) /\ Len(l) \in Nat
      BY <3>3, UploadsAssumption
    <3>5. PICK new : new =
              {[war |-> u, entry |-> n, player |-> match[n],
                class |-> l[n].class, at |-> at,
                win |-> Fought[u].isWinner] : n \in 1..Len(l)}
      OBVIOUS
    <3>6. new \subseteq Row
      <4> SUFFICES ASSUME NEW n \in 1..Len(l)
                   PROVE  [war |-> u, entry |-> n, player |-> match[n],
                           class |-> l[n].class, at |-> at,
                           win |-> Fought[u].isWinner] \in Row
        BY <3>5
      <4>1. l[n] \in Entry
        BY <3>4
      <4>4. match[n] \in Player
        BY <3>3, <3>4 DEF TypeOK, Fetched
      <4>5. at \in Nat
        BY TimeIsNat
      <4>6. Fought[u].isWinner \in BOOLEAN
        BY UploadsAssumption DEF Bout
      <4> QED BY <4>1, <4>4, <4>5, <4>6 DEF Row, Entry
    <3>7. IsFiniteSet(new)
      <4>1. IsFiniteSet(1..Len(l))
        BY <3>4, FS_Interval
      <4>2. PICK f : f =
                [n \in 1..Len(l) |->
                    [war |-> u, entry |-> n, player |-> match[n],
                     class |-> l[n].class, at |-> at,
                     win |-> Fought[u].isWinner]]
        OBVIOUS
      <4>3. new = {f[n] : n \in 1..Len(l)} /\ f = [n \in 1..Len(l) |-> f[n]]
        BY <3>5, <4>2
      <4> QED BY <4>1, <4>3, ImageFinite
    <3>8. rows' = rows \cup new
      BY <3>2, <3>3, <3>4, <3>5
    <3>9. IsFiniteSet(rows')
      BY <3>7, <3>8, FS_Union DEF TypeOK
    <3>10. /\ war' \in [Upload -> {"new", "resolved", "stored", "failed", "rolledback"}]
           /\ grown' \in BOOLEAN
           /\ UNCHANGED <<players, ask, got, before, undone>>
      BY <1>2 DEF TypeOK, Store, request
    <3> QED BY <3>6, <3>8, <3>9, <3>10 DEF TypeOK
  <2> QED BY <2>1, <2>2
<1>3. CASE Rollback(u)
  <2>1. PICK gone : gone = {r.player : r \in {r \in rows : r.war = u}}
    OBVIOUS
  <2>2. PICK kept : kept = {r \in rows : r.war # u}
    OBVIOUS
  <2>3. players' = players \ gone
        /\ rows' = {[r EXCEPT !.player = IF @ \in gone THEN NoPlayer ELSE @] : r \in kept}
    BY <1>3, <2>1, <2>2 DEF Rollback
  <2>4. IsFiniteSet(players') /\ players' \subseteq Player
    BY <2>3, FS_Subset DEF TypeOK
  <2>5. IsFiniteSet(kept) /\ kept \subseteq Row
    BY <2>2, FS_Subset DEF TypeOK
  <2>6. IsFiniteSet(rows')
    <3>1. PICK f : f = [r \in kept |->
                           [r EXCEPT !.player = IF @ \in gone THEN NoPlayer ELSE @]]
      OBVIOUS
    <3>2. rows' = {f[r] : r \in kept} /\ f = [r \in kept |-> f[r]]
      BY <2>3, <3>1
    <3> QED BY <2>5, <3>2, ImageFinite
  <2>7. rows' \subseteq Row
    BY <2>3, <2>5 DEF Row
  <2> QED BY <1>3, <2>4, <2>6, <2>7 DEF TypeOK, Rollback, request
<1> QED BY <1>1, <1>2, <1>3

LEMMA GotChanges ==
    ASSUME TypeOK
    PROVE  /\ \A p \in Player : [got EXCEPT !.player = p] \in Got
           /\ \A S \in SUBSET Row : [got EXCEPT !.recents = S] \in Got
           /\ \A S \in SUBSET Figure : [got EXCEPT !.figures = S] \in Got
           /\ \A S \in SUBSET Upload : [got EXCEPT !.attacked = S] \in Got
           /\ \A n \in Nat : [got EXCEPT !.total = n] \in Got
           /\ [got EXCEPT !.page = @ + 1] \in Got
<1>1. got \in Got
  BY DEF TypeOK, Got
<1> QED BY <1>1 DEF Got

LEMMA TypeStep ==
    ASSUME TypeOK, StageInv, Next
    PROVE  TypeOK'
<1>1. CASE \E u \in Upload : Enrol(u) \/ Store(u) \/ Rollback(u)
  BY <1>1, TablesTyped
<1>2. CASE Arrive
  <2>1. before' \in [players : SUBSET Player, wars : SUBSET Upload]
    BY <1>2 DEF Arrive, Stored, TypeOK
  <2> QED BY <1>2, <2>1 DEF Arrive, tables, TypeOK
<1>3. CASE Idle
  BY <1>3 DEF Idle, vars, TypeOK
<1>4. CASE Answer
  <2>1. SUFFICES got' \in Got
    BY <1>4, <2>1 DEF Answer, SearchPage, ReadPlayer, ReadRecents, ReadSides, ReadFigures,
        ReadTotal, ReadRows, ReadAttacked, ReadDefended, tables, TypeOK, Got
  <2>2. got \in Got
    BY DEF TypeOK, Got
  <2>3. CASE SearchPage
    BY <2>2, <2>3, GotChanges DEF SearchPage
  <2>4. CASE ReadPlayer
    <3>1. CASE ~\E p \in players : p.nick = ask.nick
      BY <2>2, <2>4, <3>1 DEF ReadPlayer
    <3>2. CASE \E p \in players : p.nick = ask.nick
      <4>1. PlayerNamed(ask.nick) \in players
        BY <3>2, PlayerNamedIs
      <4>2. got' = [got EXCEPT !.player = PlayerNamed(ask.nick)]
        BY <2>4, <3>2 DEF ReadPlayer
      <4>3. PlayerNamed(ask.nick) \in Player
        BY <4>1 DEF TypeOK
      <4> QED BY <4>2, <4>3, GotChanges
    <3> QED BY <3>1, <3>2
  <2>5. CASE ReadRecents
    <3>1. PICK some \in SUBSET PerformancesOf(got.player) :
              got' = [got EXCEPT !.recents = some]
      BY <2>5 DEF ReadRecents
    <3>2. some \in SUBSET Row
      BY <3>1 DEF PerformancesOf, TypeOK
    <3> QED BY <3>1, <3>2, GotChanges
  <2>6. CASE ReadSides
    BY <2>2, <2>6 DEF ReadSides
  <2>7. CASE ReadFigures
    <3>1. Figures(got.player) \in SUBSET Figure
      BY FiguresType
    <3>2. got' = [got EXCEPT !.figures = Figures(got.player)]
      BY <2>7 DEF ReadFigures
    <3> QED BY <3>1, <3>2, GotChanges
  <2>8. CASE ReadTotal
    <3>1. CountQualified(ask.class) \in Nat
      BY CountedFinite
    <3>2. got' = [got EXCEPT !.total = CountQualified(ask.class)]
      BY <2>8 DEF ReadTotal
    <3> QED BY <3>1, <3>2, GotChanges
  <2>9. CASE ReadRows
    BY <2>2, <2>9 DEF ReadRows
  <2>10. CASE ReadAttacked
    <3>1. Attacked(ask.company) \in SUBSET Upload
      BY DEF Attacked, Stored
    <3>2. got' = [got EXCEPT !.attacked = Attacked(ask.company)]
      BY <2>10 DEF ReadAttacked
    <3> QED BY <3>1, <3>2, GotChanges
  <2>11. CASE ReadDefended
    BY <2>2, <2>11 DEF ReadDefended
  <2> QED BY <1>4, <2>3, <2>4, <2>5, <2>6, <2>7, <2>8, <2>9, <2>10, <2>11 DEF Answer
<1> QED BY <1>1, <1>2, <1>3, <1>4 DEF Next, Change

LEMMA StageStep ==
    ASSUME TypeOK, StageInv, Next
    PROVE  StageInv'
<1>1. ask' = ask /\ ask.kind \in {"search", "profile", "wins", "company"}
  <2>1. ask \in Question
    BY QuestionsAssumption DEF TypeOK
  <2>2. ask.kind \in {"search", "profile", "wins", "company"}
    BY <2>1 DEF Question
  <2>3. ask' = ask
    BY DEF Next, Arrive, Answer, Change, Idle, vars, request, Enrol, Store, Rollback,
        SearchPage, ReadPlayer, ReadRecents, ReadSides, ReadFigures, ReadTotal, ReadRows,
        ReadAttacked, ReadDefended
  <2> QED BY <2>2, <2>3
<1>2. CASE \E u \in Upload : Enrol(u) \/ Store(u) \/ Rollback(u)
  <2>1. UNCHANGED <<pc, got>>
    BY <1>2 DEF Enrol, Store, Rollback, request
  <2> QED BY <1>1, <2>1 DEF StageInv
<1>3. CASE Arrive
  <2>1. got' = got /\ pc = "idle"
    BY <1>3 DEF Arrive
  <2>2. pc' \in Stages(ask.kind) /\ pc' # "idle"
    BY <1>1, <1>3 DEF Arrive, FirstQuery, Stages
  <2> QED BY <1>1, <2>1, <2>2 DEF StageInv
<1>4. CASE Idle
  BY <1>1, <1>4 DEF Idle, vars, StageInv
<1>5. CASE Answer
  <2>1. got \in Got
    BY DEF TypeOK, Got
  <2>2. pc' \in Stages(ask.kind)
    BY <1>1, <1>5 DEF Answer, StageInv, Stages, SearchPage, ReadPlayer, ReadRecents,
        ReadSides, ReadFigures, ReadTotal, ReadRows, ReadAttacked, ReadDefended
  <2>3. pc' \notin {"idle", "player"}
    BY <1>5 DEF Answer, SearchPage, ReadPlayer, ReadRecents,
        ReadSides, ReadFigures, ReadTotal, ReadRows, ReadAttacked, ReadDefended
  <2> QED BY <1>1, <2>2, <2>3 DEF StageInv
<1> QED BY <1>2, <1>3, <1>4, <1>5 DEF Next, Change

\* The tables, the request and what it has read stay in their types, and a
\* request goes through the queries of its kind: the handlers of player.service,
\* leaderboard.service and company.service.
THEOREM QueriesTypeCorrect == Spec => [](TypeOK /\ StageInv)
<1>1. Init => TypeOK /\ StageInv
  BY TypeInit
<1>2. TypeOK /\ StageInv /\ [Next]_vars => (TypeOK /\ StageInv)'
  <2>1. CASE UNCHANGED vars
    BY <2>1 DEF vars, TypeOK, StageInv
  <2> QED BY <2>1, TypeStep, StageStep
<1> QED BY <1>1, <1>2, PTL DEF Spec

-----------------------------------------------------------------------------
(* What a step changes *)

\* How a row and the tables of before fare
LEMMA LinkStep ==
    ASSUME TypeOK, LinkInv, BeforeInv, Next
    PROVE  LinkInv' /\ BeforeInv'
<1>1. CASE Answer \/ Idle
  <2>1. UNCHANGED <<tables, before, undone>>
    BY <1>1 DEF Answer, Idle, vars, tables, SearchPage, ReadPlayer, ReadRecents,
        ReadSides, ReadFigures, ReadTotal, ReadRows, ReadAttacked, ReadDefended
  <2> QED BY <2>1 DEF tables, LinkInv, BeforeInv
<1>2. CASE Arrive
  <2>1. before'.wars = Stored /\ before'.players = players /\ UNCHANGED tables
    BY <1>2 DEF Arrive
  <2> QED BY <2>1 DEF tables, LinkInv, BeforeInv, Stored
<1>3. ASSUME NEW u \in Upload, Enrol(u)
      PROVE  LinkInv' /\ BeforeInv'
  <2>1. players \subseteq players' /\ UNCHANGED <<rows, before, undone>>
    BY <1>3 DEF Enrol
  <2>2. war[u] = "new" /\ war' = [war EXCEPT ![u] = "resolved"]
    BY <1>3 DEF Enrol
  <2>3. \A v \in Upload : v # u => war'[v] = war[v]
    BY <2>2 DEF TypeOK
  <2>4. LinkInv'
    BY <2>1, <2>2, <2>3 DEF LinkInv, TypeOK, Row
  <2>5. BeforeInv'
    BY <2>1, <2>2, <2>3 DEF BeforeInv, TypeOK
  <2> QED BY <2>4, <2>5
<1>4. ASSUME NEW u \in Upload, Store(u)
      PROVE  LinkInv' /\ BeforeInv'
  <2>1. UNCHANGED <<players, before, undone>> /\ war[u] = "resolved"
    BY <1>4 DEF Store
  <2>2. \A v \in Upload : v # u => war'[v] = war[v]
    BY <1>4 DEF Store, TypeOK
  <2>3. BeforeInv'
    BY <2>1, <2>2 DEF BeforeInv, TypeOK
  <2>4. ASSUME NEW r \in rows'
        PROVE  r.player \in players' \cup {NoPlayer} /\ war'[r.war] = "stored"
    <3>1. CASE r \in rows
      BY <2>1, <2>2, <3>1 DEF LinkInv, TypeOK, Row
    <3>2. CASE r \notin rows
      <4>1. PICK match \in [DOMAIN Lineup[u] -> Fetched(u)] :
                \E n \in DOMAIN Lineup[u] : r.war = u /\ r.player = match[n]
        BY <1>4, <3>2 DEF Store
      <4>2. r.war = u
        BY <4>1
      <4>4. r.player \in players
        BY <4>1 DEF Fetched
      <4>5. war'[u] = "stored"
        BY <1>4, <3>2 DEF Store, TypeOK
      <4> QED BY <2>1, <4>2, <4>4, <4>5
    <3> QED BY <3>1, <3>2
  <2> QED BY <2>3, <2>4 DEF LinkInv
<1>5. ASSUME NEW u \in Upload, Rollback(u)
      PROVE  LinkInv' /\ BeforeInv'
  <2>1. war[u] = "stored" /\ war' = [war EXCEPT ![u] = "rolledback"]
        /\ before' = before /\ undone' = TRUE
    BY <1>5 DEF Rollback
  <2>2. BeforeInv'
    BY <2>1 DEF BeforeInv, TypeOK
  <2>3. PICK gone : gone = {r.player : r \in {r \in rows : r.war = u}}
    OBVIOUS
  <2>4. players' = players \ gone
        /\ rows' = {[r EXCEPT !.player = IF @ \in gone THEN NoPlayer ELSE @] :
                       r \in {r \in rows : r.war # u}}
    BY <1>5, <2>3 DEF Rollback
  <2>5. ASSUME NEW r \in rows'
        PROVE  r.player \in players' \cup {NoPlayer} /\ war'[r.war] = "stored"
    <3>1. PICK s \in rows : /\ s.war # u
                            /\ r = [s EXCEPT !.player = IF @ \in gone THEN NoPlayer ELSE @]
      BY <2>4
    <3>2. s \in Row /\ s.player \in players \cup {NoPlayer} /\ war[s.war] = "stored"
      BY DEF LinkInv, TypeOK
    <3>3. r.war = s.war /\ r.player = IF s.player \in gone THEN NoPlayer ELSE s.player
      BY <3>1, <3>2 DEF Row
    <3>4. war'[s.war] = war[s.war]
      BY <2>1, <3>1, <3>2 DEF TypeOK, Row
    <3> QED BY <2>4, <3>2, <3>3, <3>4
  <2> QED BY <2>2, <2>5 DEF LinkInv
<1> QED BY <1>1, <1>2, <1>3, <1>4, <1>5 DEF Next, Change

-----------------------------------------------------------------------------
(* A company's wars *)

LEMMA CompanyStep ==
    ASSUME TypeOK, StageInv, BeforeInv, CompanyInv, Next
    PROVE  CompanyInv'
<1>0. ask' = ask
  BY DEF Next, Arrive, Answer, Change, Idle, vars, request, Enrol, Store, Rollback,
      SearchPage, ReadPlayer, ReadRecents, ReadSides, ReadFigures, ReadTotal, ReadRows,
      ReadAttacked, ReadDefended
<1> SUFFICES ASSUME ask.kind = "company" PROVE CompanyInv'
  BY <1>0 DEF CompanyInv
<1>1. pc \in {"idle", "attacked", "defended", "done"}
  BY DEF StageInv, Stages
<1>2. CASE Idle
  BY <1>0, <1>2 DEF Idle, vars, CompanyInv
<1>3. CASE Arrive
  BY <1>0, <1>1, <1>3 DEF Arrive, FirstQuery, CompanyInv
<1>4. CASE ReadAttacked
  <2>1. got.attacked \subseteq Upload /\ got'.attacked = Attacked(ask.company)
    BY <1>4 DEF ReadAttacked, TypeOK
  <2>2. pc' = "defended" /\ UNCHANGED <<war, before>>
    BY <1>4 DEF ReadAttacked, tables
  <2> QED BY <1>0, <2>1, <2>2 DEF CompanyInv, Attacked, Stored, TypeOK
<1>5. CASE ReadDefended
  <2>1. seen' = Defended(ask.company) /\ pc = "defended" /\ pc' = "done"
        /\ UNCHANGED <<war, before, got>>
    BY <1>5 DEF ReadDefended, tables
  <2> QED BY <1>0, <2>1 DEF CompanyInv, Defended, Stored, TypeOK
<1>6. CASE Change
  <2>1. UNCHANGED <<pc, got, seen, before>>
    BY <1>6 DEF Change, Enrol, Store, Rollback, request
  <2>2. \A v \in before.wars : war'[v] = "stored" => war[v] = "stored"
    BY <1>6 DEF Change, Enrol, Store, Rollback, BeforeInv, TypeOK
  <2> QED BY <1>0, <2>1, <2>2 DEF CompanyInv
<1>7. Answer => ReadAttacked \/ ReadDefended
  BY <1>1 DEF Answer, SearchPage, ReadPlayer, ReadRecents, ReadSides, ReadFigures,
      ReadTotal, ReadRows
<1> QED BY <1>2, <1>3, <1>4, <1>5, <1>6, <1>7 DEF Next

LEMMA CompanyShows == TypeOK /\ CompanyInv => CompanyFiguresAddUp
<1> SUFFICES ASSUME TypeOK, CompanyInv, ask.kind = "company", pc = "done"
             PROVE  CompanyFiguresAddUp
  BY DEF CompanyFiguresAddUp, Answered
<1>1. PICK shown : shown = got.attacked \cup seen
  OBVIOUS
<1> DEFINE Other(u) == IF Fought[u].attacker = ask.company THEN Fought[u].defender
                       ELSE Fought[u].attacker
<1>2. \A u \in before.wars :
          war[u] = "stored" /\ ask.company \in {Fought[u].attacker, Fought[u].defender}
          => u \in shown
  BY <1>1 DEF CompanyInv
<1>3. ASSUME NEW u \in shown
      PROVE  u \in Won(shown, ask.company) <=> u \notin Won(shown, Other(u))
  <2>1. u \in Upload /\ ask.company \in {Fought[u].attacker, Fought[u].defender}
    BY <1>1 DEF CompanyInv
  <2>2. Fought[u].attacker # Fought[u].defender
    BY <2>1, UploadsAssumption
  <2>3. winner(u) = "Attacker" \/ winner(u) = "Defender"
    BY DEF winner
  <2> QED BY <2>1, <2>2, <2>3 DEF Won
<1> QED BY <1>1, <1>2, <1>3 DEF CompanyFiguresAddUp

-----------------------------------------------------------------------------
(* A player's profile *)

LEMMA FiguresCover ==
    ASSUME TypeOK, NEW p, NEW some \in SUBSET PerformancesOf(p),
           NEW c \in {r.class : r \in some}
    PROVE  \E f \in Figures(p) :
               /\ f.class = c
               /\ f.games >= Cardinality({r \in some : r.class = c})
               /\ f.wins >= Cardinality({r \in {r \in some : r.class = c} : r.win})
<1>1. PICK mine : mine = {r \in PerformancesOf(p) : r.class = c}
  OBVIOUS
<1>2. PICK won : won = {r \in mine : r.win}
  OBVIOUS
<1>3. PICK shown : shown = {r \in some : r.class = c}
  OBVIOUS
<1>4. PICK shownWon : shownWon = {r \in shown : r.win}
  OBVIOUS
<1>5. shown \in SUBSET mine /\ shownWon \in SUBSET won
  BY <1>1, <1>2, <1>3, <1>4
<1>6. mine \in SUBSET PerformancesOf(p) /\ won \in SUBSET PerformancesOf(p)
      /\ shown \in SUBSET PerformancesOf(p) /\ shownWon \in SUBSET PerformancesOf(p)
  BY <1>1, <1>2, <1>5
<1>7. /\ IsFiniteSet(mine) /\ Cardinality(mine) \in Nat
      /\ IsFiniteSet(won) /\ Cardinality(won) \in Nat
      /\ Cardinality(shown) \in Nat /\ Cardinality(shownWon) \in Nat
  BY <1>6, PartFinite
<1>8. Cardinality(shown) =< Cardinality(mine)
  BY <1>5, <1>7, FS_Subset
<1>9. Cardinality(shownWon) =< Cardinality(won)
  BY <1>5, <1>7, FS_Subset
<1>10. PICK f : f = [class |-> c, games |-> Cardinality(mine), wins |-> Cardinality(won)]
  OBVIOUS
<1>11. f = FiguresOfClass(p, c)
  BY <1>1, <1>2, <1>10 DEF FiguresOfClass
<1>12. f \in Figures(p)
  BY <1>11 DEF Figures
<1>13. /\ f.class = c /\ f.games >= Cardinality(shown)
       /\ f.wins >= Cardinality(shownWon)
  BY <1>7, <1>8, <1>9, <1>10
<1> QED BY <1>3, <1>4, <1>12, <1>13

LEMMA ProfileStep ==
    ASSUME TypeOK, StageInv, LinkInv, ProfileInv, Next
    PROVE  ProfileInv'
<1>0. ask' = ask
  BY DEF Next, Arrive, Answer, Change, Idle, vars, request, Enrol, Store, Rollback,
      SearchPage, ReadPlayer, ReadRecents, ReadSides, ReadFigures, ReadTotal, ReadRows,
      ReadAttacked, ReadDefended
<1> SUFFICES ASSUME ask.kind = "profile", ~undone'
             PROVE  ProfileInv'
  BY <1>0 DEF ProfileInv
<1>1. pc \in {"idle", "player", "recents", "sides", "figures", "done", "failed"}
  BY DEF StageInv, Stages
<1>2. got \in Got
  BY DEF TypeOK, Got
<1>3. CASE Idle
  BY <1>0, <1>3 DEF Idle, vars, ProfileInv, ShownCovered, PerformancesOf
<1>4. CASE Arrive
  <2>1. got' = got /\ got.recents = {} /\ pc' = "player"
    BY <1>4 DEF Arrive, StageInv, FirstQuery
  <2> QED BY <2>1 DEF ProfileInv
<1>5. CASE Change
  <2>1. UNCHANGED <<pc, got>>
    BY <1>5 DEF Change, Enrol, Store, Rollback, request
  <2>2. rows \subseteq rows' /\ ~undone
    BY <1>5 DEF Change, Enrol, Store, Rollback
  <2>3. \A p : PerformancesOf(p) \subseteq PerformancesOf(p)'
    BY <2>2 DEF PerformancesOf
  <2> QED BY <2>1, <2>2, <2>3 DEF ProfileInv, ShownCovered, PerformancesOf
<1>6. CASE Answer
  <2>0. rows' = rows /\ undone' = undone
    BY <1>6 DEF Answer, SearchPage, ReadPlayer, ReadRecents, ReadSides, ReadFigures,
        ReadTotal, ReadRows, ReadAttacked, ReadDefended, tables
  <2>1. got.recents \subseteq PerformancesOf(got.player) /\ pc # "failed"
    BY <2>0 DEF ProfileInv
  <2>2. CASE ReadPlayer
    <3>1. got'.recents = {} /\ pc' # "failed"
      BY <1>2, <2>2 DEF ReadPlayer, StageInv, Got
    <3> QED BY <3>1 DEF ProfileInv, ShownCovered
  <2>3. CASE ReadRecents
    <3>1. PICK some \in SUBSET PerformancesOf(got.player) :
              got' = [got EXCEPT !.recents = some]
      BY <2>3 DEF ReadRecents
    <3>2. got'.recents = some /\ got'.player = got.player /\ pc' = "sides"
      BY <1>2, <2>3, <3>1 DEF ReadRecents, Got
    <3> QED BY <2>0, <3>2 DEF ProfileInv, PerformancesOf
  <2>4. CASE ReadSides
    <3>1. \A r \in got.recents : r \in rows /\ r \in Row /\ war[r.war] = "stored"
      BY <2>1 DEF PerformancesOf, LinkInv, TypeOK
    <3>2. {r.war : r \in got.recents} \subseteq Stored
      BY <3>1 DEF Stored, Row
    <3>3. pc' = "figures" /\ got' = got
      BY <2>4, <3>2 DEF ReadSides
    <3> QED BY <2>0, <2>1, <3>3 DEF ProfileInv, PerformancesOf
  <2>5. CASE ReadFigures
    <3>1. got'.recents = got.recents /\ got'.player = got.player
          /\ got'.figures = Figures(got.player) /\ pc' = "done"
      BY <1>2, <2>5 DEF ReadFigures, Got
    <3>2. got.recents \in SUBSET PerformancesOf(got.player)
      BY <2>1
    <3>3. PICK p, some : p = got.player /\ some = got.recents
      OBVIOUS
    <3>4. \A c \in {r.class : r \in some} :
             \E f \in Figures(p) :
                 /\ f.class = c
                 /\ f.games >= Cardinality({r \in some : r.class = c})
                 /\ f.wins >= Cardinality({r \in {r \in some : r.class = c} : r.win})
      <4> SUFFICES ASSUME NEW c \in {r.class : r \in some}
                   PROVE  \E f \in Figures(p) :
                 /\ f.class = c
                 /\ f.games >= Cardinality({r \in some : r.class = c})
                 /\ f.wins >= Cardinality({r \in {r \in some : r.class = c} : r.win})
        OBVIOUS
      <4>1. some \in SUBSET PerformancesOf(p)
        BY <3>2, <3>3
      <4> QED BY <4>1, FiguresCover
    <3>5. ShownCovered'
      BY <3>1, <3>3, <3>4 DEF ShownCovered
    <3> QED BY <2>0, <2>1, <3>1, <3>5 DEF ProfileInv, PerformancesOf
  <2>6. ReadPlayer \/ ReadRecents \/ ReadSides \/ ReadFigures
    BY <1>1, <1>6 DEF Answer, SearchPage, ReadTotal, ReadRows, ReadAttacked, ReadDefended
  <2> QED BY <2>2, <2>3, <2>4, <2>5, <2>6
<1> QED BY <1>3, <1>4, <1>5, <1>6 DEF Next

LEMMA ProfileCovers == ProfileInv => ProfileCoversRecents
BY DEF ProfileInv, ProfileCoversRecents, ShownCovered

-----------------------------------------------------------------------------
(* The players with the most wins *)

\* How many rows a page has
LEMMA PageLength ==
    ASSUME NEW a \in Nat, NEW b \in Nat, a =< b, NEW offset \in Int
    PROVE  Least({Limit, Highest({0, a - offset})}) =< Least({Limit, Highest({0, b - offset})})
<1>1. ASSUME NEW x \in Int PROVE Highest({0, x}) = IF x > 0 THEN x ELSE 0
  <2>1. PICK y : y = IF x > 0 THEN x ELSE 0
    OBVIOUS
  <2>2. y \in {0, x} /\ \A m \in {0, x} : m =< y
    BY <2>1
  <2>3. \A n \in {0, x} : (\A m \in {0, x} : m =< n) => n = y
    BY <2>1
  <2> QED BY <2>1, <2>2, <2>3 DEF Highest
<1>2. ASSUME NEW x \in Int PROVE Least({Limit, x}) = IF x < Limit THEN x ELSE Limit
  <2>1. PICK y : y = IF x < Limit THEN x ELSE Limit
    OBVIOUS
  <2>2. Limit \in Int
    BY QuestionsAssumption
  <2>3. y \in {Limit, x} /\ \A m \in {Limit, x} : y =< m
    BY <2>1, <2>2
  <2>4. \A n \in {Limit, x} : (\A m \in {Limit, x} : n =< m) => n = y
    BY <2>1, <2>2
  <2> QED BY <2>1, <2>3, <2>4 DEF Least
<1>3. PICK x, y : /\ x = IF a - offset > 0 THEN a - offset ELSE 0
                  /\ y = IF b - offset > 0 THEN b - offset ELSE 0
  OBVIOUS
<1>4. Highest({0, a - offset}) = x /\ Highest({0, b - offset}) = y
  BY <1>1, <1>3
<1>5. x \in Int /\ y \in Int /\ x =< y /\ Limit \in Int
  BY <1>3, QuestionsAssumption
<1>6. (IF x < Limit THEN x ELSE Limit) =< (IF y < Limit THEN y ELSE Limit)
  BY <1>5
<1> QED BY <1>2, <1>4, <1>5, <1>6

\* Players that an upload adds before it stores its war have no performances.
LEMMA NewcomersDoNotQualify ==
    ASSUME TypeOK, LinkInv, NEW u \in Upload, Enrol(u), NEW c
    PROVE  Qualified(c)' = Qualified(c)
<1>1. rows' = rows /\ players \subseteq players' /\ players' \subseteq Player
  BY TablesTyped DEF Enrol, TypeOK
<1>2. \A p : Counted(p, c)' = Counted(p, c)
  BY <1>1 DEF Counted, PerformancesOf
<1>3. ASSUME NEW p \in players', p \notin players
      PROVE  ~(Cardinality(Counted(p, c)) >= minGames)
  <2>1. p # NoPlayer
    BY <1>1, NobodyAssumption DEF Player
  <2>2. Counted(p, c) = {}
    BY <1>3, <2>1 DEF Counted, PerformancesOf, LinkInv
  <2>3. Cardinality({}) = 0
    BY FS_EmptySet
  <2> QED BY <2>2, <2>3 DEF minGames
<1>4. Qualified(c)' = {p \in players' : Cardinality(Counted(p, c)) >= minGames}
  BY <1>2 DEF Qualified, minGames
<1> QED BY <1>1, <1>3, <1>4 DEF Qualified

\* Who qualifies still does when another war is stored.
LEMMA StoredQualifyMore ==
    ASSUME TypeOK, NEW u \in Upload, Store(u), NEW c
    PROVE  Cardinality(Qualified(c)) =< Cardinality(Qualified(c)')
<1>1. players' = players /\ rows \subseteq rows' /\ TypeOK'
  BY TablesTyped DEF Store
<1>2. ASSUME NEW p \in players PROVE Cardinality(Counted(p, c)) =< Cardinality(Counted(p, c)')
  <2>1. Counted(p, c) \subseteq Counted(p, c)' /\ Counted(p, c)' \subseteq rows'
    BY <1>1 DEF Counted, PerformancesOf
  <2>2. IsFiniteSet(Counted(p, c)')
    BY <1>1, <2>1, FS_Subset DEF TypeOK
  <2> QED BY <2>1, <2>2, FS_Subset
<1>3. ASSUME NEW p \in players
      PROVE  Cardinality(Counted(p, c)) \in Nat /\ Cardinality(Counted(p, c)') \in Nat
  <2>1. /\ Counted(p, c) \subseteq rows /\ IsFiniteSet(rows)
        /\ Counted(p, c)' \subseteq rows' /\ IsFiniteSet(rows')
    BY <1>1 DEF Counted, PerformancesOf, TypeOK
  <2> QED BY <2>1, FS_Subset, FS_CardinalityType
<1>4. Qualified(c) \subseteq Qualified(c)'
  BY <1>1, <1>2, <1>3 DEF Qualified, minGames
<1>5. IsFiniteSet(Qualified(c)')
  <2>1. Qualified(c)' \subseteq players' /\ IsFiniteSet(players')
    BY <1>1 DEF Qualified, TypeOK
  <2> QED BY <2>1, FS_Subset
<1> QED BY <1>4, <1>5, FS_Subset

LEMMA TotalStep ==
    ASSUME TypeOK, StageInv, LinkInv, TotalInv, Next
    PROVE  TotalInv'
<1>0. ask' = ask
  BY DEF Next, Arrive, Answer, Change, Idle, vars, request, Enrol, Store, Rollback,
      SearchPage, ReadPlayer, ReadRecents, ReadSides, ReadFigures, ReadTotal, ReadRows,
      ReadAttacked, ReadDefended
<1> SUFFICES ASSUME ask.kind = "wins", ~undone'
             PROVE  TotalInv'
  BY <1>0 DEF TotalInv
<1>1. pc \in {"idle", "total", "rows", "done"}
  BY DEF StageInv, Stages
<1>2. got \in Got
  BY DEF TypeOK, Got
<1>3. CASE Idle
  BY <1>0, <1>3 DEF Idle, vars, TotalInv, PageOf, Qualified, Counted, PerformancesOf
<1>4. CASE Arrive
  <2>1. pc' = "total"
    BY <1>4 DEF Arrive, FirstQuery
  <2> QED BY <2>1 DEF TotalInv
<1>5. ASSUME NEW u \in Upload, Enrol(u)
      PROVE  TotalInv'
  <2>1. UNCHANGED <<pc, got, seen, undone, grown>>
    BY <1>5 DEF Enrol, request
  <2>2. PICK c : c = ask.class
    OBVIOUS
  <2>3. Qualified(c)' = Qualified(c)
    BY <1>5, NewcomersDoNotQualify
  <2>4. Qualified(ask.class)' = Qualified(ask.class)
    <3>1. Qualified(ask.class)' = Qualified(c)'
      BY <1>0, <2>2 DEF Qualified, Counted, PerformancesOf
    <3> QED BY <2>2, <2>3, <3>1
  <2>5. PageOf(got.total)' = PageOf(got.total)
    BY <1>0, <2>1 DEF PageOf
  <2> QED BY <1>0, <2>1, <2>4, <2>5 DEF TotalInv
<1>6. ASSUME NEW u \in Upload, Store(u)
      PROVE  TotalInv'
  <2>1. CASE grown'
    <3>1. UNCHANGED <<pc, got, seen, undone>>
      BY <1>6 DEF Store, request
    <3>2. PICK c : c = ask.class
      OBVIOUS
    <3>3. Cardinality(Qualified(c)) =< Cardinality(Qualified(c)')
      BY <1>6, StoredQualifyMore
    <3>4. Cardinality(Qualified(c)) \in Nat /\ Cardinality(Qualified(c)') \in Nat
      <4>1. TypeOK'
        BY <1>6, TablesTyped
      <4>2. IsFiniteSet(Qualified(c)) /\ IsFiniteSet(Qualified(c)')
        BY <4>1, FS_Subset DEF Qualified, TypeOK
      <4> QED BY <4>2, FS_CardinalityType
    <3>5. got.total \in Nat
      BY <1>2 DEF Got
    <3>6. pc = "rows" => got.total =< Cardinality(Qualified(c)')
      BY <3>1, <3>2, <3>3, <3>4, <3>5 DEF TotalInv
    <3>7. pc = "done" => PageOf(got.total) =< Cardinality(seen)
      BY <3>1 DEF TotalInv
    <3>8. Qualified(ask.class)' = Qualified(c)'
      BY <1>0, <3>2 DEF Qualified, Counted, PerformancesOf
    <3>9. PageOf(got.total)' = PageOf(got.total)
      BY <1>0, <3>1 DEF PageOf
    <3> QED BY <1>0, <2>1, <3>1, <3>6, <3>7, <3>8, <3>9 DEF TotalInv
  <2>2. CASE ~grown'
    <3>1. UNCHANGED <<rows, players, pc, got, seen, undone, grown>>
      BY <1>6, <2>2 DEF Store, request
    <3> QED BY <1>0, <3>1 DEF TotalInv, PageOf, Qualified, Counted, PerformancesOf
  <2> QED BY <2>1, <2>2
<1>7. ASSUME NEW u \in Upload, Rollback(u)
      PROVE  TotalInv'
  BY <1>7 DEF Rollback
<1>8. CASE ReadTotal
  <2>1. got'.total = CountQualified(ask.class) /\ pc' = "rows"
    BY <1>2, <1>8 DEF ReadTotal, Got
  <2>2. UNCHANGED <<rows, players>>
    BY <1>8 DEF ReadTotal, tables
  <2>3. /\ CountQualified(ask.class) = Cardinality(Qualified(ask.class))
        /\ CountQualified(ask.class) \in Nat
    BY CountedFinite
  <2>4. got'.total =< Cardinality(Qualified(ask.class))
        /\ got'.total = Cardinality(Qualified(ask.class))
    BY <2>1, <2>3
  <2> QED BY <1>0, <2>1, <2>2, <2>4 DEF TotalInv, Qualified, Counted, PerformancesOf
<1>9. CASE ReadRows
  <2>1. pc = "rows" /\ pc' = "done" /\ UNCHANGED <<got, undone, grown>>
    BY <1>9 DEF ReadRows
  <2>2. PICK n : n = Cardinality(Qualified(ask.class))
    OBVIOUS
  <2>3. Cardinality(seen') = PageOf(n)
    BY <1>9, <2>2 DEF ReadRows, PageOf
  <2>4. n \in Nat /\ got.total \in Nat
    BY <1>2, <2>2, CountedFinite DEF Got
  <2>5. got.total =< n /\ (~grown => got.total = n)
    BY <2>1, <2>2 DEF TotalInv
  <2>6. (ask.page - 1) * Limit \in Int
    BY QuestionsAssumption DEF TypeOK, Question
  <2>7. PageOf(got.total) =< PageOf(n)
    BY <2>4, <2>5, <2>6, PageLength DEF PageOf
  <2>8. PageOf(got.total)' = PageOf(got.total)
    BY <1>0, <2>1 DEF PageOf
  <2> QED BY <1>0, <2>1, <2>3, <2>5, <2>7, <2>8 DEF TotalInv
<1>10. Answer => ReadTotal \/ ReadRows
  BY <1>1 DEF Answer, SearchPage, ReadPlayer, ReadRecents, ReadSides, ReadFigures,
      ReadAttacked, ReadDefended
<1> QED BY <1>3, <1>4, <1>5, <1>6, <1>7, <1>8, <1>9, <1>10 DEF Next, Change

LEMMA TotalFits == TotalInv => TotalIsKept
BY DEF TotalInv, TotalIsKept, PageOf, Answered

-----------------------------------------------------------------------------
(* The player search *)

LEMMA LastPage ==
    \A t \in Nat, l \in Nat \ {0}, n \in Nat : n >= (t + l - 1) \div l => n * l >= t
<1> SUFFICES ASSUME NEW t \in Nat, NEW l \in Nat \ {0}, NEW n \in Nat,
                    n >= (t + l - 1) \div l
             PROVE  n * l >= t
  OBVIOUS
<1>1. PICK k : k = (t + l - 1) \div l
  OBVIOUS
<1>2. k \in Nat /\ k * l >= t
  BY <1>1
<1>3. n * l >= k * l
  BY <1>1, <1>2
<1>4. n * l \in Nat /\ k * l \in Nat
  BY <1>2
<1> QED BY <1>2, <1>3, <1>4

LEMMA PlaceType == \A m \in Nick : Place(m) \in Nat
<1>1. Cardinality(Nick) \in Nat
  BY NicksAssumption, FS_CardinalityType
<1>2. DOMAIN NickOrder = 1..Cardinality(Nick)
      /\ \A m \in Nick : \E n \in DOMAIN NickOrder : NickOrder[n] = m
  BY NicksAssumption DEF Bijection, Injection, Surjection
<1> QED BY <1>1, <1>2 DEF Place

LEMMA RankType ==
    ASSUME NEW m \in Nick, NEW q \in Query
    PROVE  /\ Ranks[m][q] \in Nat
           /\ Alike[m][q] => Ranks[m][q] < NoMatch
<1>1. PICK name, query : name = normalizeNick(m) /\ query = normalizeNick(q)
  OBVIOUS
<1>2. name \in Word /\ query \in Word
  BY <1>1, NicksAssumption, NormalIsWord
<1>3. PICK distance : distance = levenshtein(name, query)
  OBVIOUS
<1>4. distance \in Nat
  BY <1>2, <1>3, DistanceType
<1>5. Ranks[m][q] =
        CASE name = query -> 0
          [] name # query /\ IsPrefix(query, name) -> 1
          [] ~IsPrefix(query, name) /\ Occurs(query, name) -> 2
          [] ~Occurs(query, name) /\ distance =< maxAllowedDistance(query) -> 3 + distance
          [] OTHER -> NoMatch
  BY <1>1, <1>3 DEF Ranks, MatchRank
<1>6. Ranks[m][q] \in {0, 1, 2, 3 + distance, NoMatch}
  BY <1>5
<1>7. Ranks[m][q] \in Nat
  BY <1>4, <1>6 DEF NoMatch
<1>8. ASSUME Alike[m][q]
      PROVE  Ranks[m][q] < NoMatch
  <2>1. distance =< Threshold(name, query)
    BY <1>1, <1>3, <1>8 DEF Alike, areNicknamesEqual
  <2>2. /\ Threshold(name, query) \in 0..3
        /\ Len(query) =< 4 => Threshold(name, query) =< 1
    BY <1>2, ThresholdType
  <2>3. distance =< maxAllowedDistance(query) /\ distance =< 3
    BY <1>4, <2>1, <2>2 DEF maxAllowedDistance
  <2>4. Ranks[m][q] \in {0, 1, 2, 3 + distance}
    <3>1. CASE name = query
      BY <1>5, <3>1
    <3>2. CASE name # query /\ IsPrefix(query, name)
      BY <1>5, <3>2
    <3>3. CASE name # query /\ ~IsPrefix(query, name) /\ Occurs(query, name)
      BY <1>5, <3>3
    <3>4. CASE name # query /\ ~IsPrefix(query, name) /\ ~Occurs(query, name)
      BY <1>5, <2>3, <3>4
    <3> QED BY <3>1, <3>2, <3>3, <3>4
  <2> QED BY <1>4, <2>3, <2>4 DEF NoMatch
<1> QED BY <1>7, <1>8

LEMMA MatchingPart ==
    \A found, query : Matching(found, query) \subseteq found
BY DEF Matching

LEMMA OffsetGrows ==
    ASSUME NEW all, IsFiniteSet(all), NEW found \in SUBSET all, NEW p, NEW query
    PROVE  /\ Offset(p, found, query) \in Nat /\ Offset(p, all, query) \in Nat
           /\ Offset(p, found, query) =< Offset(p, all, query)
<1>1. PICK S, T : S = {q \in found : Before(q, p, query)}
                  /\ T = {q \in all : Before(q, p, query)}
  OBVIOUS
<1>2. T \in SUBSET all /\ S \in SUBSET T
  BY <1>1
<1>3. IsFiniteSet(T)
  BY <1>2, FS_Subset
<1>4. IsFiniteSet(S) /\ Cardinality(S) =< Cardinality(T)
  BY <1>2, <1>3, FS_Subset
<1>5. Cardinality(S) \in Nat /\ Cardinality(T) \in Nat
  BY <1>3, <1>4, FS_CardinalityType
<1> QED BY <1>1, <1>4, <1>5 DEF Offset

LEMMA OffsetWithin ==
    ASSUME NEW found \in SUBSET Player, IsFiniteSet(found), NEW p \in found, NEW query \in Query
    PROVE  Cardinality(found) \in Nat /\ Offset(p, found, query) < Cardinality(found)
<1>1. PICK S : S = {q \in found : Before(q, p, query)}
  OBVIOUS
<1>2. ~Before(p, p, query)
  <2>1. p.nick \in Nick
    BY DEF Player
  <2>2. Place(p.nick) \in Nat /\ Ranks[p.nick][query] \in Nat
    BY <2>1, PlaceType, RankType
  <2> QED BY <2>2 DEF Before
<1>3. S \in SUBSET found /\ S # found
  BY <1>1, <1>2
<1>4. IsFiniteSet(S) /\ Cardinality(S) =< Cardinality(found) /\ Cardinality(S) # Cardinality(found)
  BY <1>3, FS_Subset
<1>5. Cardinality(S) \in Nat /\ Cardinality(found) \in Nat
  BY <1>4, FS_CardinalityType
<1> QED BY <1>1, <1>4, <1>5 DEF Offset

LEMMA QueryType ==
    ASSUME TypeOK, ask.kind = "search"
    PROVE  ask.query \in Query
<1>1. ask \in Question
  BY QuestionsAssumption DEF TypeOK
<1> QED BY <1>1 DEF Question

LEMMA PagesStep ==
    ASSUME TypeOK, TypeOK', StageInv, BeforeInv, PagesInv, Next
    PROVE  PagesInv'
<1>0. ask' = ask
  BY DEF Next, Arrive, Answer, Change, Idle, vars, request, Enrol, Store, Rollback,
      SearchPage, ReadPlayer, ReadRecents, ReadSides, ReadFigures, ReadTotal, ReadRows,
      ReadAttacked, ReadDefended
<1> SUFFICES ASSUME ask.kind = "search", ~undone'
             PROVE  PagesInv'
  BY <1>0 DEF PagesInv
<1>1. pc \in {"idle", "page", "done"}
  BY DEF StageInv, Stages
<1>2. got \in Got
  BY DEF TypeOK, Got
<1>3. PICK query \in Query : query = ask.query /\ query = ask'.query
  BY <1>0, QueryType
<1>4. CASE Idle
  BY <1>0, <1>4 DEF Idle, vars, PagesInv, Ahead, Offset, Before, Matching, Ranks, Place
<1>5. CASE Arrive
  <2>1. pc' = "page" /\ got' = got /\ got.page = 1
    BY <1>5 DEF Arrive, FirstQuery, StageInv, FirstPage
  <2>2. ASSUME NEW p PROVE Ahead(p)'
    <3>1. PICK found : found = Matching(players', query)
      OBVIOUS
    <3>2. IsFiniteSet(found)
      BY <3>1, MatchingPart, FS_Subset DEF TypeOK
    <3>3. Offset(p, found, query) \in Nat
      BY <3>2, OffsetGrows
    <3>4. (got'.page - 1) * Limit = 0
      BY <2>1, QuestionsAssumption
    <3>5. Offset(p, found, query)' = Offset(p, found, query)
      BY DEF Offset, Before, Ranks, Place
    <3> QED BY <1>3, <3>1, <3>3, <3>4 DEF Ahead
  <2> QED BY <2>1, <2>2 DEF PagesInv
<1>6. CASE Change
  <2>1. UNCHANGED <<pc, got, seen, before>> /\ players \subseteq players' /\ ~undone
    BY <1>6 DEF Change, Enrol, Store, Rollback, request
  <2>2. ASSUME NEW p, Ahead(p) PROVE Ahead(p)'
    <3>1. PICK found, all : found = Matching(players, query) /\ all = Matching(players', query)
      OBVIOUS
    <3>2. found \in SUBSET all
      BY <2>1, <3>1 DEF Matching
    <3>3. IsFiniteSet(all)
      BY <3>1, MatchingPart, FS_Subset DEF TypeOK
    <3>4. /\ Offset(p, found, query) \in Nat /\ Offset(p, all, query) \in Nat
          /\ Offset(p, found, query) =< Offset(p, all, query)
      BY <3>2, <3>3, OffsetGrows
    <3>5. Offset(p, found, query) >= (got.page - 1) * Limit
      BY <1>3, <2>2, <3>1 DEF Ahead
    <3>6. (got.page - 1) * Limit \in Int
      BY <1>2, QuestionsAssumption DEF Got
    <3>7. Offset(p, all, query) >= (got.page - 1) * Limit
      BY <3>4, <3>5, <3>6
    <3> QED BY <1>3, <2>1, <3>1, <3>7 DEF Ahead
  <2>3. \A p \in Matching(before.players, ask.query) :
            /\ pc = "page" => p \in seen \/ Ahead(p)
            /\ pc = "done" => p \in seen
    BY <2>1 DEF PagesInv
  <2>4. ASSUME NEW p \in Matching(before.players, ask.query)
        PROVE  /\ pc' = "page" => p \in seen' \/ Ahead(p)'
               /\ pc' = "done" => p \in seen'
    BY <2>1, <2>2, <2>3
  <2>5. Matching(before.players, ask.query)' = Matching(before.players, ask.query)
    BY <1>0, <2>1 DEF Matching, Ranks
  <2> HIDE DEF Ahead
  <2> QED BY <2>4, <2>5 DEF PagesInv
<1>7. CASE SearchPage
  <2>1. PICK found : found = Matching(players, query)
    OBVIOUS
  <2>2. pc = "page" /\ UNCHANGED <<players, before, undone>>
    BY <1>7 DEF SearchPage, tables
  <2>3. found \in SUBSET Player /\ IsFiniteSet(found)
    BY <2>1, MatchingPart, FS_Subset DEF TypeOK
  <2>4. PICK n \in Nat : n = got.page /\ n # 0
    BY <1>2 DEF Got
  <2>5. seen' = seen \cup OnPage(found, query, n)
    BY <1>3, <1>7, <2>1, <2>4 DEF SearchPage
  <2>6. /\ n < Pages(Cardinality(found)) => pc' = "page" /\ got'.page = n + 1
        /\ ~(n < Pages(Cardinality(found))) => pc' = "done"
    BY <1>2, <1>3, <1>7, <2>1, <2>2, <2>4 DEF SearchPage, Got
  <2>7. ASSUME NEW p \in Matching(before.players, ask.query)
        PROVE  /\ pc' = "page" => p \in seen' \/ Ahead(p)'
               /\ pc' = "done" => p \in seen'
    <3>1. p \in found
      BY <1>3, <2>1, <2>2 DEF Matching, BeforeInv
    <3>2. p \in seen \/ Offset(p, found, query) >= (n - 1) * Limit
      BY <1>3, <2>1, <2>2, <2>4 DEF PagesInv, Ahead
    <3>3. Offset(p, found, query) \in Nat
      BY <2>3, OffsetGrows
    <3>4. Limit \in Nat /\ Limit # 0 /\ (n - 1) * Limit \in Int /\ n * Limit \in Int
      BY QuestionsAssumption
    <3>5. CASE p \in seen'
      BY <3>5
    <3>6. CASE p \notin seen'
      <4>1. Offset(p, found, query) >= n * Limit
        BY <2>5, <3>1, <3>2, <3>3, <3>4, <3>6 DEF OnPage
      <4>2. n < Pages(Cardinality(found))
        <5>1. SUFFICES ASSUME ~(n < Pages(Cardinality(found))) PROVE FALSE
          OBVIOUS
        <5>2. Cardinality(found) \in Nat /\ Offset(p, found, query) < Cardinality(found)
          BY <2>3, <3>1, OffsetWithin
        <5>3. PICK t \in Nat : t = Cardinality(found)
          BY <5>2
        <5>4. (t + Limit - 1) \div Limit \in Int
          BY <3>4
        <5>5. n >= (t + Limit - 1) \div Limit
          BY <5>1, <5>3, <5>4 DEF Pages
        <5>6. n * Limit >= t
          BY <3>4, <5>5, LastPage
        <5> QED BY <3>3, <3>4, <4>1, <5>2, <5>3, <5>6
      <4>3. pc' = "page" /\ (got'.page - 1) * Limit = n * Limit
        BY <2>6, <4>2
      <4>4. Ahead(p)'
        BY <1>3, <2>1, <2>2, <4>1, <4>3
           DEF Ahead, Offset, Before, Matching, Ranks, Place
      <4> QED BY <4>3, <4>4
    <3> QED BY <3>5, <3>6
  <2>8. Matching(before.players, ask.query)' = Matching(before.players, ask.query)
    BY <1>0, <2>2 DEF Matching, Ranks
  <2> HIDE DEF Ahead
  <2> QED BY <2>7, <2>8 DEF PagesInv
<1>8. Answer => SearchPage
  BY <1>1 DEF Answer, ReadPlayer, ReadRecents, ReadSides, ReadFigures,
      ReadTotal, ReadRows, ReadAttacked, ReadDefended
<1> QED BY <1>4, <1>5, <1>6, <1>7, <1>8 DEF Next

LEMMA SearchMisses == TypeOK /\ PagesInv => SearchMissesNobody
<1> SUFFICES ASSUME TypeOK, PagesInv, ask.kind = "search", pc = "done", ~undone,
                    NEW p \in before.players,
                    p \in Matching(before.players, ask.query) \/ Alike[p.nick][ask.query]
             PROVE  p \in seen
  BY DEF SearchMissesNobody, Answered
<1>1. ask.query \in Query
  BY QueryType
<1>2. p.nick \in Nick
  BY DEF TypeOK, Player
<1>3. Alike[p.nick][ask.query] => Ranks[p.nick][ask.query] < NoMatch
  BY <1>1, <1>2, RankType
<1>4. p \in Matching(before.players, ask.query)
  BY <1>3 DEF Matching
<1> QED BY <1>4 DEF PagesInv

-----------------------------------------------------------------------------
(* Win streaks *)

LEMMA HighestIs ==
    ASSUME NEW S \in SUBSET Nat, NEW n \in S, \A m \in S : m =< n
    PROVE  Highest(S) = n
<1>1. Highest(S) \in S /\ \A m \in S : m =< Highest(S)
  BY DEF Highest
<1>2. Highest(S) =< n /\ n =< Highest(S) /\ Highest(S) \in Nat /\ n \in Nat
  BY <1>1
<1> QED BY <1>2

LEMMA HighestOfSome ==
    ASSUME NEW S \in SUBSET Nat, S # {}, NEW b \in Nat, \A m \in S : m =< b
    PROVE  \E n \in S : \A m \in S : m =< n
<1>1. PICK T : T = {b - m : m \in S}
  OBVIOUS
<1>2. T \in SUBSET Nat /\ T # {}
  <2>1. ASSUME NEW m \in S PROVE b - m \in Nat
    <3>1. m \in Nat /\ m =< b
      OBVIOUS
    <3> QED BY <3>1
  <2> QED BY <1>1, <2>1
<1>3. PICK k \in T : \A m \in T : k =< m
  BY <1>2, LeastOfSome
<1>4. PICK n \in S : k = b - n
  BY <1>1, <1>3
<1>5. ASSUME NEW m \in S PROVE m =< n
  <2>1. b - m \in T
    BY <1>1
  <2>2. b - n =< b - m
    BY <1>3, <1>4, <2>1
  <2>3. m \in Nat /\ n \in Nat
    OBVIOUS
  <2> QED BY <2>2, <2>3
<1> QED BY <1>5

\* Wins are of one group where no loss lies between them, and only there.
Separates(l, first, last) == ~l.win /\ first.at < l.at /\ l.at =< last.at
LEMMA GroupsAreRuns ==
    ASSUME NEW mine \in SUBSET Row, IsFiniteSet(mine), NEW r \in mine, NEW s \in mine,
           r.at =< s.at
    PROVE  /\ StreakGroup(r, mine) \in Nat
           /\ StreakGroup(r, mine) = StreakGroup(s, mine)
              <=> \A l \in mine : ~Separates(l, r, s)
<1>1. PICK R, S : R = {l \in mine : ~l.win /\ l.at =< r.at}
                  /\ S = {l \in mine : ~l.win /\ l.at =< s.at}
  OBVIOUS
<1>2. \A l \in mine : l.at \in Nat
  BY DEF Row
<1>3. S \in SUBSET mine /\ R \in SUBSET S
  BY <1>1, <1>2
<1>4. IsFiniteSet(S)
  BY <1>3, FS_Subset
<1>5. IsFiniteSet(R) /\ (Cardinality(R) = Cardinality(S) => R = S)
  BY <1>3, <1>4, FS_Subset
<1>6. Cardinality(R) \in Nat
  BY <1>5, FS_CardinalityType
<1>7. R = S <=> \A l \in mine : ~Separates(l, r, s)
  BY <1>1, <1>2, <1>3 DEF Separates
<1>8. StreakGroup(r, mine) = Cardinality(R) /\ StreakGroup(s, mine) = Cardinality(S)
  BY <1>1 DEF StreakGroup
<1> QED BY <1>5, <1>6, <1>7, <1>8

\* The window functions find the longest run, whatever the rows.
LEMMA LongestRun ==
    ASSUME TypeOK, NEW p, NEW c
    PROVE  WinStreak(p, c) = Highest({Cardinality(run) : run \in Runs(Counted(p, c))})
<1>1. PICK mine : mine = Counted(p, c)
  OBVIOUS
<1>2. PICK won : won = {r \in mine : r.win}
  OBVIOUS
<1>3. mine \in SUBSET Row /\ IsFiniteSet(mine) /\ Cardinality(mine) \in Nat
  <2>1. mine \in SUBSET PerformancesOf(p)
    BY <1>1 DEF Counted
  <2> QED BY <2>1, PartFinite DEF TypeOK
<1> DEFINE Group(g) == {r \in won : StreakGroup(r, mine) = g}
           Of(r) == Group(StreakGroup(r, mine))
<1>4. ASSUME NEW S \in SUBSET won
      PROVE  IsFiniteSet(S) /\ Cardinality(S) \in Nat /\ Cardinality(S) =< Cardinality(mine)
  <2>1. S \in SUBSET mine
    BY <1>2
  <2>2. IsFiniteSet(S) /\ Cardinality(S) =< Cardinality(mine)
    BY <1>3, <2>1, FS_Subset
  <2> QED BY <2>2, FS_CardinalityType
<1>5. \A run \in SUBSET won :
          run \in Runs(mine) <=> \A r, s \in run : \A l \in mine : ~Separates(l, r, s)
  BY <1>2 DEF Runs, Separates
<1>6. Runs(mine) \subseteq SUBSET won
  BY <1>2 DEF Runs
<1>7. \A r \in mine : r.at \in Nat
  BY <1>3 DEF Row
<1>8. won \subseteq mine
  BY <1>2
<1>9. ASSUME NEW r \in won
      PROVE  Of(r) \in Runs(mine)
  <2>1. ASSUME NEW s \in Of(r), NEW t \in Of(r), NEW l \in mine, Separates(l, s, t)
        PROVE  FALSE
    <3>1. s \in mine /\ t \in mine /\ s.at =< t.at
      BY <1>7, <1>8, <2>1 DEF Separates
    <3>2. StreakGroup(s, mine) = StreakGroup(t, mine)
      OBVIOUS
    <3> QED BY <1>3, <2>1, <3>1, <3>2, GroupsAreRuns
  <2>2. Of(r) \in SUBSET won
    OBVIOUS
  <2> HIDE DEF Of
  <2> QED BY <1>5, <2>1, <2>2
<1>10. ASSUME NEW run \in Runs(mine), NEW r \in run
       PROVE  run \in SUBSET Of(r)
  <2>0. run \in SUBSET won
    BY <1>6
  <2>1. ASSUME NEW s \in run PROVE StreakGroup(s, mine) = StreakGroup(r, mine)
    <3>1. r \in mine /\ s \in mine
      BY <1>8, <2>0
    <3>2. \A l \in mine : ~Separates(l, r, s) /\ ~Separates(l, s, r)
      BY <1>5, <2>0
    <3>3. r.at =< s.at \/ s.at =< r.at
      BY <1>7, <3>1
    <3> QED BY <1>3, <3>1, <3>2, <3>3, GroupsAreRuns
  <2> QED BY <2>0, <2>1
<1>11. PICK G, H : G = {Cardinality(Of(r)) : r \in won}
                   /\ H = {Cardinality(run) : run \in Runs(mine)}
  OBVIOUS
<1>12. ASSUME NEW r \in won PROVE Of(r) \in SUBSET won
  OBVIOUS
<1>13. WinStreak(p, c) = IF won = {} THEN 0 ELSE Highest(G)
  BY <1>1, <1>2, <1>11 DEF WinStreak
<1> HIDE DEF Of, Group
<1>14. G \in SUBSET Nat /\ \A m \in G : m =< Cardinality(mine)
  BY <1>4, <1>11, <1>12
<1>15. H \in SUBSET Nat
  BY <1>4, <1>6, <1>11
<1>16. Cardinality({}) = 0
  BY FS_EmptySet
<1>17. CASE won = {}
  <2>1. Runs(mine) = {{}}
    <3>1. {} \in Runs(mine)
      BY <1>5
    <3> QED BY <1>6, <1>17, <3>1
  <2>2. H = {0}
    BY <1>11, <1>16, <2>1
  <2>3. Highest(H) = 0
    BY <1>15, <2>2, HighestIs
  <2> QED BY <1>1, <1>11, <1>13, <1>17, <2>3
<1>18. CASE won # {}
  <2>1. G # {}
    BY <1>11, <1>18
  <2>2. PICK n \in G : \A m \in G : m =< n
    BY <1>3, <1>14, <2>1, HighestOfSome
  <2>3. Highest(G) = n
    BY <1>14, <2>2, HighestIs
  <2>4. n \in H
    BY <1>9, <1>11, <2>2
  <2>5. ASSUME NEW run \in Runs(mine) PROVE Cardinality(run) =< n
    <3>1. CASE run = {}
      BY <1>14, <1>16, <2>2, <3>1
    <3>2. CASE run # {}
      <4>1. PICK r \in run : TRUE
        BY <3>2
      <4>2. r \in won
        BY <1>6
      <4>3. run \in SUBSET Of(r)
        BY <1>10
      <4>4. PICK S : S = Of(r)
        OBVIOUS
      <4>5. IsFiniteSet(S) /\ Cardinality(S) \in Nat
        BY <1>4, <1>12, <4>2, <4>4
      <4>6. Cardinality(run) =< Cardinality(S)
        BY <4>3, <4>4, <4>5, FS_Subset
      <4>7. Cardinality(S) \in G
        BY <1>11, <4>2, <4>4
      <4>8. Cardinality(S) =< n /\ n \in Nat
        BY <1>14, <2>2, <4>7
      <4>9. Cardinality(run) \in Nat
        BY <1>4, <1>6
      <4> QED BY <4>5, <4>6, <4>8, <4>9
    <3> QED BY <3>1, <3>2
  <2>6. \A m \in H : m =< n
    BY <1>11, <2>5
  <2>7. Highest(H) = n
    BY <1>15, <2>4, <2>6, HighestIs
  <2> QED BY <1>1, <1>11, <1>13, <1>18, <2>3, <2>7
<1> QED BY <1>17, <1>18

-----------------------------------------------------------------------------
(* The theorems *)

IInv == /\ TypeOK /\ StageInv /\ LinkInv /\ BeforeInv
        /\ CompanyInv /\ ProfileInv /\ TotalInv /\ PagesInv

LEMMA IInvInit == Init => IInv
<1> SUFFICES ASSUME Init PROVE IInv
  OBVIOUS
<1>1. TypeOK /\ StageInv
  BY TypeInit
<1>2. /\ rows = {} /\ before.players = {} /\ before.wars = {} /\ pc = "idle"
      /\ got.recents = {} /\ got.attacked = {}
  BY DEF Init, Nothing
<1>3. LinkInv /\ BeforeInv
  BY <1>2 DEF LinkInv, BeforeInv
<1>4. CompanyInv /\ ProfileInv /\ TotalInv /\ PagesInv
  BY <1>2 DEF CompanyInv, ProfileInv, TotalInv, PagesInv
<1> QED BY <1>1, <1>3, <1>4 DEF IInv

LEMMA IInvStep == IInv /\ [Next]_vars => IInv'
<1>1. CASE Next
  BY <1>1, TypeStep, StageStep, LinkStep, CompanyStep, ProfileStep, TotalStep, PagesStep
     DEF IInv
<1>2. CASE UNCHANGED vars
  <2>1. SUFFICES ASSUME IInv PROVE IInv'
    BY <1>2
  <2>2. (TypeOK /\ StageInv /\ LinkInv /\ BeforeInv)'
    BY <1>2, <2>1 DEF IInv, vars, TypeOK, StageInv, LinkInv, BeforeInv
  <2>3. (CompanyInv /\ ProfileInv)'
    BY <1>2, <2>1 DEF IInv, vars, CompanyInv, ProfileInv, ShownCovered, PerformancesOf
  <2>4. TotalInv'
    BY <1>2, <2>1 DEF IInv, vars, TotalInv, PageOf, Qualified, Counted, PerformancesOf
  <2>5. PagesInv'
    BY <1>2, <2>1 DEF IInv, vars, PagesInv, Ahead, Offset, Before, Matching, Ranks, Place
  <2> QED BY <2>2, <2>3, <2>4, <2>5 DEF IInv
<1> QED BY <1>1, <1>2

LEMMA Invariant == Spec => []IInv
BY IInvInit, IInvStep, PTL DEF Spec

\* The distance levenshtein computes for two nicknames is the least number of
\* letters to insert, delete or replace that leads from the one to the other.
THEOREM DistanceIsRight == Spec => []DistanceCountsEdits
<1>1. Words \subseteq Word
  BY NicksAssumption, NormalIsWord DEF Words
<1>2. DistanceCountsEdits
  BY <1>1, DistanceIsLeastEdits DEF DistanceCountsEdits
<1> QED BY <1>2, PTL

\* areNicknamesEqual does not depend on which of two nicknames was stored first.
THEOREM AlikeIsSymmetric == Spec => []AlikeIsMutual
<1>1. ASSUME NEW m \in Nick \cup Query, NEW n \in Nick \cup Query
      PROVE  Alike[m][m] /\ (Alike[m][n] <=> Alike[n][m])
  <2>1. m \in Seq(Char) /\ n \in Seq(Char)
    BY NicksAssumption
  <2>2. areNicknamesEqual(m, m) /\ areNicknamesEqual(m, n) = areNicknamesEqual(n, m)
    BY <2>1, EqualityIsMutual
  <2> QED BY <2>2 DEF Alike
<1>2. AlikeIsMutual
  BY <1>1 DEF AlikeIsMutual
<1> QED BY <1>2, PTL

\* A client of searchPlayers that turns the pages until the last misses nobody
\* who matched when it began, nor anybody an upload would take for the nickname
\* that is searched for, however many players uploads add meanwhile.
THEOREM SearchIsComplete == Spec => []SearchMissesNobody
<1>1. IInv => SearchMissesNobody
  BY SearchMisses DEF IInv
<1> QED BY <1>1, Invariant, PTL

\* The figures findPlayerByNickname answers with count the performances it shows
\* beside them, and its request does not fail, unless a war is rolled back.
THEOREM ProfileIsCoherent == Spec => []ProfileCoversRecents
<1>1. IInv => ProfileCoversRecents
  BY ProfileCovers DEF IInv
<1> QED BY <1>1, Invariant, PTL

\* The win streak of getMostWinsLeaderboard is the longest run of wins that no
\* loss interrupts.
THEOREM StreakIsRight == Spec => []StreakIsLongestRun
<1>1. IInv => StreakIsLongestRun
  BY LongestRun DEF IInv, StreakIsLongestRun
<1> QED BY <1>1, Invariant, PTL

\* getMostWinsLeaderboard counts with one query and reads the page with another,
\* grouped and filtered on its own: without a rollback the page has at least as many
\* players as the count promises, however many wars are stored in between, and more
\* only if one is; players that uploads add before they store their war do not show.
THEOREM TotalHolds == Spec => []TotalIsKept
<1>1. IInv => TotalIsKept
  BY TotalFits DEF IInv
<1> QED BY <1>1, Invariant, PTL

\* A company is shown every war that was there all the while, and each war it is
\* shown has been won by it or by the company it fought, never by both, although
\* getCompanyInformation reads the wars it attacked in and those it defended in
\* one after the other.
THEOREM CompanyIsRight == Spec => []CompanyFiguresAddUp
<1>1. IInv => CompanyFiguresAddUp
  BY CompanyShows DEF IInv
<1> QED BY <1>1, Invariant, PTL
=============================================================================

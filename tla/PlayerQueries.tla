--------------------------- MODULE PlayerQueries ---------------------------
(***************************************************************************)
(* The read side of the database: the player search, a player's profile,   *)
(* the most-wins leaderboard with its win streaks, and the information of  *)
(* a company. One request at a time is followed through its awaits, while  *)
(* uploads and rollbacks change the tables (requests that only read do not *)
(* disturb each other).                                                    *)
(*                                                                         *)
(* Uploads and rollbacks are coarse here: an upload stores the players     *)
(* nobody is alike to in one step and its war, of one side, in another; a  *)
(* rollback is one step. WarIngest has them in full.                       *)
(***************************************************************************)
EXTENDS Nicknames, FiniteSets, Functions

CONSTANTS
    Nick,       \* nicknames of players
    NickOrder,  \* the nicknames as ORDER BY nickname sorts them
    Query,      \* what is searched for
    Class,
    Company,
    Upload,     \* wars that are uploaded
    Lineup,     \* the entries of each: sequences of nickname and class
    Fought,     \* the companies of each, and its isWinner
    Rollbacks,  \* wars that may be rolled back
    Asked,      \* the requests
    Limit,      \* page size
    Recent,     \* how many performances a profile shows (10)
    NoPlayer, NoClass

Entry == [nick : Nick, class : Class]
Time == 1..Cardinality(Upload)
Bout == [attacker : Company, defender : Company, isWinner : BOOLEAN]
Question == [kind : {"search"}, query : Query]
            \cup [kind : {"profile"}, nick : Nick]
            \cup [kind : {"wins"}, class : Class \cup {NoClass}, page : Nat \ {0}]
            \cup [kind : {"company"}, company : Company]

ASSUME NicksAssumption ==
    /\ Nick \cup Query \subseteq Seq(Char) /\ IsFiniteSet(Nick)
    /\ NickOrder \in Bijection(1..Cardinality(Nick), Nick)
ASSUME UploadsAssumption ==
    /\ IsFiniteSet(Upload) /\ Rollbacks \subseteq Upload
    /\ Lineup \in [Upload -> Seq(Entry)]
    /\ Fought \in [Upload -> Bout]
    /\ \A u \in Upload : Fought[u].attacker # Fought[u].defender
ASSUME NobodyAssumption == NoPlayer \notin [nick : Nick, by : Upload]
ASSUME QuestionsAssumption ==
    /\ Asked \subseteq Question
    /\ Limit \in Nat \ {0} /\ Recent \in Nat \ {0}

VARIABLES
    players,   \* Player: nickname, and the upload that stored it
    rows,      \* PlayerPerformance
    war,       \* where each upload and its war are
    ask,       \* the request
    pc,        \* the query it awaits next
    got,       \* what it has read
    seen,      \* what a client has been shown on the pages it has turned
    before,    \* the tables when the request began
    undone,    \* has a war been rolled back since?
    grown      \* has a war been stored since?

tables == <<players, rows, war>>
request == <<ask, pc, got, seen>>
vars == <<players, rows, war, ask, pc, got, seen, before, undone, grown>>

Stored == {u \in Upload : war[u] = "stored"}
FirstPage == 1
Nothing == [player |-> NoPlayer, recents |-> {}, figures |-> {}, attacked |-> {},
            total |-> 0, page |-> FirstPage]

Init ==
    /\ players = {} /\ rows = {}
    /\ war = [u \in Upload |-> "new"]
    /\ ask \in Asked
    /\ pc = "idle" /\ got = Nothing /\ seen = {}
    /\ before = [players |-> {}, wars |-> {}]
    /\ undone = FALSE /\ grown = FALSE

-----------------------------------------------------------------------------
(* The tables change.                                                      *)

Named(u) == {e.nick : e \in Range(Lineup[u])}
PlayerNamed(m) == CHOOSE p \in players : p.nick = m

\* Who passes for whom
Alike == [m \in Nick \cup Query |-> [n \in Nick \cup Query |-> areNicknamesEqual(m, n)]]

\* upsertPlayers
Enrol(u) ==
    /\ war[u] = "new"
    /\ players' = players \cup
          {[nick |-> m, by |-> u] :
              m \in {m \in Named(u) : ~\E p \in players : Alike[p.nick][m]}}
    /\ war' = [war EXCEPT ![u] = "resolved"]
    /\ UNCHANGED <<rows, request, before, undone, grown>>

\* The players whose nickname is one of the request's, letter by letter, and whether
\* one passes for an entry.
Fetched(u) == {p \in players : p.nick \in Named(u)}
Passes(p, e) == Alike[p.nick][e.nick]

\* The war is stored if every entry finds a player that passes for it: any of
\* several, but entries that could have each other's have the same (WarUpload has
\* the order they are found in). The performances of one side have one createdAt:
\* another may have the same, and one that is stored later an earlier one, as
\* uploads overlap.
Store(u) ==
    /\ war[u] = "resolved"
    /\ \/ /\ \E match \in [DOMAIN Lineup[u] -> Fetched(u)] :
                /\ \A n \in DOMAIN Lineup[u] : Passes(match[n], Lineup[u][n])
                /\ \A n, m \in DOMAIN Lineup[u] :
                      Passes(match[n], Lineup[u][m]) /\ Passes(match[m], Lineup[u][n])
                      => match[n] = match[m]
                /\ \E at \in Time :
                      rows' = rows \cup
                          {[war |-> u, entry |-> n, player |-> match[n],
                            class |-> Lineup[u][n].class, at |-> at,
                            win |-> Fought[u].isWinner] : n \in DOMAIN Lineup[u]}
          /\ war' = [war EXCEPT ![u] = "stored"]
          /\ grown' = TRUE
       \/ /\ \E n \in DOMAIN Lineup[u] :
                ~\E p \in Fetched(u) : Passes(p, Lineup[u][n])
          /\ war' = [war EXCEPT ![u] = "failed"]
          /\ UNCHANGED <<rows, grown>>
    /\ UNCHANGED <<players, request, before, undone>>

\* rollbackWar: the players of the war go with it, their rows in others lose
\* their name.
Rollback(u) ==
    /\ war[u] = "stored" /\ u \in Rollbacks
    /\ LET gone == {r.player : r \in {r \in rows : r.war = u}}
       IN  /\ players' = players \ gone
           /\ rows' = {[r EXCEPT !.player = IF @ \in gone THEN NoPlayer ELSE @] :
                          r \in {r \in rows : r.war # u}}
    /\ war' = [war EXCEPT ![u] = "rolledback"]
    /\ undone' = TRUE
    /\ UNCHANGED <<request, before, grown>>

-----------------------------------------------------------------------------
(* GET /player/search: a client turns the pages until the last.            *)

IsPrefix(s, t) == Len(s) =< Len(t) /\ SubSeq(t, 1, Len(s)) = s
Occurs(s, t) == \E n \in 0..Len(t) : IsPrefix(s, SubSeq(t, n + 1, Len(t)))

NoMatch == 999
maxAllowedDistance(query) == IF Len(query) =< 4 THEN 2 ELSE 3

\* The better a nickname matches, the lower: equal, prefix, part, then by distance
MatchRank(nick, typed) ==
    LET name == normalizeNick(nick)
        query == normalizeNick(typed)
        distance == levenshtein(name, query)
    IN  CASE name = query -> 0
          [] name # query /\ IsPrefix(query, name) -> 1
          [] ~IsPrefix(query, name) /\ Occurs(query, name) -> 2
          [] ~Occurs(query, name) /\ distance =< maxAllowedDistance(query) -> 3 + distance
          [] OTHER -> NoMatch
Ranks == [m \in Nick |-> [q \in Query |-> MatchRank(m, q)]]

\* Players by nickname; without a query, all of them in that order
Matching(found, query) ==
    IF query = <<>> THEN found ELSE {p \in found : Ranks[p.nick][query] < NoMatch}
Place(m) == CHOOSE n \in DOMAIN NickOrder : NickOrder[n] = m
Before(p, q, query) ==
    \/ query # <<>> /\ Ranks[p.nick][query] < Ranks[q.nick][query]
    \/ /\ query # <<>> => Ranks[p.nick][query] = Ranks[q.nick][query]
       /\ Place(p.nick) < Place(q.nick)

\* (slip) the pages are cut before the list is filtered and sorted: at the place
\* the players have by nickname
OffsetUnsorted(p, found, query) ==
    Cardinality({q \in players : Place(q.nick) < Place(p.nick)})
\* How many come before p in the list
Offset(p, found, query) == Cardinality({q \in found : Before(q, p, query)})

OnPage(found, query, page) ==
    {p \in found : Offset(p, found, query) \in (page - 1) * Limit .. page * Limit - 1}
\* Math.ceil(total / limit)
Pages(total) == (total + Limit - 1) \div Limit

SearchPage ==
    /\ pc = "page"
    /\ LET found == Matching(players, ask.query)
       IN  /\ seen' = seen \cup OnPage(found, ask.query, got.page)
           /\ IF got.page < Pages(Cardinality(found))
              THEN got' = [got EXCEPT !.page = @ + 1] /\ UNCHANGED pc
              ELSE pc' = "done" /\ UNCHANGED got
    /\ UNCHANGED <<tables, ask, before, undone, grown>>

-----------------------------------------------------------------------------
(* GET /player: findPlayerByNickname. Prisma reads each relation with a    *)
(* query of its own, outside any transaction.                              *)

PerformancesOf(p) == {r \in rows : r.player = p}

ReadPlayer ==
    /\ pc = "player"
    /\ \/ /\ \E p \in players : p.nick = ask.nick
          /\ got' = [got EXCEPT !.player = PlayerNamed(ask.nick)]
          /\ pc' = "recents"
       \/ /\ ~\E p \in players : p.nick = ask.nick
          /\ pc' = "done" /\ UNCHANGED got
    /\ UNCHANGED <<tables, ask, seen, before, undone, grown>>

\* The last performances by createdAt, any of those of one time
IsLatest(some, all) ==
    /\ Cardinality(some) = Least({Recent, Cardinality(all)})
    /\ \A r \in some : \A s \in all \ some : s.at =< r.at
ReadRecents ==
    /\ pc = "recents"
    /\ \E some \in SUBSET PerformancesOf(got.player) :
          /\ IsLatest(some, PerformancesOf(got.player))
          /\ got' = [got EXCEPT !.recents = some]
    /\ pc' = "sides"
    /\ UNCHANGED <<tables, ask, seen, before, undone, grown>>

\* The sides and wars of the performances; one that is gone is an error.
ReadSides ==
    /\ pc = "sides"
    /\ pc' = IF {r.war : r \in got.recents} \subseteq Stored THEN "figures" ELSE "failed"
    /\ UNCHANGED <<tables, ask, got, seen, before, undone, grown>>

\* The sum of wins, as an example of the sums, and COUNT(*): no column of its own,
\* it is what the win rate and all the averages are over.
FiguresOfClass(p, c) ==
    LET mine == {r \in PerformancesOf(p) : r.class = c}
    IN  [class |-> c, games |-> Cardinality(mine),
         wins |-> Cardinality({r \in mine : r.win})]
\* (slip) the main class only
FiguresOfMain(p) ==
    LET all == {FiguresOfClass(p, c) : c \in Class}
    IN  {f \in all : f.games > 0 /\ \A g \in all : g.games =< f.games}
Figures(p) == {FiguresOfClass(p, c) : c \in {r.class : r \in PerformancesOf(p)}}
ReadFigures ==
    /\ pc = "figures"
    /\ got' = [got EXCEPT !.figures = Figures(got.player)]
    /\ pc' = "done"
    /\ UNCHANGED <<tables, ask, seen, before, undone, grown>>

-----------------------------------------------------------------------------
(* GET /statistics/leaderboard/most-wins: getMostWinsLeaderboard           *)

Highest(numbers) == CHOOSE n \in numbers : \A m \in numbers : m =< n

\* WHERE playerClass; performances without a player join nobody.
Counted(p, c) == {r \in PerformancesOf(p) : c = NoClass \/ r.class = c}

StreakGroupOfAll(r, mine) ==  \* (slip) no ORDER BY in the window
    Cardinality({l \in mine : ~l.win})
\* SUM(CASE WHEN win = false ...) OVER (ORDER BY createdAt): the frame ends with
\* the last row of the same createdAt.
StreakGroup(r, mine) == Cardinality({l \in mine : ~l.win /\ l.at =< r.at})
\* MAX(ROW_NUMBER()) over the wins of a group
WinStreak(p, c) ==
    LET mine == Counted(p, c)
        won == {r \in mine : r.win}
        Group(g) == {r \in won : StreakGroup(r, mine) = g}
    IN  IF won = {} THEN 0
        ELSE Highest({Cardinality(Group(StreakGroup(r, mine))) : r \in won})
MostWins(p, c) == Cardinality({r \in Counted(p, c) : r.win})

minGames == 1
\* The count is a query of its own, over the performances that have a player:
\* JOIN and WHERE, then GROUP BY and HAVING COUNT(*) >= minGames.
JoinedRows(c) == {r \in rows : r.player \in players /\ (c = NoClass \/ r.class = c)}
\* (slip) the performances are counted, not the groups
CountJoined(c) == Cardinality(JoinedRows(c))
CountQualified(c) ==
    LET Group(p) == {r \in JoinedRows(c) : r.player = p}
    IN  Cardinality({p \in {r.player : r \in JoinedRows(c)} : Cardinality(Group(p)) >= minGames})

ReadTotal ==
    /\ pc = "total"
    /\ got' = [got EXCEPT !.total = CountQualified(ask.class)]
    /\ pc' = "rows"
    /\ UNCHANGED <<tables, ask, seen, before, undone, grown>>

Outranks(p, q, c) ==
    \/ MostWins(p, c) > MostWins(q, c)
    \/ MostWins(p, c) = MostWins(q, c) /\ WinStreak(p, c) > WinStreak(q, c)
\* player_stats of the page: grouped by the player and what he has one of, his
\* nickname, world and profile, HAVING COUNT(*) >= minGames.
Qualified(c) == {p \in players : Cardinality(Counted(p, c)) >= minGames}
\* ORDER BY mostWins DESC, winStreak DESC: ties are in any order.
ReadRows ==
    /\ pc = "rows"
    /\ LET all == Qualified(ask.class)
           offset == (ask.page - 1) * Limit
           shown == Least({Limit, Highest({0, Cardinality(all) - offset})})
       IN  \E ahead \in SUBSET all : \E page \in SUBSET (all \ ahead) :
             /\ Cardinality(ahead) = Least({offset, Cardinality(all)})
             /\ Cardinality(page) = shown
             /\ \A p \in all \ ahead : \A q \in ahead : ~Outranks(p, q, ask.class)
             /\ \A p \in all \ (ahead \cup page) : \A q \in page : ~Outranks(p, q, ask.class)
             /\ seen' = page
    /\ pc' = "done"
    /\ UNCHANGED <<tables, ask, got, before, undone, grown>>

-----------------------------------------------------------------------------
(* GET /company/information: getCompanyInformation                         *)

Attacked(company) == {u \in Stored : Fought[u].attacker = company}
Defended(company) == {u \in Stored : Fought[u].defender = company}

ReadAttacked ==
    /\ pc = "attacked"
    /\ got' = [got EXCEPT !.attacked = Attacked(ask.company)]
    /\ pc' = "defended"
    /\ UNCHANGED <<tables, ask, seen, before, undone, grown>>
ReadDefended ==
    /\ pc = "defended"
    /\ seen' = Defended(ask.company)
    /\ pc' = "done"
    /\ UNCHANGED <<tables, ask, got, before, undone, grown>>

\* A war the uploader won is stored as won by the attackers, whoever that is.
winner(u) == IF Fought[u].isWinner THEN "Attacker" ELSE "Defender"

\* (slip) the winning role is not compared with the role of the company
WonByAttackers(wars, company) == {u \in wars : winner(u) = "Attacker"}
Won(wars, company) ==
    {u \in wars : \/ winner(u) = "Attacker" /\ Fought[u].attacker = company
                  \/ winner(u) = "Defender" /\ Fought[u].defender = company}

-----------------------------------------------------------------------------
FirstQuery == [search |-> "page", profile |-> "player", wins |-> "total",
               company |-> "attacked"]
Arrive ==
    /\ pc = "idle"
    /\ pc' = FirstQuery[ask.kind]
    /\ before' = [players |-> players, wars |-> Stored]
    /\ undone' = FALSE /\ grown' = FALSE
    /\ UNCHANGED <<tables, ask, got, seen>>

Answer ==
    \/ SearchPage
    \/ ReadPlayer \/ ReadRecents \/ ReadSides \/ ReadFigures
    \/ ReadTotal \/ ReadRows
    \/ ReadAttacked \/ ReadDefended
Change == \E u \in Upload : Enrol(u) \/ Store(u) \/ Rollback(u)
Idle == pc \in {"done", "failed"} /\ UNCHANGED vars

Next == Arrive \/ Answer \/ Change \/ Idle
Spec == Init /\ [][Next]_vars

-----------------------------------------------------------------------------
(* Properties *)

Answered(kind) == ask.kind = kind /\ pc = "done"
Words == {normalizeNick(m) : m \in Nick \cup Query}

\* The distance that matching and search go by is the least number of edits.
\* (It is about no state: the first ones will do.)
DistanceCountsEdits ==
    players = {} => \A a, b \in Words : CountsEdits(levenshtein, a, b)

\* Whether two nicknames pass for the same does not depend on which of the two
\* was stored first, and a nickname passes for itself: the tables of WarIngest
\* rest on it.
AlikeIsMutual ==
    players = {} => \A m, n \in Nick \cup Query :
        /\ Alike[m][m]
        /\ Alike[m][n] <=> Alike[n][m]

\* A client that turns the pages of a search while uploads add players, which
\* pushes others to later pages, misses nobody who matched when it began; nor, although
\* the search ranks by rules of its own, anybody an upload would take for the
\* nickname that is searched for.
SearchMissesNobody ==
    Answered("search") /\ ~undone => \A p \in before.players :
        p \in Matching(before.players, ask.query) \/ Alike[p.nick][ask.query]
        => p \in seen

\* The figures of a profile are read after the performances it shows and are over
\* them all, class by class, sums and averages; only a rollback can make them miss some, or make
\* the request fail.
ProfileCoversRecents ==
    ask.kind = "profile" /\ ~undone =>
        /\ pc # "failed"
        /\ pc = "done" => \A c \in {r.class : r \in got.recents} :
              \E f \in got.figures :
                 LET shown == {r \in got.recents : r.class = c}
                 IN  /\ f.class = c /\ f.games >= Cardinality(shown)
                     /\ f.wins >= Cardinality({r \in shown : r.win})

\* The window functions find the longest run of wins that no loss interrupts,
\* also where the performances of one war have one createdAt. (A loss at the
\* time of a win counts as before it.)
Runs(mine) ==
    {run \in SUBSET {r \in mine : r.win} :
        \A first, last \in run : \A l \in mine :
            l.win \/ ~(first.at < l.at /\ l.at =< last.at)}
StreakIsLongestRun ==
    \A p \in players, c \in Class \cup {NoClass} :
        WinStreak(p, c) = Highest({Cardinality(run) : run \in Runs(Counted(p, c))})

\* The number of players, of which the client makes the number of pages, and the
\* players of the page are two queries, of conditions of their own. The page never
\* has fewer players than the number promises, unless a war is rolled back in
\* between, and more only if one is stored in between: what uploads do before they
\* store their war, adding players, does not show.
TotalIsKept ==
    LET promised == Least({Limit, Highest({0, got.total - (ask.page - 1) * Limit})})
    IN  Answered("wins") /\ ~undone =>
        /\ promised =< Cardinality(seen)
        /\ ~grown => promised = Cardinality(seen)

\* A company is shown every war that was there all the while, and each war it is
\* shown has been won by it or by the company it fought, never by both.
CompanyFiguresAddUp ==
    LET shown == got.attacked \cup seen
        Opponent(u) == IF Fought[u].attacker = ask.company THEN Fought[u].defender
                       ELSE Fought[u].attacker
    IN  Answered("company") =>
        /\ \A u \in before.wars : war[u] = "stored" /\
              ask.company \in {Fought[u].attacker, Fought[u].defender} => u \in shown
        /\ \A u \in shown : u \in Won(shown, ask.company)
                            <=> u \notin Won(shown, Opponent(u))
=============================================================================

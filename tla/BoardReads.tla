----------------------------- MODULE BoardReads -----------------------------
(***************************************************************************)
(* The read side of the leaderboards: pages of a sorted set, filled in     *)
(* with the figures of the hashes and the players of the database, and the *)
(* trending players and best performances of the home page. One client is  *)
(* followed through its reads while Leaderboard changes what it reads.     *)
(*                                                                         *)
(* A read of Redis executes at any moment after the code has sent it: its  *)
(* place in the line of commands is left out. Reads that are sent together *)
(* (the size of the set and the page; the hashes of all rows of a page)    *)
(* execute together.                                                       *)
(***************************************************************************)
EXTENDS Leaderboard

CONSTANTS
    MemberOrder,  \* the keys as Redis orders members of one score
    Asked         \* what the client asks for

\* Sums stand for one another, so a sorted set is the set of all, and "least" says
\* that it keeps minus the figure (least deaths).
ReadsOf == [kind : {"walk"}, board : Board, least : BOOLEAN, limit : Nat \ {0}]
           \cup [kind : {"winrate"}, board : Board, least : {FALSE}, limit : Nat \ {0},
                 page : Nat \ {0}, minGames : Nat]
           \cup [kind : {"trending", "best"}, board : Board, least : {FALSE},
                 limit : Nat \ {0}]
ASSUME ReadsAssumption ==
    /\ Asked \subseteq ReadsOf /\ IsFiniteSet(Key)
    /\ MemberOrder \in Bijection(1..Cardinality(Key), Key)

VARIABLES
    ask,      \* what is asked
    pc,       \* what is awaited
    page,     \* the page of the sorted set
    items,    \* its members, with their place and the figures they stand for
    total,    \* the size of the set
    figures,  \* the hashes read for them
    named,    \* the members whose player has been looked up
    listed,   \* the hashes that KEYS has found for a member's class
    ranks,    \* the overall ranks
    shown,    \* the rows the client has been given
    calm      \* has nothing else happened, and nothing failed, since the client began?

answer == <<figures, named, listed, ranks>>
reader == <<ask, pc, page, items, total, answer, shown, calm>>
allvars == <<vars, reader>>

ReadInit ==
    /\ Init
    /\ ask \in Asked
    /\ pc = "idle" /\ page = 1 /\ items = {} /\ total = 0
    /\ figures = <<>> /\ named = {} /\ listed = <<>> /\ ranks = <<>>
    /\ shown = {} /\ calm = FALSE

-----------------------------------------------------------------------------
(* getLeaderboard                                                          *)

\* The averages t and u as the sorted set orders them
Above(t, u) ==
    IF ask.least THEN t.wins * u.games < u.wins * t.games
    ELSE t.wins * u.games > u.wins * t.games
Members(b) == {k \in Key : board[b][k] # NoTally}
Place(k) == CHOOSE n \in DOMAIN MemberOrder : MemberOrder[n] = k
Precedes(b, k, l) ==
    \/ Above(board[b][k], board[b][l])
    \/ /\ ~Above(board[b][l], board[b][k])
       /\ Place(l) < Place(k)

\* start + index + 1
Rank(b, k) == 1 + Cardinality({l \in Members(b) : Precedes(b, l, k)})

PastPage(n, size) == n * size + 1  \* (slip) end = start + limit
\* The last place of page n: end + 1
LastPlace(n, size) == n * size

\* ZREVRANGE start end
ItemsOf(b, n, size) ==
    {[key |-> k, rank |-> Rank(b, k), tally |-> board[b][k]] :
        k \in {k \in Members(b) : Rank(b, k) \in (n - 1) * size + 1 .. LastPlace(n, size)}}

\* How many rows are asked for; a constant of the service for trending players and
\* best performances
Limit == ask.limit
\* Trending players are twice as many, as some will be dropped.
SizeOf(kind) == IF kind = "trending" THEN 2 * Limit ELSE Limit
KeysShown == {i.key : i \in items}
FirstRead(kind) == IF kind \in {"walk", "winrate"} THEN "figures" ELSE "names"

Ask ==
    /\ pc = "idle" /\ Listening
    /\ pc' = "page"
    /\ page' = IF ask.kind = "winrate" THEN ask.page ELSE 1
    /\ calm' = Quiet
    /\ UNCHANGED <<ask, items, total, answer, shown>>

ReadPage ==
    /\ pc = "page"
    /\ items' = ItemsOf(ask.board, page, SizeOf(ask.kind))
    /\ total' = Cardinality(Members(ask.board))
    /\ figures' = <<>> /\ named' = {} /\ listed' = <<>> /\ ranks' = <<>>
    /\ pc' = FirstRead(ask.kind)
    /\ UNCHANGED <<ask, page, shown, calm>>

-----------------------------------------------------------------------------
(* StatisticsService                                                       *)

\* getPlayerStats: NoTally is null
FiguresOf(k) == stats[k]
ReadFigures ==
    /\ pc = "figures"
    /\ figures' = [k \in KeysShown |-> FiguresOf(k)]
    /\ pc' = "names"
    /\ UNCHANGED <<ask, page, items, total, named, listed, ranks, shown, calm>>

\* findPlayerById: a player that is gone is shown as Unknown; the query throws
\* for an id that is null.
ReadName(k) ==
    /\ pc = "names" /\ k \in KeysShown \ named
    /\ \/ k.player # NoPlayer /\ named' = named \cup {k} /\ UNCHANGED pc
       \/ k.player = NoPlayer /\ pc' = "failed" /\ UNCHANGED named
    /\ UNCHANGED <<ask, page, items, total, figures, listed, ranks, shown, calm>>

\* getAllPlayerStatsForClass: the hashes of the class are listed, then read.
ListClass(k) ==
    /\ pc = "names" /\ ask.kind \in {"trending", "best"}
    /\ k \in named \ DOMAIN listed
    /\ listed' = [l \in DOMAIN listed \cup {k} |->
                    IF l = k THEN {m \in Key : m.class = k.class /\ stats[m] # NoTally}
                    ELSE listed[l]]
    /\ UNCHANGED <<ask, pc, page, items, total, figures, named, ranks, shown, calm>>

NotFound == 999
\* (slip) ascending
BetterAscending(t, u) == t.wins * u.games < u.wins * t.games
\* b.avgScore - a.avgScore
Better(t, u) == t.wins * u.games > u.wins * t.games

AtIndex(index) == index  \* (slip)
\* playerIndex + 1
AfterIndex(index) == index + 1

\* getPlayerOverallRank; equal scores stay in the order KEYS gave them, which
\* may be any.
OverallRanks(k) ==
    LET scored == {l \in listed[k] : stats[l].wins > 0}
    IN  IF k \in scored
        THEN {AfterIndex(n) : n \in
                Cardinality({l \in scored : Better(stats[l], stats[k])})
                .. Cardinality({l \in scored : ~Better(stats[k], stats[l])}) - 1}
        ELSE {NotFound}
RankInClass(k) ==
    /\ pc = "names" /\ k \in DOMAIN listed \ DOMAIN ranks
    /\ \E r \in OverallRanks(k) :
          ranks' = [l \in DOMAIN ranks \cup {k} |-> IF l = k THEN r ELSE ranks[l]]
    /\ UNCHANGED <<ask, pc, page, items, total, figures, named, listed, shown, calm>>

\* A command or query of the request throws. An overall rank is then 999,
\* anything else ends the request.
LoseAnswer ==
    /\ calm' = FALSE
    /\ \/ /\ pc \in {"page", "figures"} \/ (pc = "names" /\ named # KeysShown)
          /\ pc' = "failed" /\ UNCHANGED ranks
       \/ /\ pc = "names" /\ ask.kind \in {"trending", "best"}
          /\ \E k \in named \ DOMAIN ranks :
                ranks' = [l \in DOMAIN ranks \cup {k} |->
                            IF l = k THEN NotFound ELSE ranks[l]]
          /\ UNCHANGED pc
    /\ UNCHANGED <<ask, page, items, total, figures, named, listed, shown>>

\* What an answer says of an item
RowOf(i) == [page |-> page, key |-> i.key, rank |-> i.rank, tally |-> i.tally,
             figures |-> IF i.key \in DOMAIN figures THEN figures[i.key] ELSE NoTally,
             overall |-> IF i.key \in DOMAIN ranks THEN ranks[i.key] ELSE NotFound]

AboveMinimum(games) == games > ask.minGames  \* (slip)
\* totalGames >= minGames
Enough(games) == games >= ask.minGames
Qualified == {i \in items : Enough(figures[i.key].games)}

\* (slip) the last of a player's classes is kept
LastOfPlayer ==
    {i \in items : ~\E j \in items : j.key.player = i.key.player /\ j.rank > i.rank}
FirstOfPlayer ==
    {i \in items : ~\E j \in items : j.key.player = i.key.player /\ j.rank < i.rank}
Trending ==
    {i \in FirstOfPlayer : Cardinality({j \in FirstOfPlayer : j.rank < i.rank}) < Limit}

ReadEnds ==
    /\ pc = "names" /\ named = KeysShown
    /\ ask.kind \in {"trending", "best"} => DOMAIN ranks = KeysShown
    /\ shown' = shown \cup {RowOf(i) : i \in CASE ask.kind = "winrate" -> Qualified
                                              [] ask.kind = "trending" -> Trending
                                              [] OTHER -> items}
    /\ IF ask.kind = "walk" /\ page * Limit < total  \* page < totalPages
       THEN page' = page + 1 /\ pc' = "page"
       ELSE pc' = "done" /\ UNCHANGED page
    /\ UNCHANGED <<ask, items, total, answer, calm>>

-----------------------------------------------------------------------------
ReadStep ==
    /\ \/ Ask \/ ReadPage \/ ReadFigures \/ ReadEnds \/ LoseAnswer
       \/ \E k \in Key : ReadName(k) \/ ListClass(k) \/ RankInClass(k)
    /\ UNCHANGED vars
Asking == pc \in {"page", "figures", "names"}

\* Everything else that happens, as long as the client is followed; a request
\* does not survive the process.
Elsewhere ==
    /\ pc \notin {"done", "failed"}
    /\ Background \/ Request \/ Failure
    /\ calm' = FALSE
    /\ pc' = IF Asking /\ crashes' # crashes THEN "failed" ELSE pc
    /\ UNCHANGED <<ask, page, items, total, answer, shown>>

AllAtRest == (AtRest \/ pc \in {"done", "failed"}) /\ UNCHANGED allvars
ReadNext == ReadStep \/ Elsewhere \/ AllAtRest
ReadSpec == ReadInit /\ [][ReadNext]_allvars

-----------------------------------------------------------------------------
(* Properties                                                              *)

ItemType == [key : Key, rank : 1..Cardinality(Key), tally : Tally]
ReadTypeOK ==
    /\ TypeOK
    /\ ask \in Asked
    /\ pc \in {"idle", "page", "figures", "names", "done", "failed"}
    /\ page \in Nat \ {0} /\ (ask.kind = "walk" => page =< Cardinality(Key) + 1)
    /\ total \in 0..Cardinality(Key)
    /\ items \subseteq ItemType
    /\ DOMAIN figures \subseteq Key /\ Range(figures) \subseteq Tally
    /\ named \subseteq KeysShown
    /\ \A k \in DOMAIN listed : listed[k] \subseteq Key
    /\ Range(ranks) \subseteq 1..Cardinality(Key) \cup {NotFound}
    /\ {s.key : s \in shown} \subseteq Key
    /\ calm \in BOOLEAN

\* A row is put together from a page and, later, a hash, while updates run
\* between the two: the figures are those of the place or newer ones, unless a
\* rollback has deleted the player; whoever had the minimum of games when the page
\* was cut is not dropped for the figures read since.
FiguresNotOlderThanPlace ==
    \A i \in items : i.key \in DOMAIN figures /\ i.key.player \notin Gone =>
        /\ figures[i.key].games >= i.tally.games
        /\ ask.kind = "winrate" /\ pc = "done" /\ i.tally.games >= ask.minGames
           => RowOf(i) \in shown

Clean == /\ crashes = 0 /\ losses = 0
         /\ \A n \in Rebuilds : call[n] = "idle"
         /\ \A w \in War : war[w] # "rolledback"

\* A client that turns the pages while nothing is at work is shown every player
\* and class of the database once, in the order of their averages, with the
\* figures the performances add up to: from the rows of the database over hash
\* and sorted set to the page, nothing is lost, shifted or shown twice.
QuietWalkIsExact ==
    ask.kind = "walk" /\ pc = "done" /\ calm /\ Clean =>
        /\ {s.key : s \in shown} = KeysOf(Rows)
        /\ {s.rank : s \in shown} = 1..Cardinality(shown)
        /\ Cardinality(shown) = total
        /\ \A s \in shown : s.figures = Aggregate(Rows, s.key)
        /\ \A s, t \in shown : s.rank < t.rank => ~Above(t.figures, s.figures)

\* The best performances are those of the highest average score, from a sorted set;
\* their overall ranks go by the average scores in the hashes of the class: while
\* nothing is at work the two do not contradict each other, after rollbacks too.
RanksFollowPlaces ==
    ask.kind = "best" /\ pc = "done" /\ calm /\ crashes = 0 /\ losses = 0 =>
        \A s, t \in shown :
            s.key.class = t.key.class /\ Above(s.tally, t.tally) =>
                s.overall < t.overall

\* A trending player is shown once, with the class he wins most with, and nobody is
\* left out, or shown later, who wins more with some class than somebody shown.
TrendingShowsBest ==
    ask.kind = "trending" /\ pc = "done" /\ calm =>
        \A s \in shown : \A k \in Members(ask.board) \ {s.key} :
            /\ k.player = s.key.player => k \notin {t.key : t \in shown}
            /\ Above(board[ask.board][k], s.tally) =>
                  \E t \in shown : t.key.player = k.player /\ t.rank < s.rank

-----------------------------------------------------------------------------
(* The inductive invariants behind them                                    *)

\* A page is not newer than the hashes that are about to be read for it.
PlacesInv ==
    pc = "figures" => \A i \in items : i.key.player \notin Gone =>
                         stats[i.key].games >= i.tally.games

\* The rows a walk has been given are those of the pages before the one at hand.
Given(n) ==
    LET b == ask.board
    IN  /\ {s.key : s \in shown} = {k \in Members(b) : Rank(b, k) =< n * Limit}
        /\ \A s \in shown : /\ s.rank = Rank(b, s.key) /\ s.tally = board[b][s.key]
                            /\ s.figures = stats[s.key]
        /\ \A s, t \in shown : s.key = t.key => s = t

ClassHashes(k) == {m \in Key : m.class = k.class /\ stats[m] # NoTally}

\* What a client has read while nothing else happened still holds.
PageHolds ==
    pc \in {"figures", "names", "done"} =>
        /\ items = ItemsOf(ask.board, page, SizeOf(ask.kind))
        /\ total = Cardinality(Members(ask.board))
FiguresHold == pc = "names" /\ ask.kind = "walk" => figures = [k \in KeysShown |-> stats[k]]
RanksHold ==
    /\ \A k \in DOMAIN listed : listed[k] = ClassHashes(k)
    /\ \A k \in DOMAIN ranks : k \in DOMAIN listed /\ ranks[k] \in OverallRanks(k)
RowsHold ==
    /\ ask.kind = "walk" /\ Asking => Given(page - 1)
    /\ ask.kind = "walk" /\ pc = "done" => Given(page) /\ page * Limit >= total
    /\ ask.kind = "best" /\ pc = "done" =>
          shown = {RowOf(i) : i \in items} /\ DOMAIN ranks = KeysShown
    /\ ask.kind = "trending" /\ pc = "done" => shown = {RowOf(i) : i \in Trending}
OneAnswer ==
    /\ pc = "idle" => ~calm /\ listed = <<>> /\ ranks = <<>> /\ shown = {}
    /\ ask.kind # "walk" /\ pc # "done" => shown = {}
    /\ ask.kind \in {"trending", "best"} => page = 1
CalmInv ==
    OneAnswer /\ (calm => Quiet /\ PageHolds /\ FiguresHold /\ RanksHold /\ RowsHold)
=============================================================================

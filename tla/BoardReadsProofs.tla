------------------------- MODULE BoardReadsProofs -------------------------
(***************************************************************************)
(* Theorems about BoardReads, for any number of members, pages and         *)
(* requests that run besides the client's.                                 *)
(***************************************************************************)
EXTENDS BoardReads, LeaderboardProofs

-----------------------------------------------------------------------------
(* What is read goes on as if nobody read it.                              *)

LEMMA ReadsLeave ==
    ASSUME [ReadNext]_allvars
    PROVE  /\ [Next]_vars
           /\ \/ UNCHANGED vars
              \/ Elsewhere
<1>1. CASE ReadStep
  BY <1>1 DEF ReadStep
<1>2. CASE Elsewhere
  BY <1>2 DEF Elsewhere, Next
<1>3. CASE AllAtRest \/ UNCHANGED allvars
  BY <1>3 DEF AllAtRest, allvars
<1> QED BY <1>1, <1>2, <1>3 DEF ReadNext

\* The invariants of the leaderboards hold while a client reads.
BoardsInv == LineInv /\ FreshInv /\ CountsInv /\ PlayedInv

LEMMA BoardsInvariant == ReadSpec => []BoardsInv
<1>1. ReadInit => Init
  BY DEF ReadInit
<1>2. [ReadNext]_allvars => [Next]_vars
  BY ReadsLeave
<1>3. LineInv /\ FreshInv /\ CountsInv /\ PlayedInv => BoardsInv
  BY DEF BoardsInv
<1> QED BY <1>1, <1>2, <1>3, LineInvariant, FreshInvariant, CountsInvariant,
           PlayedInvariant, PTL DEF ReadSpec, Spec

-----------------------------------------------------------------------------
(* The order of a sorted set                                               *)

LEMMA PlaceFacts ==
    /\ \A k \in Key : Place(k) \in Nat
    /\ \A k, l \in Key : Place(k) = Place(l) => k = l
    /\ Cardinality(Key) \in Nat /\ IsFiniteSet(Key)
<1>1. Cardinality(Key) \in Nat /\ IsFiniteSet(Key)
  BY ReadsAssumption, FS_CardinalityType
<1>2. /\ DOMAIN MemberOrder = 1..Cardinality(Key)
      /\ \A k \in Key : \E n \in 1..Cardinality(Key) : MemberOrder[n] = k
  BY ReadsAssumption DEF Bijection, Surjection, Injection
<1>3. \A k \in Key : Place(k) \in DOMAIN MemberOrder /\ MemberOrder[Place(k)] = k
  BY <1>2 DEF Place
<1> QED BY <1>1, <1>2, <1>3

\* Products of numbers
LEMMA Products ==
    ASSUME NEW a \in Nat, NEW b \in Nat, NEW c \in Nat, NEW p \in Nat \ {0},
           NEW q \in Nat \ {0}, NEW r \in Nat \ {0},
           a * q =< b * p, b * r =< c * q
    PROVE  a * r =< c * p
<1>1. (a * q) * r =< (b * p) * r /\ (b * r) * p =< (c * q) * p
  <2>1. \A x, y, z \in Nat : x =< y => x * z =< y * z
    OBVIOUS
  <2> QED BY <2>1
<1>2. (a * r) * q =< (c * p) * q
  <2>1. (a * q) * r = (a * r) * q /\ (b * p) * r = (b * r) * p /\ (c * q) * p = (c * p) * q
    OBVIOUS
  <2>2. PICK x \in Nat, y \in Nat, z \in Nat :
           x = (a * q) * r /\ y = (b * p) * r /\ z = (c * q) * p
    OBVIOUS
  <2>3. x =< y /\ y =< z
    BY <1>1, <2>1, <2>2
  <2> QED BY <2>1, <2>2, <2>3
<1>3. \A x, y \in Nat : x * q =< y * q => x =< y
  OBVIOUS
<1> QED BY <1>2, <1>3

\* Averages are in an order, in which different ones may be equal.
Figures == {t \in Tally : t.games # 0}
LEMMA AboveFacts ==
    /\ \A t, u \in Tally : ~(Above(t, u) /\ Above(u, t))
    /\ \A t, u, v \in Figures : ~Above(t, u) /\ ~Above(u, v) => ~Above(t, v)
<1>1. ASSUME NEW t \in Tally, NEW u \in Tally
      PROVE  ~(Above(t, u) /\ Above(u, t))
  <2>1. PICK x \in Nat, y \in Nat : x = t.wins * u.games /\ y = u.wins * t.games
    BY TallyFields
  <2>2. ~(x < y /\ y < x)
    OBVIOUS
  <2> QED BY <2>1, <2>2 DEF Above
<1>2. ASSUME NEW t \in Figures, NEW u \in Figures, NEW v \in Figures,
             ~Above(t, u), ~Above(u, v)
      PROVE  ~Above(t, v)
  <2>1. PICK a \in Nat, b \in Nat, c \in Nat, p \in Nat \ {0}, q \in Nat \ {0},
             r \in Nat \ {0} :
           /\ a = t.wins /\ b = u.wins /\ c = v.wins
           /\ p = t.games /\ q = u.games /\ r = v.games
    BY TallyFields DEF Figures
  <2>2. a * q \in Nat /\ b * p \in Nat /\ b * r \in Nat /\ c * q \in Nat /\ a * r \in Nat
        /\ c * p \in Nat
    BY <2>1
  <2>3. CASE ask.least
    <3>1. ~(a * q < b * p) /\ ~(b * r < c * q)
      BY <1>2, <2>1, <2>3 DEF Above
    <3>2. b * p =< a * q /\ c * q =< b * r
      BY <2>2, <3>1
    <3>3. c * p =< a * r
      BY <3>2, Products
    <3>4. ~(a * r < c * p)
      BY <2>2, <3>3
    <3> QED BY <2>1, <2>3, <3>4 DEF Above
  <2>4. CASE ~ask.least
    <3>1. ~(a * q > b * p) /\ ~(b * r > c * q)
      BY <1>2, <2>1, <2>4 DEF Above
    <3>2. a * q =< b * p /\ b * r =< c * q
      BY <2>2, <3>1
    <3>3. a * r =< c * p
      BY <3>2, Products
    <3>4. ~(a * r > c * p)
      BY <2>2, <3>3
    <3> QED BY <2>1, <2>4, <3>4 DEF Above
  <2> QED BY <2>3, <2>4
<1> QED BY <1>1, <1>2

\* The members of a sorted set are in a strict order, with places of their own.
LEMMA PrecedesFacts ==
    ASSUME TypeOK, PlayedInv, NEW b \in Board
    PROVE  /\ Members(b) \subseteq Key
           /\ \A k \in Members(b) : board[b][k] \in Figures
           /\ \A k \in Members(b) : ~Precedes(b, k, k)
           /\ \A k, l \in Members(b) : k # l => Precedes(b, k, l) \/ Precedes(b, l, k)
           /\ \A k, l, m \in Members(b) :
                 Precedes(b, k, l) /\ Precedes(b, l, m) => Precedes(b, k, m)
<1>1. /\ Members(b) \subseteq Key
      /\ \A k \in Members(b) : board[b][k] \in Figures
      /\ \A k \in Members(b) : Place(k) \in Nat
      /\ \A k, l \in Members(b) : Place(k) = Place(l) => k = l
  BY PlaceFacts DEF Members, TypeOK, PlayedInv, Played, Figures, Tally
<1>2. /\ \A t, u \in Figures : ~(Above(t, u) /\ Above(u, t))
      /\ \A t, u, v \in Figures : ~Above(t, u) /\ ~Above(u, v) => ~Above(t, v)
  BY AboveFacts DEF Figures
<1>3. \A k \in Members(b) : ~Precedes(b, k, k)
  BY <1>1, <1>2 DEF Precedes
<1>4. ASSUME NEW k \in Members(b), NEW l \in Members(b), k # l
      PROVE  Precedes(b, k, l) \/ Precedes(b, l, k)
  <2>1. Place(k) < Place(l) \/ Place(l) < Place(k)
    BY <1>1, <1>4
  <2> QED BY <1>1, <1>2, <2>1 DEF Precedes
<1>5. ASSUME NEW k \in Members(b), NEW l \in Members(b), NEW m \in Members(b),
             Precedes(b, k, l), Precedes(b, l, m)
      PROVE  Precedes(b, k, m)
  <2>1. ~Above(board[b][l], board[b][k]) /\ ~Above(board[b][m], board[b][l])
    BY <1>1, <1>2, <1>5 DEF Precedes
  <2>2. ~Above(board[b][m], board[b][k])
    BY <1>1, <1>2, <2>1
  <2>3. CASE Above(board[b][k], board[b][l]) \/ Above(board[b][l], board[b][m])
    <3>1. Above(board[b][k], board[b][m])
      BY <1>1, <1>2, <2>1, <2>3
    <3> QED BY <3>1 DEF Precedes
  <2>4. CASE Place(l) < Place(k) /\ Place(m) < Place(l)
    <3>1. Place(m) < Place(k)
      BY <1>1, <2>4
    <3> QED BY <2>2, <3>1 DEF Precedes
  <2> QED BY <1>5, <2>3, <2>4 DEF Precedes
<1> QED BY <1>1, <1>3, <1>4, <1>5

\* Ranks go by that order and are the numbers up to the size of the set.
Before(b, k) == {l \in Members(b) : Precedes(b, l, k)}
LEMMA RankFacts ==
    ASSUME TypeOK, PlayedInv, NEW b \in Board
    PROVE  /\ IsFiniteSet(Members(b)) /\ Cardinality(Members(b)) \in 0..Cardinality(Key)
           /\ \A k \in Members(b) : Rank(b, k) \in 1..Cardinality(Members(b))
           /\ \A k, l \in Members(b) : Precedes(b, k, l) <=> Rank(b, k) < Rank(b, l)
           /\ \A k, l \in Members(b) : Rank(b, k) = Rank(b, l) => k = l
           /\ \A n \in 1..Cardinality(Members(b)) : \E k \in Members(b) : Rank(b, k) = n
<1>1. IsFiniteSet(Members(b)) /\ Cardinality(Members(b)) \in 0..Cardinality(Key)
  BY PlaceFacts, PrecedesFacts, FS_Subset, FS_CardinalityType
<1>2. PICK size \in Nat : size = Cardinality(Members(b))
  BY <1>1
<1>3. ASSUME NEW k \in Members(b)
      PROVE  /\ Before(b, k) \subseteq Members(b) \ {k} /\ IsFiniteSet(Before(b, k))
             /\ Rank(b, k) = 1 + Cardinality(Before(b, k))
             /\ Cardinality(Before(b, k)) \in Nat /\ Rank(b, k) \in 1..size
  <2>1. Before(b, k) \subseteq Members(b) \ {k}
    BY PrecedesFacts DEF Before
  <2>2. IsFiniteSet(Members(b) \ {k}) /\ Cardinality(Members(b) \ {k}) = size - 1
    BY <1>1, <1>2, FS_RemoveElement
  <2>3. /\ IsFiniteSet(Before(b, k)) /\ Cardinality(Before(b, k)) =< size - 1
        /\ Cardinality(Before(b, k)) \in Nat
    BY <2>1, <2>2, FS_Subset, FS_CardinalityType
  <2>4. Rank(b, k) = 1 + Cardinality(Before(b, k))
    BY DEF Rank, Before
  <2> QED BY <2>1, <2>3, <2>4
<1>4. ASSUME NEW k \in Members(b), NEW l \in Members(b), Precedes(b, k, l)
      PROVE  Rank(b, k) < Rank(b, l)
  <2>1. Before(b, k) \subseteq Before(b, l) /\ k \in Before(b, l) /\ k \notin Before(b, k)
    BY <1>4, PrecedesFacts DEF Before
  <2>2. /\ Cardinality(Before(b, k)) =< Cardinality(Before(b, l))
        /\ Cardinality(Before(b, k)) # Cardinality(Before(b, l))
    <3> HIDE DEF Before
    <3> QED BY <1>3, <2>1, FS_Subset
  <2> QED BY <1>3, <2>2
<1>5. ASSUME NEW k \in Members(b), NEW l \in Members(b)
      PROVE  /\ Precedes(b, k, l) <=> Rank(b, k) < Rank(b, l)
             /\ Rank(b, k) = Rank(b, l) => k = l
  <2>1. Rank(b, k) \in Nat /\ Rank(b, l) \in Nat
    BY <1>3, <1>2
  <2>2. Rank(b, l) < Rank(b, k) => ~(Rank(b, k) < Rank(b, l))
    BY <2>1
  <2>3. k # l => Precedes(b, k, l) \/ Precedes(b, l, k)
    BY PrecedesFacts
  <2>4. Rank(b, k) = Rank(b, l) => ~(Rank(b, k) < Rank(b, l)) /\ ~(Rank(b, l) < Rank(b, k))
    BY <2>1
  <2> QED BY <1>4, <2>1, <2>2, <2>3, <2>4, Zenon
<1>6. ASSUME NEW n \in 1..size
      PROVE  \E k \in Members(b) : Rank(b, k) = n
  <2> DEFINE f == [k \in Members(b) |-> Rank(b, k)]
  <2>1. f \in Injection(Members(b), 1..size)
    <3>1. f \in [Members(b) -> 1..size]
      BY <1>3
    <3>2. \A k, l \in Members(b) : f[k] = f[l] => k = l
      BY <1>5
    <3> HIDE DEF f
    <3> QED BY <3>1, <3>2 DEF Injection, IsInjective
  <2>2. IsFiniteSet(1..size) /\ Cardinality(1..size) = size
    BY FS_Interval
  <2>3. f \in Surjection(Members(b), 1..size)
    BY <1>2, <2>1, <2>2, FS_Injection
  <2> QED BY <2>3 DEF Surjection
<1> QED BY <1>1, <1>2, <1>3, <1>5, <1>6

-----------------------------------------------------------------------------
(* What the client holds                                                   *)

LEMMA AskType ==
    ASSUME ask \in Asked
    PROVE  /\ ask.board \in Board /\ ask.kind \in {"walk", "winrate", "trending", "best"}
           /\ ask.kind = "winrate" => ask.page \in Nat \ {0} /\ ask.minGames \in Nat
           /\ ask.kind # "walk" => ask.least = FALSE
           /\ Limit \in Nat \ {0} /\ SizeOf(ask.kind) \in Nat \ {0}
           /\ ask.kind # "trending" => SizeOf(ask.kind) = Limit
<1>1. ask \in ReadsOf
  BY ReadsAssumption
<1>3. Limit \in Nat \ {0}
  BY <1>1 DEF ReadsOf, Limit
<1>2. SizeOf(ask.kind) \in Nat \ {0} /\ (ask.kind # "trending" => SizeOf(ask.kind) = Limit)
  BY <1>3 DEF SizeOf
<1> QED BY <1>1, <1>2, <1>3 DEF ReadsOf

LEMMA ItemsType ==
    ASSUME TypeOK, PlayedInv, ask \in Asked
    PROVE  /\ ItemsOf(ask.board, page, SizeOf(ask.kind)) \subseteq ItemType
           /\ Cardinality(Members(ask.board)) \in 0..Cardinality(Key)
<1>1. PICK b \in Board : b = ask.board
  BY AskType
<1>2. /\ Cardinality(Members(b)) \in 0..Cardinality(Key)
      /\ \A k \in Members(b) : Rank(b, k) \in 1..Cardinality(Members(b))
  BY <1>1, RankFacts
<1>3. ASSUME NEW k \in Members(b)
      PROVE  [key |-> k, rank |-> Rank(b, k), tally |-> board[b][k]] \in ItemType
  <2>1. Rank(b, k) \in 1..Cardinality(Key)
    BY <1>2, PlaceFacts
  <2>2. k \in Key /\ board[b][k] \in Tally
    BY PrecedesFacts DEF Figures
  <2> QED BY <2>1, <2>2 DEF ItemType
<1> QED BY <1>1, <1>2, <1>3 DEF ItemsOf

\* Overall ranks are those of a class, or 999.
Scored(k) == {l \in listed[k] : stats[l].wins > 0}
LEMMA OverallType ==
    ASSUME NEW k, listed[k] \subseteq Key
    PROVE  OverallRanks(k) \subseteq 1..Cardinality(Key) \cup {NotFound}
<1> DEFINE ahead == {l \in Scored(k) : Better(stats[l], stats[k])}
           level == {l \in Scored(k) : ~Better(stats[k], stats[l])}
<1>1. ahead \subseteq Key /\ level \subseteq Key
  BY DEF Scored
<1>2. /\ Cardinality(ahead) \in Nat /\ Cardinality(level) \in Nat
      /\ Cardinality(level) =< Cardinality(Key)
  <2> HIDE DEF ahead, level
  <2> QED BY <1>1, PlaceFacts, FS_Subset, FS_CardinalityType
<1>3. OverallRanks(k) = IF k \in Scored(k)
                        THEN {AfterIndex(n) : n \in Cardinality(ahead)
                                                    .. Cardinality(level) - 1}
                        ELSE {NotFound}
  BY DEF OverallRanks, Scored
<1> HIDE DEF ahead, level
<1>4. ASSUME NEW n \in Cardinality(ahead) .. Cardinality(level) - 1
      PROVE  AfterIndex(n) \in 1..Cardinality(Key)
  BY <1>2, PlaceFacts DEF AfterIndex
<1> QED BY <1>3, <1>4

LEMMA ReadTypeKept ==
    ASSUME BoardsInv, ReadTypeOK, [ReadNext]_allvars
    PROVE  ReadTypeOK'
<1>1. /\ TypeOK /\ ask \in Asked
      /\ pc \in {"idle", "page", "figures", "names", "done", "failed"}
      /\ page \in Nat \ {0} /\ (ask.kind = "walk" => page =< Cardinality(Key) + 1)
      /\ total \in 0..Cardinality(Key)
      /\ items \subseteq ItemType
      /\ DOMAIN figures \subseteq Key /\ Range(figures) \subseteq Tally
      /\ named \subseteq KeysShown
      /\ \A k \in DOMAIN listed : listed[k] \subseteq Key
      /\ Range(ranks) \subseteq 1..Cardinality(Key) \cup {NotFound}
      /\ {s.key : s \in shown} \subseteq Key
      /\ calm \in BOOLEAN
      /\ PlayedInv
  BY DEF ReadTypeOK, BoardsInv
<1>2. TypeOK'
  BY ReadsLeave, TypeKept DEF BoardsInv, LineInv, Core
<1>3. Cardinality(Key) \in Nat
  BY PlaceFacts
<1>4. CASE Elsewhere \/ AllAtRest \/ UNCHANGED allvars
  BY <1>1, <1>2, <1>4
  DEF Elsewhere, AllAtRest, allvars, reader, answer, ReadTypeOK, KeysShown
<1>5. CASE Ask
  <2>1. page' \in Nat \ {0} /\ (ask.kind = "walk" => page' =< Cardinality(Key) + 1)
    BY <1>1, <1>3, <1>5, AskType DEF Ask
  <2>2. calm' \in BOOLEAN
    BY <1>5 DEF Ask, Quiet
  <2> QED BY <1>1, <1>2, <1>5, <2>1, <2>2 DEF Ask, answer, ReadTypeOK, KeysShown
<1>6. CASE ReadPage
  <2>1. items' \subseteq ItemType /\ total' \in 0..Cardinality(Key)
    BY <1>1, <1>6, ItemsType DEF ReadPage
  <2>2. /\ DOMAIN figures' = {} /\ Range(figures') = {}
        /\ DOMAIN listed' = {} /\ Range(ranks') = {}
    BY <1>6 DEF ReadPage, Range
  <2> QED BY <1>1, <1>2, <1>6, <2>1, <2>2 DEF ReadPage, FirstRead, ReadTypeOK
<1>7. CASE ReadFigures
  <2>1. \A k \in KeysShown : k \in Key /\ stats[k] \in Tally
    BY <1>1 DEF KeysShown, ItemType, TypeOK
  <2>2. DOMAIN figures' \subseteq Key /\ Range(figures') \subseteq Tally
    BY <1>7, <2>1 DEF ReadFigures, FiguresOf, Range
  <2> QED BY <1>1, <1>2, <1>7, <2>2 DEF ReadFigures, ReadTypeOK, KeysShown
<1>8. ASSUME NEW k \in Key, ReadName(k)
      PROVE  ReadTypeOK'
  BY <1>1, <1>2, <1>8 DEF ReadName, ReadTypeOK, KeysShown
<1>9. ASSUME NEW k \in Key, ListClass(k)
      PROVE  ReadTypeOK'
  <2>1. \A l \in DOMAIN listed' : listed'[l] \subseteq Key
    BY <1>1, <1>9 DEF ListClass
  <2> QED BY <1>1, <1>2, <1>9, <2>1 DEF ListClass, ReadTypeOK, KeysShown
<1>10. ASSUME NEW k, NEW r \in 1..Cardinality(Key) \cup {NotFound},
              ranks' = [l \in DOMAIN ranks \cup {k} |-> IF l = k THEN r ELSE ranks[l]]
       PROVE  Range(ranks') \subseteq 1..Cardinality(Key) \cup {NotFound}
  BY <1>1, <1>10 DEF Range
<1>11. ASSUME NEW k \in Key, RankInClass(k)
       PROVE  ReadTypeOK'
  <2>1. PICK r \in OverallRanks(k) :
           ranks' = [l \in DOMAIN ranks \cup {k} |-> IF l = k THEN r ELSE ranks[l]]
    BY <1>11 DEF RankInClass
  <2>2. r \in 1..Cardinality(Key) \cup {NotFound}
    BY <1>1, <1>11, <2>1, OverallType DEF RankInClass
  <2>3. Range(ranks') \subseteq 1..Cardinality(Key) \cup {NotFound}
    BY <1>10, <2>1, <2>2, Zenon
  <2> QED BY <1>1, <1>2, <1>11, <2>3 DEF RankInClass, ReadTypeOK, KeysShown
<1>12. CASE LoseAnswer
  <2>1. Range(ranks') \subseteq 1..Cardinality(Key) \cup {NotFound}
    <3>1. \/ ranks' = ranks
          \/ \E k : ranks' = [l \in DOMAIN ranks \cup {k} |->
                                IF l = k THEN NotFound ELSE ranks[l]]
      BY <1>12 DEF LoseAnswer
    <3>2. NotFound \in 1..Cardinality(Key) \cup {NotFound}
      OBVIOUS
    <3> QED BY <1>1, <1>10, <3>1, <3>2, Zenon
  <2> QED BY <1>1, <1>2, <1>12, <2>1 DEF LoseAnswer, ReadTypeOK, KeysShown
<1>13. CASE ReadEnds
  <2>1. page' \in Nat \ {0} /\ (ask.kind = "walk" => page' =< Cardinality(Key) + 1)
    <3>1. CASE ask.kind = "walk" /\ page * Limit < total
      <4>1. \A n, m \in Nat \ {0} : n =< n * m
        OBVIOUS
      <4>2. page =< page * Limit /\ page * Limit \in Nat
        BY <1>1, <4>1, AskType
      <4> QED BY <1>1, <1>3, <1>13, <3>1, <4>2 DEF ReadEnds
    <3> QED BY <1>1, <1>13, <3>1 DEF ReadEnds
  <2>2. {s.key : s \in shown'} \subseteq Key
    <3>1. PICK some \in SUBSET items : shown' = shown \cup {RowOf(i) : i \in some}
      BY <1>13 DEF ReadEnds, Qualified, Trending, FirstOfPlayer
    <3>2. \A i \in items : RowOf(i).key \in Key
      BY <1>1 DEF RowOf, ItemType
    <3> QED BY <1>1, <3>1, <3>2
  <2> QED BY <1>1, <1>2, <1>13, <2>1, <2>2 DEF ReadEnds, answer, ReadTypeOK, KeysShown
<1> QED BY <1>4, <1>5, <1>6, <1>7, <1>8, <1>9, <1>11, <1>12, <1>13
        DEF ReadNext, ReadStep

\* What the client is given has the form of the code's answers; the pages of a walk
\* come to an end.
THEOREM ReadsTypeCorrect == ReadSpec => []ReadTypeOK
<1>1. ReadInit => ReadTypeOK
  <2> SUFFICES ASSUME ReadInit
               PROVE  ReadTypeOK
    OBVIOUS
  <2>1. TypeOK
    BY LineStart DEF ReadInit, Core
  <2>2. /\ Cardinality(Key) \in Nat
        /\ DOMAIN figures = {} /\ Range(figures) = {} /\ DOMAIN listed = {}
        /\ Range(ranks) = {}
    BY PlaceFacts DEF ReadInit, Range
  <2>3. page \in Nat \ {0} /\ page =< Cardinality(Key) + 1 /\ total \in 0..Cardinality(Key)
    BY <2>2 DEF ReadInit
  <2>4. /\ ask \in Asked /\ pc = "idle" /\ items = {} /\ named = {} /\ shown = {}
        /\ calm \in BOOLEAN
    BY DEF ReadInit
  <2> QED BY <2>1, <2>2, <2>3, <2>4 DEF ReadTypeOK
<1>2. BoardsInv /\ ReadTypeOK /\ [ReadNext]_allvars => ReadTypeOK'
  BY ReadTypeKept
<1> QED BY <1>1, <1>2, BoardsInvariant, PTL DEF ReadSpec

-----------------------------------------------------------------------------
(* Figures and places                                                      *)

\* The figures of a player who is not gone do not go back while a page is asked for.
LEMMA StatsHold ==
    ASSUME Core, Elsewhere, pc' = "figures", NEW k \in Key, k.player \notin Gone'
    PROVE  /\ pc = "figures" /\ k.player \notin Gone
           /\ stats[k].games \in Nat /\ stats'[k].games \in Nat
           /\ stats'[k].games >= stats[k].games
<1>1. [Next]_vars
  BY DEF Elsewhere, Next
<1>2. k.player \notin Gone
  BY <1>1, GoneGrows
<1>3. pc = "figures" /\ crashes' = crashes
  BY DEF Elsewhere, Asking
<1>4. ~Crash
  <2>1. crashes + 1 # crashes
    BY BoundsAssumption DEF Core, TypeOK
  <2> QED BY <1>3, <2>1 DEF Crash
<1> QED BY <1>1, <1>2, <1>3, <1>4, StatsStep

LEMMA PlacesKept ==
    ASSUME BoardsInv, ReadTypeOK, PlacesInv, [ReadNext]_allvars
    PROVE  PlacesInv'
<1>1. /\ Core /\ GrowsInv /\ TypeOK /\ ask \in Asked /\ items \subseteq ItemType
      /\ stats \in [Key -> Tally]
      /\ pc = "figures" => \A i \in items : i.key.player \notin Gone =>
                              stats[i.key].games >= i.tally.games
  BY DEF BoardsInv, LineInv, Core, ReadTypeOK, TypeOK, PlacesInv
<1>2. CASE Elsewhere
  <2> SUFFICES ASSUME pc' = "figures", NEW i \in items', i.key.player \notin Gone'
               PROVE  stats'[i.key].games >= i.tally.games
    BY DEF PlacesInv
  <2>1. i \in items /\ i \in ItemType /\ i.key \in Key
    BY <1>1, <1>2 DEF Elsewhere, ItemType
  <2>2. /\ stats[i.key].games >= i.tally.games
        /\ stats[i.key].games \in Nat /\ stats'[i.key].games \in Nat
        /\ stats'[i.key].games >= stats[i.key].games
    BY <1>1, <1>2, <2>1, StatsHold
  <2>3. i.tally.games \in Nat
    BY <2>1, TallyFields DEF ItemType
  <2> QED BY <2>2, <2>3
<1>3. CASE ReadPage /\ UNCHANGED vars
  <2> SUFFICES ASSUME NEW i \in items', i.key.player \notin Gone'
               PROVE  stats'[i.key].games >= i.tally.games
    BY DEF PlacesInv
  <2>1. Gone' = Gone /\ stats' = stats
    BY <1>3 DEF Gone, vars, redis
  <2>2. PICK k \in Members(ask.board) : i.key = k /\ i.tally = board[ask.board][k]
    BY <1>3 DEF ReadPage, ItemsOf
  <2>3. /\ k \in Key /\ ask.board \in Board
        /\ stats[k].games \in Nat /\ board[ask.board][k].games \in Nat
    BY <1>1, AskType, TallyFields DEF Members, TypeOK
  <2>4. board[ask.board][k].games =< stats[k].games
    BY <1>1, <2>1, <2>2, <2>3 DEF GrowsInv, Grows
  <2> QED BY <2>1, <2>2, <2>3, <2>4
<1>4. ASSUME UNCHANGED <<vars, items, pc>>
      PROVE  PlacesInv'
  <2>1. Gone' = Gone /\ stats' = stats
    BY <1>4 DEF Gone, vars, redis
  <2> QED BY <1>1, <1>4, <2>1 DEF PlacesInv
<1>5. \/ Elsewhere \/ (ReadPage /\ UNCHANGED vars) \/ UNCHANGED <<vars, items, pc>>
      \/ pc' # "figures"
  BY DEF ReadNext, ReadStep, Ask, ReadFigures, ReadEnds, LoseAnswer, ReadName, ListClass,
     RankInClass, AllAtRest, allvars, reader
<1> QED BY <1>2, <1>3, <1>4, <1>5 DEF PlacesInv

LEMMA FiguresKept ==
    ASSUME BoardsInv, ReadTypeOK, PlacesInv, FiguresNotOlderThanPlace, [ReadNext]_allvars
    PROVE  FiguresNotOlderThanPlace'
<1>1. /\ ask \in Asked /\ items \subseteq ItemType /\ Core
      /\ pc = "figures" => \A i \in items : i.key.player \notin Gone =>
                              stats[i.key].games >= i.tally.games
      /\ \A i \in items : i.key \in DOMAIN figures /\ i.key.player \notin Gone =>
            /\ figures[i.key].games >= i.tally.games
            /\ ask.kind = "winrate" /\ pc = "done" /\ i.tally.games >= ask.minGames
               => RowOf(i) \in shown
      /\ \A i \in items : i.tally.games \in Nat
      /\ \A k \in DOMAIN figures : figures[k].games \in Nat
  BY TallyFields
  DEF BoardsInv, LineInv, Core, ReadTypeOK, PlacesInv, FiguresNotOlderThanPlace, ItemType,
      Range
<1>2. Gone \subseteq Gone'
  BY <1>1, ReadsLeave, GoneGrows
<1>3. ASSUME items' = items, figures' = figures, pc' # "done"
      PROVE  FiguresNotOlderThanPlace'
  BY <1>1, <1>2, <1>3 DEF FiguresNotOlderThanPlace
<1>4. CASE UNCHANGED allvars
  <2>1. \A i : RowOf(i)' = RowOf(i)
    BY <1>4 DEF RowOf, allvars, reader, answer
  <2> QED BY <1>1, <1>2, <1>4, <2>1
          DEF FiguresNotOlderThanPlace, allvars, reader, answer
<1>5. CASE ReadPage
  BY <1>5 DEF ReadPage, FiguresNotOlderThanPlace
<1>6. CASE ReadFigures
  BY <1>1, <1>2, <1>6 DEF ReadFigures, FiguresOf, KeysShown, FiguresNotOlderThanPlace
<1>7. CASE ReadEnds
  <2> SUFFICES ASSUME NEW i \in items, i.key \in DOMAIN figures, i.key.player \notin Gone'
               PROVE  /\ figures[i.key].games >= i.tally.games
                      /\ ask.kind = "winrate" /\ i.tally.games >= ask.minGames
                         => RowOf(i)' \in shown'
    BY <1>7 DEF ReadEnds, answer, FiguresNotOlderThanPlace
  <2>1. figures[i.key].games >= i.tally.games
    BY <1>1, <1>2
  <2>2. ASSUME ask.kind = "winrate", i.tally.games >= ask.minGames
        PROVE  RowOf(i)' \in shown'
    <3>1. figures[i.key].games >= ask.minGames
      BY <1>1, <2>1, <2>2, AskType
    <3>2. i \in Qualified
      BY <3>1 DEF Qualified, Enough
    <3>3. RowOf(i) \in shown'
      BY <1>7, <2>2, <3>2 DEF ReadEnds
    <3>4. RowOf(i)' = RowOf(i)
      BY <1>7, <2>2 DEF ReadEnds, RowOf, answer
    <3> QED BY <3>3, <3>4
  <2> QED BY <2>1, <2>2
<1>8. \/ UNCHANGED allvars \/ ReadPage \/ ReadFigures \/ ReadEnds
      \/ items' = items /\ figures' = figures /\ pc' # "done"
  BY DEF ReadNext, ReadStep, Ask, LoseAnswer, ReadName, ListClass, RankInClass, AllAtRest,
     Elsewhere, answer
<1> QED BY <1>3, <1>4, <1>5, <1>6, <1>7, <1>8

\* Updates that run between the reads of a page and of its hashes make the figures of a
\* row newer than its place, never older, and drop nobody who had played enough.
THEOREM FiguresFollowPlaces == ReadSpec => []FiguresNotOlderThanPlace
<1>1. ReadInit => PlacesInv /\ FiguresNotOlderThanPlace
  BY DEF ReadInit, PlacesInv, FiguresNotOlderThanPlace
<1>2. /\ BoardsInv /\ ReadTypeOK /\ PlacesInv /\ FiguresNotOlderThanPlace
      /\ [ReadNext]_allvars
      => PlacesInv' /\ FiguresNotOlderThanPlace'
  BY PlacesKept, FiguresKept
<1> QED BY <1>1, <1>2, BoardsInvariant, ReadsTypeCorrect, PTL DEF ReadSpec

-----------------------------------------------------------------------------
(* What is read while nothing else happens                                 *)

\* Only the client does something that leaves a calm behind.
LEMMA CalmStep ==
    ASSUME ReadTypeOK, CalmInv, [ReadNext]_allvars, calm'
    PROVE  /\ UNCHANGED <<vars, ask>> /\ Quiet'
           /\ \/ Ask
              \/ /\ calm
                 /\ \/ ReadPage \/ ReadFigures \/ ReadEnds \/ UNCHANGED reader
                    \/ \E k \in Key : ReadName(k) \/ ListClass(k) \/ RankInClass(k)
<1>1. ~Elsewhere /\ ~LoseAnswer
  BY DEF Elsewhere, LoseAnswer
<1>2. \/ UNCHANGED vars /\ Ask
      \/ /\ calm /\ UNCHANGED vars
         /\ \/ ReadPage \/ ReadFigures \/ ReadEnds \/ UNCHANGED reader
            \/ \E k \in Key : ReadName(k) \/ ListClass(k) \/ RankInClass(k)
  <2>1. CASE ReadStep
    BY <1>1, <2>1 DEF ReadStep, ReadPage, ReadFigures, ReadEnds, ReadName, ListClass, RankInClass
  <2>2. CASE AllAtRest \/ UNCHANGED allvars
    BY <2>2 DEF AllAtRest, allvars, reader
  <2> QED BY <1>1, <2>1, <2>2 DEF ReadNext
<1>3. ask' = ask
  BY <1>2 DEF Ask, ReadPage, ReadFigures, ReadEnds, reader, ReadName, ListClass, RankInClass
<1>4. Quiet
  BY <1>2 DEF Ask, CalmInv
<1>5. Quiet'
  BY <1>2, <1>4 DEF Quiet, Listening, vars
<1> QED BY <1>2, <1>3, <1>5

LEMMA OneAnswerKept ==
    ASSUME ReadTypeOK, OneAnswer, [ReadNext]_allvars
    PROVE  OneAnswer'
<1>1. UNCHANGED reader => OneAnswer'
  BY DEF OneAnswer, reader, answer
<1>2. Elsewhere => OneAnswer'
  BY DEF OneAnswer, Elsewhere, answer, Asking
<1>3. Ask \/ ReadPage \/ ReadFigures \/ LoseAnswer => OneAnswer'
  BY DEF OneAnswer, Ask, ReadPage, ReadFigures, LoseAnswer, answer, FirstRead
<1>4. ASSUME NEW k, ReadName(k) \/ ListClass(k) \/ RankInClass(k)
      PROVE  OneAnswer'
  BY <1>4 DEF OneAnswer, ReadName, ListClass, RankInClass
<1>5. ReadEnds => OneAnswer'
  BY DEF OneAnswer, ReadEnds
<1> QED BY <1>1, <1>2, <1>3, <1>4, <1>5 DEF ReadNext, ReadStep, AllAtRest, allvars

LEMMA SamePage ==
    ASSUME UNCHANGED <<vars, ask, page>>
    PROVE  /\ ItemsOf(ask.board, page, SizeOf(ask.kind))'
              = ItemsOf(ask.board, page, SizeOf(ask.kind))
           /\ Cardinality(Members(ask.board))' = Cardinality(Members(ask.board))
BY DEF Precedes, Above, vars, redis, Rank, Members, ItemsOf, SizeOf, Limit

LEMMA PageHoldsKept ==
    ASSUME ReadTypeOK, CalmInv, [ReadNext]_allvars, calm'
    PROVE  PageHolds'
<1>1. PageHolds' \/ pc' \in {"figures", "names", "done"}
  BY DEF PageHolds
<1>2. CASE ReadPage
  BY <1>2, CalmStep, SamePage DEF ReadPage, PageHolds
<1>3. CASE ~ReadPage /\ pc' \in {"figures", "names", "done"}
  <2>1. /\ UNCHANGED <<page, items, total>> /\ pc \in {"figures", "names", "done"}
        /\ calm
    BY <1>3, CalmStep
    DEF Ask, ReadFigures, ReadEnds, ReadName, ListClass, RankInClass, reader
  <2> QED BY <2>1, CalmStep, SamePage DEF PageHolds, CalmInv
<1> QED BY <1>1, <1>2, <1>3

LEMMA FiguresHoldKept ==
    ASSUME ReadTypeOK, CalmInv, [ReadNext]_allvars, calm'
    PROVE  FiguresHold'
<1>1. FiguresHold' \/ (pc' = "names" /\ ask.kind = "walk")
  BY CalmStep DEF FiguresHold
<1>2. CASE ReadFigures
  BY <1>2, CalmStep DEF ReadFigures, FiguresOf, FiguresHold, KeysShown, vars, redis
<1>3. CASE ~ReadFigures /\ pc' = "names" /\ ask.kind = "walk"
  <2>1. UNCHANGED <<figures, items, pc>> /\ calm
    BY <1>3, CalmStep
    DEF Ask, ReadPage, FirstRead, ReadEnds, ReadName, ListClass, RankInClass, reader, answer
  <2> QED BY <1>3, <2>1, CalmStep DEF FiguresHold, CalmInv, KeysShown, vars, redis
<1> QED BY <1>1, <1>2, <1>3

LEMMA RanksHoldKept ==
    ASSUME ReadTypeOK, CalmInv, [ReadNext]_allvars, calm'
    PROVE  RanksHold'
<1>1. UNCHANGED vars /\ (Ask => listed = <<>> /\ ranks = <<>>) /\ (~Ask => calm)
  BY CalmStep DEF Ask, CalmInv, OneAnswer
<1>2. stats' = stats
  BY <1>1 DEF vars, redis
<1>3. /\ \A k \in DOMAIN listed : listed[k] = ClassHashes(k)
      /\ \A k \in DOMAIN ranks : k \in DOMAIN listed /\ ranks[k] \in OverallRanks(k)
  BY <1>1 DEF CalmInv, RanksHold
<1>4. \A k : ClassHashes(k)' = ClassHashes(k)
  BY <1>2 DEF ClassHashes
<1>5. ASSUME NEW k, listed'[k] = listed[k]
      PROVE  OverallRanks(k)' = OverallRanks(k)
  BY <1>2, <1>5 DEF OverallRanks, Better
<1>6. CASE UNCHANGED <<listed, ranks>>
  BY <1>3, <1>4, <1>5, <1>6 DEF RanksHold
<1>7. CASE ReadPage
  BY <1>7 DEF ReadPage, RanksHold
<1>8. ASSUME NEW k, ListClass(k)
      PROVE  RanksHold'
  <2>1. /\ listed' = [l \in DOMAIN listed \cup {k} |->
                        IF l = k THEN ClassHashes(k) ELSE listed[l]]
        /\ k \notin DOMAIN listed /\ ranks' = ranks
    BY <1>8 DEF ListClass, ClassHashes
  <2>2. \A l \in DOMAIN listed' : listed'[l] = ClassHashes(l)
    BY <1>3, <2>1
  <2>3. \A l \in DOMAIN ranks : l \in DOMAIN listed' /\ listed'[l] = listed[l]
    BY <1>3, <2>1
  <2> QED BY <1>3, <1>4, <1>5, <2>1, <2>2, <2>3 DEF RanksHold
<1>9. ASSUME NEW k, RankInClass(k)
      PROVE  RanksHold'
  <2>1. PICK r \in OverallRanks(k) :
           ranks' = [l \in DOMAIN ranks \cup {k} |-> IF l = k THEN r ELSE ranks[l]]
    BY <1>9 DEF RankInClass
  <2>2. k \in DOMAIN listed /\ listed' = listed
    BY <1>9 DEF RankInClass
  <2>3. \A l \in DOMAIN ranks' : l \in DOMAIN listed /\ ranks'[l] \in OverallRanks(l)
    BY <1>3, <2>1, <2>2
  <2> QED BY <1>3, <1>4, <1>5, <2>2, <2>3 DEF RanksHold
<1> QED BY <1>6, <1>7, <1>8, <1>9, CalmStep
        DEF Ask, ReadFigures, ReadEnds, ReadName, reader, answer

\* The rows of n pages
Pages(rows, b, n) ==
    /\ {s.key : s \in rows} = {k \in Members(b) : Rank(b, k) =< n * Limit}
    /\ \A s \in rows : /\ s.rank = Rank(b, s.key) /\ s.tally = board[b][s.key]
                       /\ s.figures = stats[s.key]
    /\ \A s, t \in rows : s.key = t.key => s = t

\* A page that is added to those before makes the rows of one page more.
LEMMA PageAdded ==
    ASSUME BoardsInv, ReadTypeOK, ask.kind = "walk", pc = "names", PageHolds, FiguresHold,
           Given(page - 1)
    PROVE  Pages(shown \cup {RowOf(i) : i \in items}, ask.board, page)
<1> SUFFICES ASSUME NEW rows, rows = shown \cup {RowOf(i) : i \in items},
                    NEW b, b = ask.board
             PROVE  Pages(rows, b, page)
  OBVIOUS
<1>1. /\ TypeOK /\ PlayedInv /\ b \in Board /\ Limit \in Nat \ {0} /\ page \in Nat \ {0}
      /\ SizeOf(ask.kind) = Limit
  BY AskType DEF ReadTypeOK, BoardsInv
<1>2. PICK first \in Nat, last \in Nat :
         first = (page - 1) * Limit /\ last = page * Limit /\ first =< last
  <2>1. \A n, m \in Nat \ {0} : /\ (n - 1) * m \in Nat /\ n * m \in Nat
                                /\ (n - 1) * m =< n * m
    OBVIOUS
  <2> QED BY <1>1, <2>1
<1>3. items = {[key |-> k, rank |-> Rank(b, k), tally |-> board[b][k]] :
                 k \in {k \in Members(b) : Rank(b, k) \in first + 1 .. last}}
  BY <1>1, <1>2 DEF PageHolds, ItemsOf, LastPlace
<1>4. /\ {s.key : s \in shown} = {k \in Members(b) : Rank(b, k) =< first}
      /\ \A s \in shown : /\ s.rank = Rank(b, s.key) /\ s.tally = board[b][s.key]
                          /\ s.figures = stats[s.key]
      /\ \A s, t \in shown : s.key = t.key => s = t
  BY <1>2 DEF Given
<1>5. \A k \in Members(b) : Rank(b, k) \in Nat \ {0}
  BY <1>1, RankFacts
<1>6. ASSUME NEW i \in items
      PROVE  /\ i.key \in Members(b) /\ Rank(b, i.key) \in first + 1 .. last
             /\ RowOf(i).key = i.key /\ RowOf(i).rank = Rank(b, i.key)
             /\ RowOf(i).tally = board[b][i.key] /\ RowOf(i).figures = stats[i.key]
  <2>1. /\ i.key \in Members(b) /\ Rank(b, i.key) \in first + 1 .. last
        /\ i.rank = Rank(b, i.key) /\ i.tally = board[b][i.key]
    BY <1>3
  <2>2. i.key \in DOMAIN figures /\ figures[i.key] = stats[i.key]
    BY DEF FiguresHold, KeysShown
  <2> QED BY <2>1, <2>2 DEF RowOf
<1>7. \A i, j \in items : i.key = j.key => i = j
  BY <1>3
<1>8. ASSUME NEW k \in Members(b), Rank(b, k) \in first + 1 .. last
      PROVE  \E i \in items : i.key = k
  <2>1. PICK i : i = [key |-> k, rank |-> Rank(b, k), tally |-> board[b][k]]
    OBVIOUS
  <2>2. i \in items /\ i.key = k
    BY <1>3, <1>8, <2>1
  <2> QED BY <2>2
<1>9. \A s \in rows : /\ s.key \in Members(b) /\ Rank(b, s.key) =< last
                      /\ s.rank = Rank(b, s.key) /\ s.tally = board[b][s.key]
                      /\ s.figures = stats[s.key]
  <2>1. \A s \in shown : s.key \in Members(b) /\ Rank(b, s.key) =< last
    BY <1>2, <1>4, <1>5
  <2>2. \A i \in items : Rank(b, i.key) =< last
    BY <1>2, <1>5, <1>6
  <2> QED BY <1>4, <1>6, <2>1, <2>2
<1>10. ASSUME NEW k \in Members(b), Rank(b, k) =< last
       PROVE  \E s \in rows : s.key = k
  <2>1. CASE Rank(b, k) =< first
    BY <1>4, <2>1
  <2>2. CASE Rank(b, k) \in first + 1 .. last
    BY <1>6, <1>8, <2>2
  <2> QED BY <1>2, <1>5, <1>10, <2>1, <2>2
<1>11. ASSUME NEW s \in rows, NEW t \in rows, s.key = t.key
       PROVE  s = t
  <2>1. ASSUME NEW u \in shown, NEW i \in items
        PROVE  u.key # RowOf(i).key
    <3>1. Rank(b, u.key) =< first /\ Rank(b, u.key) \in Nat
      BY <1>4, <1>5
    <3>2. Rank(b, i.key) >= first + 1 /\ Rank(b, i.key) \in Nat /\ RowOf(i).key = i.key
      BY <1>2, <1>5, <1>6
    <3> QED BY <1>2, <3>1, <3>2
  <2>2. \A i, j \in items : RowOf(i).key = RowOf(j).key => RowOf(i) = RowOf(j)
    BY <1>6, <1>7
  <2> QED BY <1>4, <1>11, <2>1, <2>2
<1> QED BY <1>2, <1>9, <1>10, <1>11 DEF Pages

LEMMA RowsHoldKept ==
    ASSUME BoardsInv, ReadTypeOK, CalmInv, [ReadNext]_allvars, calm'
    PROVE  RowsHold'
<1>1. /\ UNCHANGED <<vars, ask>> /\ OneAnswer
      /\ calm => PageHolds /\ FiguresHold /\ RowsHold
  BY CalmStep DEF CalmInv
<1>2. board' = board /\ stats' = stats
  BY <1>1 DEF vars, redis
<1>3. ASSUME NEW n, NEW b, b = ask.board, Pages(shown', b, n)
      PROVE  /\ page' - 1 = n => Given(page - 1)'
             /\ page' = n => Given(page)'
  <2>1. /\ ask'.board = b /\ Limit' = Limit /\ Members(b)' = Members(b)
        /\ \A k : Rank(b, k)' = Rank(b, k)
    BY <1>1, <1>3 DEF Precedes, Above, vars, redis, Rank, Members, Limit
  <2> QED BY <1>2, <1>3, <2>1 DEF Given, Pages
<1>4. CASE Ask
  <2>1. shown' = {} /\ pc' = "page" /\ (ask.kind = "walk" => page' = 1)
    BY <1>1, <1>4 DEF Ask, OneAnswer
  <2>2. PICK b \in Board : b = ask.board
    BY AskType DEF ReadTypeOK
  <2>3. {k \in Members(b) : Rank(b, k) =< 0 * Limit} = {}
    BY <2>2, RankFacts, AskType DEF ReadTypeOK, BoardsInv
  <2>4. ask.kind = "walk" => Given(page - 1)'
    <3>1. ask.kind = "walk" => page' - 1 = 0
      BY <2>1
    <3>2. Pages({}, b, 0)
      BY <2>3 DEF Pages
    <3> QED BY <1>3, <2>1, <2>2, <3>1, <3>2
  <2> QED BY <1>1, <2>1, <2>4 DEF RowsHold, Asking
<1>5. CASE calm /\ Asking /\ pc' # "done" /\ UNCHANGED <<page, shown>>
  <2>1. ask.kind = "walk" => Given(page - 1)'
    <3>1. Given(page - 1)' = Given(page - 1)
      BY <1>1, <1>5 DEF Precedes, Above, vars, redis, Rank, Members, Given, Limit
    <3> QED BY <1>1, <1>5, <3>1 DEF RowsHold
  <2> QED BY <1>1, <1>5, <2>1 DEF RowsHold
<1>6. CASE calm /\ ReadEnds
  <2>1. /\ pc = "names" /\ UNCHANGED <<items, total, figures, ranks>>
        /\ pc' # "done" => ask.kind = "walk" /\ page' = page + 1
        /\ pc' = "done" => page' = page
        /\ pc' = "done" /\ ask.kind = "walk" => ~(page * Limit < total)
        /\ ask.kind \in {"trending", "best"} => DOMAIN ranks = KeysShown
    BY <1>6, AskType DEF ReadEnds, answer, ReadTypeOK
  <2>2. CASE ask.kind = "walk"
    <3>1. PICK b : b = ask.board
      OBVIOUS
    <3>2. shown' = shown \cup {RowOf(i) : i \in items}
      BY <1>6, <2>2 DEF ReadEnds
    <3>3. Given(page - 1)
      BY <1>1, <1>6, <2>1, <2>2 DEF RowsHold, Asking
    <3>4. Pages(shown', b, page)
      <4>1. PageHolds /\ FiguresHold
        BY <1>1, <1>6
      <4>2. Pages(shown \cup {RowOf(i) : i \in items}, ask.board, page)
        BY <2>1, <2>2, <3>3, <4>1, PageAdded
      <4> QED BY <3>1, <3>2, <4>2
    <3>5. /\ page' - 1 = page => Given(page - 1)'
          /\ page' = page => Given(page)'
      BY <1>3, <3>1, <3>4
    <3>6. page' = page + 1 => page' - 1 = page
      BY DEF ReadTypeOK
    <3>7. pc' = "done" => page' * Limit >= total'
      <4>1. page \in Nat /\ Limit \in Nat /\ total \in Nat
        BY PlaceFacts, AskType DEF ReadTypeOK
      <4>2. page * Limit \in Nat
        BY <4>1
      <4> QED BY <2>1, <2>2, <4>1, <4>2
    <3> QED BY <1>1, <2>1, <2>2, <3>5, <3>6, <3>7 DEF RowsHold, Asking, Limit
  <2>3. CASE ask.kind # "walk"
    <3>1. pc' = "done" /\ page' = page /\ shown = {}
      BY <1>1, <2>1, <2>3 DEF OneAnswer
    <3>2. \A i : RowOf(i)' = RowOf(i)
      BY <2>1, <3>1 DEF RowOf
    <3>3. Trending' = Trending /\ KeysShown' = KeysShown
      BY <1>1, <2>1 DEF Trending, FirstOfPlayer, Limit, KeysShown
    <3>4. /\ ask.kind = "best" => shown' = {RowOf(i) : i \in items}
          /\ ask.kind = "trending" => shown' = {RowOf(i) : i \in Trending}
      BY <1>6, <3>1 DEF ReadEnds
    <3> QED BY <1>1, <2>1, <2>3, <3>1, <3>2, <3>3, <3>4 DEF RowsHold
  <2> QED BY <2>2, <2>3
<1>7. CASE calm /\ UNCHANGED reader
  <2>1. UNCHANGED <<pc, page, items, total, figures, ranks, shown>>
    BY <1>7 DEF reader, answer
  <2>2. Given(page - 1)' = Given(page - 1) /\ Given(page)' = Given(page)
    BY <1>1, <2>1 DEF Precedes, Above, vars, redis, Rank, Members, Given, Limit
  <2>3. \A i : RowOf(i)' = RowOf(i)
    BY <2>1 DEF RowOf
  <2>4. Trending' = Trending /\ KeysShown' = KeysShown
    BY <1>1, <2>1 DEF Trending, FirstOfPlayer, Limit, KeysShown
  <2> QED BY <1>1, <1>7, <2>1, <2>2, <2>3, <2>4 DEF RowsHold, Asking, Limit
<1> QED
  <2>1. CASE calm /\ (ReadPage \/ ReadFigures)
    BY <1>5, <2>1, AskType DEF ReadPage, ReadFigures, FirstRead, Asking
  <2>2. ASSUME calm, NEW k, ReadName(k) \/ ListClass(k) \/ RankInClass(k)
        PROVE  RowsHold'
    BY <1>5, <2>2 DEF ReadName, ListClass, RankInClass, Asking
  <2> QED BY <1>4, <1>6, <1>7, <2>1, <2>2, CalmStep

\* What a client has read stays true as long as nothing else happens.
THEOREM CalmInvariant == ReadSpec => []CalmInv
<1>1. ReadInit => CalmInv
  BY DEF ReadInit, CalmInv, OneAnswer
<1>2. BoardsInv /\ ReadTypeOK /\ CalmInv /\ [ReadNext]_allvars => CalmInv'
  <2> SUFFICES ASSUME BoardsInv, ReadTypeOK, CalmInv, [ReadNext]_allvars
               PROVE  CalmInv'
    OBVIOUS
  <2>1. OneAnswer'
    BY OneAnswerKept DEF CalmInv
  <2>2. ASSUME calm'
        PROVE  Quiet' /\ PageHolds' /\ FiguresHold' /\ RanksHold' /\ RowsHold'
    BY <2>2, CalmStep, PageHoldsKept, FiguresHoldKept, RanksHoldKept, RowsHoldKept
  <2> QED BY <2>1, <2>2 DEF CalmInv
<1> QED BY <1>1, <1>2, BoardsInvariant, ReadsTypeCorrect, PTL DEF ReadSpec

-----------------------------------------------------------------------------
(* What a client is shown                                                  *)

\* At rest the sorted sets show the averages of the hashes, or nothing.
LEMMA QuietIsCurrent ==
    ASSUME BoardsInv, Quiet, Undamaged, NEW b \in Board, NEW k \in Key
    PROVE  board[b][k] \in {NoTally, Averages(stats[k])}
<1>1. FreshInv /\ sent = <<>> /\ DOMAIN sent = {} /\ DOMAIN turns = {} /\ Len(sent) = 0
  BY DEF BoardsInv, Quiet
<1>2. ~ReadFrom(1, k) /\ ~ResetFrom(1, b, k)
  BY <1>1 DEF ReadFrom, ResetFrom
<1> QED BY <1>1, <1>2 DEF FreshInv

\* The rows of a class whose members are no worse than one player are fewer than the
\* place of another he is better than.
LEMMA BetterRanksFirst ==
    ASSUME ReadTypeOK, ask.least = FALSE, NEW k \in Key, NEW l \in Key,
           listed[k] \subseteq Key, listed[l] = listed[k],
           \A m \in listed[k] : Played(stats[m]),
           k \in Scored(k), l \in Scored(l), Above(stats[k], stats[l]),
           NEW r \in OverallRanks(k), NEW q \in OverallRanks(l)
    PROVE  r < q
<1> DEFINE level == {m \in Scored(k) : ~Better(stats[k], stats[m])}
           ahead == {m \in Scored(l) : Better(stats[m], stats[l])}
<1>1. Scored(l) = Scored(k)
  BY DEF Scored
<1>2. \A m \in Scored(k) : m \in Key /\ stats[m] \in Figures
  <2>1. stats \in [Key -> Tally]
    BY DEF ReadTypeOK, TypeOK
  <2>2. ASSUME NEW m \in Scored(k)
        PROVE  m \in Key /\ stats[m] \in Tally /\ stats[m].games >= 1
    BY <2>1, <2>2 DEF Scored, Played, NoTally
  <2> QED BY <2>2 DEF Figures, Tally
<1>3. \A t, u : Better(t, u) <=> Above(t, u)
  BY DEF Better, Above
<1>4. level \subseteq ahead
  <2> SUFFICES ASSUME NEW m \in Scored(k), ~Better(stats[k], stats[m])
               PROVE  m \in ahead
    OBVIOUS
  <2>1. Above(stats[m], stats[l])
    BY <1>1, <1>2, <1>3, AboveFacts
  <2> QED BY <1>1, <1>3, <2>1
<1>5. ahead \subseteq Key
  BY <1>1, <1>2
<1>6. PICK n \in Cardinality({m \in Scored(k) : Better(stats[m], stats[k])})
               .. Cardinality(level) - 1 : r = AfterIndex(n)
  BY DEF OverallRanks, Scored
<1>7. PICK p \in Cardinality(ahead)
               .. Cardinality({m \in Scored(l) : ~Better(stats[l], stats[m])}) - 1 :
           q = AfterIndex(p)
  BY DEF OverallRanks, Scored
<1> HIDE DEF level, ahead
<1>8. /\ Cardinality(level) \in Nat /\ Cardinality(ahead) \in Nat
      /\ Cardinality(level) =< Cardinality(ahead)
  BY <1>4, <1>5, PlaceFacts, FS_Subset, FS_CardinalityType
<1> QED BY <1>6, <1>7, <1>8 DEF AfterIndex

\* The best performances, in the order of a sorted set, have overall ranks in the same
\* order, as long as fewer than 999 players and classes are kept: 999 is the rank of
\* whoever is not found.
THEOREM BestKeepTheirRanks ==
    ASSUME Cardinality(Key) < NotFound
    PROVE  ReadSpec => []RanksFollowPlaces
<1>1. ASSUME BoardsInv, ReadTypeOK, CalmInv
      PROVE  RanksFollowPlaces
  <2> SUFFICES ASSUME ask.kind = "best", pc = "done", calm, crashes = 0, losses = 0,
                      NEW i \in items, NEW j \in items, i.key.class = j.key.class,
                      Above(i.tally, j.tally), DOMAIN ranks = KeysShown
               PROVE  ranks[i.key] < ranks[j.key]
    <3>1. ASSUME ask.kind = "best", pc = "done", calm
          PROVE  shown = {RowOf(i) : i \in items} /\ DOMAIN ranks = KeysShown
      BY <1>1, <3>1 DEF CalmInv, RowsHold
    <3>2. \A i \in items : i.key \in KeysShown
      BY DEF KeysShown
    <3> QED BY <3>1, <3>2 DEF RanksFollowPlaces, RowOf
  <2>1. /\ ask.least = FALSE /\ ask.board \in Board /\ Quiet /\ Undamaged
        /\ stats \in [Key -> Tally] /\ TypeOK /\ PlayedInv
        /\ items = ItemsOf(ask.board, page, SizeOf(ask.kind))
        /\ \A k \in DOMAIN listed : listed[k] = ClassHashes(k)
        /\ \A k \in DOMAIN ranks : k \in DOMAIN listed /\ ranks[k] \in OverallRanks(k)
    BY <1>1, AskType
    DEF ReadTypeOK, TypeOK, CalmInv, PageHolds, RanksHold, Undamaged, BoardsInv
  <2>2. PICK k \in Key, l \in Key :
           /\ k = i.key /\ l = j.key
           /\ k \in DOMAIN ranks /\ l \in DOMAIN ranks
           /\ i.tally = board[ask.board][k] /\ j.tally = board[ask.board][l]
           /\ i.tally # NoTally /\ j.tally # NoTally
    BY <2>1 DEF ItemsOf, Members, KeysShown
  <2>3. i.tally = Averages(stats[k]) /\ j.tally = Averages(stats[l])
    BY <1>1, <2>1, <2>2, QuietIsCurrent
  <2>4. /\ listed[k] = ClassHashes(k) /\ listed[l] = listed[k] /\ listed[k] \subseteq Key
        /\ ranks[k] \in OverallRanks(k) /\ ranks[l] \in OverallRanks(l)
        /\ \A m \in listed[k] : Played(stats[m])
    <3>1. ClassHashes(l) = ClassHashes(k) /\ ClassHashes(k) \subseteq Key
      <4>1. k.class = l.class
        BY <2>2
      <4> QED BY <4>1 DEF ClassHashes
    <3>2. /\ listed[k] = ClassHashes(k) /\ listed[l] = ClassHashes(l)
          /\ ranks[k] \in OverallRanks(k) /\ ranks[l] \in OverallRanks(l)
      BY <2>1, <2>2
    <3> QED BY <2>1, <3>1, <3>2 DEF PlayedInv
  <2>5. \A m \in Key : /\ stats[m].wins > 0 => stats[m] # NoTally /\ stats[m].games # 0
                       /\ stats[m].games # 0 => Averages(stats[m]) = stats[m]
    BY <2>1 DEF PlayedInv, Played, NoTally, Averages
  <2>6. i.tally = stats[k] /\ stats[k].wins > 0
    <3>1. i.tally \in Tally /\ j.tally \in Tally
      BY <2>1, <2>2, <2>3, RecordsType
    <3>2. i.tally.wins * j.tally.games > j.tally.wins * i.tally.games
      BY <2>1 DEF Above
    <3>3. i.tally.wins # 0
      <4>1. PICK x \in Nat, y \in Nat, z \in Nat :
               x = j.tally.games /\ y = j.tally.wins /\ z = i.tally.games
        BY <3>1, TallyFields
      <4>2. ~(0 * x > y * z)
        OBVIOUS
      <4> QED BY <3>2, <4>1, <4>2
    <3>4. stats[k].games # 0
      BY <2>3, <3>3 DEF Averages
    <3> QED BY <2>3, <2>5, <3>1, <3>3, <3>4, TallyFields
  <2>7. k \in Scored(k)
    BY <2>2, <2>4, <2>5, <2>6 DEF Scored, ClassHashes
  <2>8. CASE l \in Scored(l)
    <3>1. j.tally = stats[l]
      BY <2>3, <2>5, <2>8 DEF Scored
    <3> QED BY <1>1, <2>1, <2>2, <2>4, <2>6, <2>7, <2>8, <3>1, BetterRanksFirst
  <2>9. CASE l \notin Scored(l)
    <3>1. ranks[l] = NotFound
      BY <2>4, <2>9 DEF OverallRanks, Scored
    <3>2. ranks[k] \in 1..Cardinality(Key)
      <4>1. PICK low, high :
               /\ low = Cardinality({m \in Scored(k) : Better(stats[m], stats[k])})
               /\ high = Cardinality({m \in Scored(k) : ~Better(stats[k], stats[m])})
        OBVIOUS
      <4>2. \A some \in SUBSET Key : /\ Cardinality(some) \in Nat
                                     /\ Cardinality(some) =< Cardinality(Key)
        BY PlaceFacts, FS_Subset, FS_CardinalityType
      <4>3. Scored(k) \subseteq Key
        BY <2>4 DEF Scored
      <4>4. low \in Nat /\ high \in Nat /\ high =< Cardinality(Key)
        BY <4>1, <4>2, <4>3
      <4>5. PICK n \in low .. high - 1 : ranks[k] = AfterIndex(n)
        BY <2>4, <2>7, <4>1 DEF OverallRanks, Scored
      <4> QED BY <4>4, <4>5, PlaceFacts DEF AfterIndex
    <3> QED BY <2>2, <3>1, <3>2, PlaceFacts DEF NotFound
  <2> QED BY <2>8, <2>9
<1> QED BY <1>1, BoardsInvariant, ReadsTypeCorrect, CalmInvariant, PTL

\* A set of places that is not empty has a first.
LEMMA FirstPlace ==
    \A T \in SUBSET Nat : T # {} => \E n \in T : \A m \in T : n =< m
<1> SUFFICES ASSUME NEW T \in SUBSET Nat, T # {}
             PROVE  \E n \in T : \A m \in T : n =< m
  OBVIOUS
<1> DEFINE UpTo == {0..n : n \in T}
           R == StrictSubsetOrdering(Nat)
<1>1. UpTo \subseteq FiniteSubsetsOf(Nat)
  <2>1. \A n \in Nat : IsFiniteSet(0..n)
    BY FS_Interval
  <2> QED BY <2>1 DEF FiniteSubsetsOf
<1>2. PICK s \in UpTo : \A t \in UpTo : <<t, s>> \notin R
  <2>1. UpTo # {}
    OBVIOUS
  <2>2. IsWellFoundedOn(R, FiniteSubsetsOf(Nat))
    BY FS_StrictSubsetOrderingWellFounded
  <2> HIDE DEF UpTo, R
  <2> QED BY <1>1, <2>1, <2>2, WFMin
<1>3. PICK n \in T : s = 0..n
  BY <1>2
<1>4. ASSUME NEW m \in T, m < n
      PROVE  FALSE
  <2>1. <<0..m, 0..n>> \notin R
    BY <1>2, <1>3
  <2>2. 0..m \subseteq 0..n /\ n \in 0..n /\ n \notin 0..m
    BY <1>4
  <2>3. 0..m \in SUBSET Nat /\ 0..n \in SUBSET Nat
    OBVIOUS
  <2> QED BY <2>1, <2>2, <2>3 DEF StrictSubsetOrdering
<1> QED BY <1>4

\* While nothing else happens, a trending player is shown once, with the class he is
\* placed best with, and whoever is placed better with some class is shown before him.
THEOREM TrendingIsBest == ReadSpec => []TrendingShowsBest
<1>1. ASSUME BoardsInv, ReadTypeOK, CalmInv
      PROVE  TrendingShowsBest
  <2> SUFFICES ASSUME ask.kind = "trending", pc = "done", calm,
                      shown = {RowOf(i) : i \in Trending}, NEW i \in Trending,
                      NEW k \in Members(ask.board), k # i.key
               PROVE  /\ k.player = i.key.player => \A j \in Trending : j.key # k
                      /\ Above(board[ask.board][k], i.tally) =>
                            \E j \in Trending : /\ j.key.player = k.player
                                                /\ j.rank < i.rank
    <3>1. ASSUME ask.kind = "trending", pc = "done", calm
          PROVE  shown = {RowOf(i) : i \in Trending}
      BY <1>1, <3>1 DEF CalmInv, RowsHold
    <3>2. \A i : /\ RowOf(i).key = i.key /\ RowOf(i).tally = i.tally
                 /\ RowOf(i).rank = i.rank
      BY DEF RowOf
    <3> QED BY <3>1, <3>2 DEF TrendingShowsBest
  <2>1. PICK b \in Board : b = ask.board
    BY <1>1, AskType DEF ReadTypeOK
  <2>2. /\ TypeOK /\ PlayedInv /\ page = 1 /\ SizeOf(ask.kind) \in Nat \ {0}
        /\ items = ItemsOf(b, page, SizeOf(ask.kind))
    BY <1>1, <2>1, AskType DEF ReadTypeOK, BoardsInv, CalmInv, OneAnswer, PageHolds
  <2>3. PICK last \in Nat : last = LastPlace(1, SizeOf(ask.kind))
    BY <2>2 DEF LastPlace
  <2>4. /\ IsFiniteSet(Members(b))
        /\ \A m \in Members(b) : Rank(b, m) \in Nat \ {0}
        /\ \A l, m \in Members(b) : Rank(b, l) = Rank(b, m) => l = m
        /\ \A l, m \in Members(b) : Precedes(b, l, m) <=> Rank(b, l) < Rank(b, m)
    BY <2>2, RankFacts
  <2>5. items = {[key |-> m, rank |-> Rank(b, m), tally |-> board[b][m]] :
                   m \in {m \in Members(b) : Rank(b, m) \in 1 .. last}}
    <3>1. (1 - 1) * SizeOf(ask.kind) + 1 = 1
      BY <2>2
    <3> QED BY <2>2, <2>3, <3>1 DEF ItemsOf
  <2>6. \A j \in items : /\ j.key \in Members(b) /\ j.rank = Rank(b, j.key)
                         /\ j.tally = board[b][j.key] /\ j.rank \in 1 .. last
    BY <2>5
  <2>7. Trending \subseteq FirstOfPlayer /\ FirstOfPlayer \subseteq items
        /\ \A j \in FirstOfPlayer :
              ~\E h \in items : h.key.player = j.key.player /\ h.rank < j.rank
    BY DEF Trending, FirstOfPlayer
  <2>8. ASSUME NEW j \in Trending, j.key = k, k.player = i.key.player
        PROVE  FALSE
    <3>1. ~(i.rank < j.rank) /\ ~(j.rank < i.rank)
      BY <2>7, <2>8
    <3>2. i.rank = j.rank
      BY <2>6, <2>7, <3>1
    <3> QED BY <2>1, <2>4, <2>6, <2>7, <2>8, <3>2
  <2>9. ASSUME Above(board[b][k], i.tally)
        PROVE  \E j \in Trending : j.key.player = k.player /\ j.rank < i.rank
    <3>1. i.key \in Members(b) /\ i.tally = board[b][i.key] /\ i.rank = Rank(b, i.key)
      BY <2>6, <2>7
    <3>2. Rank(b, k) < i.rank
      BY <2>1, <2>4, <2>9, <3>1 DEF Precedes
    <3>3. Rank(b, k) \in 1 .. last
      BY <2>1, <2>3, <2>4, <2>6, <2>7, <3>2
    <3>4. PICK h : h = [key |-> k, rank |-> Rank(b, k), tally |-> board[b][k]]
      OBVIOUS
    <3>5. h \in items /\ h.key.player = k.player /\ h.rank = Rank(b, k)
      BY <2>1, <2>5, <3>3, <3>4
    <3>6. PICK j \in items : /\ j.key.player = k.player
                             /\ \A m \in items : m.key.player = k.player => j.rank =< m.rank
      <4> DEFINE own == {m.rank : m \in {m \in items : m.key.player = k.player}}
      <4>1. own \in SUBSET Nat /\ own # {}
        BY <2>6, <3>5
      <4>2. PICK n \in own : \A m \in own : n =< m
        <5> HIDE DEF own
        <5> QED BY <4>1, FirstPlace
      <4> QED BY <4>2
    <3>7. j.rank \in Nat /\ i.rank \in Nat /\ j.rank < i.rank
      <4>1. j.rank =< h.rank
        BY <3>5, <3>6
      <4>2. j.rank \in Nat /\ i.rank \in Nat /\ h.rank \in Nat
        BY <2>6, <2>7, <3>5, <3>6
      <4> QED BY <3>2, <3>5, <4>1, <4>2
    <3>8. j \in FirstOfPlayer
      <4>1. \A m \in items : m.rank \in Nat
        BY <2>6
      <4>2. ASSUME NEW m \in items, m.key.player = j.key.player
            PROVE  ~(m.rank < j.rank)
        BY <3>6, <3>7, <4>1, <4>2
      <4> QED BY <3>6, <4>2 DEF FirstOfPlayer
    <3>9. j \in Trending
      <4> DEFINE before(m) == {f \in FirstOfPlayer : f.rank < m.rank}
      <4>1. IsFiniteSet(FirstOfPlayer)
        <5>1. PICK some : some = {m \in Members(b) : Rank(b, m) \in 1 .. last}
          OBVIOUS
        <5>2. IsFiniteSet(some)
          BY <2>4, <5>1, FS_Subset
        <5>3. IsFiniteSet(items)
          <6>1. PICK item : item = [m \in some |-> [key |-> m, rank |-> Rank(b, m),
                                                    tally |-> board[b][m]]]
            OBVIOUS
          <6>2. item \in Surjection(some, items)
            BY <2>5, <5>1, <6>1 DEF Surjection
          <6> QED BY <5>2, <6>2, FS_Surjection
        <5> QED BY <2>7, <5>3, FS_Subset
      <4>2. before(j) \subseteq before(i) /\ before(i) \subseteq FirstOfPlayer
        <5>1. \A f \in FirstOfPlayer : f.rank \in Nat
          BY <2>6, <2>7
        <5> QED BY <3>7, <5>1
      <4>3. /\ Cardinality(before(j)) \in Nat /\ Cardinality(before(i)) \in Nat
            /\ Cardinality(before(j)) =< Cardinality(before(i))
        <5> HIDE DEF before
        <5> QED BY <4>1, <4>2, FS_Subset, FS_CardinalityType
      <4>4. Cardinality(before(i)) < Limit /\ Limit \in Nat
        BY <1>1, AskType DEF Trending, ReadTypeOK
      <4>5. Cardinality(before(j)) < Limit
        <5> HIDE DEF before
        <5> QED BY <4>3, <4>4
      <4> QED BY <3>8, <4>5 DEF Trending
    <3> QED BY <3>6, <3>7, <3>9
  <2> QED BY <2>1, <2>8, <2>9
<1> QED BY <1>1, BoardsInvariant, ReadsTypeCorrect, CalmInvariant, PTL

\* The members of the sorted sets are the keys of the rows once everything is counted.
LEMMA MembersAreRows ==
    ASSUME BoardsInv, Quiet, Clean, NEW b \in Board
    PROVE  /\ Members(b) = KeysOf(Rows)
           /\ \A k \in Key : stats[k] = Aggregate(Rows, k) /\ board[b][k] = stats[k]
<1>1. CountsMatchDatabase
  BY EveryoneCounted DEF BoardsInv
<1>2. \A k \in Key : stats[k] = Aggregate(Rows, k) /\ board[b][k] = stats[k]
  BY <1>1 DEF CountsMatchDatabase, Clean, Undamaged
<1>3. Rows \subseteq Row /\ IsFiniteSet(Rows) /\ KeysOf(Rows) \subseteq Key
  BY RowsType, KeysType
<1>4. ASSUME NEW k \in Key
      PROVE  k \in KeysOf(Rows) <=> Aggregate(Rows, k) # NoTally
  <2> DEFINE own == {r \in Rows : KeyOf(r) = k}
  <2>1. IsFiniteSet(own) /\ Cardinality(own) \in Nat /\ (Cardinality(own) = 0 <=> own = {})
    <3>1. own \subseteq Rows
      OBVIOUS
    <3> HIDE DEF own
    <3> QED BY <1>3, <3>1, FS_Subset, FS_CardinalityType, FS_EmptySet
  <2>2. k \in KeysOf(Rows) <=> own # {}
    BY DEF KeysOf
  <2>3. Aggregate(Rows, k).games = Cardinality(own)
    BY DEF Aggregate
  <2>4. own = {} => Aggregate(Rows, k) = NoTally
    <3>1. Aggregate(Rows, k) = Aggregate(own, k)
      BY AggregateOf
    <3> HIDE DEF own
    <3> QED BY <3>1, AggregateNone
  <2>5. NoTally.games = 0
    BY DEF NoTally
  <2> HIDE DEF own
  <2> QED BY <2>1, <2>2, <2>3, <2>4, <2>5
<1>5. Members(b) = KeysOf(Rows)
  BY <1>2, <1>3, <1>4 DEF Members
<1> QED BY <1>2, <1>5

\* A walk over the pages of a sorted set, as long as nothing else happens, shows every
\* player and class of the database once, in order, with the sums of the database.
THEOREM WalkIsExact == ReadSpec => []QuietWalkIsExact
<1>1. ASSUME BoardsInv, ReadTypeOK, CalmInv
      PROVE  QuietWalkIsExact
  <2> SUFFICES ASSUME ask.kind = "walk", pc = "done", calm, Clean
               PROVE  /\ {s.key : s \in shown} = KeysOf(Rows)
                      /\ {s.rank : s \in shown} = 1..Cardinality(shown)
                      /\ Cardinality(shown) = total
                      /\ \A s \in shown : s.figures = Aggregate(Rows, s.key)
                      /\ \A s, t \in shown :
                            s.rank < t.rank => ~Above(t.figures, s.figures)
    BY DEF QuietWalkIsExact
  <2>1. PICK b \in Board : b = ask.board
    BY <1>1, AskType DEF ReadTypeOK
  <2>2. /\ TypeOK /\ PlayedInv /\ Quiet /\ Given(page) /\ page * Limit >= total
        /\ total = Cardinality(Members(b))
    BY <1>1, <2>1 DEF ReadTypeOK, BoardsInv, CalmInv, PageHolds, RowsHold
  <2>3. /\ IsFiniteSet(Members(b)) /\ total \in Nat
        /\ \A k \in Members(b) : Rank(b, k) \in 1..total
        /\ \A k, l \in Members(b) : Precedes(b, k, l) <=> Rank(b, k) < Rank(b, l)
        /\ \A n \in 1..total : \E k \in Members(b) : Rank(b, k) = n
    BY <2>2, RankFacts, FS_CardinalityType
  <2>4. /\ Members(b) = KeysOf(Rows)
        /\ \A k \in Key : stats[k] = Aggregate(Rows, k) /\ board[b][k] = stats[k]
    BY <1>1, <2>2, MembersAreRows
  <2>5. /\ {s.key : s \in shown} = Members(b)
        /\ \A s \in shown : /\ s.key \in Members(b) /\ s.rank = Rank(b, s.key)
                            /\ s.figures = stats[s.key]
        /\ \A s, t \in shown : s.key = t.key => s = t
    <3>1. page * Limit \in Nat
      BY <1>1, AskType DEF ReadTypeOK
    <3>2. {k \in Members(b) : Rank(b, k) =< page * Limit} = Members(b)
      BY <2>2, <2>3, <3>1
    <3>3. {s.key : s \in shown} = Members(b)
      BY <2>1, <2>2, <3>2 DEF Given
    <3>4. \A s \in shown : s.key \in Members(b)
      BY <3>3
    <3> QED BY <2>1, <2>2, <3>3, <3>4 DEF Given
  <2>6. Cardinality(shown) = total
    <3> DEFINE f == [s \in shown |-> s.key]
    <3>1. f \in [shown -> Members(b)]
      BY <2>5
    <3>2. /\ \A s, t \in shown : f[s] = f[t] => s = t
          /\ \A k \in Members(b) : \E s \in shown : f[s] = k
      BY <2>5
    <3> HIDE DEF f
    <3>3. f \in Injection(shown, Members(b)) /\ f \in Surjection(shown, Members(b))
      BY <3>1, <3>2 DEF Injection, IsInjective, Surjection
    <3> QED BY <2>2, <2>3, <3>3, FS_Injection
  <2>7. {s.rank : s \in shown} = 1..total
    <3>1. \A s \in shown : s.rank \in 1..total
      BY <2>3, <2>5
    <3>2. ASSUME NEW n \in 1..total
          PROVE  \E s \in shown : s.rank = n
      BY <2>3, <2>5, <3>2
    <3> QED BY <3>1, <3>2
  <2>8. \A s \in shown : /\ s.key \in Key /\ s.figures = Aggregate(Rows, s.key)
                         /\ s.figures = board[b][s.key]
    BY <2>4, <2>5 DEF Members
  <2>9. ASSUME NEW s \in shown, NEW t \in shown, s.rank < t.rank
        PROVE  ~Above(t.figures, s.figures)
    <3>1. Precedes(b, s.key, t.key)
      BY <2>3, <2>5, <2>9
    <3>2. board[b][s.key] \in Tally /\ board[b][t.key] \in Tally
      BY <2>2, <2>8 DEF TypeOK
    <3> QED BY <2>8, <3>1, <3>2, AboveFacts DEF Precedes
  <2> QED BY <2>4, <2>5, <2>6, <2>7, <2>8, <2>9
<1> QED BY <1>1, BoardsInvariant, ReadsTypeCorrect, CalmInvariant, PTL
=============================================================================

------------------------- MODULE LeaderboardProofs -------------------------
(***************************************************************************)
(* Theorems about Leaderboard for any number of wars,                      *)
(* players, classes, sorted sets, restarts and lost commands.              *)
(***************************************************************************)
EXTENDS Leaderboard, FiniteSetTheorems, TLAPS

-----------------------------------------------------------------------------
(* The line of commands and the queue of turns                             *)

LEMMA TailFacts ==
    ASSUME NEW S, NEW s \in Seq(S), s # <<>>
    PROVE  /\ Head(s) = s[1] /\ s[1] \in S /\ 1 \in DOMAIN s
           /\ Tail(s) \in Seq(S) /\ Len(Tail(s)) = Len(s) - 1 /\ Len(s) \in Nat \ {0}
           /\ \A i \in DOMAIN Tail(s) :
                 i + 1 \in DOMAIN s /\ Tail(s)[i] = s[i + 1]
<1>1. Len(s) \in Nat /\ DOMAIN s = 1..Len(s) /\ Len(s) # 0
  OBVIOUS
<1>2. Tail(s) \in Seq(S) /\ Len(Tail(s)) = Len(s) - 1
  BY <1>1
<1>3. DOMAIN Tail(s) = 1..(Len(s) - 1)
  BY <1>1, <1>2
<1> QED BY <1>1, <1>2, <1>3

LEMMA JoinFacts ==
    ASSUME NEW S, NEW s \in Seq(S), NEW t \in Seq(S), NEW z, z = s \o t
    PROVE  /\ z \in Seq(S) /\ Len(z) = Len(s) + Len(t)
           /\ \A i \in DOMAIN s : i \in DOMAIN z /\ z[i] = s[i]
           /\ \A i \in DOMAIN t : Len(s) + i \in DOMAIN z /\ z[Len(s) + i] = t[i]
           /\ \A n \in DOMAIN z : n \in DOMAIN s \/ (n > Len(s) /\ n - Len(s) \in DOMAIN t)
<1>1. /\ s \o t \in Seq(S) /\ Len(s \o t) = Len(s) + Len(t)
      /\ \A i \in DOMAIN s : i \in DOMAIN (s \o t) /\ (s \o t)[i] = s[i]
      /\ \A i \in DOMAIN t :
            Len(s) + i \in DOMAIN (s \o t) /\ (s \o t)[Len(s) + i] = t[i]
  OBVIOUS
<1>2. /\ DOMAIN z = 1..(Len(s) + Len(t)) /\ DOMAIN s = 1..Len(s)
      /\ DOMAIN t = 1..Len(t) /\ Len(s) \in Nat /\ Len(t) \in Nat
  BY <1>1
<1>3. ASSUME NEW n \in 1..(Len(s) + Len(t)), n \notin 1..Len(s)
      PROVE  n > Len(s) /\ n - Len(s) \in 1..Len(t)
  BY <1>2, <1>3
<1>4. \A n \in DOMAIN z : n \in DOMAIN s \/ (n > Len(s) /\ n - Len(s) \in DOMAIN t)
  BY <1>2, <1>3, Zenon
<1> QED BY <1>1, <1>4, Zenon

\* Once the first command is served, what follows takes its place at the end.
LEMMA LineMoves ==
    ASSUME NEW S, NEW s \in Seq(S), s # <<>>, NEW t \in Seq(S), NEW z, z = Tail(s) \o t
    PROVE  /\ z \in Seq(S) /\ Len(z) = Len(s) - 1 + Len(t)
           /\ \A i \in DOMAIN s : i # 1 => i - 1 \in DOMAIN z /\ z[i - 1] = s[i]
           /\ \A i \in DOMAIN t :
                 Len(s) - 1 + i \in DOMAIN z /\ z[Len(s) - 1 + i] = t[i]
           /\ \A n \in DOMAIN z :
                 \/ n + 1 \in DOMAIN s /\ z[n] = s[n + 1]
                 \/ /\ n > Len(s) - 1 /\ n - (Len(s) - 1) \in DOMAIN t
                    /\ z[n] = t[n - (Len(s) - 1)]
<1> DEFINE u == Tail(s)
<1>1. /\ u \in Seq(S) /\ Len(u) = Len(s) - 1 /\ Len(s) \in Nat \ {0}
      /\ DOMAIN u = 1..Len(u) /\ DOMAIN s = 1..Len(s)
      /\ \A i \in DOMAIN u : u[i] = s[i + 1]
  BY TailFacts
<1>2. /\ z \in Seq(S) /\ Len(z) = Len(u) + Len(t)
      /\ \A i \in DOMAIN u : i \in DOMAIN z /\ z[i] = u[i]
      /\ \A i \in DOMAIN t : Len(u) + i \in DOMAIN z /\ z[Len(u) + i] = t[i]
      /\ \A n \in DOMAIN z : n \in DOMAIN u \/ (n > Len(u) /\ n - Len(u) \in DOMAIN t)
  <2> HIDE DEF u
  <2>1. z = u \o t
    BY DEF u
  <2> QED BY <1>1, <2>1, JoinFacts
<1>3. Len(t) \in Nat /\ DOMAIN t = 1..Len(t) /\ DOMAIN z = 1..Len(z)
  BY <1>2
<1> HIDE DEF u
<1>4. \A i \in DOMAIN s : i # 1 => i - 1 \in DOMAIN z /\ z[i - 1] = s[i]
  <2> SUFFICES ASSUME NEW i \in DOMAIN s, i # 1
               PROVE  i - 1 \in DOMAIN z /\ z[i - 1] = s[i]
    OBVIOUS
  <2>1. i - 1 \in DOMAIN u /\ (i - 1) + 1 = i
    BY <1>1
  <2> QED BY <1>1, <1>2, <2>1
<1>5. \A n \in DOMAIN z :
         \/ n + 1 \in DOMAIN s /\ z[n] = s[n + 1]
         \/ /\ n > Len(s) - 1 /\ n - (Len(s) - 1) \in DOMAIN t
            /\ z[n] = t[n - (Len(s) - 1)]
  <2> SUFFICES ASSUME NEW n \in DOMAIN z
               PROVE  \/ n + 1 \in DOMAIN s /\ z[n] = s[n + 1]
                      \/ /\ n > Len(u) /\ n - Len(u) \in DOMAIN t
                         /\ z[n] = t[n - Len(u)]
    BY <1>1
  <2>1. CASE n \in DOMAIN u
    BY <1>1, <1>2, <2>1
  <2>2. CASE n > Len(u) /\ n - Len(u) \in DOMAIN t
    <3>1. PICK i \in DOMAIN t : i = n - Len(u)
      BY <2>2
    <3>2. n = Len(u) + i
      BY <1>1, <1>3, <3>1
    <3> QED BY <1>2, <2>2, <3>1, <3>2
  <2> QED BY <1>2, <2>1, <2>2
<1> QED BY <1>1, <1>2, <1>4, <1>5

-----------------------------------------------------------------------------
(* Rows and their sums                                                     *)

LEMMA RowsType ==
    /\ Gone \subseteq Player
    /\ \A w \in War : RowsOf(w) \subseteq Row /\ IsFiniteSet(RowsOf(w))
    /\ Rows \subseteq Row /\ IsFiniteSet(Rows)
<1>1. \A w \in War : /\ Lineup[w] \subseteq Row /\ IsFiniteSet(Lineup[w])
                     /\ \A r \in Lineup[w] : r.war = w /\ r.player \in Player
  BY LineupAssumption
<1>2. Gone \subseteq Player
  BY <1>1 DEF Gone, PlayersOf
<1>3. ASSUME NEW w \in War
      PROVE  RowsOf(w) \subseteq Row /\ IsFiniteSet(RowsOf(w))
  <2> DEFINE name(r) == [r EXCEPT !.player = IF @ \in Gone THEN NoPlayer ELSE @]
             f == [r \in Lineup[w] |-> name(r)]
  <2>1. RowsOf(w) = {name(r) : r \in Lineup[w]}
    BY DEF RowsOf
  <2>2. \A r \in Lineup[w] : name(r) \in Row
    BY <1>1 DEF Row
  <2>3. f \in Surjection(Lineup[w], {name(r) : r \in Lineup[w]})
    BY DEF Surjection
  <2> QED BY <1>1, <2>1, <2>2, <2>3, FS_Surjection
<1>4. Rows \subseteq Row
  BY <1>3 DEF Rows
<1>5. IsFiniteSet(Rows)
  <2> DEFINE stored == {w \in War : war[w] = "stored"}
             f == [w \in stored |-> RowsOf(w)]
  <2>1. IsFiniteSet(stored)
    BY FiniteAssumption, FS_Subset
  <2>2. f \in Surjection(stored, {RowsOf(w) : w \in stored})
    BY DEF Surjection
  <2>3. IsFiniteSet({RowsOf(w) : w \in stored})
    BY <2>1, <2>2, FS_Surjection
  <2> QED BY <1>3, <2>3, FS_UNION DEF Rows
<1> QED BY <1>2, <1>3, <1>4, <1>5

LEMMA KeysType ==
    ASSUME NEW rows \in SUBSET Row, IsFiniteSet(rows)
    PROVE  /\ KeysOf(rows) \subseteq Key /\ IsFiniteSet(KeysOf(rows))
           /\ \A k \in KeysOf(rows) : \E r \in rows : KeyOf(r) = k
<1>1. \A r \in rows : KeyOf(r) \in Key
  BY DEF Row, KeyOf, Key
<1> DEFINE f == [r \in rows |-> KeyOf(r)]
<1>2. f \in Surjection(rows, KeysOf(rows))
  BY DEF Surjection, KeysOf
<1> QED BY <1>1, <1>2, FS_Surjection DEF KeysOf

LEMMA AggregateType ==
    ASSUME NEW rows, IsFiniteSet(rows), NEW k
    PROVE  /\ Aggregate(rows, k) \in Tally
           /\ Aggregate(rows, k).games \in Nat
           /\ k \in KeysOf(rows) => Aggregate(rows, k).games >= 1
<1> DEFINE of == {r \in rows : KeyOf(r) = k}
           won == {r \in rows : KeyOf(r) = k /\ r.win}
<1>1. IsFiniteSet(of) /\ IsFiniteSet(won)
  BY FS_Subset
<1>2. Cardinality(of) \in Nat /\ Cardinality(won) \in Nat
  BY <1>1, FS_CardinalityType
<1>3. k \in KeysOf(rows) => Cardinality(of) # 0
  BY <1>1, FS_EmptySet DEF KeysOf
<1>4. Aggregate(rows, k) = [games |-> Cardinality(of), wins |-> Cardinality(won)]
  BY DEF Aggregate
<1> HIDE DEF of, won
<1> QED BY <1>2, <1>3, <1>4 DEF Tally

LEMMA ApartCardinality ==
    ASSUME NEW S, NEW T, IsFiniteSet(S), IsFiniteSet(T), S \cap T = {}
    PROVE  Cardinality(S \cup T) = Cardinality(S) + Cardinality(T)
<1>1. Cardinality(S \cup T) = Cardinality(S) + Cardinality(T) - Cardinality(S \cap T)
  BY FS_Union
<1>2. Cardinality(S \cap T) = 0
  BY FS_EmptySet
<1>3. Cardinality(S) \in Nat /\ Cardinality(T) \in Nat
  BY FS_CardinalityType
<1> QED BY <1>1, <1>2, <1>3

LEMMA AggregateJoin ==
    ASSUME NEW rows, NEW more, IsFiniteSet(rows), IsFiniteSet(more), rows \cap more = {},
           NEW k
    PROVE  /\ Aggregate(rows \cup more, k).games
                = Aggregate(rows, k).games + Aggregate(more, k).games
           /\ Aggregate(rows \cup more, k).wins
                = Aggregate(rows, k).wins + Aggregate(more, k).wins
<1> DEFINE Of(S) == {r \in S : KeyOf(r) = k}
           Won(S) == {r \in S : KeyOf(r) = k /\ r.win}
<1>1. /\ Of(rows \cup more) = Of(rows) \cup Of(more) /\ Of(rows) \cap Of(more) = {}
      /\ Won(rows \cup more) = Won(rows) \cup Won(more) /\ Won(rows) \cap Won(more) = {}
  OBVIOUS
<1>2. /\ IsFiniteSet(Of(rows)) /\ IsFiniteSet(Of(more))
      /\ IsFiniteSet(Won(rows)) /\ IsFiniteSet(Won(more))
  BY FS_Subset
<1>3. ASSUME NEW S
      PROVE  /\ Aggregate(S, k).games = Cardinality(Of(S))
             /\ Aggregate(S, k).wins = Cardinality(Won(S))
  BY DEF Aggregate
<1> HIDE DEF Of, Won
<1>4. Cardinality(Of(rows \cup more)) = Cardinality(Of(rows)) + Cardinality(Of(more))
  <2>1. Cardinality(Of(rows) \cup Of(more)) = Cardinality(Of(rows)) + Cardinality(Of(more))
    BY <1>1, <1>2, ApartCardinality
  <2> QED BY <1>1, <2>1, Zenon
<1>5. Cardinality(Won(rows \cup more)) = Cardinality(Won(rows)) + Cardinality(Won(more))
  <2>1. Cardinality(Won(rows) \cup Won(more)) = Cardinality(Won(rows)) + Cardinality(Won(more))
    BY <1>1, <1>2, ApartCardinality
  <2> QED BY <1>1, <2>1, Zenon
<1> QED BY <1>3, <1>4, <1>5

LEMMA AggregateNone == \A k : Aggregate({}, k) = NoTally
<1> TAKE k
<1>1. {r \in {} : KeyOf(r) = k} = {} /\ {r \in {} : KeyOf(r) = k /\ r.win} = {}
  OBVIOUS
<1> QED BY <1>1, FS_EmptySet, Zenon DEF Aggregate, NoTally

\* What is asked of an aggregate are the rows of its key.
LEMMA AggregateOf ==
    ASSUME NEW rows, NEW k
    PROVE  Aggregate({r \in rows : KeyOf(r) = k}, k) = Aggregate(rows, k)
BY DEF Aggregate

\* The keys a job begins with next, and the commands it sends for them
LEMMA NextFacts ==
    ASSUME NEW keys \in SUBSET Key, IsFiniteSet(keys), NEW next \in NextKeys(keys),
           NEW j \in Job
    PROVE  /\ Range(next) \subseteq keys
           /\ \A i, n \in DOMAIN next : next[i] = next[n] => i = n
           /\ [i \in DOMAIN next |-> Incr(j, next[i])] \in Seq(Command)
<1> DEFINE size == IF Cardinality(keys) < BatchSize THEN Cardinality(keys) ELSE BatchSize
<1>1. size \in Nat
  BY FS_CardinalityType, BoundsAssumption
<1>2. next \in [1..size -> keys] /\ \A i, n \in DOMAIN next : next[i] = next[n] => i = n
  BY DEF NextKeys, Injection, IsInjective
<1>3. \A i \in 1..size : Incr(j, next[i]) \in Command
  BY <1>2 DEF Incr, Command
<1> HIDE DEF size
<1>4. [i \in DOMAIN next |-> Incr(j, next[i])] \in Seq(Command)
  BY <1>1, <1>2, <1>3
<1> QED BY <1>2, <1>4 DEF Range

-----------------------------------------------------------------------------
(* Type correctness, and who has commands in the line                      *)

Core == TypeOK /\ JobsInv /\ TurnsInv /\ CommandsInv /\ ResetsInv

\* The commands of the line after a step, for the three ways a step sends some
LEMMA Served ==
    ASSUME TypeOK, sent # <<>>, Follow(<<>>)
    PROVE  /\ Head(sent) = sent[1] /\ 1 \in DOMAIN sent /\ sent[1] \in Command
           /\ sent' \in Seq(Command) /\ Len(sent') = Len(sent) - 1
           /\ \A n \in DOMAIN sent' : /\ n \in Nat \ {0} /\ n + 1 \in DOMAIN sent
                                      /\ sent'[n] = sent[n + 1]
           /\ \A i \in DOMAIN sent : /\ i \in Nat \ {0}
                                     /\ i # 1 => /\ i - 1 \in DOMAIN sent'
                                                 /\ sent'[i - 1] = sent[i]
<1>1. sent \in Seq(Command) /\ <<>> \in Seq(Command) /\ DOMAIN <<>> = {} /\ Len(<<>>) = 0
  BY DEF TypeOK
<1>2. sent' = Tail(sent) \o <<>>
  BY DEF Follow
<1>3. PICK z : z = sent'
  OBVIOUS
<1>4. /\ z \in Seq(Command) /\ Len(z) = Len(sent) - 1 + Len(<<>>)
      /\ \A i \in DOMAIN sent : i # 1 => i - 1 \in DOMAIN z /\ z[i - 1] = sent[i]
      /\ \A n \in DOMAIN z : \/ n + 1 \in DOMAIN sent /\ z[n] = sent[n + 1]
                             \/ n - (Len(sent) - 1) \in DOMAIN <<>>
  BY <1>1, <1>2, <1>3, LineMoves
<1>5. DOMAIN z \subseteq Nat \ {0} /\ DOMAIN sent \subseteq Nat \ {0} /\ Len(sent) \in Nat
  BY <1>1, <1>4
<1> QED BY <1>1, <1>3, <1>4, <1>5, TailFacts

LEMMA ServedOne ==
    ASSUME TypeOK, sent # <<>>, NEW c \in Command, Follow(<<c>>)
    PROVE  /\ Head(sent) = sent[1] /\ 1 \in DOMAIN sent /\ sent[1] \in Command
           /\ sent' \in Seq(Command) /\ Len(sent') = Len(sent)
           /\ \A n \in DOMAIN sent' :
                 /\ n \in Nat \ {0}
                 /\ \/ n + 1 \in DOMAIN sent /\ sent'[n] = sent[n + 1]
                    \/ n = Len(sent) /\ sent'[n] = c
           /\ \A i \in DOMAIN sent : /\ i \in Nat \ {0}
                                     /\ i # 1 => /\ i - 1 \in DOMAIN sent'
                                                 /\ sent'[i - 1] = sent[i]
           /\ Len(sent) \in DOMAIN sent' /\ sent'[Len(sent)] = c
           /\ Len(sent) \in Nat
<1>1. /\ sent \in Seq(Command) /\ <<c>> \in Seq(Command) /\ DOMAIN <<c>> = 1..1
      /\ Len(<<c>>) = 1 /\ <<c>>[1] = c
  BY DEF TypeOK
<1>2. sent' = Tail(sent) \o <<c>>
  BY DEF Follow
<1>3. PICK z : z = sent'
  OBVIOUS
<1>4. /\ z \in Seq(Command) /\ Len(z) = Len(sent) - 1 + Len(<<c>>)
      /\ \A i \in DOMAIN sent : i # 1 => i - 1 \in DOMAIN z /\ z[i - 1] = sent[i]
      /\ \A i \in DOMAIN <<c>> :
            Len(sent) - 1 + i \in DOMAIN z /\ z[Len(sent) - 1 + i] = <<c>>[i]
      /\ \A n \in DOMAIN z : \/ n + 1 \in DOMAIN sent /\ z[n] = sent[n + 1]
                             \/ /\ n - (Len(sent) - 1) \in DOMAIN <<c>>
                                /\ z[n] = <<c>>[n - (Len(sent) - 1)]
  BY <1>1, <1>2, <1>3, LineMoves
<1>5. DOMAIN z \subseteq Nat \ {0} /\ DOMAIN sent \subseteq Nat \ {0} /\ Len(sent) \in Nat
  BY <1>1, <1>4
<1>6. Len(sent) \in DOMAIN z /\ z[Len(sent)] = c
  <2>1. 1 \in DOMAIN <<c>>
    BY <1>1
  <2>2. Len(sent) - 1 + 1 \in DOMAIN z /\ z[Len(sent) - 1 + 1] = c
    BY <1>1, <1>4, <2>1
  <2> QED BY <1>5, <2>2
<1>7. \A n \in DOMAIN z : \/ n + 1 \in DOMAIN sent /\ z[n] = sent[n + 1]
                          \/ n = Len(sent) /\ z[n] = c
  <2> SUFFICES ASSUME NEW n \in DOMAIN z, n - (Len(sent) - 1) \in DOMAIN <<c>>
               PROVE  n = Len(sent)
    BY <1>4, <1>6
  <2>1. n - (Len(sent) - 1) = 1
    BY <1>1
  <2> QED BY <1>5, <2>1
<1> QED BY <1>1, <1>3, <1>4, <1>5, <1>6, <1>7, TailFacts

LEMMA SentMore ==
    ASSUME TypeOK, NEW t \in Seq(Command), sent' = sent \o t
    PROVE  /\ sent' \in Seq(Command) /\ Len(sent') = Len(sent) + Len(t)
           /\ \A n \in DOMAIN sent' :
                 /\ n \in Nat \ {0}
                 /\ \/ n \in DOMAIN sent /\ sent'[n] = sent[n]
                    \/ /\ n > Len(sent) /\ n - Len(sent) \in DOMAIN t
                       /\ sent'[n] = t[n - Len(sent)]
           /\ \A i \in DOMAIN sent : i \in DOMAIN sent' /\ sent'[i] = sent[i]
           /\ \A i \in DOMAIN t : Len(sent) + i \in DOMAIN sent'
                                  /\ sent'[Len(sent) + i] = t[i]
<1>1. sent \in Seq(Command)
  BY DEF TypeOK
<1>2. PICK z : z = sent'
  OBVIOUS
<1>3. /\ z \in Seq(Command) /\ Len(z) = Len(sent) + Len(t)
      /\ \A i \in DOMAIN sent : i \in DOMAIN z /\ z[i] = sent[i]
      /\ \A i \in DOMAIN t : Len(sent) + i \in DOMAIN z /\ z[Len(sent) + i] = t[i]
      /\ \A n \in DOMAIN z :
            n \in DOMAIN sent \/ (n > Len(sent) /\ n - Len(sent) \in DOMAIN t)
  BY <1>1, <1>2, JoinFacts
<1>4. DOMAIN z \subseteq Nat \ {0} /\ Len(sent) \in Nat /\ DOMAIN t \subseteq Nat
  BY <1>1, <1>3
<1>5. ASSUME NEW n \in DOMAIN z, n > Len(sent), n - Len(sent) \in DOMAIN t
      PROVE  z[n] = t[n - Len(sent)]
  <2>1. PICK i \in DOMAIN t : i = n - Len(sent)
    BY <1>5
  <2>2. n = Len(sent) + i
    BY <1>4, <2>1
  <2> QED BY <1>3, <2>1, <2>2
<1> QED BY <1>2, <1>3, <1>4, <1>5

LEMMA SentOne ==
    ASSUME TypeOK, NEW c \in Command, sent' = Append(sent, c)
    PROVE  /\ sent' \in Seq(Command) /\ Len(sent') = Len(sent) + 1 /\ Len(sent) \in Nat
           /\ \A n \in DOMAIN sent' :
                 /\ n \in Nat \ {0}
                 /\ \/ n \in DOMAIN sent /\ sent'[n] = sent[n]
                    \/ n = Len(sent) + 1 /\ sent'[n] = c
           /\ \A i \in DOMAIN sent : i \in DOMAIN sent' /\ sent'[i] = sent[i]
           /\ Len(sent) + 1 \in DOMAIN sent' /\ sent'[Len(sent) + 1] = c
<1>1. sent \in Seq(Command)
  BY DEF TypeOK
<1> QED BY <1>1

LEMMA TurnsMove ==
    ASSUME TypeOK, turns # <<>>, turns' = Tail(turns)
    PROVE  /\ Head(turns) = turns[1] /\ 1 \in DOMAIN turns /\ turns[1] \in Turn
           /\ turns' \in Seq(Turn)
           /\ \A n \in DOMAIN turns' : /\ n \in Nat \ {0} /\ n + 1 \in DOMAIN turns
                                       /\ turns'[n] = turns[n + 1]
           /\ \A i \in DOMAIN turns : /\ i \in Nat \ {0}
                                      /\ i # 1 => /\ i - 1 \in DOMAIN turns'
                                                  /\ turns'[i - 1] = turns[i]
<1>1. turns \in Seq(Turn)
  BY DEF TypeOK
<1>2. DOMAIN turns = 1..Len(turns) /\ Len(turns) \in Nat
  BY <1>1
<1>3. /\ Head(turns) = turns[1] /\ turns[1] \in Turn /\ 1 \in DOMAIN turns
      /\ turns' \in Seq(Turn) /\ Len(turns') = Len(turns) - 1
      /\ \A i \in DOMAIN turns' : i + 1 \in DOMAIN turns /\ turns'[i] = turns[i + 1]
  BY <1>1, TailFacts
<1>4. DOMAIN turns' = 1..(Len(turns) - 1)
  BY <1>2, <1>3
<1>5. ASSUME NEW i \in DOMAIN turns, i # 1
      PROVE  i - 1 \in DOMAIN turns' /\ turns'[i - 1] = turns[i]
  <2>1. i - 1 \in 1..(Len(turns) - 1) /\ (i - 1) + 1 = i
    BY <1>2, <1>5
  <2> QED BY <1>3, <1>4, <2>1
<1> QED BY <1>2, <1>3, <1>4, <1>5

LEMMA TurnsGrow ==
    ASSUME TypeOK, NEW t \in Turn, turns' = Append(turns, t)
    PROVE  /\ turns' \in Seq(Turn) /\ Len(turns) \in Nat
           /\ \A n \in DOMAIN turns' :
                 /\ n \in Nat \ {0}
                 /\ \/ n \in DOMAIN turns /\ turns'[n] = turns[n]
                    \/ n = Len(turns) + 1 /\ turns'[n] = t
           /\ \A i \in DOMAIN turns : i \in DOMAIN turns' /\ turns'[i] = turns[i]
           /\ Len(turns) + 1 \in DOMAIN turns' /\ turns'[Len(turns) + 1] = t
<1>1. turns \in Seq(Turn)
  BY DEF TypeOK
<1> QED BY <1>1

LEMMA CommandFields ==
    ASSUME NEW c \in Command
    PROVE  /\ c.op \in Updating \cup Listing \cup Resetting
           /\ c.op \in Updating => c.by \in Job /\ c.key \in Key
           /\ c.op = "incr" => c = Incr(c.by, c.key)
           /\ c.op = "publish" => c.tally \in Tally
           /\ c.op \in Listing => c.by \in Rebuilds \cup {Boot}
           /\ c.op = "drop" => c.by \in Rebuilds /\ c.boards \in SUBSET Board
           /\ c.op \in Resetting => c.by \in War
           /\ c.op = "del" => c.keys \in SUBSET Key
           /\ c.op = "rem" => c.board \in Board /\ c.key \in Key
<1>1. CASE c \in [op : {"incr", "read"}, by : Job, key : Key]
  BY <1>1 DEF Updating, Listing, Resetting, Incr
<1>2. CASE c \in [op : {"publish"}, by : Job, key : Key, tally : Tally]
  BY <1>2 DEF Updating, Listing, Resetting
<1>3. CASE c \in [op : {"del"}, by : War, keys : SUBSET Key]
  BY <1>3 DEF Updating, Listing, Resetting
<1>4. CASE c \in [op : {"rem"}, by : War, board : Board, key : Key]
  BY <1>4 DEF Updating, Listing, Resetting
<1>5. CASE c \in [op : {"keys"}, by : Rebuilds \cup {Boot}]
  BY <1>5 DEF Updating, Listing, Resetting
<1>6. CASE c \in [op : {"drop"}, by : Rebuilds, boards : SUBSET Board]
  BY <1>6 DEF Updating, Listing, Resetting
<1> QED BY <1>1, <1>2, <1>3, <1>4, <1>5, <1>6 DEF Command

\* The command that is due
LEMMA CmdType ==
    ASSUME TypeOK, NEW op, Due(op)
    PROVE  /\ Cmd = sent[1] /\ Cmd \in Command /\ Cmd.op = op /\ sent # <<>>
           /\ 1 \in DOMAIN sent
<1>1. sent \in Seq(Command)
  BY DEF TypeOK
<1> QED BY <1>1, TailFacts DEF Due, Cmd

LEMMA TallyFields == \A t \in Tally : t.games \in Nat /\ t.wins \in Nat
BY DEF Tally

LEMMA RecordsType ==
    /\ NoTally \in Tally /\ Empty \in [Key -> Tally]
    /\ Idle \in [rows : SUBSET Row, todo : SUBSET Key, active : SUBSET Key]
    /\ \A t \in Tally : Averages(t) \in Tally
BY DEF NoTally, Tally, Empty, Idle, Averages

LEMMA IncreaseType ==
    ASSUME TypeOK, JobsInv, NEW j \in Job, NEW k \in Key, Increase(j, k)
    PROVE  /\ stats' \in [Key -> Tally]
           /\ \A l \in Key : l # k => stats'[l] = stats[l]
           /\ stats'[k].games = stats[k].games + Aggregate(batch[j].rows, k).games
           /\ stats'[k].wins = stats[k].wins + Aggregate(batch[j].rows, k).wins
<1>1. PICK sum : sum = Aggregate(batch[j].rows, k)
  OBVIOUS
<1>2. sum \in Tally
  BY <1>1, AggregateType DEF JobsInv
<1>3. stats \in [Key -> Tally]
  BY DEF TypeOK
<1>4. stats' = [stats EXCEPT ![k] = [games |-> @.games + sum.games,
                                     wins |-> @.wins + sum.wins]]
  BY <1>1 DEF Increase
<1> QED BY <1>1, <1>2, <1>3, <1>4 DEF Tally

LEMMA ShowType ==
    ASSUME TypeOK, NEW k \in Key, NEW t \in Tally, NEW part, Show(k, t, part)
    PROVE  /\ board' \in [Board -> [Key -> Tally]]
           /\ \A b \in Board, l \in Key :
                 board'[b][l] = IF b \in part /\ l = k THEN t ELSE board[b][l]
<1>1. board \in [Board -> [Key -> Tally]]
  BY DEF TypeOK
<1> QED BY <1>1 DEF Show

LEMMA ForgetType ==
    ASSUME TypeOK, NEW part, Forget(part)
    PROVE  /\ stats' \in [Key -> Tally]
           /\ \A l \in Key : stats'[l] = IF l \in part THEN NoTally ELSE stats[l]
<1>1. stats \in [Key -> Tally]
  BY DEF TypeOK
<1> QED BY <1>1, RecordsType DEF Forget

LEMMA ClearType ==
    ASSUME TypeOK, NEW part, Clear(part)
    PROVE  /\ board' \in [Board -> [Key -> Tally]]
           /\ \A b \in Board, l \in Key :
                 board'[b][l] = IF b \in part THEN NoTally ELSE board[b][l]
<1>1. board \in [Board -> [Key -> Tally]]
  BY DEF TypeOK
<1>2. \A l \in Key : Empty[l] = NoTally
  BY DEF Empty
<1> QED BY <1>1, <1>2, RecordsType DEF Clear

LEMMA EndType ==
    ASSUME TypeOK, NEW j \in Job, NEW k, End(j, k)
    PROVE  /\ batch' \in [Job -> [rows : SUBSET Row, todo : SUBSET Key,
                                  active : SUBSET Key]]
           /\ \A m \in Job : m # j => batch'[m] = batch[m]
           /\ \A m \in Job : /\ batch'[m].rows = batch[m].rows
                             /\ batch'[m].todo = batch[m].todo
           /\ batch'[j].active = batch[j].active \ {k}
<1>1. batch \in [Job -> [rows : SUBSET Row, todo : SUBSET Key, active : SUBSET Key]]
  BY DEF TypeOK
<1>2. PICK left : left = batch[j].active \ {k}
  OBVIOUS
<1>3. batch' = [batch EXCEPT ![j] = [@ EXCEPT !.active = left]]
  BY <1>2 DEF End
<1>4. left \in SUBSET Key
  BY <1>1, <1>2
<1> QED BY <1>1, <1>2, <1>3, <1>4

LEMMA NextRemType ==
    ASSUME TypeOK, NEW w \in War, NEW left \in SUBSET (Board \X Key), NextRem(w, left)
    PROVE  \/ left = {} /\ Follow(<<>>)
           \/ \E p \in left : Rem(w, p[1], p[2]) \in Command /\ Follow(<<Rem(w, p[1], p[2])>>)
<1>1. \A p \in left : Rem(w, p[1], p[2]) \in Command
  BY DEF Rem, Command
<1> QED BY <1>1 DEF NextRem

LEMMA BeginType ==
    ASSUME TypeOK, NEW j \in Job, NEW keys \in SUBSET Key, IsFiniteSet(keys), Begin(j, keys)
    PROVE  \E next \in NextKeys(keys), t \in Seq(Command) :
              /\ Range(next) \subseteq keys
              /\ \A i, n \in DOMAIN next : next[i] = next[n] => i = n
              /\ t = [i \in DOMAIN next |-> Incr(j, next[i])]
              /\ sent' = sent \o t
              /\ batch' \in [Job -> [rows : SUBSET Row, todo : SUBSET Key,
                                     active : SUBSET Key]]
              /\ \A m \in Job : m # j => batch'[m] = batch[m]
              /\ batch'[j].rows = batch[j].rows
              /\ batch'[j].todo = keys \ Range(next)
              /\ batch'[j].active = Range(next)
<1>1. PICK next \in NextKeys(keys) :
         /\ batch' = [batch EXCEPT ![j].todo = keys \ Range(next), ![j].active = Range(next)]
         /\ sent' = sent \o [i \in DOMAIN next |-> Incr(j, next[i])]
  BY DEF Begin
<1>2. /\ Range(next) \subseteq keys
      /\ \A i, n \in DOMAIN next : next[i] = next[n] => i = n
      /\ [i \in DOMAIN next |-> Incr(j, next[i])] \in Seq(Command)
  BY NextFacts
<1>3. batch \in [Job -> [rows : SUBSET Row, todo : SUBSET Key, active : SUBSET Key]]
  BY DEF TypeOK
<1>4. PICK now : now = Range(next)
  OBVIOUS
<1>5. now \in SUBSET Key /\ keys \ now \in SUBSET Key
  BY <1>2, <1>4
<1>6. /\ batch' \in [Job -> [rows : SUBSET Row, todo : SUBSET Key, active : SUBSET Key]]
      /\ \A m \in Job : m # j => batch'[m] = batch[m]
      /\ batch'[j].rows = batch[j].rows
      /\ batch'[j].todo = keys \ now
      /\ batch'[j].active = now
  <2>1. batch' = [batch EXCEPT ![j] = [@ EXCEPT !.todo = keys \ now, !.active = now]]
    BY <1>1, <1>4
  <2> QED BY <1>3, <1>5, <2>1
<1>7. PICK t \in Seq(Command) : t = [i \in DOMAIN next |-> Incr(j, next[i])]
  BY <1>2
<1> QED BY <1>1, <1>2, <1>4, <1>6, <1>7

LEMMA BeginFacts ==
    ASSUME TypeOK, NEW j \in Job, NEW keys \in SUBSET Key, IsFiniteSet(keys), Begin(j, keys)
    PROVE  /\ batch' \in [Job -> [rows : SUBSET Row, todo : SUBSET Key,
                                  active : SUBSET Key]]
           /\ \A m \in Job : m # j => batch'[m] = batch[m]
           /\ batch'[j].rows = batch[j].rows
           /\ batch'[j].todo \cup batch'[j].active \subseteq keys
           /\ batch'[j].todo \cap batch'[j].active = {}
<1>1. PICK next \in NextKeys(keys), t \in Seq(Command) :
              /\ Range(next) \subseteq keys
              /\ \A i, n \in DOMAIN next : next[i] = next[n] => i = n
              /\ t = [i \in DOMAIN next |-> Incr(j, next[i])]
              /\ sent' = sent \o t
              /\ batch' \in [Job -> [rows : SUBSET Row, todo : SUBSET Key,
                                     active : SUBSET Key]]
              /\ \A m \in Job : m # j => batch'[m] = batch[m]
              /\ batch'[j].rows = batch[j].rows
              /\ batch'[j].todo = keys \ Range(next)
              /\ batch'[j].active = Range(next)
  BY BeginType
<1> QED BY <1>1

\* The commands that the code sends
LEMMA JobsType ==
    /\ War \subseteq Job /\ Rebuilds \subseteq Job /\ Boot \in Job
    /\ \A j \in Rebuilds \cup {Boot} :
          j \in Job /\ j \notin War /\ ListKeys(j) \in Command
    /\ \A w \in War, ks \in SUBSET Key : Del(w, ks) \in Command
    /\ \A j \in Job, k \in Key : Read(j, k) \in Command /\ Incr(j, k) \in Command
    /\ \A j \in Job, k \in Key, t \in Tally : Publish(j, k, t) \in Command
    /\ \A j \in Rebuilds, bs \in SUBSET Board : Drop(j, bs) \in Command
BY JobsAssumption DEF Job, ListKeys, Del, Read, Incr, Publish, Drop, Command

LEMMA AffectedType ==
    ASSUME NEW w \in War
    PROVE  /\ Affected(w) \subseteq Key
           /\ \A k \in Affected(w) : k.player \in PlayersOf(w)
<1>1. \A r \in RowsOf(w) : r \in Row /\ (r.player # NoPlayer => r.player \in PlayersOf(w))
  <2> SUFFICES ASSUME NEW r \in RowsOf(w)
               PROVE  r \in Row /\ (r.player # NoPlayer => r.player \in PlayersOf(w))
    OBVIOUS
  <2>1. PICK s \in Lineup[w] :
           r = [s EXCEPT !.player = IF s.player \in Gone THEN NoPlayer ELSE s.player]
    BY DEF RowsOf
  <2>2. r \in Row /\ s \in Row
    BY RowsType, LineupAssumption
  <2>3. r.player = IF s.player \in Gone THEN NoPlayer ELSE s.player
    BY <2>1, <2>2 DEF Row
  <2>4. s.player \in PlayersOf(w)
    BY DEF PlayersOf
  <2> QED BY <2>2, <2>3, <2>4
<1>2. \A r \in Row : KeyOf(r) \in Key /\ KeyOf(r).player = r.player
  BY DEF Row, Key, KeyOf
<1> QED BY <1>1, <1>2 DEF Affected

\* What the rollbacks await, and the keys they have read
Undoing == [at : {"idle", "delete", "queue"}, keys : SUBSET Key]

LEMMA UndoKept ==
    ASSUME Core, [Next]_vars
    PROVE  /\ undo' \in [War -> Undoing]
           /\ \A w \in War : \A k \in undo'[w].keys : k.player \in PlayersOf(w)
           /\ \A w \in War : undo'[w].at = "queue" => war'[w] = "rolledback"
           /\ \A w \in War : undo[w].at = "idle" /\ war[w] = "rolledback" =>
                 undo'[w].at = "idle"
<1>1. /\ undo \in [War -> Undoing] /\ war \in [War -> {"new", "stored", "rolledback"}]
      /\ \A w \in War : \A k \in undo[w].keys : k.player \in PlayersOf(w)
      /\ \A w \in War : undo[w].at = "queue" => war[w] = "rolledback"
  BY DEF Core, TypeOK, Undoing, ResetsInv
<1>2. CASE UNCHANGED undo /\ \A w \in War : war[w] = "rolledback" => war'[w] = "rolledback"
  BY <1>1, <1>2
<1>3. CASE Crash
  <2>1. [at |-> "idle", keys |-> {}] \in Undoing
    BY DEF Undoing
  <2> QED BY <1>1, <1>3, <2>1 DEF Crash
<1>4. ASSUME NEW v \in War, QueueReset(v) \/ LoseDelete(v)
      PROVE  /\ undo' = [undo EXCEPT ![v] = [at |-> "idle", keys |-> {}]] /\ war' = war
             /\ [at |-> "idle", keys |-> {}] \in Undoing
  BY <1>4 DEF QueueReset, LoseDelete, Undoing
<1>5. CASE \E v \in War : QueueReset(v) \/ LoseDelete(v)
  <2>1. PICK v \in War : QueueReset(v) \/ LoseDelete(v)
    BY <1>5
  <2> QED BY <1>1, <1>4, <2>1
<1>6. ASSUME NEW v \in War, ReadAffected(v)
      PROVE  /\ undo' \in [War -> Undoing] /\ war' = war /\ war[v] = "stored"
             /\ \A w \in War : w # v => undo'[w] = undo[w]
             /\ undo'[v].at = "delete" /\ undo'[v].keys = Affected(v)
  <2>1. PICK ks \in SUBSET Key : ks = Affected(v)
    BY AffectedType
  <2>2. [at |-> "delete", keys |-> ks] \in Undoing
    BY DEF Undoing
  <2>3. undo' = [undo EXCEPT ![v] = [at |-> "delete", keys |-> ks]]
    BY <1>6, <2>1 DEF ReadAffected
  <2> QED BY <1>1, <1>6, <2>1, <2>2, <2>3 DEF ReadAffected
<1>7. CASE \E v \in War : ReadAffected(v)
  <2>1. PICK v \in War : ReadAffected(v)
    BY <1>7
  <2> QED BY <1>1, <1>6, <2>1, AffectedType
<1>8. CASE \E v \in War : DeleteWar(v)
  <2>1. PICK v \in War : DeleteWar(v)
    BY <1>8
  <2>2. /\ undo' = [undo EXCEPT ![v].at = "queue"] /\ undo[v].at = "delete"
        /\ war' = [war EXCEPT ![v] = "rolledback"]
    BY <2>1 DEF DeleteWar
  <2>3. /\ undo' \in [War -> Undoing]
        /\ \A w \in War : w # v => undo'[w] = undo[w] /\ war'[w] = war[w]
        /\ undo'[v].keys = undo[v].keys /\ war'[v] = "rolledback"
    BY <1>1, <2>2 DEF Undoing
  <2> QED BY <1>1, <2>2, <2>3
<1>9. \A v \in War : Upload(v) => UNCHANGED undo /\
         \A w \in War : war[w] = "rolledback" => war'[w] = "rolledback"
  BY <1>1 DEF Upload
<1> QED
  BY <1>2, <1>3, <1>5, <1>7, <1>8, <1>9
  DEF Next, Background, Request, Failure, Serve, AtRest, vars, StartUp, RunBackground,
      RunBatch, RunReset, Announce, LoadRows, Continue, Rebuild, Lose, LoseRows,
      ServeIncr, ServeRead, ServePublish, ServeDel, ServeRem, ServeKeys, ServeDrop

LEMMA TypeKept ==
    ASSUME Core, [Next]_vars
    PROVE  TypeOK'
<1>0. undo' \in [War -> [at : {"idle", "delete", "queue"}, keys : SUBSET Key]]
  BY UndoKept DEF Undoing
<1>1. /\ war \in [War -> {"new", "stored", "rolledback"}]
      /\ stats \in [Key -> Tally]
      /\ board \in [Board -> [Key -> Tally]]
      /\ sent \in Seq(Command)
      /\ turns \in Seq(Turn)
      /\ batch \in [Job -> [rows : SUBSET Row, todo : SUBSET Key, active : SUBSET Key]]
      /\ reset \in [War -> SUBSET (Board \X Key)]
      /\ call \in [Job -> {"idle", "keys", "load", "done"}]
      /\ crashes \in 0..MaxCrashes /\ losses \in 0..MaxLosses
      /\ TypeOK /\ JobsInv /\ TurnsInv /\ CommandsInv /\ ResetsInv
  BY DEF TypeOK, Core
<1>2. ASSUME NEW w \in War, Upload(w)
      PROVE  TypeOK'
  BY <1>0, <1>1, <1>2, JobsType DEF Upload, TypeOK, redis
<1>3. ASSUME NEW w \in War, Announce(w)
      PROVE  TypeOK'
  <2>1. [kind |-> "background", by |-> w] \in Turn
    BY JobsType DEF Turn
  <2>2. PICK rows : rows = {r \in RowsOf(w) : r.player # NoPlayer}
    OBVIOUS
  <2>3. rows \in SUBSET Row
    BY <2>2, RowsType
  <2>4. batch' = [batch EXCEPT ![w] = [@ EXCEPT !.rows = rows]]
    BY <1>3, <2>2 DEF Announce
  <2>5. batch' \in [Job -> [rows : SUBSET Row, todo : SUBSET Key, active : SUBSET Key]]
    BY <1>1, <2>3, <2>4, JobsType
  <2>6. turns' \in Seq(Turn)
    BY <1>1, <1>3, <2>1 DEF Announce
  <2> QED BY <1>0, <1>1, <1>3, <2>5, <2>6 DEF Announce, TypeOK, redis
<1>4. ASSUME NEW w \in War, QueueReset(w)
      PROVE  TypeOK'
  <2>1. [kind |-> "reset", by |-> w] \in Turn
    BY JobsType DEF Turn
  <2>2. PICK ks \in SUBSET Key : ks = undo[w].keys
    BY DEF Core, TypeOK
  <2>3. Board \X ks \in SUBSET (Board \X Key)
    OBVIOUS
  <2>4. turns' \in Seq(Turn)
    BY <1>1, <1>4, <2>1 DEF QueueReset
  <2> QED BY <1>0, <1>1, <1>4, <2>2, <2>3, <2>4 DEF QueueReset, TypeOK, redis
<1>23. ASSUME NEW w \in War, ReadAffected(w) \/ DeleteWar(w)
       PROVE  TypeOK'
  BY <1>0, <1>1, <1>23 DEF ReadAffected, DeleteWar, TypeOK, redis
<1>24. ASSUME NEW w \in War, LoseDelete(w)
       PROVE  TypeOK'
  <2>1. losses' \in 0..MaxLosses
    BY <1>1, <1>24, BoundsAssumption DEF LoseDelete
  <2> QED BY <1>0, <1>1, <1>24, <2>1 DEF LoseDelete, TypeOK, redis
<1>5. ASSUME NEW n \in Rebuilds, Rebuild(n)
      PROVE  TypeOK'
  <2>1. sent' \in Seq(Command)
    BY <1>1, <1>5, JobsType DEF Rebuild
  <2> QED BY <1>0, <1>1, <1>5, <2>1 DEF Rebuild, TypeOK, redis
<1>6. CASE StartUp
  <2>1. sent' \in Seq(Command)
    BY <1>1, <1>6, JobsType DEF StartUp
  <2> QED BY <1>0, <1>1, <1>6, <2>1 DEF StartUp, TypeOK, redis
<1>7. ASSUME NEW j \in Rebuilds \cup {Boot}, LoadRows(j)
      PROVE  TypeOK'
  <2>1. [kind |-> "batch", by |-> j] \in Turn
    BY JobsType DEF Turn
  <2>2. PICK rows : rows = Rows
    OBVIOUS
  <2>3. rows \in SUBSET Row
    BY <2>2, RowsType
  <2>4. batch' = batch \/ batch' = [batch EXCEPT ![j] = [@ EXCEPT !.rows = rows]]
    BY <1>7, <2>2 DEF LoadRows
  <2>5. batch' \in [Job -> [rows : SUBSET Row, todo : SUBSET Key, active : SUBSET Key]]
    <3>1. CASE batch' = batch
      BY <1>1, <3>1
    <3>2. CASE batch' = [batch EXCEPT ![j] = [@ EXCEPT !.rows = rows]]
      BY <1>1, <2>3, <3>2
    <3> QED BY <2>4, <3>1, <3>2
  <2>6. turns' \in Seq(Turn)
    BY <1>1, <1>7, <2>1 DEF LoadRows
  <2> QED BY <1>0, <1>1, <1>7, <2>5, <2>6 DEF LoadRows, TypeOK, redis
<1>8. CASE RunBackground
  <2>1. Head(turns) \in Turn /\ Tail(turns) \in Seq(Turn)
    BY <1>1, <1>8, TailFacts DEF RunBackground, TurnOf
  <2>2. [Head(turns) EXCEPT !.kind = "batch"] \in Turn
    BY <2>1 DEF Turn
  <2>3. turns' \in Seq(Turn)
    BY <1>8, <2>1, <2>2 DEF RunBackground
  <2> QED BY <1>0, <1>1, <1>8, <2>3 DEF RunBackground, TypeOK, redis
<1>9. CASE RunBatch
  <2>1. Head(turns) \in Turn /\ Tail(turns) \in Seq(Turn)
    BY <1>1, <1>9, TailFacts DEF RunBatch, TurnOf
  <2>2. PICK j \in Job : j = Head(turns).by
    BY <2>1 DEF Turn
  <2>3. KeysOf(batch[j].rows) \in SUBSET Key /\ IsFiniteSet(KeysOf(batch[j].rows))
    BY <1>1, KeysType DEF JobsInv
  <2>4. /\ sent' \in Seq(Command)
        /\ batch' \in [Job -> [rows : SUBSET Row, todo : SUBSET Key, active : SUBSET Key]]
    <3>1. Begin(j, KeysOf(batch[j].rows))
      BY <1>9, <2>2 DEF RunBatch
    <3>2. PICK keys \in SUBSET Key : IsFiniteSet(keys) /\ Begin(j, keys)
      BY <2>3, <3>1
    <3>3. PICK t \in Seq(Command) : sent' = sent \o t
      BY <1>1, <3>2, BeginType
    <3> QED BY <1>1, <3>2, <3>3, BeginType, SentMore
  <2> QED BY <1>0, <1>1, <1>9, <2>1, <2>4 DEF RunBatch, TypeOK, redis

<1>10. CASE RunReset
  <2>1. /\ Head(turns) = turns[1] /\ 1 \in DOMAIN turns /\ turns[1].kind = "reset"
        /\ Tail(turns) \in Seq(Turn)
    BY <1>1, <1>10, TailFacts DEF RunReset, TurnOf
  <2>2. PICK w \in War : w = Head(turns).by
    BY <1>1, <2>1 DEF ResetsInv
  <2>3. {p[2] : p \in reset[w]} \in SUBSET Key
    BY <1>1
  <2>4. sent' \in Seq(Command)
    BY <1>1, <1>10, <2>2, <2>3, JobsType DEF RunReset
  <2> QED BY <1>0, <1>1, <1>10, <2>1, <2>4 DEF RunReset, TypeOK, redis
<1>11. ASSUME NEW j \in Job, Continue(j)
       PROVE  TypeOK'
  <2>1. KeysOf(batch[j].rows) \in SUBSET Key /\ IsFiniteSet(KeysOf(batch[j].rows))
    BY <1>1, KeysType DEF JobsInv
  <2>2. PICK keys \in SUBSET Key : keys = batch[j].todo
    BY <1>1
  <2>3. IsFiniteSet(keys)
    BY <1>1, <2>1, <2>2, FS_Subset DEF JobsInv
  <2>4. Begin(j, keys)
    BY <1>11, <2>2 DEF Continue
  <2>5. PICK t \in Seq(Command) : sent' = sent \o t
    BY <1>1, <2>3, <2>4, BeginType
  <2>6. /\ sent' \in Seq(Command)
        /\ batch' \in [Job -> [rows : SUBSET Row, todo : SUBSET Key, active : SUBSET Key]]
    BY <1>1, <2>3, <2>4, <2>5, BeginType, SentMore
  <2> QED BY <1>0, <1>1, <1>11, <2>6 DEF Continue, TypeOK, redis
<1>12. CASE ServeIncr
  <2>1. /\ Cmd \in Command /\ Cmd.by \in Job /\ Cmd.key \in Key /\ sent # <<>>
    BY <1>1, <1>12, CmdType, CommandFields DEF ServeIncr, Updating
  <2>2. stats' \in [Key -> Tally]
    BY <1>1, <1>12, <2>1, IncreaseType DEF ServeIncr
  <2>3. sent' \in Seq(Command)
    BY <1>1, <1>12, <2>1, JobsType, ServedOne DEF ServeIncr
  <2> QED BY <1>0, <1>1, <1>12, <2>2, <2>3 DEF ServeIncr, TypeOK
<1>13. CASE ServeRead
  <2>1. /\ Cmd \in Command /\ Cmd.by \in Job /\ Cmd.key \in Key /\ sent # <<>>
    BY <1>1, <1>13, CmdType, CommandFields DEF ServeRead, Updating
  <2>2. Publish(Cmd.by, Cmd.key, Averages(stats[Cmd.key])) \in Command
    BY <1>1, <2>1, JobsType, RecordsType
  <2>3. sent' \in Seq(Command)
    BY <1>1, <1>13, <2>1, <2>2, ServedOne DEF ServeRead
  <2> QED BY <1>0, <1>1, <1>13, <2>3 DEF ServeRead, TypeOK, redis
<1>14. CASE ServePublish
  <2>1. /\ Cmd \in Command /\ Cmd.by \in Job /\ Cmd.key \in Key /\ Cmd.tally \in Tally
        /\ sent # <<>>
    BY <1>1, <1>14, CmdType, CommandFields DEF ServePublish, Updating
  <2>2. board' \in [Board -> [Key -> Tally]]
    BY <1>1, <1>14, <2>1, ShowType DEF ServePublish
  <2>3. sent' \in Seq(Command)
    BY <1>1, <1>14, <2>1, Served DEF ServePublish
  <2>4. batch' \in [Job -> [rows : SUBSET Row, todo : SUBSET Key, active : SUBSET Key]]
    BY <1>1, <1>14, <2>1, EndType DEF ServePublish
  <2> QED BY <1>0, <1>1, <1>14, <2>2, <2>3, <2>4 DEF ServePublish, TypeOK
<1>15. CASE ServeDel
  <2>1. /\ Cmd \in Command /\ Cmd.by \in War /\ sent # <<>>
    BY <1>1, <1>15, CmdType, CommandFields DEF ServeDel, Resetting
  <2>2. stats' \in [Key -> Tally]
    BY <1>1, <1>15, ForgetType DEF ServeDel
  <2>3. sent' \in Seq(Command)
    <3>1. PICK w \in War, left \in SUBSET (Board \X Key) : w = Cmd.by /\ left = reset[w]
      BY <1>1, <2>1
    <3>2. NextRem(w, left)
      BY <1>15, <3>1 DEF ServeDel
    <3> QED BY <1>1, <2>1, <3>2, NextRemType, Served, ServedOne
  <2> QED BY <1>0, <1>1, <1>15, <2>2, <2>3 DEF ServeDel, TypeOK
<1>16. CASE ServeRem
  <2>1. /\ Cmd \in Command /\ Cmd.by \in War /\ Cmd.key \in Key /\ sent # <<>>
    BY <1>1, <1>16, CmdType, CommandFields DEF ServeRem, Resetting
  <2>2. PICK w \in War, left \in SUBSET (Board \X Key) :
           w = Cmd.by /\ left = reset[w] \ {<<Cmd.board, Cmd.key>>}
    BY <1>1, <2>1
  <2>3. Show(Cmd.key, NoTally, {Cmd.board}) /\ NextRem(w, left)
    BY <1>16, <2>2 DEF ServeRem
  <2>4. board' \in [Board -> [Key -> Tally]]
    BY <1>1, <2>1, <2>3, ShowType, RecordsType
  <2>5. sent' \in Seq(Command)
    BY <1>1, <2>1, <2>3, NextRemType, Served, ServedOne
  <2>6. reset' \in [War -> SUBSET (Board \X Key)]
    BY <1>1, <1>16, <2>2 DEF ServeRem
  <2> QED BY <1>0, <1>1, <1>16, <2>4, <2>5, <2>6 DEF ServeRem, TypeOK
<1>17. CASE ServeKeys
  <2>1. /\ Cmd \in Command /\ Cmd.by \in Rebuilds \cup {Boot} /\ sent # <<>>
    BY <1>1, <1>17, CmdType, CommandFields DEF ServeKeys, Listing
  <2>2. Cmd.by # Boot => Drop(Cmd.by, Found) \in Command
    BY <2>1, JobsType DEF Found
  <2>3. sent' \in Seq(Command)
    BY <1>1, <1>17, <2>1, <2>2, Served, ServedOne DEF ServeKeys
  <2>4. call' \in [Job -> {"idle", "keys", "load", "done"}]
    BY <1>1, <1>17 DEF ServeKeys
  <2> QED BY <1>0, <1>1, <1>17, <2>3, <2>4 DEF ServeKeys, TypeOK, redis
<1>18. CASE ServeDrop
  <2>1. /\ Cmd \in Command /\ sent # <<>>
    BY <1>1, <1>18, CmdType DEF ServeDrop
  <2>2. sent' \in Seq(Command)
    BY <1>1, <1>18, <2>1, Served DEF ServeDrop
  <2>3. board' \in [Board -> [Key -> Tally]]
    BY <1>1, <1>18, ClearType DEF ServeDrop
  <2> QED BY <1>0, <1>1, <1>18, <2>2, <2>3 DEF ServeDrop, TypeOK

<1>19. CASE Lose
  <2>1. /\ sent # <<>> /\ Cmd \in Command
    BY <1>1, <1>19, CmdType
    DEF Lose, LoseIncr, LoseRead, LosePublish, LoseReset, LoseCall
  <2>2. sent' \in Seq(Command)
    BY <1>1, <1>19, <2>1, Served DEF Lose
  <2>3. losses' \in 0..MaxLosses
    BY <1>1, <1>19, BoundsAssumption DEF Lose
  <2>4. CASE LoseIncr
    <3>1. Cmd.by \in Job /\ Cmd.key \in Key
      BY <1>1, <2>1, <2>4, CommandFields, CmdType DEF LoseIncr, Updating
    <3>2. stats' \in [Key -> Tally]
      BY <1>1, <2>4, <3>1, IncreaseType DEF LoseIncr
    <3>3. batch' \in [Job -> [rows : SUBSET Row, todo : SUBSET Key, active : SUBSET Key]]
      BY <1>1, <2>4, <3>1, EndType DEF LoseIncr
    <3> QED BY <1>0, <1>1, <1>19, <2>2, <2>3, <2>4, <3>2, <3>3 DEF Lose, LoseIncr, TypeOK
  <2>5. CASE LoseRead
    <3>1. Cmd.by \in Job
      BY <1>1, <2>1, <2>5, CommandFields, CmdType DEF LoseRead, Updating
    <3>2. batch' \in [Job -> [rows : SUBSET Row, todo : SUBSET Key, active : SUBSET Key]]
      BY <1>1, <2>5, <3>1, EndType DEF LoseRead
    <3> QED BY <1>0, <1>1, <1>19, <2>2, <2>3, <2>5, <3>2 DEF Lose, LoseRead, TypeOK, redis
  <2>6. CASE LosePublish
    <3>1. Cmd.by \in Job /\ Cmd.key \in Key /\ Cmd.tally \in Tally
      BY <1>1, <2>1, <2>6, CommandFields, CmdType DEF LosePublish, Updating
    <3>2. board' \in [Board -> [Key -> Tally]]
      BY <1>1, <2>6, <3>1, ShowType DEF LosePublish
    <3>3. batch' \in [Job -> [rows : SUBSET Row, todo : SUBSET Key, active : SUBSET Key]]
      BY <1>1, <2>6, <3>1, EndType DEF LosePublish
    <3> QED BY <1>0, <1>1, <1>19, <2>2, <2>3, <2>6, <3>2, <3>3 DEF Lose, LosePublish, TypeOK
  <2>7. CASE LoseReset
    <3>1. stats' \in [Key -> Tally] /\ board' \in [Board -> [Key -> Tally]]
      <4>1. CASE /\ Due("del") /\ \E part \in SUBSET Cmd.keys : Forget(part)
                 /\ UNCHANGED board
        BY <1>1, <4>1, ForgetType
      <4>2. CASE /\ Due("rem") /\ UNCHANGED stats
                 /\ \E part \in SUBSET {Cmd.board} : Show(Cmd.key, NoTally, part)
        <5>1. Cmd.key \in Key
          BY <1>1, <2>1, <4>2, CommandFields, CmdType
        <5> QED BY <1>1, <4>2, <5>1, ShowType, RecordsType
      <4> QED BY <2>7, <4>1, <4>2 DEF LoseReset
    <3>2. reset' \in [War -> SUBSET (Board \X Key)]
      BY <1>1, <2>7 DEF LoseReset
    <3> QED BY <1>0, <1>1, <1>19, <2>2, <2>3, <2>7, <3>1, <3>2 DEF Lose, LoseReset, TypeOK
  <2>8. CASE LoseCall
    <3>1. board' \in [Board -> [Key -> Tally]]
      BY <1>1, <2>8, ClearType DEF LoseCall
    <3> QED BY <1>0, <1>1, <1>19, <2>2, <2>3, <2>8, <3>1 DEF Lose, LoseCall, TypeOK
  <2> QED BY <1>19, <2>4, <2>5, <2>6, <2>7, <2>8 DEF Lose
<1>20. ASSUME NEW j \in Job, LoseRows(j)
       PROVE  TypeOK'
  <2>1. losses' \in 0..MaxLosses
    BY <1>1, <1>20, BoundsAssumption DEF LoseRows
  <2> QED BY <1>0, <1>1, <1>20, <2>1 DEF LoseRows, TypeOK, redis
<1>21. CASE Crash
  <2>1. crashes' \in 0..MaxCrashes
    BY <1>1, <1>21, BoundsAssumption DEF Crash
  <2>2. stats' \in [Key -> Tally] /\ board' \in [Board -> [Key -> Tally]]
    BY <1>1, <1>21, RecordsType DEF Crash, redis
  <2>3. /\ batch' \in [Job -> [rows : SUBSET Row, todo : SUBSET Key, active : SUBSET Key]]
        /\ sent' \in Seq(Command) /\ turns' \in Seq(Turn)
        /\ reset' \in [War -> SUBSET (Board \X Key)]
    BY <1>21, RecordsType DEF Crash
  <2>4. call' \in [Job -> {"idle", "keys", "load", "done"}]
    BY <1>1, <1>21 DEF Crash
  <2> QED BY <1>0, <1>1, <1>21, <2>1, <2>2, <2>3, <2>4 DEF Crash, TypeOK
<1>22. CASE UNCHANGED vars
  BY <1>0, <1>1, <1>22 DEF vars, TypeOK
<1> QED
  BY <1>2, <1>3, <1>4, <1>5, <1>6, <1>7, <1>8, <1>9, <1>10, <1>11, <1>12, <1>13, <1>14,
     <1>15, <1>16, <1>17, <1>18, <1>19, <1>20, <1>21, <1>22, <1>23, <1>24
  DEF Next, Background, Request, Failure, Serve, AtRest


LEMMA JobsKept ==
    ASSUME Core, [Next]_vars
    PROVE  JobsInv'
<1>1. /\ war \in [War -> {"new", "stored", "rolledback"}]
      /\ batch \in [Job -> [rows : SUBSET Row, todo : SUBSET Key, active : SUBSET Key]]
      /\ call \in [Job -> {"idle", "keys", "load", "done"}]
      /\ TypeOK /\ JobsInv /\ TurnsInv /\ CommandsInv /\ ResetsInv
      /\ War \subseteq Job /\ War \cap (Rebuilds \cup {Boot}) = {} /\ Rebuilds \subseteq Job
      /\ Rebuilds \cup {Boot} \subseteq Job
  BY JobsType DEF TypeOK, Core
<1>2. /\ IsFiniteSet(Idle.rows) /\ Idle.rows = {} /\ Idle.todo = {} /\ Idle.active = {}
  BY FS_EmptySet DEF Idle
\* A job ends its call with some rows, or goes on with a call that had none.
<1>3. ASSUME NEW j \in Job, NEW rows, IsFiniteSet(rows), call[j] # "done",
             batch' = [batch EXCEPT ![j] = [@ EXCEPT !.rows = rows]],
             call' = [call EXCEPT ![j] = "done"], war' = war, j \in War => call[j] # "idle"
      PROVE  JobsInv'
  <2>1. batch[j] = Idle
    BY <1>1, <1>3 DEF JobsInv
  <2>2. /\ \A m \in Job : m # j => batch'[m] = batch[m]
        /\ batch'[j].rows = rows /\ batch'[j].todo = {} /\ batch'[j].active = {}
    BY <1>1, <1>2, <1>3, <2>1
  <2>3. \A m \in Job : call'[m] = IF m = j THEN "done" ELSE call[m]
    BY <1>1, <1>3
  <2>4. \A w \in War : war'[w] = "new" => call'[w] = "idle"
    BY <1>1, <1>3, <2>3 DEF JobsInv
  <2>5. ASSUME NEW m \in Job
        PROVE  /\ IsFiniteSet(batch'[m].rows)
               /\ batch'[m].todo \cup batch'[m].active \subseteq KeysOf(batch'[m].rows)
               /\ batch'[m].todo \cap batch'[m].active = {}
               /\ call'[m] # "done" => batch'[m] = Idle
    BY <1>1, <1>3, <2>2, <2>3 DEF JobsInv
  <2> QED BY <2>4, <2>5 DEF JobsInv
<1>4. ASSUME NEW j \in Job, NEW to, batch' = batch, war' = war,
             call' = [call EXCEPT ![j] = to], to = "done" \/ batch[j] = Idle,
             j \notin War \/ war[j] # "new"
      PROVE  JobsInv'
  <2>1. \A m \in Job : call'[m] = IF m = j THEN to ELSE call[m]
    BY <1>1, <1>4
  <2>2. \A w \in War : war'[w] = "new" => call'[w] = "idle"
    BY <1>1, <1>4, <2>1 DEF JobsInv
  <2>3. \A m \in Job : call'[m] # "done" => batch'[m] = Idle
    BY <1>1, <1>4, <2>1 DEF JobsInv
  <2> QED BY <1>1, <1>4, <2>2, <2>3 DEF JobsInv
\* A job takes up some of the keys it has.
<1>5. ASSUME NEW j \in Job, call[j] = "done", UNCHANGED <<war, call>>,
             batch' \in [Job -> [rows : SUBSET Row, todo : SUBSET Key, active : SUBSET Key]],
             \A m \in Job : m # j => batch'[m] = batch[m],
             batch'[j].rows = batch[j].rows,
             batch'[j].todo \cup batch'[j].active \subseteq KeysOf(batch[j].rows),
             batch'[j].todo \cap batch'[j].active = {}
      PROVE  JobsInv'
  <2>1. ASSUME NEW m \in Job
        PROVE  /\ IsFiniteSet(batch'[m].rows)
               /\ batch'[m].todo \cup batch'[m].active \subseteq KeysOf(batch'[m].rows)
               /\ batch'[m].todo \cap batch'[m].active = {}
               /\ call'[m] # "done" => batch'[m] = Idle
    BY <1>1, <1>5 DEF JobsInv
  <2> QED BY <1>1, <1>5, <2>1 DEF JobsInv
<1>6. ASSUME NEW j \in Job, NEW k, End(j, k), k \in batch[j].active, UNCHANGED <<war, call>>
      PROVE  JobsInv'
  <2>1. call[j] = "done"
    BY <1>1, <1>2, <1>6 DEF JobsInv
  <2>2. /\ batch'[j].todo \cup batch'[j].active \subseteq KeysOf(batch[j].rows)
        /\ batch'[j].todo \cap batch'[j].active = {}
    BY <1>1, <1>6, EndType DEF JobsInv
  <2> QED BY <1>1, <1>5, <1>6, <2>1, <2>2, EndType
<1>7. ASSUME NEW op, Due(op)
      PROVE  /\ op \in Updating => Cmd.by \in Job /\ Cmd.key \in batch[Cmd.by].active
             /\ op \in Listing => /\ Cmd.by \in Rebuilds \cup {Boot} /\ call[Cmd.by] = "keys"
                                  /\ batch[Cmd.by] = Idle
  BY <1>1, <1>7, CmdType, CommandFields DEF CommandsInv, JobsInv
<1>8. ASSUME NEW w \in War, Upload(w)
      PROVE  JobsInv'
  <2>1. batch[w] = Idle
    BY <1>1, <1>8 DEF Upload, JobsInv
  <2>2. \A j \in Job : call'[j] = IF j = w THEN "load" ELSE call[j]
    BY <1>1, <1>8 DEF Upload
  <2>3. \A v \in War : war'[v] = IF v = w THEN "stored" ELSE war[v]
    BY <1>1, <1>8 DEF Upload
  <2>4. \A v \in War : war'[v] = "new" => call'[v] = "idle"
    BY <1>1, <2>2, <2>3 DEF JobsInv
  <2>5. batch' = batch
    BY <1>8 DEF Upload
  <2> QED BY <1>1, <2>1, <2>2, <2>4, <2>5 DEF JobsInv
<1>9. ASSUME NEW w \in War, Announce(w)
      PROVE  JobsInv'
  <2>1. PICK rows : rows = {r \in RowsOf(w) : r.player # NoPlayer}
    OBVIOUS
  <2>2. IsFiniteSet(rows)
    BY <2>1, RowsType, FS_Subset
  <2>3. batch' = [batch EXCEPT ![w] = [@ EXCEPT !.rows = rows]]
    BY <1>9, <2>1 DEF Announce
  <2> QED BY <1>1, <1>3, <1>9, <2>2, <2>3 DEF Announce
<1>10. ASSUME NEW w \in War, DeleteWar(w)
       PROVE  JobsInv'
  <2>1. \A v \in War : war'[v] = "new" => war[v] = "new"
    BY <1>1, <1>10 DEF DeleteWar
  <2> QED BY <1>1, <1>10, <2>1 DEF DeleteWar, JobsInv
<1>11. ASSUME NEW j \in Rebuilds \cup {Boot}, LoadRows(j)
       PROVE  JobsInv'
  <2>1. CASE batch' = batch
    BY <1>1, <1>4, <1>11, <2>1 DEF LoadRows
  <2>2. CASE batch' = [batch EXCEPT ![j].rows = Rows]
    <3>1. PICK rows : rows = Rows
      OBVIOUS
    <3>2. IsFiniteSet(rows)
      BY <3>1, RowsType
    <3>3. batch' = [batch EXCEPT ![j] = [@ EXCEPT !.rows = rows]]
      BY <2>2, <3>1
    <3> QED BY <1>1, <1>3, <1>11, <3>2, <3>3 DEF LoadRows
  <2> QED BY <1>11, <2>1, <2>2 DEF LoadRows
<1>12. CASE RunBatch
  <2>1. /\ Head(turns) = turns[1] /\ 1 \in DOMAIN turns /\ turns[1] \in Turn
        /\ turns[1].kind = "batch"
    BY <1>1, <1>12, TailFacts DEF RunBatch, TurnOf, TypeOK
  <2>2. PICK j \in Job : j = Head(turns).by
    BY <2>1 DEF Turn
  <2>3. KeysOf(batch[j].rows) \in SUBSET Key /\ IsFiniteSet(KeysOf(batch[j].rows))
    BY <1>1, KeysType DEF JobsInv
  <2>4. call[j] = "done"
    BY <1>1, <2>1, <2>2 DEF TurnsInv
  <2>5. PICK keys \in SUBSET Key :
           keys = KeysOf(batch[j].rows) /\ IsFiniteSet(keys) /\ Begin(j, keys)
    BY <1>12, <2>2, <2>3 DEF RunBatch
  <2>6. /\ batch' \in [Job -> [rows : SUBSET Row, todo : SUBSET Key, active : SUBSET Key]]
        /\ \A m \in Job : m # j => batch'[m] = batch[m]
        /\ batch'[j].rows = batch[j].rows
        /\ batch'[j].todo \cup batch'[j].active \subseteq keys
        /\ batch'[j].todo \cap batch'[j].active = {}
    BY <1>1, <2>5, BeginFacts
  <2> QED BY <1>5, <1>12, <2>4, <2>5, <2>6 DEF RunBatch
<1>13. ASSUME NEW j \in Job, Continue(j)
       PROVE  JobsInv'
  <2>1. KeysOf(batch[j].rows) \in SUBSET Key /\ IsFiniteSet(KeysOf(batch[j].rows))
    BY <1>1, KeysType DEF JobsInv
  <2>2. call[j] = "done"
    BY <1>1, <1>2, <1>13 DEF JobsInv, Continue
  <2>3. batch[j].todo \subseteq KeysOf(batch[j].rows)
    BY <1>1 DEF JobsInv
  <2>4. IsFiniteSet(batch[j].todo) /\ batch[j].todo \in SUBSET Key
    BY <2>1, <2>3, FS_Subset
  <2>5. PICK keys \in SUBSET Key :
           keys = batch[j].todo /\ IsFiniteSet(keys) /\ Begin(j, keys)
    BY <1>13, <2>4 DEF Continue
  <2>6. /\ batch' \in [Job -> [rows : SUBSET Row, todo : SUBSET Key, active : SUBSET Key]]
        /\ \A m \in Job : m # j => batch'[m] = batch[m]
        /\ batch'[j].rows = batch[j].rows
        /\ batch'[j].todo \cup batch'[j].active \subseteq keys
        /\ batch'[j].todo \cap batch'[j].active = {}
    BY <1>1, <2>5, BeginFacts
  <2> QED BY <1>5, <1>13, <2>2, <2>3, <2>5, <2>6 DEF Continue
<1>14. CASE ServeKeys \/ ServeDrop
  <2>1. Due("keys") \/ Due("drop")
    BY <1>14 DEF ServeKeys, ServeDrop
  <2>2. Cmd.by \in Rebuilds \cup {Boot} /\ batch[Cmd.by] = Idle
    BY <1>7, <2>1 DEF Listing
  <2>3. \/ call' = call \/ call' = [call EXCEPT ![Boot] = "done"]
        \/ call' = [call EXCEPT ![Cmd.by] = "load"]
    BY <1>14 DEF ServeKeys, ServeDrop
  <2>4. UNCHANGED <<war, batch>>
    BY <1>14 DEF ServeKeys, ServeDrop
  <2>5. CASE call' = call
    BY <1>1, <2>4, <2>5 DEF JobsInv
  <2>6. CASE call' = [call EXCEPT ![Boot] = "done"]
    BY <1>1, <1>4, <2>4, <2>6
  <2>7. CASE call' = [call EXCEPT ![Cmd.by] = "load"]
    BY <1>1, <1>4, <2>2, <2>4, <2>7
  <2> QED BY <2>3, <2>5, <2>6, <2>7
<1>15. CASE Lose
  <2>1. CASE LoseIncr \/ LoseRead \/ LosePublish
    <3>1. End(Cmd.by, Cmd.key) /\ \E op \in Updating : Due(op)
      BY <2>1 DEF LoseIncr, LoseRead, LosePublish, Updating
    <3>2. UNCHANGED <<war, call>>
      BY <1>15, <2>1 DEF LoseIncr, LoseRead, LosePublish, Lose
    <3> QED BY <1>6, <1>7, <3>1, <3>2
  <2>2. CASE LoseReset
    BY <1>1, <1>15, <2>2 DEF Lose, LoseReset, JobsInv
  <2>3. CASE LoseCall
    <3>1. \E op \in Listing : Due(op)
      BY <2>3 DEF LoseCall, Listing
    <3>2. Cmd.by \in Rebuilds \cup {Boot}
      BY <1>7, <3>1
    <3> QED BY <1>1, <1>4, <1>15, <2>3, <3>2 DEF Lose, LoseCall
  <2> QED BY <1>15, <2>1, <2>2, <2>3 DEF Lose
<1>16. CASE ServePublish
  BY <1>6, <1>7, <1>16 DEF ServePublish, Updating
<1>17. ASSUME NEW j \in Job, LoseRows(j)
       PROVE  JobsInv'
  <2>1. j \notin War \/ war[j] # "new"
    BY <1>1, <1>17 DEF LoseRows, JobsInv
  <2> QED BY <1>1, <1>4, <1>17, <2>1 DEF LoseRows
<1>18. CASE Crash
  <2>1. \A j \in Job : batch'[j] = Idle
    BY <1>18 DEF Crash
  <2>2. \A w \in War : war'[w] = "new" => call'[w] = "idle"
    BY <1>1, <1>18 DEF Crash, JobsInv
  <2> QED BY <1>2, <2>1, <2>2 DEF JobsInv
<1>19. ASSUME NEW j \in Rebuilds \cup {Boot}, Rebuild(j) \/ StartUp
       PROVE  JobsInv'
  <2>1. PICK m \in Rebuilds \cup {Boot} : /\ call[m] = "idle"
                                          /\ call' = [call EXCEPT ![m] = "keys"]
    BY <1>19 DEF Rebuild, StartUp
  <2>2. batch[m] = Idle /\ UNCHANGED <<war, batch>>
    BY <1>1, <1>19, <2>1 DEF Rebuild, StartUp, JobsInv
  <2> QED BY <1>1, <1>4, <2>1, <2>2
<1>20. CASE UNCHANGED <<war, batch, call>>
  BY <1>1, <1>20 DEF JobsInv
<1> QED
  BY <1>8, <1>9, <1>10, <1>11, <1>12, <1>13, <1>14, <1>15, <1>16, <1>17, <1>18, <1>19, <1>20
  DEF Next, Background, Request, Failure, Serve, AtRest, vars, RunBackground, RunReset,
      ServeIncr, ServeRead, ServeDel, ServeRem, ReadAffected, QueueReset, LoseDelete

\* z is s without its first d elements and with c at place "last".
Follows(z, s, d, last, c) ==
    /\ d \in Nat /\ DOMAIN z \subseteq Nat \ {0} /\ DOMAIN s \subseteq Nat \ {0}
    /\ \A n \in DOMAIN z : \/ n + d \in DOMAIN s /\ z[n] = s[n + d]
                           \/ n = last /\ z[n] = c

\* A queue in which no two turns are the same keeps that as it moves up and grows.
LEMMA OneTurnEach ==
    ASSUME NEW s, NEW z, NEW d, NEW last, NEW t, Follows(z, s, d, last, t),
           \A i, n \in DOMAIN s : SameTurn(s[i], s[n]) => i = n,
           \A i \in DOMAIN s : i > d => ~SameTurn(s[i], t)
    PROVE  \A i, n \in DOMAIN z : SameTurn(z[i], z[n]) => i = n
<1>0. /\ d \in Nat /\ DOMAIN z \subseteq Nat \ {0} /\ DOMAIN s \subseteq Nat \ {0}
      /\ \A n \in DOMAIN z : \/ n + d \in DOMAIN s /\ z[n] = s[n + d]
                             \/ n = last /\ z[n] = t
  BY DEF Follows
<1> SUFFICES ASSUME NEW i \in DOMAIN z, NEW n \in DOMAIN z, SameTurn(z[i], z[n])
             PROVE  i = n
  OBVIOUS
<1>1. SameTurn(z[n], z[i])
  BY DEF SameTurn
<1>2. /\ i \in Nat \ {0} /\ n \in Nat \ {0} /\ i + d > d /\ n + d > d
      /\ i + d = n + d => i = n
  BY <1>0
<1>3. CASE i + d \in DOMAIN s /\ z[i] = s[i + d]
  <2>1. CASE n + d \in DOMAIN s /\ z[n] = s[n + d]
    BY <1>2, <1>3, <2>1
  <2>2. CASE n = last /\ z[n] = t
    BY <1>2, <1>3, <2>2
  <2> QED BY <1>0, <2>1, <2>2
<1>4. CASE i = last /\ z[i] = t
  <2>1. CASE n + d \in DOMAIN s /\ z[n] = s[n + d]
    BY <1>1, <1>2, <1>4, <2>1
  <2>2. CASE n = last /\ z[n] = t
    BY <1>4, <2>2
  <2> QED BY <1>0, <2>1, <2>2
<1> QED BY <1>0, <1>3, <1>4

LEMMA TurnsKept ==
    ASSUME Core, [Next]_vars
    PROVE  TurnsInv'
<1>1. /\ turns \in Seq(Turn)
      /\ batch \in [Job -> [rows : SUBSET Row, todo : SUBSET Key, active : SUBSET Key]]
      /\ call \in [Job -> {"idle", "keys", "load", "done"}]
      /\ TypeOK /\ JobsInv /\ TurnsInv /\ CommandsInv /\ ResetsInv
      /\ War \subseteq Job /\ Rebuilds \subseteq Job /\ Boot \in Job
      /\ DOMAIN turns \subseteq Nat \ {0}
  BY JobsType DEF TypeOK, Core
<1>2. \A n \in DOMAIN turns : turns[n] \in Turn
  BY <1>1
<1>3. Idle.todo = {} /\ Idle.active = {}
  BY DEF Idle
\* What is said of a job that waits for its turn holds of it after a step.
<1> DEFINE Waiting(j) == call[j] = "done" /\ batch[j].todo = {} /\ batch[j].active = {}
           WaitingNext(j) ==
              call'[j] = "done" /\ batch'[j].todo = {} /\ batch'[j].active = {}
<1>4. \A i \in DOMAIN turns : turns[i].kind # "reset" =>
         turns[i].by \in Job /\ Waiting(turns[i].by)
  BY <1>1, <1>2 DEF TurnsInv, Turn
<1>5. \A i, n \in DOMAIN turns : SameTurn(turns[i], turns[n]) => i = n
  BY <1>1 DEF TurnsInv
<1>6. ASSUME turns' = turns, \A j \in Job : Waiting(j) => WaitingNext(j)
      PROVE  TurnsInv'
  BY <1>4, <1>5, <1>6 DEF TurnsInv
<1>7. ASSUME NEW t \in Turn, turns' = Append(turns, t),
             \A j \in Job : Waiting(j) => WaitingNext(j),
             \A i \in DOMAIN turns : ~SameTurn(turns[i], t),
             t.kind # "reset" => WaitingNext(t.by)
      PROVE  TurnsInv'
  <2>1. /\ DOMAIN turns' \subseteq Nat \ {0}
        /\ \A n \in DOMAIN turns' : \/ n \in DOMAIN turns /\ turns'[n] = turns[n]
                                    \/ n = Len(turns) + 1 /\ turns'[n] = t
    BY <1>1, <1>7, TurnsGrow
  <2>2. PICK z : z = turns'
    OBVIOUS
  <2>3. \A n \in DOMAIN z : \/ n + 0 \in DOMAIN turns /\ z[n] = turns[n + 0]
                            \/ n = Len(turns) + 1 /\ z[n] = t
    BY <2>1, <2>2
  <2>4. \A i, n \in DOMAIN z : SameTurn(z[i], z[n]) => i = n
    <3>1. \A i \in DOMAIN turns : i > 0 => ~SameTurn(turns[i], t)
      BY <1>7
    <3>2. Follows(z, turns, 0, Len(turns) + 1, t)
      BY <1>1, <2>1, <2>2, <2>3 DEF Follows
    <3> QED BY <1>5, <3>1, <3>2, OneTurnEach
  <2>5. \A n \in DOMAIN turns' : turns'[n].kind # "reset" => WaitingNext(turns'[n].by)
    BY <1>4, <1>7, <2>1
  <2> QED BY <2>2, <2>4, <2>5 DEF TurnsInv
<1>8. ASSUME turns # <<>>, turns' = Tail(turns),
             \A j \in Job : j # turns[1].by /\ Waiting(j) => WaitingNext(j),
             turns[1].kind = "reset" => WaitingNext(turns[1].by) \/ ~Waiting(turns[1].by)
      PROVE  TurnsInv'
  <2>1. /\ DOMAIN turns' \subseteq Nat \ {0} /\ 1 \in DOMAIN turns
        /\ \A n \in DOMAIN turns' : n + 1 \in DOMAIN turns /\ turns'[n] = turns[n + 1]
    BY <1>1, <1>8, TurnsMove
  <2>2. PICK z : z = turns'
    OBVIOUS
  <2>3. \A n \in DOMAIN z : n + 1 # 1 /\ n + 1 \in DOMAIN turns /\ z[n] = turns[n + 1]
    BY <2>1, <2>2
  <2>4. \A i, n \in DOMAIN z : i + 1 = n + 1 => i = n
    BY <2>1, <2>2
  <2>5. \A i, n \in DOMAIN z : SameTurn(z[i], z[n]) => i = n
    BY <1>5, <2>3, <2>4
  <2>6. ASSUME NEW n \in DOMAIN z, z[n].kind # "reset"
        PROVE  WaitingNext(z[n].by)
    <3>1. ~SameTurn(turns[n + 1], turns[1])
      BY <1>5, <2>1, <2>3
    <3>2. Waiting(z[n].by) /\ z[n].by \in Job
      BY <1>4, <2>3, <2>6
    <3>3. z[n].by # turns[1].by \/ turns[1].kind = "reset"
      BY <2>3, <2>6, <3>1 DEF SameTurn
    <3> QED BY <1>8, <3>2, <3>3
  <2> QED BY <2>2, <2>5, <2>6 DEF TurnsInv
<1>9. ASSUME NEW w \in War, Upload(w)
      PROVE  TurnsInv'
  <2>1. call[w] = "idle"
    BY <1>1, <1>9 DEF Upload, JobsInv
  <2>2. \A j \in Job : Waiting(j) => WaitingNext(j)
    BY <1>1, <1>9, <2>1 DEF Upload
  <2> QED BY <1>6, <1>9, <2>2 DEF Upload
<1>10. ASSUME NEW w \in War, Announce(w)
       PROVE  TurnsInv'
  <2>1. PICK t \in Turn : t = [kind |-> "background", by |-> w]
    BY <1>1 DEF Turn
  <2>2. turns' = Append(turns, t) /\ t.kind # "reset" /\ t.by = w
    BY <1>10, <2>1 DEF Announce
  <2>3. batch[w] = Idle /\ call[w] = "load"
    BY <1>1, <1>10 DEF Announce, JobsInv
  <2>4. \A i \in DOMAIN turns : ~SameTurn(turns[i], t)
    BY <1>4, <2>2, <2>3 DEF SameTurn
  <2>5. /\ \A j \in Job : j # w => batch'[j] = batch[j]
        /\ batch'[w].todo = {} /\ batch'[w].active = {}
    BY <1>1, <1>3, <1>10, <2>3 DEF Announce
  <2>6. \A j \in Job : call'[j] = IF j = w THEN "done" ELSE call[j]
    BY <1>1, <1>10 DEF Announce
  <2>7. (\A j \in Job : Waiting(j) => WaitingNext(j)) /\ WaitingNext(w)
    BY <1>1, <2>5, <2>6
  <2> HIDE DEF Waiting, WaitingNext
  <2> QED BY <1>7, <2>2, <2>4, <2>7
<1>11. ASSUME NEW w \in War, QueueReset(w)
       PROVE  TurnsInv'
  <2>1. PICK t \in Turn : t = [kind |-> "reset", by |-> w]
    BY <1>1 DEF Turn
  <2>2. turns' = turns \/ turns' = Append(turns, t)
    BY <1>11, <2>1 DEF QueueReset
  <2>3. \A i \in DOMAIN turns : ~SameTurn(turns[i], t)
    BY <1>1, <1>11, <2>1 DEF QueueReset, ResetsInv, SameTurn
  <2>4. \A j \in Job : Waiting(j) => WaitingNext(j)
    BY <1>11 DEF QueueReset
  <2> QED BY <1>6, <1>7, <2>1, <2>2, <2>3, <2>4
<1>12. ASSUME NEW j \in Rebuilds \cup {Boot}, LoadRows(j)
       PROVE  TurnsInv'
  <2>1. PICK t \in Turn : t = [kind |-> "batch", by |-> j]
    BY <1>1 DEF Turn
  <2>2. t.kind # "reset" /\ t.by = j /\ j \in Job
    BY <1>1, <2>1
  <2>3. batch[j] = Idle /\ call[j] = "load"
    BY <1>1, <1>12, <2>2 DEF LoadRows, JobsInv
  <2>4. \A i \in DOMAIN turns : ~SameTurn(turns[i], t)
    BY <1>4, <2>2, <2>3 DEF SameTurn
  <2>5. \A m \in Job : call'[m] = IF m = j THEN "done" ELSE call[m]
    BY <1>1, <1>12 DEF LoadRows
  <2>6. /\ \A m \in Job : m # j => batch'[m] = batch[m]
        /\ batch'[j].todo = {} /\ batch'[j].active = {}
    <3>1. CASE batch' = batch
      BY <1>3, <2>3, <3>1
    <3>2. CASE batch' = [batch EXCEPT ![j].rows = Rows]
      BY <1>1, <1>3, <2>2, <2>3, <3>2
    <3> QED BY <1>12, <3>1, <3>2 DEF LoadRows
  <2>7. (\A m \in Job : Waiting(m) => WaitingNext(m)) /\ WaitingNext(j)
    BY <1>1, <2>5, <2>6
  <2>8. turns' = turns \/ turns' = Append(turns, t)
    BY <1>12, <2>1 DEF LoadRows
  <2> HIDE DEF Waiting, WaitingNext
  <2> QED BY <1>6, <1>7, <2>2, <2>4, <2>7, <2>8
<1>13. CASE RunBackground
  <2>1. /\ turns # <<>> /\ Head(turns) = turns[1] /\ 1 \in DOMAIN turns
        /\ turns[1] \in Turn /\ turns[1].kind = "background"
    BY <1>1, <1>13, TailFacts DEF RunBackground, TurnOf
  <2>2. PICK t \in Turn : t = [Head(turns) EXCEPT !.kind = "batch"]
    BY <2>1 DEF Turn
  <2>3. t.kind = "batch" /\ t.by = turns[1].by
    BY <2>1, <2>2 DEF Turn
  <2>4. PICK z : z = turns'
    OBVIOUS
  <2>5. z = Tail(turns) \o <<t>> /\ <<t>> \in Seq(Turn) /\ Len(<<t>>) = 1
        /\ <<t>>[1] = t /\ DOMAIN <<t>> = {1}
    <3>1. Tail(turns) \in Seq(Turn)
      BY <1>1, <2>1
    <3>2. z = Append(Tail(turns), t)
      BY <1>13, <2>2, <2>4 DEF RunBackground
    <3> QED BY <3>1, <3>2
  <2>6. /\ z \in Seq(Turn)
        /\ \A n \in DOMAIN z :
              \/ n + 1 \in DOMAIN turns /\ z[n] = turns[n + 1]
              \/ /\ n - (Len(turns) - 1) \in DOMAIN <<t>>
                 /\ z[n] = <<t>>[n - (Len(turns) - 1)]
    BY <1>1, <2>1, <2>5, LineMoves
  <2>7. DOMAIN z \subseteq Nat \ {0} /\ Len(turns) \in Nat
    BY <1>1, <2>6
  <2>8. \A n \in DOMAIN z : \/ n + 1 \in DOMAIN turns /\ z[n] = turns[n + 1]
                            \/ n = Len(turns) /\ z[n] = t
    <3> SUFFICES ASSUME NEW n \in DOMAIN z, n - (Len(turns) - 1) = 1
                 PROVE  n = Len(turns)
      BY <2>5, <2>6
    <3> QED BY <2>7
  <2>9. \A i \in DOMAIN turns : i > 1 => ~SameTurn(turns[i], t)
    <3> SUFFICES ASSUME NEW i \in DOMAIN turns, i > 1, SameTurn(turns[i], t)
                 PROVE  FALSE
      OBVIOUS
    <3>1. SameTurn(turns[i], turns[1])
      BY <2>1, <2>3 DEF SameTurn
    <3> QED BY <1>5, <2>1, <3>1
  <2>10. \A i, n \in DOMAIN z : SameTurn(z[i], z[n]) => i = n
    <3>1. Follows(z, turns, 1, Len(turns), t)
      BY <1>1, <2>7, <2>8 DEF Follows
    <3> QED BY <1>5, <2>9, <3>1, OneTurnEach
  <2>11. \A n \in DOMAIN z : z[n].kind # "reset" => Waiting(z[n].by)
    BY <1>4, <2>1, <2>3, <2>8
  <2>12. UNCHANGED <<call, batch>>
    BY <1>13 DEF RunBackground
  <2> QED BY <2>4, <2>10, <2>11, <2>12 DEF TurnsInv
<1>14. CASE RunReset
  BY <1>8, <1>14 DEF RunReset, TurnOf
<1>15. CASE RunBatch
  <2>1. /\ turns # <<>> /\ Head(turns) = turns[1] /\ 1 \in DOMAIN turns
        /\ turns[1] \in Turn /\ turns[1].kind = "batch"
    BY <1>1, <1>15, TailFacts DEF RunBatch, TurnOf
  <2>2. PICK j \in Job : j = Head(turns).by
    BY <2>1 DEF Turn
  <2>3. PICK keys : /\ keys \in SUBSET Key /\ IsFiniteSet(keys) /\ Begin(j, keys)
    BY <1>1, <1>15, <2>2, KeysType DEF RunBatch, JobsInv
  <2>4. \A m \in Job : m # j => batch'[m] = batch[m]
    BY <1>1, <2>3, BeginType
  <2> QED BY <1>8, <1>15, <2>1, <2>2, <2>4 DEF RunBatch
<1>16. ASSUME NEW j \in Job, Continue(j)
       PROVE  TurnsInv'
  <2>1. batch[j].todo \in SUBSET Key /\ IsFiniteSet(batch[j].todo)
    <3>1. IsFiniteSet(KeysOf(batch[j].rows))
      BY <1>1, KeysType DEF JobsInv
    <3> QED BY <1>1, <3>1, FS_Subset DEF JobsInv
  <2>2. \A m \in Job : m # j => batch'[m] = batch[m]
    BY <1>1, <1>16, <2>1, BeginType DEF Continue
  <2> QED BY <1>6, <1>16, <2>2 DEF Continue
<1>17. ASSUME NEW j \in Job, NEW k, End(j, k), UNCHANGED <<turns, call>>
       PROVE  TurnsInv'
  <2>1. \A m \in Job : Waiting(m) => WaitingNext(m)
    BY <1>1, <1>17, EndType
  <2> QED BY <1>6, <1>17, <2>1
<1>18. ASSUME NEW op, Due(op)
       PROVE  /\ op \in Updating => Cmd.by \in Job
              /\ op \in Listing => Cmd.by \in Job /\ call[Cmd.by] = "keys"
  BY <1>1, <1>18, CmdType, CommandFields DEF CommandsInv
<1>19. CASE ServePublish
  BY <1>17, <1>18, <1>19 DEF ServePublish, Updating
<1>20. ASSUME NEW j \in Job, NEW to, call' = [call EXCEPT ![j] = to],
              call[j] # "done" \/ to = "done", UNCHANGED <<turns, batch>>
       PROVE  TurnsInv'
  <2>1. \A m \in Job : Waiting(m) => WaitingNext(m)
    BY <1>1, <1>20
  <2> QED BY <1>6, <1>20, <2>1
<1>21. CASE ServeKeys \/ ServeDrop
  <2>1. Due("keys") \/ Due("drop")
    BY <1>21 DEF ServeKeys, ServeDrop
  <2>2. Cmd.by \in Job /\ call[Cmd.by] = "keys"
    BY <1>18, <2>1 DEF Listing
  <2>3. \/ call' = call \/ call' = [call EXCEPT ![Boot] = "done"]
        \/ call' = [call EXCEPT ![Cmd.by] = "load"]
    BY <1>21 DEF ServeKeys, ServeDrop
  <2>4. UNCHANGED <<turns, batch>>
    BY <1>21 DEF ServeKeys, ServeDrop
  <2> QED BY <1>1, <1>6, <1>20, <2>2, <2>3, <2>4
<1>22. ASSUME NEW j \in Rebuilds \cup {Boot}, Rebuild(j) \/ StartUp
       PROVE  TurnsInv'
  BY <1>1, <1>20, <1>22 DEF Rebuild, StartUp
<1>23. ASSUME NEW j \in Job, LoseRows(j)
       PROVE  TurnsInv'
  BY <1>20, <1>23 DEF LoseRows
<1>24. CASE Lose
  <2>1. CASE LoseIncr \/ LoseRead \/ LosePublish
    <3>1. End(Cmd.by, Cmd.key) /\ \E op \in Updating : Due(op)
      BY <2>1 DEF LoseIncr, LoseRead, LosePublish, Updating
    <3>2. UNCHANGED <<turns, call>>
      BY <1>24, <2>1 DEF LoseIncr, LoseRead, LosePublish, Lose
    <3> QED BY <1>17, <1>18, <3>1, <3>2
  <2>2. CASE LoseReset
    BY <1>6, <1>24, <2>2 DEF Lose, LoseReset
  <2>3. CASE LoseCall
    <3>1. \E op \in Listing : Due(op)
      BY <2>3 DEF LoseCall, Listing
    <3>2. Cmd.by \in Job
      BY <1>18, <3>1
    <3> QED BY <1>20, <1>24, <2>3, <3>2 DEF Lose, LoseCall
  <2> QED BY <1>24, <2>1, <2>2, <2>3 DEF Lose
<1>25. CASE Crash
  BY <1>25 DEF Crash, TurnsInv
<1>26. CASE UNCHANGED <<turns, batch, call>>
  BY <1>6, <1>26
<1> QED
  BY <1>9, <1>10, <1>11, <1>12, <1>13, <1>14, <1>15, <1>16, <1>19, <1>21, <1>22, <1>23,
     <1>24, <1>25, <1>26
  DEF Next, Background, Request, Failure, Serve, AtRest, vars,
      ServeIncr, ServeRead, ServeDel, ServeRem, ReadAffected, DeleteWar, LoseDelete

LEMMA LineFollows ==
    ASSUME TypeOK
    PROVE  /\ sent # <<>> /\ Follow(<<>>) => Follows(sent', sent, 1, 0, Cmd)
           /\ \A c \in Command :
                 /\ sent # <<>> /\ Follow(<<c>>) => Follows(sent', sent, 1, Len(sent), c)
                 /\ sent' = Append(sent, c) => Follows(sent', sent, 0, Len(sent) + 1, c)
<1>1. DOMAIN sent \subseteq Nat \ {0}
  BY DEF TypeOK
<1>2. PICK z : z = sent'
  OBVIOUS
<1>3. ASSUME sent # <<>>, Follow(<<>>)
      PROVE  Follows(z, sent, 1, 0, Cmd)
  BY <1>1, <1>2, <1>3, Served DEF Follows
<1>4. ASSUME NEW c \in Command, sent # <<>>, Follow(<<c>>)
      PROVE  Follows(z, sent, 1, Len(sent), c)
  BY <1>1, <1>2, <1>4, ServedOne DEF Follows
<1>5. ASSUME NEW c \in Command, sent' = Append(sent, c)
      PROVE  Follows(z, sent, 0, Len(sent) + 1, c)
  <2>1. \A n \in DOMAIN z : /\ n \in Nat \ {0} /\ n + 0 = n
                            /\ \/ n \in DOMAIN sent /\ z[n] = sent[n]
                               \/ n = Len(sent) + 1 /\ z[n] = c
    BY <1>2, <1>5, SentOne
  <2> QED BY <1>1, <2>1 DEF Follows
<1> QED BY <1>2, <1>3, <1>4, <1>5

LEMMA TwinsFacts ==
    ASSUME NEW a, NEW b, Twins(a, b)
    PROVE  /\ Twins(b, a)
           /\ \A c : Twins(b, c) => Twins(a, c)
BY DEF Twins, Updating, Listing, Resetting

\* A line without twins keeps that as it moves up and grows.
LEMMA NoTwins ==
    ASSUME NEW s, NEW z, NEW d, NEW last, NEW c, Follows(z, s, d, last, c),
           \A i, n \in DOMAIN s : Twins(s[i], s[n]) => i = n,
           \A i \in DOMAIN s : i > d => ~Twins(s[i], c)
    PROVE  \A i, n \in DOMAIN z : Twins(z[i], z[n]) => i = n
<1>0. /\ d \in Nat /\ DOMAIN z \subseteq Nat \ {0} /\ DOMAIN s \subseteq Nat \ {0}
      /\ \A n \in DOMAIN z : \/ n + d \in DOMAIN s /\ z[n] = s[n + d]
                             \/ n = last /\ z[n] = c
  BY DEF Follows
<1> SUFFICES ASSUME NEW i \in DOMAIN z, NEW n \in DOMAIN z, Twins(z[i], z[n])
             PROVE  i = n
  OBVIOUS
<1>1. Twins(z[n], z[i])
  BY TwinsFacts
<1>2. /\ i \in Nat \ {0} /\ n \in Nat \ {0} /\ i + d > d /\ n + d > d
      /\ i + d = n + d => i = n
  BY <1>0
<1>3. CASE i + d \in DOMAIN s /\ z[i] = s[i + d]
  <2>1. CASE n + d \in DOMAIN s /\ z[n] = s[n + d]
    BY <1>2, <1>3, <2>1
  <2>2. CASE n = last /\ z[n] = c
    BY <1>2, <1>3, <2>2
  <2> QED BY <1>0, <2>1, <2>2
<1>4. CASE i = last /\ z[i] = c
  <2>1. CASE n + d \in DOMAIN s /\ z[n] = s[n + d]
    BY <1>1, <1>2, <1>4, <2>1
  <2>2. CASE n = last /\ z[n] = c
    BY <1>4, <2>2
  <2> QED BY <1>0, <2>1, <2>2
<1> QED BY <1>0, <1>3, <1>4

LEMMA CommandsKept ==
    ASSUME Core, [Next]_vars
    PROVE  CommandsInv'
<1>1. /\ sent \in Seq(Command) /\ DOMAIN sent \subseteq Nat \ {0}
      /\ batch \in [Job -> [rows : SUBSET Row, todo : SUBSET Key, active : SUBSET Key]]
      /\ reset \in [War -> SUBSET (Board \X Key)]
      /\ call \in [Job -> {"idle", "keys", "load", "done"}]
      /\ TypeOK /\ JobsInv /\ TurnsInv /\ CommandsInv /\ ResetsInv
      /\ War \subseteq Job /\ Rebuilds \subseteq Job /\ Boot \in Job
      /\ Rebuilds \cup {Boot} \subseteq Job
  BY JobsType DEF TypeOK, Core
<1>2. \A i \in DOMAIN sent :
         /\ sent[i] \in Command
         /\ sent[i].op \in Updating => sent[i].by \in Job /\ sent[i].key \in Key
         /\ sent[i].op \in Listing => sent[i].by \in Rebuilds \cup {Boot}
         /\ sent[i].op \in Resetting => sent[i].by \in War
  BY <1>1, CommandFields
<1> DEFINE Own(c) ==
              /\ c.op \in Updating => c.key \in batch[c.by].active
              /\ c.op \in Listing => call[c.by] = "keys"
              /\ c.op = "del" => Board \X c.keys \subseteq reset[c.by]
           OwnNext(c) ==
              /\ c.op \in Updating => c.key \in batch'[c.by].active
              /\ c.op \in Listing => call'[c.by] = "keys"
              /\ c.op = "del" => Board \X c.keys \subseteq reset'[c.by]
<1>3. /\ \A i \in DOMAIN sent : Own(sent[i])
      /\ \A i, n \in DOMAIN sent : Twins(sent[i], sent[n]) => i = n
  BY <1>1 DEF CommandsInv
<1>4. ASSUME NEW d, NEW last, NEW c, Follows(sent', sent, d, last, c),
             \A i \in DOMAIN sent : i > d => OwnNext(sent[i]) /\ ~Twins(sent[i], c),
             last # 0 => OwnNext(c)
      PROVE  CommandsInv'
  <2>1. PICK z : z = sent'
    OBVIOUS
  <2>2. Follows(z, sent, d, last, c)
    BY <1>4, <2>1
  <2>3. \A i, n \in DOMAIN z : Twins(z[i], z[n]) => i = n
    BY <1>3, <1>4, <2>2, NoTwins
  <2>4. ASSUME NEW n \in DOMAIN z
        PROVE  OwnNext(z[n])
    <3>1. /\ n \in Nat \ {0} /\ d \in Nat
          /\ \/ n + d \in DOMAIN sent /\ z[n] = sent[n + d]
             \/ n = last /\ z[n] = c
      BY <2>2 DEF Follows
    <3>2. n + d > d
      BY <3>1
    <3> HIDE DEF OwnNext
    <3> QED BY <1>4, <3>1, <3>2
  <2> QED BY <2>1, <2>3, <2>4 DEF CommandsInv
\* Serving the first command, with another of its sender to follow or none
<1>5. ASSUME NEW c, Twins(sent[1], c), sent # <<>>
      PROVE  \A i \in DOMAIN sent : i > 1 => ~Twins(sent[i], c)
  <2> SUFFICES ASSUME NEW i \in DOMAIN sent, i > 1, Twins(sent[i], c)
               PROVE  FALSE
    OBVIOUS
  <2>1. Twins(sent[i], sent[1])
    BY <1>5, TwinsFacts
  <2>2. 1 \in DOMAIN sent
    BY <1>1, <1>5, TailFacts
  <2> QED BY <1>3, <2>1, <2>2
<1>6. ASSUME NEW op, Due(op)
      PROVE  /\ Cmd = sent[1] /\ Cmd \in Command /\ Cmd.op = op /\ sent # <<>>
             /\ Twins(sent[1], Cmd)
             /\ \A i \in DOMAIN sent : i > 1 => ~Twins(sent[i], Cmd)
  <2>1. Cmd = sent[1] /\ Cmd \in Command /\ Cmd.op = op /\ sent # <<>>
    BY <1>1, <1>6, CmdType
  <2>2. Twins(sent[1], Cmd)
    BY <2>1, CommandFields DEF Twins
  <2> QED BY <1>5, <2>1, <2>2
<1>7. ASSUME NEW op, Due(op), Follow(<<>>),
             \A i \in DOMAIN sent : i > 1 => OwnNext(sent[i])
      PROVE  CommandsInv'
  <2>1. Follows(sent', sent, 1, 0, Cmd)
    BY <1>1, <1>6, <1>7, LineFollows
  <2> HIDE DEF OwnNext
  <2> QED BY <1>4, <1>6, <1>7, <2>1
<1>8. ASSUME NEW op, Due(op), NEW c \in Command, Follow(<<c>>), Twins(sent[1], c),
             \A i \in DOMAIN sent : i > 1 => OwnNext(sent[i]), OwnNext(c)
      PROVE  CommandsInv'
  <2>1. Follows(sent', sent, 1, Len(sent), c)
    BY <1>1, <1>6, <1>8, LineFollows
  <2> HIDE DEF OwnNext
  <2> QED BY <1>4, <1>5, <1>6, <1>8, <2>1
<1>9. ASSUME NEW c \in Command, sent' = Append(sent, c), UNCHANGED <<batch, reset>>,
             \A i \in DOMAIN sent : call'[sent[i].by] = call[sent[i].by],
             OwnNext(c), \A i \in DOMAIN sent : ~Twins(sent[i], c)
      PROVE  CommandsInv'
  <2>1. Follows(sent', sent, 0, Len(sent) + 1, c)
    BY <1>1, <1>9, LineFollows
  <2>2. \A i \in DOMAIN sent : OwnNext(sent[i])
    BY <1>3, <1>9
  <2> HIDE DEF OwnNext
  <2> QED BY <1>4, <1>9, <2>1, <2>2

<1>10. ASSUME sent' = sent, \A i \in DOMAIN sent : OwnNext(sent[i])
       PROVE  CommandsInv'
  BY <1>3, <1>10 DEF CommandsInv
<1>11. ASSUME NEW j \in Job, NEW keys \in SUBSET Key, IsFiniteSet(keys), Begin(j, keys),
              batch[j].active = {}, UNCHANGED <<reset, call>>
       PROVE  CommandsInv'
  <2>1. PICK next \in NextKeys(keys), t \in Seq(Command) :
           /\ Range(next) \subseteq keys
           /\ \A i, n \in DOMAIN next : next[i] = next[n] => i = n
           /\ t = [i \in DOMAIN next |-> Incr(j, next[i])]
           /\ sent' = sent \o t
           /\ batch' \in [Job -> [rows : SUBSET Row, todo : SUBSET Key,
                                  active : SUBSET Key]]
           /\ \A m \in Job : m # j => batch'[m] = batch[m]
           /\ batch'[j].rows = batch[j].rows
           /\ batch'[j].todo = keys \ Range(next)
           /\ batch'[j].active = Range(next)
    BY <1>1, <1>11, BeginType
  <2>2. PICK z : z = sent'
    OBVIOUS
  <2>3. /\ DOMAIN t = DOMAIN next /\ DOMAIN z \subseteq Nat \ {0} /\ Len(sent) \in Nat
        /\ \A n \in DOMAIN z :
              \/ n \in DOMAIN sent /\ z[n] = sent[n]
              \/ /\ n > Len(sent) /\ n - Len(sent) \in DOMAIN next
                 /\ z[n] = Incr(j, next[n - Len(sent)])
    <3>1. \A n \in DOMAIN z :
             /\ n \in Nat \ {0}
             /\ \/ n \in DOMAIN sent /\ z[n] = sent[n]
                \/ /\ n > Len(sent) /\ n - Len(sent) \in DOMAIN t
                   /\ z[n] = t[n - Len(sent)]
      BY <1>1, <2>1, <2>2, SentMore
    <3>2. DOMAIN t = DOMAIN next /\ \A i \in DOMAIN next : t[i] = Incr(j, next[i])
      BY <2>1
    <3>3. DOMAIN z \subseteq Nat \ {0} /\ Len(sent) \in Nat
      BY <1>1, <3>1
    <3> QED BY <3>1, <3>2, <3>3
  <2>4. \A i \in DOMAIN sent : /\ sent[i].op \in Updating => sent[i].by # j
                               /\ OwnNext(sent[i])
    BY <1>2, <1>3, <1>11, <2>1
  <2>5. \A i \in DOMAIN next : LET c == Incr(j, next[i])
                               IN  c.op = "incr" /\ c.by = j /\ c.key = next[i]
    BY DEF Incr
  <2>6. \A i \in DOMAIN next : OwnNext(Incr(j, next[i]))
    <3>1. \A i \in DOMAIN next : next[i] \in batch'[j].active
      BY <2>1 DEF Range
    <3> QED BY <2>5, <3>1 DEF Listing, Updating
  <2>7. ASSUME NEW n \in DOMAIN z
        PROVE  OwnNext(z[n])
    <3> HIDE DEF OwnNext
    <3> QED BY <2>3, <2>4, <2>6
  <2>8. \A i \in DOMAIN sent, n \in DOMAIN next : ~Twins(sent[i], Incr(j, next[n]))
    BY <2>4, <2>5 DEF Twins, Updating, Listing, Resetting
  <2>9. \A i, n \in DOMAIN next : Twins(Incr(j, next[i]), Incr(j, next[n])) => i = n
    BY <2>1, <2>5 DEF Twins, Listing, Resetting
  <2>10. ASSUME NEW i \in DOMAIN z, NEW n \in DOMAIN z, Twins(z[i], z[n])
         PROVE  i = n
    <3>1. Twins(z[n], z[i])
      BY <2>10, TwinsFacts
    <3>2. CASE i \in DOMAIN sent /\ z[i] = sent[i]
      <4>1. CASE n \in DOMAIN sent /\ z[n] = sent[n]
        BY <1>3, <2>10, <3>2, <4>1
      <4>2. CASE n - Len(sent) \in DOMAIN next /\ z[n] = Incr(j, next[n - Len(sent)])
        BY <2>8, <2>10, <3>2, <4>2
      <4> QED BY <2>3, <4>1, <4>2
    <3>3. CASE i - Len(sent) \in DOMAIN next /\ z[i] = Incr(j, next[i - Len(sent)])
      <4>1. CASE n \in DOMAIN sent /\ z[n] = sent[n]
        BY <2>8, <3>1, <3>3, <4>1
      <4>2. CASE n - Len(sent) \in DOMAIN next /\ z[n] = Incr(j, next[n - Len(sent)])
        <5>1. i - Len(sent) = n - Len(sent)
          BY <2>9, <2>10, <3>3, <4>2
        <5> QED BY <2>3, <5>1
      <4> QED BY <2>3, <4>1, <4>2
    <3> QED BY <2>3, <3>2, <3>3
  <2> QED BY <2>2, <2>7, <2>10 DEF CommandsInv
\* The sender of an update or a call is done with it after its last command.
<1>12. ASSUME NEW j \in Job, NEW k, End(j, k), UNCHANGED <<reset, call>>,
              sent # <<>>, Cmd = sent[1], Cmd.op \in Updating, Cmd.by = j, Cmd.key = k,
              \A i \in DOMAIN sent : i > 1 => ~Twins(sent[i], Cmd)
       PROVE  \A i \in DOMAIN sent : i > 1 => OwnNext(sent[i])
  <2>1. \A m \in Job : \A l \in batch[m].active : m # j \/ l # k => l \in batch'[m].active
    BY <1>1, <1>12, EndType
  <2>2. ASSUME NEW i \in DOMAIN sent, i > 1, sent[i].op \in Updating
        PROVE  sent[i].key \in batch'[sent[i].by].active
    <3>1. sent[i].by # j \/ sent[i].key # k
      BY <1>12, <2>2 DEF Twins
    <3> QED BY <1>2, <1>3, <2>1, <2>2, <3>1
  <2> QED BY <1>3, <1>12, <2>2
<1>13. ASSUME NEW to, UNCHANGED <<reset, batch>>, call' = [call EXCEPT ![Cmd.by] = to],
              sent # <<>>, Cmd = sent[1], Cmd.op \in Listing,
              \A i \in DOMAIN sent : i > 1 => ~Twins(sent[i], Cmd)
       PROVE  \A i \in DOMAIN sent : i > 1 => OwnNext(sent[i])
  <2>1. \A m \in Job : m # Cmd.by => call'[m] = call[m]
    BY <1>1, <1>13
  <2>2. ASSUME NEW i \in DOMAIN sent, i > 1, sent[i].op \in Listing
        PROVE  call'[sent[i].by] = "keys"
    <3>1. sent[i].by # Cmd.by
      BY <1>13, <2>2 DEF Twins
    <3> QED BY <1>1, <1>2, <1>3, <2>1, <2>2, <3>1
  <2> QED BY <1>3, <1>13, <2>2
<1>14. ASSUME NEW w \in War, NEW left, UNCHANGED <<call, batch>>,
              reset' = [reset EXCEPT ![w] = left],
              sent # <<>>, Cmd = sent[1], Cmd.op \in Resetting, Cmd.by = w,
              \A i \in DOMAIN sent : i > 1 => ~Twins(sent[i], Cmd)
       PROVE  \A i \in DOMAIN sent : i > 1 => OwnNext(sent[i])
  <2>1. \A v \in War : v # w => reset'[v] = reset[v]
    BY <1>1, <1>14
  <2>2. ASSUME NEW i \in DOMAIN sent, i > 1, sent[i].op = "del"
        PROVE  Board \X sent[i].keys \subseteq reset'[sent[i].by]
    <3>1. sent[i].op \in Resetting
      BY <2>2 DEF Resetting
    <3>2. sent[i].by # w
      BY <1>14, <2>2, <3>1 DEF Twins
    <3> QED BY <1>2, <1>3, <2>1, <2>2, <3>1, <3>2
  <2> QED BY <1>3, <1>14, <2>2
<1>15. ASSUME NEW w \in War, NEW left \in SUBSET (Board \X Key), NextRem(w, left),
              NEW op, Due(op), Cmd.op \in Resetting, Cmd.by = w,
              \A i \in DOMAIN sent : i > 1 => OwnNext(sent[i])
       PROVE  CommandsInv'
  <2>1. CASE Follow(<<>>)
    <3> HIDE DEF OwnNext
    <3> QED BY <1>7, <1>15, <2>1
  <2>2. CASE \E p \in left : Rem(w, p[1], p[2]) \in Command /\ Follow(<<Rem(w, p[1], p[2])>>)
    <3>1. PICK c \in Command : Follow(<<c>>) /\ c.op = "rem" /\ c.by = w
      BY <2>2 DEF Rem
    <3>2. Twins(sent[1], c) /\ OwnNext(c)
      BY <1>6, <1>15, <3>1 DEF Twins, Updating, Listing, Resetting
    <3> HIDE DEF OwnNext
    <3> QED BY <1>8, <1>15, <3>1, <3>2
  <2> QED BY <1>1, <1>15, <2>1, <2>2, NextRemType

<1>16. ASSUME NEW w \in War, Upload(w)
       PROVE  CommandsInv'
  <2>1. call[w] = "idle"
    BY <1>1, <1>16 DEF Upload, JobsInv
  <2>2. \A m \in Job : call[m] = "keys" => call'[m] = "keys"
    BY <1>1, <1>16, <2>1 DEF Upload
  <2>3. \A i \in DOMAIN sent : OwnNext(sent[i])
    BY <1>1, <1>2, <1>3, <1>16, <2>2 DEF Upload
  <2> QED BY <1>10, <1>16, <2>3 DEF Upload
<1>17. ASSUME NEW j \in Job, call[j] = "load", call' = [call EXCEPT ![j] = "done"],
              \A m \in Job : m # j => batch'[m] = batch[m],
              UNCHANGED <<sent, reset>>
       PROVE  CommandsInv'
  <2>1. \A m \in Job : call[m] = "keys" => call'[m] = "keys"
    BY <1>1, <1>17
  <2>2. batch[j].active = {}
    BY <1>1, <1>17 DEF JobsInv, Idle
  <2>3. \A m \in Job : \A k \in batch[m].active : k \in batch'[m].active
    BY <1>1, <1>17, <2>2
  <2>4. \A i \in DOMAIN sent : OwnNext(sent[i])
    BY <1>1, <1>2, <1>3, <1>17, <2>1, <2>3
  <2> QED BY <1>10, <1>17, <2>4
<1>18. ASSUME NEW w \in War, Announce(w)
       PROVE  CommandsInv'
  <2>1. \A m \in Job : m # w => batch'[m] = batch[m]
    BY <1>1, <1>18 DEF Announce
  <2> QED BY <1>1, <1>17, <1>18, <2>1 DEF Announce
<1>19. ASSUME NEW j \in Rebuilds \cup {Boot}, LoadRows(j)
       PROVE  CommandsInv'
  <2>1. \A m \in Job : m # j => batch'[m] = batch[m]
    BY <1>1, <1>19 DEF LoadRows
  <2> QED BY <1>1, <1>17, <1>19, <2>1 DEF LoadRows
<1>20. ASSUME NEW j \in Job, LoseRows(j)
       PROVE  CommandsInv'
  BY <1>17, <1>20 DEF LoseRows
<1>21. ASSUME NEW w \in War, QueueReset(w)
       PROVE  CommandsInv'
  <2>1. \A i \in DOMAIN sent : sent[i].op \in Resetting => sent[i].by # w
    BY <1>1, <1>21 DEF QueueReset, ResetsInv
  <2>2. \A v \in War : v # w => reset'[v] = reset[v]
    BY <1>1, <1>21 DEF QueueReset
  <2>3. \A i \in DOMAIN sent : OwnNext(sent[i])
    BY <1>2, <1>3, <1>21, <2>1, <2>2 DEF QueueReset, Resetting
  <2> QED BY <1>10, <1>21, <2>3 DEF QueueReset
<1>22. ASSUME NEW j \in Rebuilds \cup {Boot}, call[j] = "idle", sent' = Append(sent, ListKeys(j)),
              call' = [call EXCEPT ![j] = "keys"], UNCHANGED <<batch, reset>>
       PROVE  CommandsInv'
  <2>1. PICK c \in Command : c = ListKeys(j)
    BY JobsType
  <2>2. c.op = "keys" /\ c.by = j /\ call'[j] = "keys" /\ j \notin War
    BY <1>1, <1>22, <2>1, JobsType DEF ListKeys
  <2>3. batch[j].active = {}
    BY <1>1, <1>22 DEF JobsInv, Idle
  <2>4. \A i \in DOMAIN sent : sent[i].by # j
    BY <1>2, <1>3, <1>22, <2>2, <2>3, CommandFields
  <2>5. \A i \in DOMAIN sent : call'[sent[i].by] = call[sent[i].by]
    BY <1>1, <1>2, <1>22, <2>4, CommandFields
  <2>6. \A i \in DOMAIN sent : ~Twins(sent[i], c)
    BY <2>2, <2>4 DEF Twins
  <2>7. OwnNext(c)
    BY <2>2 DEF Updating
  <2> HIDE DEF OwnNext
  <2> QED BY <1>9, <1>22, <2>1, <2>5, <2>6, <2>7
<1>23. CASE RunBatch
  <2>1. /\ Head(turns) = turns[1] /\ 1 \in DOMAIN turns /\ turns[1] \in Turn
        /\ turns[1].kind = "batch"
    BY <1>1, <1>23, TailFacts DEF RunBatch, TurnOf, TypeOK
  <2>2. PICK j \in Job : j = Head(turns).by
    BY <2>1 DEF Turn
  <2>3. batch[j].active = {}
    BY <1>1, <2>1, <2>2 DEF TurnsInv
  <2>4. PICK keys : keys \in SUBSET Key /\ IsFiniteSet(keys) /\ Begin(j, keys)
    BY <1>1, <1>23, <2>2, KeysType DEF RunBatch, JobsInv
  <2> QED BY <1>11, <1>23, <2>3, <2>4 DEF RunBatch
<1>24. ASSUME NEW j \in Job, Continue(j)
       PROVE  CommandsInv'
  <2>1. batch[j].todo \in SUBSET Key /\ IsFiniteSet(batch[j].todo)
    <3>1. IsFiniteSet(KeysOf(batch[j].rows))
      BY <1>1, KeysType DEF JobsInv
    <3> QED BY <1>1, <3>1, FS_Subset DEF JobsInv
  <2> QED BY <1>11, <1>24, <2>1 DEF Continue
<1>25. CASE RunReset
  <2>1. /\ Head(turns) = turns[1] /\ 1 \in DOMAIN turns /\ turns[1].kind = "reset"
    BY <1>1, <1>25, TailFacts DEF RunReset, TurnOf, TypeOK
  <2>2. PICK w \in War : /\ w = Head(turns).by
                         /\ reset[w] = Board \X {p[2] : p \in reset[w]}
                         /\ \A n \in DOMAIN sent : sent[n].op \in Resetting => sent[n].by # w
    BY <1>1, <2>1 DEF ResetsInv
  <2>3. PICK ks \in SUBSET Key : ks = {p[2] : p \in reset[w]}
    <3>1. {p[2] : p \in reset[w]} \in SUBSET Key
      BY <1>1
    <3> QED BY <3>1
  <2>4. PICK c \in Command : c = Del(w, ks)
    BY JobsType
  <2>5. sent' = Append(sent, c) /\ c.op = "del" /\ c.by = w /\ c.keys = ks
    BY <1>25, <2>2, <2>3, <2>4 DEF RunReset, Del
  <2>6. \A i \in DOMAIN sent : ~Twins(sent[i], c)
    BY <2>2, <2>5 DEF Twins, Updating, Listing, Resetting
  <2>7. UNCHANGED <<batch, reset, call>>
    BY <1>25 DEF RunReset
  <2>8. OwnNext(c)
    BY <2>2, <2>3, <2>5, <2>7 DEF Updating, Listing
  <2> HIDE DEF OwnNext
  <2> QED BY <1>9, <2>5, <2>6, <2>7, <2>8
<1>26. CASE ServeIncr
  <2>1. Due("incr")
    BY <1>26 DEF ServeIncr
  <2>2. Cmd.by \in Job /\ Cmd.key \in Key /\ Cmd.key \in batch[Cmd.by].active /\ 1 \in DOMAIN sent
    BY <1>1, <1>2, <1>3, <1>6, <2>1, CmdType DEF Updating
  <2>3. PICK c \in Command : c = Read(Cmd.by, Cmd.key)
    BY <2>2, JobsType
  <2>4. Twins(sent[1], c) /\ OwnNext(c)
    BY <1>6, <1>26, <2>1, <2>2, <2>3 DEF Read, Twins, Updating, Listing, Resetting, ServeIncr
  <2>5. \A i \in DOMAIN sent : OwnNext(sent[i])
    BY <1>3, <1>26 DEF ServeIncr
  <2>6. Follow(<<c>>)
    BY <1>26, <2>3 DEF ServeIncr
  <2> HIDE DEF OwnNext
  <2> QED BY <1>8, <2>1, <2>4, <2>5, <2>6
<1>27. CASE ServeRead
  <2>1. Due("read")
    BY <1>27 DEF ServeRead
  <2>2. Cmd.by \in Job /\ Cmd.key \in Key /\ Cmd.key \in batch[Cmd.by].active /\ 1 \in DOMAIN sent
    BY <1>1, <1>2, <1>3, <1>6, <2>1, CmdType DEF Updating
  <2>3. PICK c \in Command : c = Publish(Cmd.by, Cmd.key, Averages(stats[Cmd.key]))
    <3>1. stats[Cmd.key] \in Tally
      BY <1>1, <2>2 DEF TypeOK
    <3> QED BY <2>2, <3>1, JobsType, RecordsType
  <2>4. Twins(sent[1], c) /\ OwnNext(c)
    BY <1>6, <1>27, <2>1, <2>2, <2>3
    DEF Publish, Twins, Updating, Listing, Resetting, ServeRead
  <2>5. \A i \in DOMAIN sent : OwnNext(sent[i])
    BY <1>3, <1>27 DEF ServeRead
  <2>6. Follow(<<c>>)
    BY <1>27, <2>3 DEF ServeRead
  <2> HIDE DEF OwnNext
  <2> QED BY <1>8, <2>1, <2>4, <2>5, <2>6
<1>28. ASSUME NEW op \in Updating, Due(op), End(Cmd.by, Cmd.key), Follow(<<>>),
              UNCHANGED <<reset, call>>
       PROVE  CommandsInv'
  <2>1. Cmd.by \in Job
    BY <1>6, <1>28, CommandFields
  <2>2. \A i \in DOMAIN sent : i > 1 => OwnNext(sent[i])
    <3> HIDE DEF OwnNext
    <3> QED BY <1>6, <1>12, <1>28, <2>1
  <2> HIDE DEF OwnNext
  <2> QED BY <1>7, <1>28, <2>2
<1>29. CASE ServePublish
  BY <1>28, <1>29 DEF ServePublish, Updating
<1>30. CASE ServeDel
  <2>1. Due("del")
    BY <1>30 DEF ServeDel
  <2>2. Cmd.by \in War /\ Cmd.op \in Resetting
    BY <1>6, <2>1, CommandFields DEF Resetting
  <2>3. PICK w \in War, left \in SUBSET (Board \X Key) : w = Cmd.by /\ left = reset[w]
    BY <1>1, <2>2
  <2>4. NextRem(w, left)
    BY <1>30, <2>3 DEF ServeDel
  <2>5. \A i \in DOMAIN sent : OwnNext(sent[i])
    BY <1>3, <1>30 DEF ServeDel
  <2> HIDE DEF OwnNext
  <2> QED BY <1>15, <2>1, <2>2, <2>3, <2>4, <2>5
<1>31. CASE ServeRem
  <2>1. Due("rem")
    BY <1>31 DEF ServeRem
  <2>2. Cmd.by \in War /\ Cmd.op \in Resetting
    BY <1>6, <2>1, CommandFields DEF Resetting
  <2>3. PICK w \in War, left \in SUBSET (Board \X Key) :
           w = Cmd.by /\ left = reset[w] \ {<<Cmd.board, Cmd.key>>}
    BY <1>1, <2>2
  <2>4. NextRem(w, left) /\ reset' = [reset EXCEPT ![w] = left] /\ UNCHANGED <<call, batch>>
    BY <1>31, <2>3 DEF ServeRem
  <2>5. \A i \in DOMAIN sent : i > 1 => OwnNext(sent[i])
    <3> HIDE DEF OwnNext
    <3> QED BY <1>6, <1>14, <2>1, <2>2, <2>3, <2>4
  <2> HIDE DEF OwnNext
  <2> QED BY <1>15, <2>1, <2>2, <2>3, <2>4, <2>5
<1>32. CASE ServeKeys
  <2>1. Due("keys") /\ UNCHANGED <<batch, reset>>
    BY <1>32 DEF ServeKeys
  <2>2. Cmd.by \in Rebuilds \cup {Boot} /\ Cmd.op \in Listing
    BY <1>6, <2>1, CommandFields DEF Listing
  <2>3. CASE Follow(<<>>) /\ \E to : call' = [call EXCEPT ![Cmd.by] = to]
    <3>1. \A i \in DOMAIN sent : i > 1 => OwnNext(sent[i])
      <4> HIDE DEF OwnNext
      <4> QED BY <1>6, <1>13, <2>1, <2>2, <2>3
    <3> HIDE DEF OwnNext
    <3> QED BY <1>7, <2>1, <2>3, <3>1
  <2>4. CASE Cmd.by # Boot /\ Follow(<<Drop(Cmd.by, Found)>>) /\ UNCHANGED call
    <3>1. PICK c \in Command : c = Drop(Cmd.by, Found)
      BY <2>2, <2>4, JobsType DEF Found
    <3>2. c.op = "drop" /\ c.by = Cmd.by
      BY <3>1 DEF Drop
    <3>3. \A i \in DOMAIN sent : OwnNext(sent[i])
      BY <1>3, <2>1, <2>4
    <3>4. 1 \in DOMAIN sent /\ call[Cmd.by] = "keys"
      BY <1>1, <1>3, <1>6, <2>1, <2>2, CmdType
    <3>5. Twins(sent[1], c) /\ OwnNext(c)
      BY <1>6, <2>1, <2>2, <2>4, <3>2, <3>4 DEF Twins, Updating, Listing, Resetting
    <3>6. Follow(<<c>>)
      BY <2>4, <3>1
    <3> HIDE DEF OwnNext
    <3> QED BY <1>8, <2>1, <3>3, <3>5, <3>6
  <2> QED BY <1>32, <2>3, <2>4 DEF ServeKeys
<1>33. CASE ServeDrop
  <2>1. Due("drop") /\ UNCHANGED <<batch, reset>> /\ Follow(<<>>)
        /\ call' = [call EXCEPT ![Cmd.by] = "load"]
    BY <1>33 DEF ServeDrop
  <2>2. Cmd.op \in Listing
    BY <1>6, <2>1 DEF Listing
  <2>3. \A i \in DOMAIN sent : i > 1 => OwnNext(sent[i])
    <3> HIDE DEF OwnNext
    <3> QED BY <1>6, <1>13, <2>1, <2>2
  <2> HIDE DEF OwnNext
  <2> QED BY <1>7, <2>1, <2>3
<1>34. CASE Lose
  <2>1. Follow(<<>>)
    BY <1>34 DEF Lose
  <2>2. CASE LoseIncr \/ LoseRead \/ LosePublish
    <3>1. End(Cmd.by, Cmd.key) /\ (\E op \in Updating : Due(op)) /\ UNCHANGED <<reset, call>>
      BY <2>2 DEF LoseIncr, LoseRead, LosePublish, Updating
    <3> QED BY <1>28, <2>1, <3>1
  <2>3. CASE LoseReset
    <3>1. PICK op \in Resetting : Due(op)
      BY <2>3 DEF LoseReset, Resetting
    <3>2. Cmd.by \in War /\ Cmd.op \in Resetting
      BY <1>6, <3>1, CommandFields
    <3>3. UNCHANGED <<batch, call>> /\ reset' = [reset EXCEPT ![Cmd.by] = {}]
      BY <2>3 DEF LoseReset
    <3>4. \A i \in DOMAIN sent : i > 1 => OwnNext(sent[i])
      <4> HIDE DEF OwnNext
      <4> QED BY <1>6, <1>14, <3>1, <3>2, <3>3
    <3> HIDE DEF OwnNext
    <3> QED BY <1>7, <2>1, <3>1, <3>4
  <2>4. CASE LoseCall
    <3>1. PICK op \in Listing : Due(op)
      BY <2>4 DEF LoseCall, Listing
    <3>2. Cmd.op \in Listing
      BY <1>6, <3>1
    <3>3. UNCHANGED <<reset, batch>> /\ call' = [call EXCEPT ![Cmd.by] = "done"]
      BY <2>4 DEF LoseCall
    <3>4. \A i \in DOMAIN sent : i > 1 => OwnNext(sent[i])
      <4> HIDE DEF OwnNext
      <4> QED BY <1>6, <1>13, <3>1, <3>2, <3>3
    <3> HIDE DEF OwnNext
    <3> QED BY <1>7, <2>1, <3>1, <3>4
  <2> QED BY <1>34, <2>2, <2>3, <2>4 DEF Lose
<1>35. CASE Crash
  BY <1>35 DEF Crash, CommandsInv
<1>36. CASE UNCHANGED <<sent, batch, reset, call>>
  BY <1>1, <1>36 DEF CommandsInv
<1>37. ASSUME NEW j \in Rebuilds \cup {Boot}, Rebuild(j) \/ StartUp
       PROVE  CommandsInv'
  BY <1>22, <1>37 DEF Rebuild, StartUp
<1> QED
  BY <1>16, <1>18, <1>19, <1>20, <1>21, <1>23, <1>24, <1>25, <1>26, <1>27, <1>29, <1>30,
     <1>31, <1>32, <1>33, <1>34, <1>35, <1>36, <1>37
  DEF Next, Background, Request, Failure, Serve, AtRest, vars, RunBackground,
      ReadAffected, DeleteWar, LoseDelete

LEMMA GoneGrows ==
    ASSUME Core, [Next]_vars
    PROVE  /\ \A w \in War : war[w] = "rolledback" => war'[w] = "rolledback"
           /\ Gone \subseteq Gone'
<1>1. war \in [War -> {"new", "stored", "rolledback"}]
  BY DEF Core, TypeOK
<1>2. \/ war' = war
      \/ \E w \in War : war[w] = "new" /\ \E to : war' = [war EXCEPT ![w] = to]
      \/ \E w \in War : DeleteWar(w)
  BY DEF Next, Background, Request, Failure, Serve, AtRest, vars, StartUp, RunBackground,
     RunBatch, RunReset, Announce, LoadRows, Continue, Upload, ReadAffected, QueueReset,
     Rebuild, Lose, Crash, LoseRows, LoseDelete, ServeIncr, ServeRead, ServePublish,
     ServeDel, ServeRem, ServeKeys, ServeDrop
<1>3. \A w \in War : war[w] = "rolledback" => war'[w] = "rolledback"
  BY <1>1, <1>2 DEF DeleteWar
<1> QED BY <1>3 DEF Gone

LEMMA ResetsKept ==
    ASSUME Core, [Next]_vars
    PROVE  ResetsInv'
<1>1. /\ sent \in Seq(Command) /\ turns \in Seq(Turn)
      /\ war \in [War -> {"new", "stored", "rolledback"}]
      /\ reset \in [War -> SUBSET (Board \X Key)]
      /\ TypeOK /\ JobsInv /\ TurnsInv /\ CommandsInv /\ ResetsInv
  BY DEF TypeOK, Core
<1>2. /\ \A w \in War : war[w] = "rolledback" => war'[w] = "rolledback"
      /\ Gone \subseteq Gone'
      /\ \A w \in War : undo[w].at = "idle" /\ war[w] = "rolledback" => undo'[w].at = "idle"
      /\ \A w \in War : \A k \in undo'[w].keys : k.player \in PlayersOf(w)
      /\ \A w \in War : undo'[w].at = "queue" => war'[w] = "rolledback"
  BY GoneGrows, UndoKept
<1> DEFINE Sends(w) == \E i \in DOMAIN sent : sent[i].op \in Resetting /\ sent[i].by = w
           SendsNext(w) == \E i \in DOMAIN sent' : sent'[i].op \in Resetting /\ sent'[i].by = w
           Turned(w) == \E i \in DOMAIN turns : turns[i].kind = "reset" /\ turns[i].by = w
           TurnedNext(w) ==
              \E i \in DOMAIN turns' : turns'[i].kind = "reset" /\ turns'[i].by = w
\* The invariant, war by war
<1>3. /\ \A w \in War : \A p \in reset[w] : p[2].player \in Gone
      /\ \A w : Turned(w) => /\ w \in War /\ undo[w].at = "idle" /\ war[w] = "rolledback"
                             /\ reset[w] = Board \X {p[2] : p \in reset[w]} /\ ~Sends(w)
      /\ \A w : Sends(w) => w \in War /\ undo[w].at = "idle" /\ war[w] = "rolledback"
  BY <1>1, CommandFields DEF ResetsInv
<1>4. ASSUME \A w \in War : \A p \in reset'[w] : p[2].player \in Gone',
             \A w : TurnedNext(w) =>
                /\ w \in War /\ undo'[w].at = "idle" /\ war'[w] = "rolledback"
                /\ reset'[w] = Board \X {p[2] : p \in reset'[w]} /\ ~SendsNext(w),
             \A w : SendsNext(w) =>
                w \in War /\ undo'[w].at = "idle" /\ war'[w] = "rolledback"
      PROVE  ResetsInv'
  BY <1>2, <1>4 DEF ResetsInv
\* The other steps begin no reset.
<1>5. ASSUME \A w : TurnedNext(w) => Turned(w), \A w : SendsNext(w) => Sends(w),
             \A w \in War : \/ reset'[w] = reset[w]
                            \/ Sends(w) /\ reset'[w] \subseteq reset[w]
      PROVE  ResetsInv'
  <2>1. \A w \in War : \A p \in reset'[w] : p[2].player \in Gone'
    BY <1>2, <1>3, <1>5
  <2>2. ASSUME NEW w, TurnedNext(w)
        PROVE  /\ w \in War /\ undo'[w].at = "idle" /\ war'[w] = "rolledback"
               /\ reset'[w] = Board \X {p[2] : p \in reset'[w]} /\ ~SendsNext(w)
    <3>1. /\ w \in War /\ undo[w].at = "idle" /\ war[w] = "rolledback" /\ ~Sends(w)
          /\ reset[w] = Board \X {p[2] : p \in reset[w]}
      BY <1>3, <1>5, <2>2
    <3>2. reset'[w] = reset[w]
      BY <1>5, <3>1
    <3> QED BY <1>2, <1>5, <3>1, <3>2
  <2> HIDE DEF Sends, SendsNext, Turned, TurnedNext
  <2> QED BY <1>2, <1>3, <1>4, <1>5, <2>1, <2>2
\* Where the reset turns and commands of the next state come from
<1>6. ASSUME NEW op, Due(op)
      PROVE  /\ Follow(<<>>) => \A w : SendsNext(w) => Sends(w)
             /\ \A c \in Command : Follow(<<c>>) =>
                   \A w : SendsNext(w) => Sends(w) \/ (c.op \in Resetting /\ w = c.by)
             /\ op \in Resetting => Sends(Cmd.by) /\ Cmd.by \in War
  <2>1. Cmd = sent[1] /\ Cmd \in Command /\ Cmd.op = op /\ sent # <<>> /\ 1 \in DOMAIN sent
    BY <1>1, <1>6, CmdType
  <2>2. ASSUME Follow(<<>>)
        PROVE  \A w : SendsNext(w) => Sends(w)
    BY <1>1, <2>1, <2>2, Served
  <2>3. ASSUME NEW c \in Command, Follow(<<c>>)
        PROVE  \A w : SendsNext(w) => Sends(w) \/ (c.op \in Resetting /\ w = c.by)
    BY <1>1, <2>1, <2>3, ServedOne
  <2> QED BY <2>1, <2>2, <2>3, CommandFields
<1>7. ASSUME NEW c \in Command, sent' = Append(sent, c)
      PROVE  \A w : SendsNext(w) => Sends(w) \/ (c.op \in Resetting /\ w = c.by)
  BY <1>1, <1>7, SentOne
<1>8. ASSUME NEW t \in Turn, turns' = Append(turns, t)
      PROVE  \A w : TurnedNext(w) => Turned(w) \/ (t.kind = "reset" /\ w = t.by)
  BY <1>1, <1>8, TurnsGrow
<1>9. ASSUME turns # <<>>, turns' = Tail(turns)
      PROVE  \A w : TurnedNext(w) => Turned(w)
  BY <1>1, <1>9, TurnsMove
<1>10. ASSUME NEW j \in Job, NEW keys \in SUBSET Key, IsFiniteSet(keys), Begin(j, keys)
       PROVE  \A w : SendsNext(w) => Sends(w)
  <2>1. PICK next \in NextKeys(keys), t \in Seq(Command) :
           /\ Range(next) \subseteq keys
           /\ \A i, n \in DOMAIN next : next[i] = next[n] => i = n
           /\ t = [i \in DOMAIN next |-> Incr(j, next[i])]
           /\ sent' = sent \o t
           /\ batch' \in [Job -> [rows : SUBSET Row, todo : SUBSET Key,
                                  active : SUBSET Key]]
           /\ \A m \in Job : m # j => batch'[m] = batch[m]
           /\ batch'[j].rows = batch[j].rows
           /\ batch'[j].todo = keys \ Range(next)
           /\ batch'[j].active = Range(next)
    BY <1>1, <1>10, BeginType
  <2>2. \A i \in DOMAIN t : t[i].op \notin Resetting
    BY <2>1 DEF Incr, Resetting
  <2>3. \A n \in DOMAIN sent' : \/ n \in DOMAIN sent /\ sent'[n] = sent[n]
                                \/ /\ n > Len(sent) /\ n - Len(sent) \in DOMAIN t
                                   /\ sent'[n] = t[n - Len(sent)]
    BY <1>1, <2>1, SentMore
  <2> QED BY <2>2, <2>3
<1> HIDE DEF Sends, SendsNext, Turned, TurnedNext
<1>11. /\ sent' = sent => \A w : SendsNext(w) => Sends(w)
       /\ turns' = turns => \A w : TurnedNext(w) => Turned(w)
  BY DEF Sends, SendsNext, Turned, TurnedNext
<1>12. ASSUME NEW w \in War, QueueReset(w)
       PROVE  ResetsInv'
  <2>1. PICK t \in Turn : t = [kind |-> "reset", by |-> w]
    BY JobsType DEF Turn
  <2>2. \A v : TurnedNext(v) => Turned(v) \/ v = w
    BY <1>8, <1>11, <1>12, <2>1 DEF QueueReset
  <2>3. \A v : SendsNext(v) => Sends(v)
    BY <1>11, <1>12 DEF QueueReset
  <2>4. PICK ks \in SUBSET Key : ks = undo[w].keys
    BY <1>1 DEF TypeOK
  <2>5. /\ reset'[w] = Board \X ks
        /\ \A v \in War : v # w => reset'[v] = reset[v]
        /\ war'[w] = "rolledback" /\ undo'[w].at = "idle"
    BY <1>1, <1>12, <2>4 DEF QueueReset, ResetsInv, TypeOK
  <2>6. ks = {p[2] : p \in Board \X ks}
    <3>1. 1 \in Board
      BY BoundsAssumption DEF Board
    <3>2. ASSUME NEW k \in ks
          PROVE  k \in {p[2] : p \in Board \X ks}
      <4>1. <<1, k>> \in Board \X ks /\ <<1, k>>[2] = k
        BY <3>1
      <4> QED BY <4>1
    <3> QED BY <3>2
  <2>7. \A k \in ks : k.player \in Gone'
    BY <1>1, <2>4, <2>5 DEF Gone, ResetsInv
  <2>8. \A v \in War : \A p \in reset'[v] : p[2].player \in Gone'
    BY <1>2, <1>3, <2>5, <2>7
  <2>9. ~Sends(w)
    BY <1>3, <1>12 DEF QueueReset
  <2>10. ASSUME NEW v, TurnedNext(v)
         PROVE  /\ v \in War /\ undo'[v].at = "idle" /\ war'[v] = "rolledback"
                /\ reset'[v] = Board \X {p[2] : p \in reset'[v]} /\ ~SendsNext(v)
    <3>1. CASE v = w
      BY <2>3, <2>5, <2>6, <2>9, <3>1
    <3>2. CASE v # w
      BY <1>2, <1>3, <2>2, <2>3, <2>5, <2>10, <3>2
    <3> QED BY <3>1, <3>2
  <2> QED BY <1>2, <1>3, <1>4, <2>3, <2>8, <2>10
<1>13. CASE RunReset
  <2>1. /\ turns # <<>> /\ Head(turns) = turns[1] /\ 1 \in DOMAIN turns
        /\ turns[1].kind = "reset"
    BY <1>1, <1>13, TailFacts DEF RunReset, TurnOf
  <2>2. PICK w : w = Head(turns).by
    OBVIOUS
  <2>3. Turned(w) /\ w \in War /\ undo[w].at = "idle" /\ war[w] = "rolledback"
    BY <1>3, <2>1, <2>2 DEF Turned
  <2>4. {p[2] : p \in reset[w]} \in SUBSET Key
    BY <1>1, <2>3
  <2>5. PICK c \in Command : c = Del(w, {p[2] : p \in reset[w]})
    BY <2>3, <2>4, JobsType
  <2>6. sent' = Append(sent, c) /\ c.by = w
    BY <1>13, <2>2, <2>5 DEF RunReset, Del
  <2>7. \A v : SendsNext(v) => Sends(v) \/ v = w
    BY <1>7, <2>6
  <2>8. \A v : TurnedNext(v) => Turned(v) /\ v # w
    <3> SUFFICES ASSUME NEW v, NEW n \in DOMAIN turns',
                        turns'[n].kind = "reset", turns'[n].by = v
                 PROVE  Turned(v) /\ v # w
      BY DEF TurnedNext
    <3>1. turns' = Tail(turns)
      BY <1>13 DEF RunReset
    <3>2. n \in Nat \ {0} /\ n + 1 \in DOMAIN turns /\ turns'[n] = turns[n + 1]
      BY <1>1, <2>1, <3>1, TurnsMove
    <3>3. n + 1 # 1
      BY <3>2
    <3>4. ~SameTurn(turns[n + 1], turns[1])
      BY <1>1, <2>1, <3>2, <3>3 DEF TurnsInv
    <3> QED BY <2>1, <2>2, <3>2, <3>4 DEF Turned, SameTurn
  <2>9. reset' = reset
    BY <1>13 DEF RunReset
  <2>10. \A v : TurnedNext(v) =>
            /\ v \in War /\ undo'[v].at = "idle" /\ war'[v] = "rolledback"
            /\ reset'[v] = Board \X {p[2] : p \in reset'[v]} /\ ~SendsNext(v)
    BY <1>2, <1>3, <2>7, <2>8, <2>9
  <2> QED BY <1>2, <1>3, <1>4, <2>3, <2>7, <2>9, <2>10
<1>14. CASE Crash
  <2>1. sent' = <<>> /\ turns' = <<>> /\ \A w \in War : reset'[w] = {}
    BY <1>14 DEF Crash
  <2> QED BY <1>4, <2>1 DEF SendsNext, TurnedNext
<1>15. ASSUME NEW w \in War, Upload(w) \/ Announce(w)
       PROVE  ResetsInv'
  <2>1. CASE Upload(w)
    BY <1>5, <1>11, <2>1 DEF Upload
  <2>2. CASE Announce(w)
    <3>1. PICK t \in Turn : t = [kind |-> "background", by |-> w]
      BY JobsType DEF Turn
    <3> QED BY <1>5, <1>8, <1>11, <2>2, <3>1 DEF Announce
  <2> QED BY <1>15, <2>1, <2>2
<1>16. ASSUME NEW j \in Rebuilds \cup {Boot}, LoadRows(j)
       PROVE  ResetsInv'
  <2>1. PICK t \in Turn : t = [kind |-> "batch", by |-> j]
    BY JobsType DEF Turn
  <2> QED BY <1>5, <1>8, <1>11, <1>16, <2>1 DEF LoadRows
<1>17. ASSUME NEW j \in Rebuilds \cup {Boot}, Rebuild(j) \/ StartUp
       PROVE  ResetsInv'
  <2>1. PICK m \in Rebuilds \cup {Boot} : sent' = Append(sent, ListKeys(m))
    BY <1>17 DEF Rebuild, StartUp
  <2>2. PICK c \in Command : c = ListKeys(m)
    BY JobsType
  <2>3. c.op \notin Resetting
    BY <2>2 DEF ListKeys, Resetting
  <2> QED BY <1>5, <1>7, <1>11, <1>17, <2>1, <2>2, <2>3 DEF Rebuild, StartUp
<1>18. CASE RunBackground
  <2>1. /\ turns # <<>> /\ Head(turns) = turns[1] /\ turns[1] \in Turn
        /\ turns[1].kind = "background" /\ Tail(turns) \in Seq(Turn)
    BY <1>1, <1>18, TailFacts DEF RunBackground, TurnOf
  <2>2. PICK t \in Turn : t = [Head(turns) EXCEPT !.kind = "batch"]
    BY <2>1 DEF Turn
  <2>3. t.kind = "batch"
    BY <2>1, <2>2 DEF Turn
  <2>4. PICK z : z = Tail(turns)
    OBVIOUS
  <2>5. /\ z \in Seq(Turn) /\ turns' = Append(z, t)
        /\ \A n \in DOMAIN z : n + 1 \in DOMAIN turns /\ z[n] = turns[n + 1]
    BY <1>1, <1>18, <2>1, <2>2, <2>4, TailFacts DEF RunBackground
  <2>6. \A n \in DOMAIN turns' : turns'[n] = t \/ (n \in DOMAIN z /\ turns'[n] = z[n])
    BY <2>5
  <2>7. \A w : TurnedNext(w) => Turned(w)
    BY <2>3, <2>5, <2>6 DEF Turned, TurnedNext
  <2> QED BY <1>5, <1>11, <1>18, <2>7 DEF RunBackground
<1>19. CASE RunBatch
  <2>1. /\ Head(turns) \in Turn /\ turns # <<>>
    BY <1>1, <1>19, TailFacts DEF RunBatch, TurnOf
  <2>2. PICK j \in Job : j = Head(turns).by
    BY <2>1 DEF Turn
  <2>3. PICK keys : keys \in SUBSET Key /\ IsFiniteSet(keys) /\ Begin(j, keys)
    BY <1>1, <1>19, <2>2, KeysType DEF RunBatch, JobsInv, TypeOK
  <2> QED BY <1>5, <1>9, <1>10, <1>19, <2>1, <2>3 DEF RunBatch
<1>20. ASSUME NEW j \in Job, Continue(j)
       PROVE  ResetsInv'
  <2>1. batch[j].todo \in SUBSET Key /\ IsFiniteSet(batch[j].todo)
    <3>1. IsFiniteSet(KeysOf(batch[j].rows)) /\ KeysOf(batch[j].rows) \in SUBSET Key
      BY <1>1, KeysType DEF JobsInv, TypeOK
    <3> QED BY <1>1, <3>1, FS_Subset DEF JobsInv
  <2> QED BY <1>5, <1>10, <1>11, <1>20, <2>1 DEF Continue
<1>21. CASE ServeIncr
  <2>1. Cmd.by \in Job /\ Cmd.key \in Key
    BY <1>1, <1>21, CmdType, CommandFields DEF ServeIncr, Updating
  <2>2. PICK c \in Command : c = Read(Cmd.by, Cmd.key)
    BY <2>1, JobsType
  <2>3. c.op \notin Resetting
    BY <2>2 DEF Read, Resetting
  <2> QED BY <1>5, <1>6, <1>11, <1>21, <2>2, <2>3 DEF ServeIncr
<1>22. CASE ServeRead
  <2>1. Cmd.by \in Job /\ Cmd.key \in Key
    BY <1>1, <1>22, CmdType, CommandFields DEF ServeRead, Updating
  <2>2. PICK c \in Command : c = Publish(Cmd.by, Cmd.key, Averages(stats[Cmd.key]))
    <3>1. stats[Cmd.key] \in Tally
      BY <1>1, <2>1 DEF TypeOK
    <3> QED BY <2>1, <3>1, JobsType, RecordsType
  <2>3. c.op \notin Resetting
    BY <2>2 DEF Publish, Resetting
  <2> QED BY <1>5, <1>6, <1>11, <1>22, <2>2, <2>3 DEF ServeRead
<1>23. CASE ServePublish \/ ServeDrop
  BY <1>5, <1>6, <1>11, <1>23 DEF ServePublish, ServeDrop
<1>24. ASSUME NEW op \in Resetting, Due(op), NEW left \in SUBSET (Board \X Key),
              NextRem(Cmd.by, left)
       PROVE  \A w : SendsNext(w) => Sends(w)
  <2>1. Cmd.by \in War /\ Sends(Cmd.by)
    BY <1>6, <1>24
  <2>2. CASE Follow(<<>>)
    BY <1>6, <1>24, <2>2
  <2>3. CASE \E p \in left : Rem(Cmd.by, p[1], p[2]) \in Command
                             /\ Follow(<<Rem(Cmd.by, p[1], p[2])>>)
    <3>1. PICK c \in Command : Follow(<<c>>) /\ c.by = Cmd.by
      BY <2>3 DEF Rem
    <3> QED BY <1>6, <1>24, <2>1, <3>1
  <2> QED BY <1>1, <1>24, <2>1, <2>2, <2>3, NextRemType
<1>25. CASE ServeDel
  <2>1. Due("del") /\ "del" \in Resetting
    BY <1>25 DEF ServeDel, Resetting
  <2>2. PICK left \in SUBSET (Board \X Key) : left = reset[Cmd.by]
    BY <1>1, <1>6, <2>1
  <2>3. \A w : SendsNext(w) => Sends(w)
    BY <1>24, <1>25, <2>1, <2>2 DEF ServeDel
  <2> QED BY <1>5, <1>11, <1>25, <2>3 DEF ServeDel
<1>26. CASE ServeRem
  <2>1. Due("rem") /\ "rem" \in Resetting
    BY <1>26 DEF ServeRem, Resetting
  <2>2. Cmd.by \in War /\ Sends(Cmd.by)
    BY <1>6, <2>1
  <2>3. PICK left \in SUBSET (Board \X Key) : left = reset[Cmd.by] \ {<<Cmd.board, Cmd.key>>}
    BY <1>1, <2>2
  <2>4. \A w : SendsNext(w) => Sends(w)
    BY <1>24, <1>26, <2>1, <2>3 DEF ServeRem
  <2>5. reset' = [reset EXCEPT ![Cmd.by] = left]
    BY <1>26, <2>3 DEF ServeRem
  <2>6. \A w \in War : reset'[w] = reset[w] \/ (Sends(w) /\ reset'[w] \subseteq reset[w])
    BY <1>1, <2>2, <2>3, <2>5
  <2> QED BY <1>5, <1>11, <1>26, <2>4, <2>6 DEF ServeRem
<1>27. CASE ServeKeys
  <2>1. CASE Follow(<<>>)
    BY <1>5, <1>6, <1>11, <1>27, <2>1 DEF ServeKeys
  <2>2. CASE Cmd.by # Boot /\ Follow(<<Drop(Cmd.by, Found)>>)
    <3>1. Cmd.by \in Rebuilds \cup {Boot}
      BY <1>1, <1>27, CmdType, CommandFields DEF ServeKeys, Listing
    <3>2. PICK c \in Command : c = Drop(Cmd.by, Found)
      BY <2>2, <3>1, JobsType DEF Found
    <3>3. c.op \notin Resetting
      BY <3>2 DEF Drop, Resetting
    <3> QED BY <1>5, <1>6, <1>11, <1>27, <2>2, <3>2, <3>3 DEF ServeKeys
  <2> QED BY <1>27, <2>1, <2>2 DEF ServeKeys
<1>28. CASE Lose
  <2>1. \E op : Due(op)
    BY <1>28 DEF Lose, LoseIncr, LoseRead, LosePublish, LoseReset, LoseCall
  <2>2. \A w : SendsNext(w) => Sends(w)
    BY <1>6, <1>28, <2>1 DEF Lose
  <2>3. \A w : TurnedNext(w) => Turned(w)
    BY <1>11, <1>28 DEF Lose
  <2>4. CASE reset' = reset
    BY <1>5, <2>2, <2>3, <2>4
  <2>5. CASE LoseReset
    <3>1. Cmd.by \in War /\ Sends(Cmd.by)
      BY <1>6, <2>5 DEF LoseReset, Resetting
    <3>2. \A w \in War : reset'[w] = reset[w] \/ (Sends(w) /\ reset'[w] \subseteq reset[w])
      BY <1>1, <2>5, <3>1 DEF LoseReset
    <3> QED BY <1>5, <2>2, <2>3, <3>2
  <2> QED BY <1>28, <2>4, <2>5 DEF Lose, LoseIncr, LoseRead, LosePublish, LoseCall
<1>29. CASE UNCHANGED <<sent, turns, reset>>
  BY <1>5, <1>11, <1>29
<1> QED
  BY <1>12, <1>13, <1>14, <1>15, <1>16, <1>17, <1>18, <1>19, <1>20, <1>21, <1>22, <1>23,
     <1>25, <1>26, <1>27, <1>28, <1>29
  DEF Next, Background, Request, Failure, Serve, AtRest, vars, LoseRows, ReadAffected,
      DeleteWar, LoseDelete

-----------------------------------------------------------------------------
(* What a step does to the line, the hashes and the sorted sets            *)

\* The step serves d commands, and sends a read or a publish only as what follows
\* the command it serves, at the end of the line.
Moves(d) ==
    /\ d = 1 => sent # <<>>
    /\ \A n \in DOMAIN sent' :
          /\ n \in Nat \ {0}
          /\ \/ n + d \in DOMAIN sent /\ sent'[n] = sent[n + d]
             \/ /\ sent'[n].op = "read" =>
                      /\ ServeIncr /\ sent'[n] = Read(Cmd.by, Cmd.key)
                      /\ \A i \in DOMAIN sent' : i =< n
                /\ sent'[n].op = "publish" =>
                      /\ ServeRead
                      /\ sent'[n] = Publish(Cmd.by, Cmd.key, Averages(stats[Cmd.key]))
                      /\ \A i \in DOMAIN sent' : i =< n
    /\ \A i \in DOMAIN sent : i > d => i - d \in DOMAIN sent' /\ sent'[i - d] = sent[i]

LEMMA LineStep ==
    ASSUME Core, [Next]_vars
    PROVE  \/ Crash
           \/ Moves(0) /\ ~Serve /\ UNCHANGED redis
           \/ Moves(1) /\ (Serve \/ Lose) /\ \E op : Due(op)
<1>1. /\ sent \in Seq(Command) /\ DOMAIN sent \subseteq Nat \ {0} /\ Len(sent) \in Nat
      /\ TypeOK /\ JobsInv /\ TurnsInv /\ CommandsInv /\ ResetsInv
      /\ \A i \in DOMAIN sent : i - 0 = i /\ i + 0 = i
  BY DEF TypeOK, Core
<1>2. sent' = sent => Moves(0)
  BY <1>1 DEF Moves
<1>3. ASSUME NEW c \in Command, sent' = Append(sent, c), c.op \notin {"read", "publish"}
      PROVE  Moves(0)
  BY <1>1, <1>3, SentOne DEF Moves
<1>4. ASSUME NEW j \in Job, NEW keys \in SUBSET Key, IsFiniteSet(keys), Begin(j, keys)
      PROVE  Moves(0)
  <2>1. PICK next \in NextKeys(keys), t \in Seq(Command) :
           /\ Range(next) \subseteq keys
           /\ \A i, n \in DOMAIN next : next[i] = next[n] => i = n
           /\ t = [i \in DOMAIN next |-> Incr(j, next[i])]
           /\ sent' = sent \o t
           /\ batch' \in [Job -> [rows : SUBSET Row, todo : SUBSET Key,
                                  active : SUBSET Key]]
           /\ \A m \in Job : m # j => batch'[m] = batch[m]
           /\ batch'[j].rows = batch[j].rows
           /\ batch'[j].todo = keys \ Range(next)
           /\ batch'[j].active = Range(next)
    BY <1>1, <1>4, BeginType
  <2>2. \A i \in DOMAIN t : t[i].op = "incr"
    BY <2>1 DEF Incr
  <2>3. /\ \A n \in DOMAIN sent' : /\ n \in Nat \ {0}
                                   /\ \/ n \in DOMAIN sent /\ sent'[n] = sent[n]
                                      \/ /\ n > Len(sent) /\ n - Len(sent) \in DOMAIN t
                                         /\ sent'[n] = t[n - Len(sent)]
        /\ \A i \in DOMAIN sent : i \in DOMAIN sent' /\ sent'[i] = sent[i]
    BY <1>1, <2>1, SentMore
  <2> QED BY <1>1, <2>2, <2>3 DEF Moves
<1>5. ASSUME NEW op, Due(op)
      PROVE  Cmd = sent[1] /\ Cmd \in Command /\ Cmd.op = op /\ sent # <<>>
  BY <1>1, <1>5, CmdType
<1>6. \A i \in DOMAIN sent : i > 1 <=> i # 1
  BY <1>1
<1>7. ASSUME NEW op, Due(op), Follow(<<>>)
      PROVE  Moves(1)
  BY <1>1, <1>5, <1>6, <1>7, Served DEF Moves
<1>8. ASSUME NEW op, Due(op), NEW c \in Command, Follow(<<c>>),
             c.op = "read" => ServeIncr /\ c = Read(Cmd.by, Cmd.key),
             c.op = "publish" =>
                ServeRead /\ c = Publish(Cmd.by, Cmd.key, Averages(stats[Cmd.key]))
      PROVE  Moves(1)
  <2>1. /\ sent' \in Seq(Command) /\ Len(sent') = Len(sent)
        /\ \A n \in DOMAIN sent' : /\ n \in Nat \ {0}
                                   /\ \/ n + 1 \in DOMAIN sent /\ sent'[n] = sent[n + 1]
                                      \/ n = Len(sent) /\ sent'[n] = c
        /\ \A i \in DOMAIN sent : i # 1 => /\ i - 1 \in DOMAIN sent'
                                           /\ sent'[i - 1] = sent[i]
    BY <1>1, <1>5, <1>8, ServedOne
  <2>2. \A i \in DOMAIN sent' : i =< Len(sent)
    BY <1>1, <2>1
  <2> QED BY <1>5, <1>6, <1>8, <2>1, <2>2 DEF Moves
<1>9. ASSUME NEW w \in War, NEW left \in SUBSET (Board \X Key), NextRem(w, left),
             NEW op, Due(op)
      PROVE  Moves(1)
  <2>1. CASE Follow(<<>>)
    BY <1>7, <1>9, <2>1
  <2>2. CASE \E p \in left : Rem(w, p[1], p[2]) \in Command /\ Follow(<<Rem(w, p[1], p[2])>>)
    <3>1. PICK c \in Command : Follow(<<c>>) /\ c.op = "rem"
      BY <2>2 DEF Rem
    <3> QED BY <1>8, <1>9, <3>1
  <2> QED BY <1>1, <1>9, <2>1, <2>2, NextRemType
<1>10. ASSUME NEW j \in Rebuilds \cup {Boot}, Rebuild(j) \/ StartUp
       PROVE  Moves(0) /\ UNCHANGED redis
  <2>1. PICK m \in Rebuilds \cup {Boot} : sent' = Append(sent, ListKeys(m))
    BY <1>10 DEF Rebuild, StartUp
  <2>2. PICK c \in Command : c = ListKeys(m)
    BY JobsType
  <2>3. c.op = "keys"
    BY <2>2 DEF ListKeys
  <2> QED BY <1>3, <1>10, <2>1, <2>2, <2>3 DEF Rebuild, StartUp
<1>11. ASSUME RunBatch
       PROVE  Moves(0) /\ UNCHANGED redis
  <2>1. Head(turns) \in Turn
    BY <1>1, <1>11, TailFacts DEF RunBatch, TurnOf, TypeOK
  <2>2. PICK j \in Job : j = Head(turns).by
    BY <2>1 DEF Turn
  <2>3. PICK keys : keys \in SUBSET Key /\ IsFiniteSet(keys) /\ Begin(j, keys)
    BY <1>1, <1>11, <2>2, KeysType DEF RunBatch, JobsInv, TypeOK
  <2> QED BY <1>4, <1>11, <2>3 DEF RunBatch
<1>12. ASSUME NEW j \in Job, Continue(j)
       PROVE  Moves(0) /\ UNCHANGED redis
  <2>1. batch[j].todo \in SUBSET Key /\ IsFiniteSet(batch[j].todo)
    <3>1. IsFiniteSet(KeysOf(batch[j].rows)) /\ KeysOf(batch[j].rows) \in SUBSET Key
      BY <1>1, KeysType DEF JobsInv, TypeOK
    <3> QED BY <1>1, <3>1, FS_Subset DEF JobsInv
  <2> QED BY <1>4, <1>12, <2>1 DEF Continue
<1>13. ASSUME RunReset
       PROVE  Moves(0) /\ UNCHANGED redis
  <2>1. /\ Head(turns) = turns[1] /\ 1 \in DOMAIN turns /\ turns[1].kind = "reset"
    BY <1>1, <1>13, TailFacts DEF RunReset, TurnOf, TypeOK
  <2>2. PICK w \in War : w = Head(turns).by
    BY <1>1, <2>1 DEF ResetsInv
  <2>3. {p[2] : p \in reset[w]} \in SUBSET Key
    BY <1>1 DEF TypeOK
  <2>4. PICK c \in Command : c = Del(w, {p[2] : p \in reset[w]})
    BY <2>3, JobsType
  <2>5. sent' = Append(sent, c) /\ c.op = "del"
    BY <1>13, <2>2, <2>4 DEF RunReset, Del
  <2> QED BY <1>3, <1>13, <2>5 DEF RunReset
<1>14. ASSUME ServeIncr
       PROVE  Moves(1) /\ \E op : Due(op)
  <2>1. PICK c \in Command : c = Read(Cmd.by, Cmd.key)
    BY <1>1, <1>5, <1>14, CommandFields, JobsType DEF ServeIncr, Updating
  <2>2. Due("incr") /\ Follow(<<c>>) /\ c.op = "read"
    BY <1>14, <2>1 DEF ServeIncr, Read
  <2> QED BY <1>8, <1>14, <2>1, <2>2 DEF Serve
<1>15. ASSUME ServeRead
       PROVE  Moves(1) /\ \E op : Due(op)
  <2>1. Cmd.by \in Job /\ Cmd.key \in Key
    BY <1>5, <1>15, CommandFields DEF ServeRead, Updating
  <2>2. stats[Cmd.key] \in Tally
    BY <1>1, <2>1 DEF TypeOK
  <2>3. PICK c \in Command : c = Publish(Cmd.by, Cmd.key, Averages(stats[Cmd.key]))
    BY <2>1, <2>2, JobsType, RecordsType
  <2>4. Due("read") /\ Follow(<<c>>) /\ c.op = "publish"
    BY <1>15, <2>3 DEF ServeRead, Publish
  <2> QED BY <1>8, <1>15, <2>3, <2>4 DEF Serve
<1>16. ASSUME ServePublish \/ ServeDrop
       PROVE  Moves(1) /\ \E op : Due(op)
  BY <1>7, <1>16 DEF ServePublish, ServeDrop, Serve
<1>17. ASSUME ServeDel \/ ServeRem
       PROVE  Moves(1) /\ \E op : Due(op)
  <2>1. PICK op : Due(op) /\ op \in Resetting
    BY <1>17 DEF ServeDel, ServeRem, Resetting
  <2>2. PICK w \in War : w = Cmd.by
    BY <1>5, <2>1, CommandFields
  <2>3. reset[w] \in SUBSET (Board \X Key)
    BY <1>1 DEF TypeOK
  <2>4. PICK left \in SUBSET (Board \X Key) : NextRem(w, left)
    BY <1>17, <2>2, <2>3 DEF ServeDel, ServeRem
  <2> QED BY <1>9, <1>17, <2>1, <2>4 DEF Serve
<1>18. ASSUME ServeKeys
       PROVE  Moves(1) /\ \E op : Due(op)
  <2>1. Due("keys")
    BY <1>18 DEF ServeKeys
  <2>2. CASE Follow(<<>>)
    BY <1>7, <1>18, <2>1, <2>2 DEF Serve
  <2>3. CASE Cmd.by # Boot /\ Follow(<<Drop(Cmd.by, Found)>>)
    <3>1. Cmd.by \in Rebuilds \cup {Boot}
      BY <1>5, <2>1, CommandFields DEF Listing
    <3>2. PICK c \in Command : c = Drop(Cmd.by, Found)
      BY <2>3, <3>1, JobsType DEF Found
    <3>3. c.op = "drop"
      BY <3>2 DEF Drop
    <3> QED BY <1>8, <1>18, <2>1, <2>3, <3>2, <3>3 DEF Serve
  <2> QED BY <1>18, <2>2, <2>3 DEF ServeKeys
<1>19. ASSUME Lose
       PROVE  Moves(1) /\ \E op : Due(op)
  <2>1. \E op : Due(op)
    BY <1>19 DEF Lose, LoseIncr, LoseRead, LosePublish, LoseReset, LoseCall
  <2> QED BY <1>7, <1>19, <2>1 DEF Lose
<1>20. ASSUME UNCHANGED <<redis, sent>>
       PROVE  Moves(0) /\ UNCHANGED redis
  BY <1>2, <1>20
<1>21. Serve => Moves(1) /\ \E op : Due(op)
  BY <1>14, <1>15, <1>16, <1>17, <1>18
  DEF Serve, ServeIncr, ServeRead, ServePublish, ServeDel, ServeRem, ServeKeys, ServeDrop
<1> QED
  BY <1>10, <1>11, <1>12, <1>13, <1>19, <1>20, <1>21
  DEF Next, Background, Request, Failure, AtRest, vars, RunBackground, Announce, LoadRows,
      Upload, ReadAffected, DeleteWar, QueueReset, LoseRows, LoseDelete, redis

LEMMA BoardStep ==
    ASSUME Core, [Next]_vars, NEW b \in Board, NEW k \in Key
    PROVE  \/ board'[b][k] = board[b][k] \/ board'[b][k] = NoTally
           \/ Due("publish") /\ Cmd.key = k /\ board'[b][k] = Cmd.tally
<1>1. TypeOK
  BY DEF Core
<1>2. ASSUME NEW op, Due(op)
      PROVE  Cmd \in Command /\ Cmd.op = op
  BY <1>1, <1>2, CmdType
<1>3. CASE ServePublish \/ LosePublish
  <2>1. Due("publish") /\ \E part : Show(Cmd.key, Cmd.tally, part)
    BY <1>3 DEF ServePublish, LosePublish
  <2>2. Cmd.key \in Key /\ Cmd.tally \in Tally
    BY <1>2, <2>1, CommandFields DEF Updating
  <2> QED BY <1>1, <2>1, <2>2, ShowType
<1>4. CASE Due("rem") /\ \E part : Show(Cmd.key, NoTally, part)
  BY <1>1, <1>2, <1>4, CommandFields, RecordsType, ShowType
<1>5. ASSUME NEW part, Clear(part)
      PROVE  board'[b][k] = board[b][k] \/ board'[b][k] = NoTally
  BY <1>1, <1>5, ClearType
<1>6. CASE Crash
  <2>1. board' = board \/ board' = [c \in Board |-> Empty]
    BY <1>6 DEF Crash, redis
  <2> QED BY <2>1 DEF Empty
<1>7. CASE Serve
  BY <1>3, <1>4, <1>5, <1>7
  DEF Serve, ServeIncr, ServeRead, ServeDel, ServeRem, ServeKeys, ServeDrop, redis
<1>8. CASE Lose
  BY <1>3, <1>4, <1>5, <1>8 DEF Lose, LoseIncr, LoseRead, LoseReset, LoseCall, redis
<1> QED BY <1>6, <1>7, <1>8, LineStep DEF redis

\* The increments of a job count the rows it has for the key.
LEMMA CountedRows ==
    ASSUME Core, NEW op \in Updating, Due(op)
    PROVE  /\ Cmd.by \in Job /\ Cmd.key \in Key
           /\ Aggregate(batch[Cmd.by].rows, Cmd.key).games \in Nat \ {0}
<1>1. TypeOK /\ JobsInv /\ CommandsInv
  BY DEF Core
<1>2. Cmd = sent[1] /\ 1 \in DOMAIN sent /\ Cmd \in Command /\ Cmd.op = op
  BY <1>1, CmdType
<1>3. Cmd.by \in Job /\ Cmd.key \in Key /\ Cmd.key \in batch[Cmd.by].active
  BY <1>1, <1>2, CommandFields DEF CommandsInv
<1>4. PICK rows : rows = batch[Cmd.by].rows
  OBVIOUS
<1>5. IsFiniteSet(rows) /\ Cmd.key \in KeysOf(rows)
  BY <1>1, <1>3, <1>4 DEF JobsInv
<1>6. Aggregate(rows, Cmd.key).games \in Nat /\ Aggregate(rows, Cmd.key).games >= 1
  BY <1>5, AggregateType
<1> QED BY <1>3, <1>4, <1>6

\* The hashes that a reset deletes are those of players who are gone.
LEMMA DeletedAreGone ==
    ASSUME Core, Due("del")
    PROVE  \A k \in Cmd.keys : k.player \in Gone
<1>1. TypeOK /\ CommandsInv /\ ResetsInv
  BY DEF Core
<1>2. Cmd = sent[1] /\ 1 \in DOMAIN sent /\ Cmd \in Command /\ Cmd.op = "del"
  BY <1>1, CmdType
<1>3. Cmd.by \in War /\ Board \X Cmd.keys \subseteq reset[Cmd.by]
  BY <1>1, <1>2, CommandFields DEF CommandsInv, Resetting
<1>4. 1 \in Board
  BY BoundsAssumption DEF Board
<1> TAKE k \in Cmd.keys
<1>5. <<1, k>> \in reset[Cmd.by] /\ <<1, k>>[2] = k
  BY <1>3, <1>4
<1> QED BY <1>1, <1>3, <1>5 DEF ResetsInv

LEMMA StatsStep ==
    ASSUME Core, [Next]_vars, NEW k \in Key, k.player \notin Gone
    PROVE  /\ stats[k].games \in Nat
           /\ \/ stats'[k] = stats[k]
              \/ Crash /\ stats'[k] = NoTally /\ \A b \in Board : board'[b][k] = NoTally
              \/ /\ Due("incr") /\ Cmd.key = k
                 /\ stats'[k].games \in Nat /\ stats'[k].games >= stats[k].games + 1
<1>1. TypeOK /\ JobsInv
  BY DEF Core
<1>2. stats[k].games \in Nat
  BY <1>1, TallyFields DEF TypeOK
<1>3. ASSUME Due("incr"), Increase(Cmd.by, Cmd.key)
      PROVE  \/ stats'[k] = stats[k]
             \/ /\ Cmd.key = k /\ stats'[k].games \in Nat
                /\ stats'[k].games >= stats[k].games + 1
  <2>1. /\ Cmd.by \in Job /\ Cmd.key \in Key
        /\ Aggregate(batch[Cmd.by].rows, Cmd.key).games \in Nat \ {0}
    BY <1>3, CountedRows DEF Updating
  <2>2. PICK n \in Nat \ {0} : n = Aggregate(batch[Cmd.by].rows, Cmd.key).games
    BY <2>1
  <2>3. /\ Cmd.key # k => stats'[k] = stats[k]
        /\ Cmd.key = k => stats'[k].games = stats[k].games + n
    BY <1>1, <1>3, <2>1, <2>2, IncreaseType
  <2> QED BY <1>2, <2>2, <2>3
<1>4. ASSUME Due("del"), NEW part \in SUBSET Cmd.keys, Forget(part)
      PROVE  stats'[k] = stats[k]
  <2>1. k \notin part
    BY <1>4, DeletedAreGone
  <2> QED BY <1>1, <1>4, <2>1, ForgetType
<1>5. CASE Crash
  <2>1. \/ stats' = stats
        \/ stats' = Empty /\ board' = [b \in Board |-> Empty]
    BY <1>5 DEF Crash, redis
  <2> QED BY <1>2, <1>5, <2>1 DEF Empty
<1>6. CASE Serve
  <2>1. CASE ServeIncr
    BY <1>2, <1>3, <2>1 DEF ServeIncr
  <2>2. CASE ServeDel
    BY <1>2, <1>4, <2>2 DEF ServeDel
  <2> QED
    BY <1>2, <1>6, <2>1, <2>2
    DEF Serve, ServeRead, ServePublish, ServeRem, ServeKeys, ServeDrop, redis
<1>7. CASE Lose
  <2>1. CASE LoseIncr
    BY <1>2, <1>3, <2>1 DEF LoseIncr
  <2>2. CASE LoseReset
    BY <1>2, <1>4, <2>2 DEF LoseReset
  <2> QED BY <1>2, <1>7, <2>1, <2>2 DEF Lose, LoseRead, LosePublish, LoseCall, redis
<1> QED BY <1>2, <1>5, <1>6, <1>7, LineStep DEF redis

LEMMA GrowsKept ==
    ASSUME Core, GrowsInv, [Next]_vars
    PROVE  GrowsInv'
<1> SUFFICES ASSUME NEW k \in Key, k.player \notin Gone'
             PROVE  Grows(k)'
  BY DEF GrowsInv
<1>1. /\ k.player \notin Gone /\ Grows(k) /\ TypeOK /\ TypeOK'
      /\ DOMAIN sent \subseteq Nat \ {0}
  BY GoneGrows, TypeKept DEF GrowsInv, Core, TypeOK
<1>2. /\ \A b \in Board : board[b][k].games \in Nat /\ board'[b][k].games \in Nat
      /\ stats[k].games \in Nat /\ stats'[k].games \in Nat
      /\ \A i \in DOMAIN sent : Shows(i, k) => sent[i].tally \in Tally /\ sent[i].tally.games \in Nat
      /\ NoTally.games = 0
  <2>1. board' \in [Board -> [Key -> Tally]] /\ stats' \in [Key -> Tally]
    BY <1>1 DEF TypeOK
  <2>2. \A i \in DOMAIN sent : sent[i] \in Command
    BY <1>1 DEF TypeOK
  <2>3. \A i \in DOMAIN sent : Shows(i, k) => sent[i].tally \in Tally
    BY <2>2, CommandFields DEF Shows
  <2> QED BY <1>1, <2>1, <2>3, TallyFields DEF TypeOK, NoTally
<1>3. CASE Crash
  <2>1. DOMAIN sent' = {}
    BY <1>3 DEF Crash
  <2>2. \A b \in Board : board'[b][k].games =< stats'[k].games
    <3>1. CASE UNCHANGED redis
      BY <1>1, <3>1 DEF Grows, redis
    <3>2. CASE stats' = Empty /\ board' = [b \in Board |-> Empty]
      <4>1. stats'[k] = NoTally /\ \A b \in Board : board'[b][k] = NoTally
        BY <3>2 DEF Empty
      <4> QED BY <1>2, <4>1
    <3> QED BY <1>3, <3>1, <3>2 DEF Crash
  <2> QED BY <2>1, <2>2 DEF Grows
<1>4. ASSUME NEW d \in {0, 1}, Moves(d), ~Crash,
             d = 0 => UNCHANGED redis, d = 1 => sent # <<>>
      PROVE  Grows(k)'
  <2>1. stats'[k].games >= stats[k].games
    BY <1>1, <1>2, <1>4, StatsStep
  <2>2. ASSUME NEW b \in Board
        PROVE  \/ board'[b][k].games =< board[b][k].games
               \/ d = 1 /\ 1 \in DOMAIN sent /\ Shows(1, k) /\ board'[b][k] = sent[1].tally
    <3>1. CASE board'[b][k] = board[b][k]
      BY <1>2, <3>1
    <3>2. CASE board'[b][k] = NoTally
      BY <1>2, <3>2
    <3>3. CASE Due("publish") /\ Cmd.key = k /\ board'[b][k] = Cmd.tally
      BY <1>1, <1>2, <1>4, <3>3, CmdType DEF Shows, redis
    <3> QED BY <3>1, <3>2, <3>3, BoardStep
  <2>3. \A b \in Board : board'[b][k].games =< stats'[k].games
    <3> TAKE b \in Board
    <3>1. CASE board'[b][k].games =< board[b][k].games
      <4>1. board[b][k].games =< stats[k].games
        BY <1>1 DEF Grows
      <4> QED BY <1>2, <2>1, <3>1, <4>1
    <3>2. CASE 1 \in DOMAIN sent /\ Shows(1, k) /\ board'[b][k] = sent[1].tally
      <4>1. sent[1].tally.games =< stats[k].games
        BY <1>1, <3>2 DEF Grows
      <4> QED BY <1>2, <2>1, <3>2, <4>1
    <3> QED BY <2>2, <3>1, <3>2
  \* a command that was in the line before, and one that is new
  <2> DEFINE Old(n) == n + d \in DOMAIN sent /\ n + d > d /\ sent'[n] = sent[n + d]
             New(n) == /\ Reads(n, k)' => stats'[k].games >= 1
                       /\ Shows(n, k)' => /\ sent'[n].tally.games = stats'[k].games
                                          /\ \A i \in DOMAIN sent' : i =< n
  <2>4. ASSUME NEW n \in DOMAIN sent'
        PROVE  n \in Nat /\ (Old(n) \/ New(n))
    <3>1. n \in Nat \ {0}
      BY <1>4 DEF Moves
    <3>2. CASE n + d \in DOMAIN sent /\ sent'[n] = sent[n + d]
      BY <3>1, <3>2
    <3>3. CASE ~(n + d \in DOMAIN sent /\ sent'[n] = sent[n + d])
      <4>1. ASSUME Reads(n, k)'
            PROVE  stats'[k].games >= 1
        <5>1. ServeIncr /\ sent'[n] = Read(Cmd.by, Cmd.key)
          BY <1>4, <3>3, <4>1 DEF Moves, Reads
        <5>2. Cmd.key = k /\ Due("incr") /\ Increase(Cmd.by, Cmd.key)
          BY <4>1, <5>1 DEF Reads, Read, ServeIncr
        <5>3. PICK m \in Nat \ {0} : m = Aggregate(batch[Cmd.by].rows, Cmd.key).games
          BY <5>2, CountedRows DEF Updating
        <5>4. Cmd.by \in Job /\ JobsInv
          BY <5>2, CountedRows DEF Updating, Core
        <5>5. stats'[k].games = stats[k].games + m
          BY <1>1, <5>2, <5>3, <5>4, IncreaseType
        <5> QED BY <1>2, <5>3, <5>5
      <4>2. ASSUME Shows(n, k)'
            PROVE  /\ sent'[n].tally.games = stats'[k].games
                   /\ \A i \in DOMAIN sent' : i =< n
        <5>1. /\ ServeRead
              /\ sent'[n] = Publish(Cmd.by, Cmd.key, Averages(stats[Cmd.key]))
              /\ \A i \in DOMAIN sent' : i =< n
          BY <1>4, <3>3, <4>2 DEF Moves, Shows
        <5>2. Cmd.key = k /\ Due("read") /\ stats' = stats
          BY <4>2, <5>1 DEF Shows, Publish, ServeRead, redis
        <5>3. stats[k].games >= 1
          BY <1>1, <5>2, CmdType DEF Grows, Reads
        <5>4. sent'[n].tally = stats[k]
          BY <1>2, <5>1, <5>2, <5>3 DEF Publish, Averages
        <5> QED BY <5>1, <5>2, <5>4
      <4> QED BY <3>1, <4>1, <4>2
    <3> QED BY <3>2, <3>3
  <2>5. ASSUME NEW i \in DOMAIN sent, i > d, Shows(i, k)
        PROVE  /\ sent[i].tally.games =< stats'[k].games
               /\ \A b \in Board : board'[b][k].games =< sent[i].tally.games
    <3>1. /\ sent[i].tally.games =< stats[k].games
          /\ \A b \in Board : board[b][k].games =< sent[i].tally.games
      BY <1>1, <2>5 DEF Grows
    <3>2. 1 \in DOMAIN sent /\ d = 1 /\ Shows(1, k) => sent[1].tally.games =< sent[i].tally.games
      BY <1>1, <2>5 DEF Grows
    <3>3. ASSUME NEW b \in Board
          PROVE  board'[b][k].games =< sent[i].tally.games
      <4>1. CASE board'[b][k].games =< board[b][k].games
        BY <1>2, <2>5, <3>1, <4>1
      <4>2. CASE d = 1 /\ 1 \in DOMAIN sent /\ Shows(1, k) /\ board'[b][k] = sent[1].tally
        BY <3>2, <4>2
      <4> QED BY <2>2, <4>1, <4>2
    <3> QED BY <1>2, <2>1, <2>5, <3>1, <3>3
  <2>6. \A n \in DOMAIN sent' : Reads(n, k)' => stats'[k].games >= 1
    <3> SUFFICES ASSUME NEW n \in DOMAIN sent', Old(n), Reads(n, k)'
                 PROVE  stats'[k].games >= 1
      BY <2>4
    <3>1. n + d \in DOMAIN sent /\ Reads(n + d, k)
      BY DEF Reads
    <3>2. stats[k].games >= 1
      BY <1>1, <3>1 DEF Grows
    <3> QED BY <1>2, <2>1, <3>2
  <2>7. \A n \in DOMAIN sent' : Shows(n, k)' =>
           /\ sent'[n].tally.games =< stats'[k].games
           /\ \A b \in Board : board'[b][k].games =< sent'[n].tally.games
    <3> TAKE n \in DOMAIN sent'
    <3> HAVE Shows(n, k)'
    <3>1. CASE Old(n)
      <4>1. Shows(n + d, k)
        BY <3>1 DEF Shows
      <4> QED BY <2>5, <3>1, <4>1
    <3>2. CASE New(n)
      BY <1>2, <2>3, <3>2
    <3> QED BY <2>4, <3>1, <3>2
  <2>8. ASSUME NEW i \in DOMAIN sent', NEW n \in DOMAIN sent', i < n, Shows(i, k)', Shows(n, k)'
        PROVE  sent'[i].tally.games =< sent'[n].tally.games
    <3>1. CASE New(n)
      BY <2>7, <2>8, <3>1
    <3>2. CASE New(i)
      BY <2>4, <2>8, <3>2
    <3>3. CASE Old(i) /\ Old(n)
      <4>1. Shows(i + d, k) /\ Shows(n + d, k)
        BY <2>8, <3>3 DEF Shows
      <4>2. i + d < n + d
        BY <2>4, <2>8
      <4> QED BY <1>1, <3>3, <4>1, <4>2 DEF Grows
    <3> QED BY <2>4, <3>1, <3>2, <3>3
  <2> HIDE DEF Old, New
  <2> QED BY <2>3, <2>6, <2>7, <2>8 DEF Grows
<1> QED BY <1>3, <1>4, LineStep DEF Moves

LEMMA LineStart ==
    ASSUME Init
    PROVE  Core /\ GrowsInv
<1>1. /\ sent = <<>> /\ turns = <<>> /\ DOMAIN sent = {} /\ DOMAIN turns = {}
      /\ stats = Empty /\ board = [b \in Board |-> Empty]
      /\ batch = [j \in Job |-> Idle] /\ call = [j \in Job |-> "idle"]
      /\ reset = [w \in War |-> {}] /\ war = [w \in War |-> "new"]
      /\ undo = [w \in War |-> [at |-> "idle", keys |-> {}]]
      /\ crashes = 0 /\ losses = 0
  BY DEF Init
<1>2. TypeOK
  BY <1>1, RecordsType, BoundsAssumption DEF TypeOK
<1>3. JobsInv
  BY <1>1, JobsType, FS_EmptySet DEF JobsInv, Idle
<1>4. TurnsInv /\ CommandsInv /\ ResetsInv
  BY <1>1 DEF TurnsInv, CommandsInv, ResetsInv
<1>5. GrowsInv
  <2>1. \A b \in Board, k \in Key : stats[k] = NoTally /\ board[b][k] = NoTally
    BY <1>1 DEF Empty
  <2>2. NoTally.games =< NoTally.games
    BY DEF NoTally
  <2> QED BY <1>1, <2>1, <2>2 DEF GrowsInv, Grows
<1> QED BY <1>2, <1>3, <1>4, <1>5 DEF Core

\* The inductive invariant of the line of commands
THEOREM LineInvariant == Spec => []LineInv
<1>1. Init => LineInv
  BY LineStart DEF LineInv, Core
<1>2. LineInv /\ [Next]_vars => LineInv'
  BY TypeKept, JobsKept, TurnsKept, CommandsKept, ResetsKept, GrowsKept DEF LineInv, Core
<1> QED BY <1>1, <1>2, PTL DEF Spec

\* Commands, jobs, queues and figures have the form the code gives them.
THEOREM BoardsTypeCorrect == Spec => []TypeOK
<1>1. LineInv => TypeOK
  BY DEF LineInv
<1> QED BY <1>1, LineInvariant, PTL

\* Concurrent updates of one player never bring an older figure over a newer one:
\* until a sorted set is cleared, what it shows only grows.
THEOREM BoardsOnlyGrow == Spec => BoardsNeverGoBack
<1>1. ASSUME LineInv, [Next]_vars, NEW b \in Board, NEW k \in Key, k.player \notin Gone
      PROVE  board'[b][k] = NoTally \/ board'[b][k].games >= board[b][k].games
  <2>1. Core /\ Grows(k) /\ TypeOK
    BY <1>1 DEF LineInv, Core, GrowsInv
  <2>2. board[b][k].games \in Nat
    BY <2>1, TallyFields DEF TypeOK
  <2>3. CASE Due("publish") /\ Cmd.key = k /\ board'[b][k] = Cmd.tally
    <3>1. Cmd = sent[1] /\ 1 \in DOMAIN sent /\ Cmd \in Command /\ Shows(1, k)
      BY <2>1, <2>3, CmdType DEF Shows
    <3>2. Cmd.tally.games \in Nat /\ board[b][k].games =< Cmd.tally.games
      BY <2>1, <3>1, CommandFields, TallyFields DEF Grows, Shows
    <3> QED BY <2>2, <2>3, <3>2
  <2> QED BY <1>1, <2>1, <2>2, <2>3, BoardStep
<1>2. LineInv /\ [Next]_vars =>
         [\A b \in Board, k \in Key :
             \/ k.player \in Gone
             \/ board'[b][k] = NoTally
             \/ board'[b][k].games >= board[b][k].games]_vars
  BY <1>1
<1> QED BY <1>2, LineInvariant, PTL DEF Spec, BoardsNeverGoBack

-----------------------------------------------------------------------------
(* What is shown is current                                                *)

\* The command that follows the one that is served is the last of the line.
LEMMA LastCommand ==
    ASSUME Core
    PROVE  /\ ServeIncr =>
                 /\ Len(sent') = Len(sent) /\ Len(sent) \in DOMAIN sent'
                 /\ sent'[Len(sent)] = Read(Cmd.by, Cmd.key)
           /\ ServeRead =>
                 /\ Len(sent') = Len(sent) /\ Len(sent) \in DOMAIN sent'
                 /\ sent'[Len(sent)] = Publish(Cmd.by, Cmd.key, Averages(stats[Cmd.key]))
           /\ \A op, b, k :
                 /\ Due(op) /\ (ServeDel \/ ServeRem)
                 /\ <<b, k>> \in reset[Cmd.by]
                 /\ ServeRem => <<b, k>> # <<Cmd.board, Cmd.key>>
                 => /\ Len(sent') = Len(sent) /\ Len(sent) \in DOMAIN sent'
                    /\ sent'[Len(sent)].op = "rem" /\ sent'[Len(sent)].by = Cmd.by
                    /\ <<b, k>> \in reset'[Cmd.by]
<1>1. TypeOK
  BY DEF Core
<1>2. ASSUME NEW op, Due(op)
      PROVE  Cmd = sent[1] /\ Cmd \in Command /\ Cmd.op = op /\ sent # <<>>
  BY <1>1, <1>2, CmdType
<1>3. ASSUME ServeIncr
      PROVE  /\ Len(sent') = Len(sent) /\ Len(sent) \in DOMAIN sent'
             /\ sent'[Len(sent)] = Read(Cmd.by, Cmd.key)
  <2>1. PICK c \in Command : c = Read(Cmd.by, Cmd.key)
    BY <1>1, <1>2, <1>3, CommandFields, JobsType DEF ServeIncr, Updating
  <2>2. Follow(<<c>>) /\ sent # <<>>
    BY <1>2, <1>3, <2>1 DEF ServeIncr
  <2> QED BY <1>1, <2>1, <2>2, ServedOne
<1>4. ASSUME ServeRead
      PROVE  /\ Len(sent') = Len(sent) /\ Len(sent) \in DOMAIN sent'
             /\ sent'[Len(sent)] = Publish(Cmd.by, Cmd.key, Averages(stats[Cmd.key]))
  <2>1. Cmd.by \in Job /\ Cmd.key \in Key
    BY <1>2, <1>4, CommandFields DEF ServeRead, Updating
  <2>2. stats[Cmd.key] \in Tally
    BY <1>1, <2>1 DEF TypeOK
  <2>3. PICK c \in Command : c = Publish(Cmd.by, Cmd.key, Averages(stats[Cmd.key]))
    BY <2>1, <2>2, JobsType, RecordsType
  <2>4. Follow(<<c>>) /\ sent # <<>>
    BY <1>2, <1>4, <2>3 DEF ServeRead
  <2> QED BY <1>1, <2>3, <2>4, ServedOne
<1>5. ASSUME NEW op, Due(op), NEW b, NEW k, ServeDel \/ ServeRem, <<b, k>> \in reset[Cmd.by],
             ServeRem => <<b, k>> # <<Cmd.board, Cmd.key>>
      PROVE  /\ Len(sent') = Len(sent) /\ Len(sent) \in DOMAIN sent'
             /\ sent'[Len(sent)].op = "rem" /\ sent'[Len(sent)].by = Cmd.by
             /\ <<b, k>> \in reset'[Cmd.by]
  <2>1. PICK w \in War : w = Cmd.by
    BY <1>2, <1>5, CommandFields DEF ServeDel, ServeRem, Due, Cmd, Resetting
  <2>2. reset \in [War -> SUBSET (Board \X Key)]
    BY <1>1 DEF TypeOK
  <2>3. PICK left \in SUBSET (Board \X Key) :
           NextRem(w, left) /\ <<b, k>> \in left /\ reset'[w] = left
    <3>1. CASE ServeDel
      BY <1>5, <2>1, <2>2, <3>1 DEF ServeDel
    <3>2. CASE ServeRem
      <4>1. PICK left \in SUBSET (Board \X Key) : left = reset[w] \ {<<Cmd.board, Cmd.key>>}
        BY <2>2
      <4>2. NextRem(w, left) /\ reset' = [reset EXCEPT ![w] = left]
        BY <2>1, <3>2, <4>1 DEF ServeRem
      <4> QED BY <1>5, <2>1, <2>2, <3>2, <4>1, <4>2
    <3> QED BY <1>5, <3>1, <3>2
  <2>4. PICK c \in Command : Follow(<<c>>) /\ c.op = "rem" /\ c.by = w
    <3>1. PICK p \in left : /\ Rem(w, p[1], p[2]) \in Command
                            /\ Follow(<<Rem(w, p[1], p[2])>>)
      BY <1>1, <2>3, NextRemType
    <3> QED BY <3>1 DEF Rem
  <2> QED BY <1>1, <1>2, <1>5, <2>1, <2>3, <2>4, ServedOne
<1> QED BY <1>3, <1>4, <1>5

LEMMA TurnsStay ==
    ASSUME Core, [Next]_vars, ~Crash, NEW i \in DOMAIN turns, turns[i].kind = "reset"
    PROVE  \/ \E n \in DOMAIN turns' : turns'[n] = turns[i]
           \/ RunReset /\ i = 1
<1>1. TypeOK /\ turns \in Seq(Turn)
  BY DEF Core, TypeOK
<1>2. ASSUME NEW t \in Turn, turns' = Append(turns, t)
      PROVE  \E n \in DOMAIN turns' : turns'[n] = turns[i]
  BY <1>1, <1>2, TurnsGrow
<1>3. ASSUME turns # <<>>, turns' = Tail(turns), i # 1
      PROVE  \E n \in DOMAIN turns' : turns'[n] = turns[i]
  BY <1>1, <1>3, TurnsMove
<1>4. CASE RunBackground
  <2>1. /\ turns # <<>> /\ Head(turns) = turns[1] /\ turns[1] \in Turn
        /\ turns[1].kind = "background" /\ Tail(turns) \in Seq(Turn)
    BY <1>1, <1>4, TailFacts DEF RunBackground, TurnOf
  <2>2. PICK t \in Turn : t = [Head(turns) EXCEPT !.kind = "batch"]
    BY <2>1 DEF Turn
  <2>3. <<t>> \in Seq(Turn) /\ turns' = Tail(turns) \o <<t>>
    <3>1. turns' = Append(Tail(turns), t)
      BY <1>4, <2>2 DEF RunBackground
    <3> QED BY <2>1, <3>1
  <2>4. PICK z : z = turns'
    OBVIOUS
  <2>5. \A n \in DOMAIN turns : n # 1 => n - 1 \in DOMAIN z /\ z[n - 1] = turns[n]
    BY <1>1, <2>1, <2>3, <2>4, LineMoves
  <2> QED BY <2>1, <2>4, <2>5
<1>5. CASE RunBatch
  <2>1. turns # <<>> /\ turns[1].kind = "batch"
    BY <1>1, <1>5, TailFacts DEF RunBatch, TurnOf
  <2> QED BY <1>3, <1>5, <2>1 DEF RunBatch
<1>6. CASE RunReset
  BY <1>3, <1>6 DEF RunReset, TurnOf
<1>7. ASSUME NEW w \in War, Announce(w) \/ QueueReset(w)
      PROVE  \E n \in DOMAIN turns' : turns'[n] = turns[i]
  <2>1. [kind |-> "background", by |-> w] \in Turn /\ [kind |-> "reset", by |-> w] \in Turn
    BY JobsType DEF Turn
  <2> QED BY <1>2, <1>7, <2>1 DEF Announce, QueueReset
<1>8. ASSUME NEW j \in Rebuilds \cup {Boot}, LoadRows(j)
      PROVE  \E n \in DOMAIN turns' : turns'[n] = turns[i]
  <2>1. [kind |-> "batch", by |-> j] \in Turn
    BY JobsType DEF Turn
  <2> QED BY <1>2, <1>8, <2>1 DEF LoadRows
<1>9. CASE turns' = turns
  BY <1>9
<1> QED
  BY <1>4, <1>5, <1>6, <1>7, <1>8, <1>9
  DEF Next, Background, Request, Failure, Serve, AtRest, vars, StartUp, Continue, Upload,
      ReadAffected, DeleteWar, Rebuild, Lose, LoseRows, LoseDelete, ServeIncr, ServeRead,
      ServePublish, ServeDel, ServeRem, ServeKeys, ServeDrop

\* A reset that is pending stays so, and stays behind what it was behind.
LEMMA ResetStays ==
    ASSUME Core, [Next]_vars, ~Crash, ~Lose, NEW d \in {0, 1}, Moves(d), Serve => d = 1,
           NEW m \in Nat, m > d, m =< Len(sent) + 1,
           NEW b \in Board, NEW k \in Key, ResetFrom(m, b, k)
    PROVE  ResetFrom(m - d, b, k)'
<1>1. /\ TypeOK /\ TurnsInv /\ CommandsInv /\ ResetsInv /\ sent \in Seq(Command)
      /\ Len(sent) \in Nat /\ DOMAIN sent = 1..Len(sent)
      /\ reset \in [War -> SUBSET (Board \X Key)]
  BY DEF Core, TypeOK
<1>2. sent' \in Seq(Command) /\ Len(sent') \in Nat /\ DOMAIN sent' = 1..Len(sent')
  BY TypeKept DEF TypeOK
<1>3. PICK w \in War :
         /\ <<b, k>> \in reset[w] /\ undo[w].at = "idle"
         /\ \/ \E i \in m..Len(sent) : sent[i].op \in Resetting /\ sent[i].by = w
            \/ \E i \in DOMAIN turns : turns[i].kind = "reset" /\ turns[i].by = w
  <2>1. CASE \E i \in m..Len(sent) : sent[i].op \in Resetting /\ <<b, k>> \in reset[sent[i].by]
    <3>1. PICK i \in m..Len(sent) : sent[i].op \in Resetting /\ <<b, k>> \in reset[sent[i].by]
      BY <2>1
    <3>2. i \in DOMAIN sent /\ sent[i] \in Command
      BY <1>1, <3>1
    <3>3. sent[i].by \in War /\ undo[sent[i].by].at = "idle"
      BY <1>1, <3>1, <3>2, CommandFields DEF ResetsInv
    <3> QED BY <3>1, <3>3
  <2>2. CASE \E i \in DOMAIN turns : turns[i].kind = "reset" /\ <<b, k>> \in reset[turns[i].by]
    BY <1>1, <2>2 DEF ResetsInv
  <2> QED BY <2>1, <2>2 DEF ResetFrom
<1>4. <<b, k>> \in reset'[w]
  <2>1. CASE ServeRem
    <3>1. Cmd = sent[1] /\ Cmd.op = "rem" /\ 1 \in DOMAIN sent /\ d = 1
      BY <1>1, <2>1, CmdType DEF ServeRem, Serve
    <3>2. ASSUME NEW i \in m..Len(sent), sent[i].op \in Resetting, sent[i].by = w
          PROVE  w # Cmd.by
      <4>1. i \in DOMAIN sent /\ i # 1
        BY <1>1, <3>1, <3>2
      <4>2. ~Twins(sent[i], sent[1])
        BY <1>1, <3>1, <4>1 DEF CommandsInv
      <4> QED BY <3>1, <3>2, <4>2 DEF Twins, Resetting
    <3>3. ASSUME NEW i \in DOMAIN turns, turns[i].kind = "reset", turns[i].by = w
          PROVE  w # Cmd.by
      BY <1>1, <3>1, <3>3 DEF ResetsInv, Resetting
    <3>4. w # Cmd.by
      BY <1>3, <3>2, <3>3
    <3>5. reset'[w] = reset[w]
      BY <1>1, <2>1, <3>4 DEF ServeRem
    <3> QED BY <1>3, <3>5
  <2>2. ASSUME NEW v \in War, QueueReset(v)
        PROVE  <<b, k>> \in reset'[w]
    BY <1>1, <1>3, <2>2 DEF QueueReset
  <2>3. CASE reset' = reset
    BY <1>3, <2>3
  <2> QED
    BY <2>1, <2>2, <2>3
    DEF Next, Background, Request, Failure, Serve, AtRest, vars, StartUp, RunBackground,
        RunBatch, RunReset, Announce, LoadRows, Continue, Upload, ReadAffected, DeleteWar,
        Rebuild, LoseRows, LoseDelete, ServeIncr, ServeRead, ServePublish, ServeDel,
        ServeKeys, ServeDrop
<1>5. ASSUME NEW i \in m..Len(sent), sent[i].op \in Resetting, sent[i].by = w
      PROVE  ResetFrom(m - d, b, k)'
  <2>1. i \in DOMAIN sent /\ i > d
    BY <1>1, <1>5
  <2>2. i - d \in DOMAIN sent' /\ sent'[i - d] = sent[i]
    BY <2>1 DEF Moves
  <2>3. i - d \in (m - d)..Len(sent')
    BY <1>1, <1>2, <1>5, <2>2
  <2> QED BY <1>4, <1>5, <2>2, <2>3 DEF ResetFrom
<1>6. ASSUME NEW i \in DOMAIN turns, turns[i].kind = "reset", turns[i].by = w
      PROVE  ResetFrom(m - d, b, k)'
  <2>1. CASE \E n \in DOMAIN turns' : turns'[n] = turns[i]
    BY <1>4, <1>6, <2>1 DEF ResetFrom
  <2>2. CASE RunReset /\ i = 1
    <3>1. turns # <<>> /\ Head(turns) = turns[1]
      BY <1>1, <2>2, TailFacts DEF RunReset, TurnOf, TypeOK
    <3>2. {p[2] : p \in reset[w]} \in SUBSET Key
      BY <1>1
    <3>3. PICK c \in Command : c = Del(w, {p[2] : p \in reset[w]})
      BY <3>2, JobsType
    <3>4. sent' = Append(sent, c) /\ c.op \in Resetting /\ c.by = w
      BY <1>6, <2>2, <3>1, <3>3 DEF RunReset, Del, Resetting
    <3>5. Len(sent') = Len(sent) + 1 /\ sent'[Len(sent) + 1] = c
      BY <1>1, <3>4, SentOne
    <3>6. Len(sent) + 1 \in (m - d)..Len(sent')
      BY <1>1, <3>5
    <3> QED BY <1>4, <3>4, <3>5, <3>6 DEF ResetFrom
  <2> QED BY <1>6, <2>1, <2>2, TurnsStay
<1> QED BY <1>3, <1>5, <1>6

\* A read, or a publication of what the hash says, stays behind what it was behind.
LEMMA ReadStays ==
    ASSUME Core, Core', NEW d \in {0, 1}, Moves(d), NEW m \in Nat, m > d,
           NEW k \in Key, stats'[k] = stats[k], ReadFrom(m, k)
    PROVE  ReadFrom(m - d, k)'
<1>1. /\ Len(sent) \in Nat /\ DOMAIN sent = 1..Len(sent)
      /\ Len(sent') \in Nat /\ DOMAIN sent' = 1..Len(sent')
  BY DEF Core, TypeOK
<1>2. PICK i \in m..Len(sent) :
         Reads(i, k) \/ (Shows(i, k) /\ sent[i].tally = Averages(stats[k]))
  BY DEF ReadFrom
<1>3. i \in DOMAIN sent /\ i > d
  BY <1>1
<1>4. i - d \in DOMAIN sent' /\ sent'[i - d] = sent[i]
  BY <1>3 DEF Moves
<1>5. i - d \in (m - d)..Len(sent')
  BY <1>1, <1>2, <1>4
<1>6. \/ Reads(i - d, k)'
      \/ Shows(i - d, k)' /\ sent'[i - d].tally = Averages(stats'[k])
  BY <1>2, <1>4 DEF Reads, Shows
<1> QED BY <1>5, <1>6 DEF ReadFrom

\* What is undamaged was so before; a restart has emptied Redis.
LEMMA UndamagedStep ==
    ASSUME Core, [Next]_vars, Undamaged'
    PROVE  /\ Undamaged /\ ~Lose /\ \A j \in Job : ~LoseRows(j)
           /\ \A w \in War : ~LoseDelete(w)
           /\ Crash => stats' = Empty /\ board' = [b \in Board |-> Empty]
<1>1. crashes \in Nat /\ losses \in Nat
  BY BoundsAssumption DEF Core, TypeOK
<1>2. crashes' = crashes \/ Crash
  BY DEF Next, Background, Request, Failure, Serve, AtRest, vars, StartUp, RunBackground,
     RunBatch, RunReset, Announce, LoadRows, Continue, Upload, ReadAffected, DeleteWar,
     QueueReset, Rebuild, Lose, LoseRows, LoseDelete, ServeIncr, ServeRead, ServePublish,
     ServeDel, ServeRem, ServeKeys, ServeDrop
<1>3. losses' = losses \/ losses' = losses + 1
  BY DEF Next, Background, Request, Failure, Serve, AtRest, vars, StartUp, RunBackground,
     RunBatch, RunReset, Announce, LoadRows, Continue, Upload, ReadAffected, DeleteWar,
     QueueReset, Rebuild, Lose, LoseRows, LoseDelete, Crash, ServeIncr, ServeRead,
     ServePublish, ServeDel, ServeRem, ServeKeys, ServeDrop
<1>4. losses + 1 # 0 /\ crashes + 1 # 0
  BY <1>1
<1>5. ~Lose /\ (\A j \in Job : ~LoseRows(j)) /\ \A w \in War : ~LoseDelete(w)
  BY <1>4 DEF Undamaged, Lose, LoseRows, LoseDelete
<1>6. ASSUME Crash
      PROVE  /\ RedisKept \subseteq {FALSE}
             /\ stats' = Empty /\ board' = [b \in Board |-> Empty]
  <2>1. RedisKept \subseteq {FALSE}
    BY <1>4, <1>6 DEF Undamaged, Crash
  <2> QED BY <1>6, <2>1 DEF Crash
<1>7. Undamaged
  BY <1>1, <1>2, <1>3, <1>4, <1>6 DEF Undamaged
<1> QED BY <1>5, <1>6, <1>7

LEMMA FreshKept ==
    ASSUME Core, FreshInv, [Next]_vars
    PROVE  FreshInv'
<1> DEFINE Shown(b, k) == \/ board[b][k] \in {NoTally, Averages(stats[k])}
                          \/ ReadFrom(1, k) \/ ResetFrom(1, b, k)
           Held(b, k, i) == \/ sent[i].tally = Averages(stats[k])
                            \/ ReadFrom(i + 1, k) \/ ResetFrom(i + 1, b, k)
<1> SUFFICES ASSUME Undamaged', NEW k \in Key, NEW b \in Board
             PROVE  /\ \/ board'[b][k] \in {NoTally, Averages(stats'[k])}
                       \/ ReadFrom(1, k)' \/ ResetFrom(1, b, k)'
                    /\ \A n \in DOMAIN sent' : Shows(n, k)' =>
                          \/ sent'[n].tally = Averages(stats'[k])
                          \/ ReadFrom(n + 1, k)' \/ ResetFrom(n + 1, b, k)'
  BY DEF FreshInv
<1>1. /\ TypeOK /\ TypeOK' /\ Core' /\ ~Lose
      /\ sent \in Seq(Command) /\ Len(sent) \in Nat /\ DOMAIN sent = 1..Len(sent)
      /\ Len(sent') \in Nat /\ DOMAIN sent' = 1..Len(sent')
  <2>1. TypeOK
    BY DEF Core
  <2>2. ~Lose
    BY UndamagedStep
  <2>3. TypeOK'
    BY TypeKept
  <2> QED
    BY <2>1, <2>2, <2>3, JobsKept, TurnsKept, CommandsKept, ResetsKept DEF Core, TypeOK
<1>2. CASE Crash
  <2>1. board'[b][k] = NoTally
    BY <1>2, UndamagedStep DEF Empty
  <2>2. DOMAIN sent' = {}
    BY <1>2 DEF Crash
  <2> QED BY <2>1, <2>2
<1>3. Shown(b, k) /\ \A i \in DOMAIN sent : Shows(i, k) => Held(b, k, i)
  BY UndamagedStep DEF FreshInv
\* What is behind place m of the line stays behind it.
<1>4. ASSUME ~Crash, NEW d \in {0, 1}, Moves(d), Serve => d = 1, NEW m \in Nat, m > d,
             m =< Len(sent) + 1
      PROVE  /\ ResetFrom(m, b, k) => ResetFrom(m - d, b, k)'
             /\ ReadFrom(m, k) /\ stats'[k] = stats[k] => ReadFrom(m - d, k)'
  BY <1>1, <1>4, ResetStays, ReadStays
<1>5. ASSUME ~Crash, NEW d \in {0, 1}, Moves(d), Serve => d = 1,
             stats'[k] = stats[k], NEW n \in DOMAIN sent', Shows(n, k)'
      PROVE  \/ sent'[n].tally = Averages(stats'[k])
             \/ ReadFrom(n + 1, k)' \/ ResetFrom(n + 1, b, k)'
  <2>1. n \in Nat \ {0}
    BY <1>5 DEF Moves
  <2>2. CASE n + d \in DOMAIN sent /\ sent'[n] = sent[n + d]
    <3>1. PICK i \in DOMAIN sent : i = n + d
      BY <2>2
    <3>2. Shows(i, k) /\ sent'[n] = sent[i]
      BY <1>5, <2>2, <3>1 DEF Shows
    <3>3. Held(b, k, i)
      BY <1>3, <3>2
    <3>4. /\ i + 1 \in Nat /\ i + 1 > d /\ i + 1 =< Len(sent) + 1
          /\ (i + 1) - d = n + 1
      BY <1>1, <2>1, <3>1
    <3>5. PICK m \in Nat : m = i + 1
      BY <3>4
    <3>6. /\ ResetFrom(m, b, k) => ResetFrom(m - d, b, k)'
          /\ ReadFrom(m, k) => ReadFrom(m - d, k)'
      BY <1>4, <1>5, <3>4, <3>5
    <3>7. m - d = n + 1
      BY <3>4, <3>5
    <3> QED BY <1>5, <3>2, <3>3, <3>5, <3>6, <3>7
  <2>3. CASE /\ ServeRead
             /\ sent'[n] = Publish(Cmd.by, Cmd.key, Averages(stats[Cmd.key]))
    BY <1>5, <2>3 DEF Publish, Shows
  <2> QED BY <1>5, <2>2, <2>3 DEF Moves, Shows
<1>6. CASE ~Crash /\ Moves(0) /\ ~Serve /\ UNCHANGED redis
  <2>1. stats' = stats /\ board' = board
    BY <1>6 DEF redis
  <2>2. 1 \in Nat /\ 1 > 0 /\ 1 =< Len(sent) + 1 /\ 1 - 0 = 1
    BY <1>1
  <2>3. /\ ResetFrom(1, b, k) => ResetFrom(1, b, k)'
        /\ ReadFrom(1, k) => ReadFrom(1, k)'
    BY <1>4, <1>6, <2>1, <2>2
  <2>4. \/ board'[b][k] \in {NoTally, Averages(stats'[k])}
        \/ ReadFrom(1, k)' \/ ResetFrom(1, b, k)'
    BY <1>3, <2>1, <2>3
  <2> QED BY <1>5, <1>6, <2>1, <2>4
<1>7. ASSUME ~Crash, Serve, Moves(1), NEW op, Due(op)
      PROVE  /\ \/ board'[b][k] \in {NoTally, Averages(stats'[k])}
                \/ ReadFrom(1, k)' \/ ResetFrom(1, b, k)'
             /\ \A n \in DOMAIN sent' : Shows(n, k)' =>
                   \/ sent'[n].tally = Averages(stats'[k])
                   \/ ReadFrom(n + 1, k)' \/ ResetFrom(n + 1, b, k)'
  <2>1. Cmd = sent[1] /\ 1 \in DOMAIN sent /\ Cmd \in Command /\ Cmd.op = op
    BY <1>1, <1>7, CmdType
  <2>2. 1 =< Len(sent)
    BY <1>1, <2>1
  \* the command that follows the one served is behind everything in the line
  <2>3. ASSUME ServeDel \/ ServeRem, <<b, k>> \in reset[Cmd.by],
               ServeRem => <<b, k>> # <<Cmd.board, Cmd.key>>
        PROVE  \A m \in 1..Len(sent) : ResetFrom(m, b, k)' /\ ~Shows(Len(sent), k)'
    <3>1. /\ Len(sent') = Len(sent) /\ Len(sent) \in DOMAIN sent'
          /\ sent'[Len(sent)].op = "rem" /\ sent'[Len(sent)].by = Cmd.by
          /\ <<b, k>> \in reset'[Cmd.by]
      BY <1>7, <2>3, LastCommand
    <3> QED BY <1>1, <3>1 DEF ResetFrom, Resetting, Shows
  <2>4. ASSUME ServeIncr, Cmd.key = k
        PROVE  \A m \in 1..Len(sent) : ReadFrom(m, k)' /\ ~Shows(Len(sent), k)'
    <3>1. /\ Len(sent') = Len(sent) /\ Len(sent) \in DOMAIN sent'
          /\ sent'[Len(sent)] = Read(Cmd.by, Cmd.key)
      BY <2>4, LastCommand
    <3>2. Reads(Len(sent), k)' /\ ~Shows(Len(sent), k)'
      BY <2>4, <3>1 DEF Read, Reads, Shows
    <3> QED BY <1>1, <3>1, <3>2 DEF ReadFrom
  <2>5. ASSUME ServeRead, Cmd.key = k
        PROVE  ReadFrom(1, k)'
    <3>1. /\ Len(sent') = Len(sent) /\ Len(sent) \in DOMAIN sent'
          /\ sent'[Len(sent)] = Publish(Cmd.by, Cmd.key, Averages(stats[Cmd.key]))
      BY <2>5, LastCommand
    <3>2. Shows(Len(sent), k)' /\ sent'[Len(sent)].tally = Averages(stats'[k])
      BY <2>5, <3>1 DEF Publish, Shows, ServeRead, redis
    <3> QED BY <1>1, <2>2, <3>1, <3>2 DEF ReadFrom
  <2>6. ASSUME \/ \A m \in 1..Len(sent) : ResetFrom(m, b, k)' /\ ~Shows(Len(sent), k)'
               \/ \A m \in 1..Len(sent) : ReadFrom(m, k)' /\ ~Shows(Len(sent), k)',
               Len(sent') = Len(sent)
        PROVE  /\ ReadFrom(1, k)' \/ ResetFrom(1, b, k)'
               /\ \A n \in DOMAIN sent' : Shows(n, k)' =>
                     ReadFrom(n + 1, k)' \/ ResetFrom(n + 1, b, k)'
    <3>1. 1 \in 1..Len(sent) /\ Len(sent) \in 1..Len(sent)
      BY <1>1, <2>2
    <3>2. \A n \in DOMAIN sent' : n # Len(sent) => n + 1 \in 1..Len(sent)
      BY <1>1, <2>6
    <3>3. ~Shows(Len(sent), k)'
      BY <2>6, <3>1
    <3> QED BY <2>6, <3>1, <3>2, <3>3
  <2>7. CASE stats'[k] # stats[k]
    <3>1. CASE ServeIncr
      <4>1. Cmd.key = k
        <5>1. /\ Cmd.by \in Job /\ Cmd.key \in Key /\ JobsInv /\ Increase(Cmd.by, Cmd.key)
          BY <2>1, <3>1, CommandFields, CmdType, <1>1 DEF ServeIncr, Updating, Core
        <5> QED BY <1>1, <2>7, <5>1, IncreaseType
      <4> QED BY <2>4, <2>6, <3>1, <4>1, LastCommand
    <3>2. CASE ServeDel
      <4>1. k \in Cmd.keys
        BY <1>1, <2>7, <3>2, ForgetType DEF ServeDel
      <4>2. <<b, k>> \in reset[Cmd.by]
        BY <2>1, <3>2, <4>1 DEF Core, CommandsInv, ServeDel, Due, Cmd
      <4>3. ~ServeRem
        BY <3>2 DEF ServeDel, ServeRem, Due
      <4>4. Len(sent') = Len(sent)
        BY <1>7, <3>2, <4>2, <4>3, LastCommand
      <4> QED BY <2>3, <2>6, <3>2, <4>2, <4>3, <4>4
    <3> QED
      BY <1>7, <2>7, <3>1, <3>2
      DEF Serve, ServeRead, ServePublish, ServeRem, ServeKeys, ServeDrop, redis
  <2>8. CASE stats'[k] = stats[k]
    <3>1. \A n \in DOMAIN sent' : Shows(n, k)' =>
             \/ sent'[n].tally = Averages(stats'[k])
             \/ ReadFrom(n + 1, k)' \/ ResetFrom(n + 1, b, k)'
      BY <1>5, <1>7, <2>8
    <3>2. /\ ResetFrom(2, b, k) => ResetFrom(1, b, k)'
          /\ ReadFrom(2, k) => ReadFrom(1, k)'
      <4>1. 2 \in Nat /\ 2 > 1 /\ 2 =< Len(sent) + 1 /\ 2 - 1 = 1 /\ 1 \in {0, 1}
        BY <1>1, <2>2
      <4> QED BY <1>4, <1>7, <2>8, <4>1
    <3> SUFFICES \/ board'[b][k] \in {NoTally, Averages(stats'[k])}
                 \/ ReadFrom(1, k)' \/ ResetFrom(1, b, k)'
      BY <3>1
    <3>3. CASE Due("publish") /\ Cmd.key = k /\ board'[b][k] = Cmd.tally
      <4>1. Shows(1, k)
        BY <2>1, <3>3 DEF Shows, Due, Cmd
      <4>2. Held(b, k, 1) /\ 1 + 1 = 2
        BY <1>3, <2>1, <4>1
      <4> QED BY <2>1, <2>8, <3>2, <3>3, <4>2
    <3>4. CASE board'[b][k] = board[b][k] /\ board[b][k] \in {NoTally, Averages(stats[k])}
      BY <2>8, <3>4
    <3>5. CASE ReadFrom(1, k)
      <4>1. CASE ReadFrom(2, k)
        BY <3>2, <4>1
      <4>2. CASE Reads(1, k)
        <5>1. ServeRead /\ Cmd.key = k
          BY <1>7, <2>1, <4>2
          DEF Reads, Serve, ServeIncr, ServeRead, ServePublish, ServeDel, ServeRem, ServeKeys,
              ServeDrop, Due, Cmd
        <5> QED BY <2>5, <5>1
      <4>3. CASE Shows(1, k) /\ sent[1].tally = Averages(stats[k])
        <5>1. ServePublish /\ Cmd.key = k
          BY <1>7, <2>1, <4>3
          DEF Shows, Serve, ServeIncr, ServeRead, ServePublish, ServeDel, ServeRem, ServeKeys,
              ServeDrop, Due, Cmd
        <5>2. Show(k, Cmd.tally, Board) /\ Cmd.tally \in Tally
          BY <2>1, <4>3, <5>1, CommandFields DEF ServePublish, Shows
        <5>3. board'[b][k] = Cmd.tally
          BY <1>1, <5>2, ShowType
        <5> QED BY <2>1, <2>8, <4>3, <5>3
      <4>4. PICK i \in 1..Len(sent) :
               Reads(i, k) \/ (Shows(i, k) /\ sent[i].tally = Averages(stats[k]))
        BY <3>5 DEF ReadFrom
      <4>5. i # 1 => i \in 2..Len(sent)
        BY <1>1
      <4> QED BY <4>1, <4>2, <4>3, <4>4, <4>5 DEF ReadFrom
    <3>6. CASE ResetFrom(1, b, k)
      <4>1. CASE ResetFrom(2, b, k)
        BY <3>2, <4>1
      <4>2. CASE sent[1].op \in Resetting /\ <<b, k>> \in reset[sent[1].by]
        <5>1. ServeDel \/ ServeRem
          BY <1>7, <2>1, <4>2
          DEF Resetting, Serve, ServeIncr, ServeRead, ServePublish, ServeDel, ServeRem,
              ServeKeys, ServeDrop, Due, Cmd
        <5>2. CASE ServeRem /\ <<b, k>> = <<Cmd.board, Cmd.key>>
          <6>1. Show(k, NoTally, {b}) /\ NoTally \in Tally
            BY <5>2, RecordsType DEF ServeRem
          <6>2. board'[b][k] = NoTally
            BY <1>1, <6>1, ShowType
          <6> QED BY <6>2
        <5>3. CASE ServeRem => <<b, k>> # <<Cmd.board, Cmd.key>>
          <6>1. 1 \in 1..Len(sent)
            BY <1>1, <2>2
          <6> QED BY <2>1, <2>3, <4>2, <5>1, <5>3, <6>1
        <5> QED BY <5>2, <5>3
      <4>3. CASE \E i \in DOMAIN turns :
                    turns[i].kind = "reset" /\ <<b, k>> \in reset[turns[i].by]
        BY <4>1, <4>3 DEF ResetFrom
      <4>4. CASE \E i \in 1..Len(sent) :
                    sent[i].op \in Resetting /\ <<b, k>> \in reset[sent[i].by]
        <5>1. PICK i \in 1..Len(sent) :
                 sent[i].op \in Resetting /\ <<b, k>> \in reset[sent[i].by]
          BY <4>4
        <5>2. i # 1 => i \in 2..Len(sent)
          BY <1>1
        <5> QED BY <4>1, <4>2, <5>1, <5>2 DEF ResetFrom
      <4> QED BY <3>6, <4>3, <4>4 DEF ResetFrom
    <3>7. CASE board'[b][k] = NoTally
      BY <3>7
    <3> QED BY <1>3, <3>3, <3>4, <3>5, <3>6, <3>7, BoardStep
  <2> QED BY <2>7, <2>8
<1> QED BY <1>1, <1>2, <1>6, <1>7, LineStep

\* Behind every figure that is no longer current comes a command that will replace it.
THEOREM FreshInvariant == Spec => []FreshInv
<1>1. Init => FreshInv
  <2> SUFFICES ASSUME Init
               PROVE  FreshInv
    OBVIOUS
  <2>1. DOMAIN sent = {} /\ \A b \in Board, k \in Key : board[b][k] = NoTally
    BY DEF Init, Empty
  <2> QED BY <2>1 DEF FreshInv
<1>2. LineInv /\ FreshInv /\ [Next]_vars => FreshInv'
  BY FreshKept DEF LineInv, Core
<1> QED BY <1>1, <1>2, LineInvariant, PTL DEF Spec

\* A sorted set shows the averages of the hash, or nothing, of every player and class
\* that no update and no reset is at work on, unless a command threw or Redis outlived
\* a restart.
THEOREM SettledIsCurrent == Spec => []ShownIsCurrent
<1>1. LineInv /\ FreshInv => ShownIsCurrent
  <2> SUFFICES ASSUME LineInv, FreshInv, Undamaged,
                      NEW k \in Key, Settled(k), NEW b \in Board
               PROVE  board[b][k] \in {NoTally, Averages(stats[k])}
    BY DEF ShownIsCurrent
  <2>1. TypeOK /\ CommandsInv /\ ResetsInv
    BY DEF LineInv
  <2>2. \A i \in 1..Len(sent) : i \in DOMAIN sent /\ sent[i] \in Command
    BY <2>1 DEF TypeOK
  <2>3. ~ReadFrom(1, k)
    <3> SUFFICES ASSUME NEW i \in 1..Len(sent), Reads(i, k) \/ Shows(i, k)
                 PROVE  FALSE
      BY DEF ReadFrom
    <3>1. i \in DOMAIN sent /\ sent[i].op \in Updating /\ sent[i].key = k
      BY <2>2 DEF Reads, Shows, Updating
    <3>2. sent[i].by \in Job /\ k \in batch[sent[i].by].active
      BY <2>1, <2>2, <3>1, CommandFields DEF CommandsInv
    <3> QED BY <3>2 DEF Settled
  <2>4. ~ResetFrom(1, b, k)
    <3>1. ASSUME NEW i \in 1..Len(sent), sent[i].op \in Resetting,
                 <<b, k>> \in reset[sent[i].by]
          PROVE  FALSE
      BY <2>2, <3>1, CommandFields DEF Settled
    <3>2. ASSUME NEW i \in DOMAIN turns, turns[i].kind = "reset",
                 <<b, k>> \in reset[turns[i].by]
          PROVE  FALSE
      BY <2>1, <3>2 DEF Settled, ResetsInv
    <3> QED BY <3>1, <3>2 DEF ResetFrom
  <2> QED BY <2>3, <2>4 DEF FreshInv
<1> QED BY <1>1, LineInvariant, FreshInvariant, PTL

-----------------------------------------------------------------------------
(* Without rebuilds and rollbacks                                          *)

\* What is untouched was so before, nobody is gone, and only uploads and the
\* recovery at start-up are under way.
LEMMA UntouchedStep ==
    ASSUME Core, [Next]_vars, Untouched'
    PROVE  /\ Untouched
           /\ \/ Crash \/ StartUp \/ LoadRows(Boot) \/ RunBackground \/ RunBatch
              \/ ServeIncr \/ ServeRead \/ ServePublish
              \/ ServeKeys /\ Cmd.by = Boot
              \/ \E w \in War : Upload(w) \/ Announce(w)
              \/ \E j \in Job : Continue(j)
              \/ UNCHANGED <<war, stats, board, sent, turns, batch, reset, call>>
<1>1. /\ TypeOK /\ TurnsInv /\ CommandsInv /\ ResetsInv
      /\ call \in [Job -> {"idle", "keys", "load", "done"}]
      /\ war \in [War -> {"new", "stored", "rolledback"}]
      /\ Rebuilds \subseteq Job /\ Boot \in Job /\ Boot \notin Rebuilds
      /\ War \subseteq Job /\ War \cap Rebuilds = {}
  BY JobsType, JobsAssumption DEF Core, TypeOK
<1>2. /\ Undamaged /\ ~Lose /\ \A j \in Job : ~LoseRows(j)
      /\ \A w \in War : ~LoseDelete(w)
  BY UndamagedStep DEF Untouched
<1>3. \A w \in War : war[w] # "rolledback"
  BY GoneGrows DEF Untouched
<1>4. ASSUME NEW op, Due(op)
      PROVE  /\ Cmd \in Command /\ Cmd = sent[1] /\ Cmd.op = op /\ op \notin Resetting
             /\ op \in Listing => call[Cmd.by] = "keys" /\ Cmd.by \in Rebuilds \cup {Boot}
             /\ op \in Updating => Cmd.by \in Job
             /\ op = "drop" => Cmd.by \in Rebuilds
  <2>1. /\ Cmd = sent[1] /\ Cmd \in Command /\ Cmd.op = op /\ 1 \in DOMAIN sent
    BY <1>1, <1>4, CmdType
  <2> QED BY <1>1, <1>3, <2>1, CommandFields DEF CommandsInv, ResetsInv
<1>5. ~RunReset
  BY <1>1, <1>3, TailFacts DEF RunReset, TurnOf, ResetsInv, TypeOK
\* A rebuild that is idle now was idle before.
<1>6. ASSUME NEW n \in Rebuilds, call[n] # "idle"
      PROVE  FALSE
  <2>1. call'[n] = "idle"
    BY DEF Untouched
  <2>2. CASE Crash
    BY <1>1, <1>6, <2>1, <2>2 DEF Crash
  <2>3. CASE ServeKeys \/ ServeDrop
    <3>1. /\ Due("keys") \/ Due("drop")
          /\ \/ call' = call \/ call' = [call EXCEPT ![Boot] = "done"]
             \/ call' = [call EXCEPT ![Cmd.by] = "load"]
      BY <2>3 DEF ServeKeys, ServeDrop
    <3> QED BY <1>1, <1>6, <2>1, <3>1
  <2>4. ASSUME NEW j \in Job, NEW to, to # "idle", call' = [call EXCEPT ![j] = to]
        PROVE  FALSE
    BY <1>1, <1>6, <2>1, <2>4
  <2>5. CASE UNCHANGED call
    BY <1>6, <2>1, <2>5
  <2> QED
    BY <1>1, <1>2, <2>2, <2>3, <2>4, <2>5
    DEF Next, Background, Request, Failure, Serve, AtRest, vars, StartUp, RunBackground,
        RunBatch, RunReset, Announce, LoadRows, Continue, Upload, ReadAffected, DeleteWar,
        QueueReset, Rebuild, ServeIncr, ServeRead, ServePublish, ServeDel, ServeRem
<1>7. Untouched
  BY <1>2, <1>3, <1>6 DEF Untouched
<1>8. \A n \in Rebuilds : ~Rebuild(n) /\ ~LoadRows(n)
  <2> TAKE n \in Rebuilds
  <2>1. call[n] = "idle" /\ call'[n] = "idle"
    BY <1>7 DEF Untouched
  <2> QED BY <1>1, <2>1 DEF Rebuild, LoadRows
<1>9. ASSUME NEW w \in War
      PROVE  /\ ~DeleteWar(w) /\ ~QueueReset(w)
             /\ ReadAffected(w) =>
                   UNCHANGED <<war, stats, board, sent, turns, batch, reset, call>>
  <2>1. war'[w] # "rolledback"
    BY DEF Untouched
  <2>2. ~DeleteWar(w)
    BY <1>1, <2>1 DEF DeleteWar
  <2>3. ~QueueReset(w)
    BY <1>1, <1>3 DEF QueueReset, ResetsInv
  <2> QED BY <2>2, <2>3 DEF ReadAffected, redis
<1>10. ~ServeDel /\ ~ServeRem /\ ~ServeDrop /\ (ServeKeys => Cmd.by = Boot)
  <2>1. \A n \in Rebuilds : call[n] # "keys"
    BY <1>7 DEF Untouched
  <2> QED BY <1>4, <2>1 DEF ServeDel, ServeRem, ServeDrop, ServeKeys, Resetting, Listing
<1> QED
  BY <1>2, <1>5, <1>7, <1>8, <1>9, <1>10
  DEF Next, Background, Request, Failure, Serve, AtRest, vars

LEMMA UntouchedFacts ==
    ASSUME JobsInv, Untouched
    PROVE  /\ \A w \in War : RowsOf(w) = Lineup[w] /\ Lineup[w] \subseteq Row
           /\ \A w \in War : \A r \in Lineup[w] : r.war = w /\ r.player # NoPlayer
           /\ \A n \in Rebuilds : batch[n].rows = {}
<1>1. Gone = {}
  BY DEF Gone, Untouched
<1>2. \A w \in War : /\ Lineup[w] \subseteq Row
                     /\ \A r \in Lineup[w] : r.war = w /\ r.player \in Player
  BY LineupAssumption
<1>3. ASSUME NEW w \in War
      PROVE  RowsOf(w) = Lineup[w]
  <2>1. \A r \in Lineup[w] :
           [r EXCEPT !.player = IF r.player \in Gone THEN NoPlayer ELSE r.player] = r
    BY <1>1, <1>2 DEF Row
  <2> QED BY <2>1 DEF RowsOf
<1>4. \A n \in Rebuilds : batch[n].rows = {}
  BY JobsType DEF Untouched, JobsInv, Idle
<1> QED BY <1>2, <1>3, <1>4, FiniteAssumption

\* Nobody has lost a performance to a rollback.
StoredRows == Rows = UNION {Lineup[w] : w \in {w \in War : war[w] = "stored"}}

LEMMA UntouchedRows == Untouched => StoredRows
<1> SUFFICES ASSUME Untouched
             PROVE  \A w \in War : RowsOf(w) = Lineup[w]
  BY DEF Rows, StoredRows
<1> TAKE w \in War
<1>1. Gone = {}
  BY DEF Gone, Untouched
<1>2. \A r \in Lineup[w] :
         [r EXCEPT !.player = IF r.player \in Gone THEN NoPlayer ELSE r.player] = r
  BY <1>1, LineupAssumption DEF Row
<1> QED BY <1>2 DEF RowsOf

LEMMA UntouchedRowsNext == Untouched' => StoredRows'
BY UntouchedRows, PTL

LEMMA HoldersKept ==
    ASSUME Core, HoldersInv, [Next]_vars
    PROVE  HoldersInv'
<1> DEFINE Stored == UNION {Lineup[w] : w \in {w \in War : war[w] = "stored"}}
<1> SUFFICES ASSUME Untouched'
             PROVE  HoldersInv'
  BY DEF HoldersInv
<1>1. /\ TypeOK /\ JobsInv /\ TurnsInv /\ CommandsInv /\ Untouched
      /\ call \in [Job -> {"idle", "keys", "load", "done"}]
      /\ war \in [War -> {"new", "stored", "rolledback"}]
      /\ batch \in [Job -> [rows : SUBSET Row, todo : SUBSET Key, active : SUBSET Key]]
      /\ War \subseteq Job /\ Boot \in Job /\ Boot \notin War
      /\ Rows = Stored /\ Rows' = Stored'
  BY UntouchedStep, UntouchedRows, UntouchedRowsNext, JobsType DEF Core, TypeOK, StoredRows
<1>2. /\ \A w \in War : RowsOf(w) = Lineup[w] /\ Lineup[w] \subseteq Row
      /\ \A w \in War : \A r \in Lineup[w] : r.war = w /\ r.player # NoPlayer
  BY <1>1, UntouchedFacts
<1>3. /\ call[Boot] # "done" => /\ \A j \in Job : batch[j].rows = {}
                                /\ \A w \in War : call[w] # "load"
      /\ call[Boot] \in {"idle", "keys"} => Found = {}
      /\ \A w \in War :
            /\ batch[w].rows \subseteq Lineup[w]
            /\ batch[w].rows # {} \/ call[w] = "load" =>
                  Lineup[w] \cap batch[Boot].rows = {}
            /\ war[w] = "stored" /\ call[Boot] = "done" =>
                  call[w] = "load" \/ Lineup[w] \subseteq batch[w].rows \cup batch[Boot].rows
      /\ batch[Boot].rows \subseteq Rows
  BY <1>1 DEF HoldersInv, Listening
<1> HIDE DEF Stored
\* It is enough to look at the wars, the calls, the sorted sets and the rows.
<1>4. ASSUME UNCHANGED <<war, call>>, \A j \in Job : batch'[j].rows = batch[j].rows,
             call[Boot] = "done" \/ board' = board
      PROVE  HoldersInv'
  <2>1. Rows' = Rows
    BY <1>1, <1>4 DEF Stored
  <2>2. call[Boot] \in {"idle", "keys"} => Found' = {}
    BY <1>3, <1>4 DEF Found
  <2> QED BY <1>1, <1>3, <1>4, <2>1, <2>2 DEF HoldersInv, Listening
<1>5. CASE Crash
  <2>1. /\ call'[Boot] = "idle" /\ \A j \in Job : batch'[j].rows = {}
        /\ \A w \in War : call'[w] # "load"
    BY <1>1, <1>5 DEF Crash, Idle
  <2>2. Found' = {}
    <3>1. board' = [b \in Board |-> Empty]
      BY <1>5, UndamagedStep DEF Untouched
    <3> QED BY <3>1 DEF Found
  <2> QED BY <1>1, <2>1, <2>2 DEF HoldersInv, Listening

<1>6. CASE StartUp
  <2>1. /\ call[Boot] = "idle" /\ call'[Boot] = "keys"
        /\ \A w \in War : call'[w] = call[w]
    BY <1>1, <1>6 DEF StartUp
  <2>2. \A j \in Job : batch'[j] = batch[j]
    BY <1>6 DEF StartUp
  <2>3. Found' = {} /\ Rows' = Rows
    BY <1>1, <1>3, <1>6, <2>1 DEF StartUp, Found, redis, Stored
  <2> QED BY <1>1, <1>3, <2>1, <2>2, <2>3 DEF HoldersInv, Listening
<1>7. ASSUME NEW w \in War, Upload(w)
      PROVE  HoldersInv'
  <2>1. /\ call[Boot] = "done" /\ war[w] = "new" /\ batch' = batch
        /\ \A v \in War : war'[v] = IF v = w THEN "stored" ELSE war[v]
        /\ \A j \in Job : call'[j] = IF j = w THEN "load" ELSE call[j]
    BY <1>1, <1>7 DEF Upload, Listening
  <2>2. Rows \subseteq Rows'
    BY <1>1, <2>1 DEF Stored
  <2>3. Lineup[w] \cap batch[Boot].rows = {}
    <3> SUFFICES ASSUME NEW r \in Lineup[w], r \in Rows
                 PROVE  FALSE
      BY <1>3
    <3>1. PICK v \in War : war[v] = "stored" /\ r \in Lineup[v]
      BY <1>1 DEF Stored
    <3> QED BY <1>2, <2>1, <3>1
  <2>4. call'[Boot] = "done"
    BY <1>1, <2>1
  <2> QED BY <1>1, <1>3, <2>1, <2>2, <2>3, <2>4 DEF HoldersInv, Listening
<1>8. ASSUME NEW w \in War, Announce(w)
      PROVE  HoldersInv'
  <2>1. PICK rows : rows = {r \in RowsOf(w) : r.player # NoPlayer}
    OBVIOUS
  <2>2. batch' = [batch EXCEPT ![w] = [@ EXCEPT !.rows = rows]]
    BY <1>8, <2>1 DEF Announce
  <2>3. /\ call[w] = "load" /\ call[Boot] = "done" /\ UNCHANGED <<war, board>>
        /\ \A j \in Job : call'[j] = IF j = w THEN "done" ELSE call[j]
        /\ \A j \in Job : batch'[j].rows = IF j = w THEN Lineup[w] ELSE batch[j].rows
    <3>1. call[w] = "load" /\ call[Boot] = "done"
      BY <1>1, <1>3, <1>8 DEF Announce
    <3>2. rows = Lineup[w]
      BY <1>2, <2>1
    <3> QED BY <1>1, <1>8, <2>2, <3>1, <3>2 DEF Announce, redis
  <2>4. Rows' = Rows /\ call'[Boot] = "done"
    BY <1>1, <2>3 DEF Stored
  <2> QED BY <1>1, <1>3, <2>3, <2>4 DEF HoldersInv, Listening
<1>9. CASE LoadRows(Boot)
  <2>1. /\ call[Boot] = "load" /\ UNCHANGED war /\ call'[Boot] = "done"
        /\ \A w \in War : call'[w] = call[w]
    BY <1>1, <1>9 DEF LoadRows
  <2>2. Rows' = Rows
    BY <1>1, <2>1 DEF Stored
  <2>3. /\ batch'[Boot].rows = Rows
        /\ \A w \in War : batch'[w].rows = {}
    <3>1. CASE Rows = {} /\ batch' = batch
      BY <1>1, <1>3, <2>1, <3>1
    <3>2. CASE batch' = [batch EXCEPT ![Boot].rows = Rows]
      <4>1. PICK rows : rows = Rows
        OBVIOUS
      <4>2. batch' = [batch EXCEPT ![Boot] = [@ EXCEPT !.rows = rows]]
        BY <3>2, <4>1
      <4> QED BY <1>1, <1>3, <2>1, <4>1, <4>2
    <3> QED BY <1>9, <3>1, <3>2 DEF LoadRows
  <2>4. \A w \in War : war'[w] = "stored" => Lineup[w] \subseteq Rows
    BY <1>1, <2>1 DEF Stored
  <2> QED BY <1>1, <1>3, <2>1, <2>2, <2>3, <2>4 DEF HoldersInv, Listening
<1>10. CASE RunBatch
  <2>1. Head(turns) \in Turn
    BY <1>1, <1>10, TailFacts DEF RunBatch, TurnOf, TypeOK
  <2>2. PICK j \in Job : j = Head(turns).by
    BY <2>1 DEF Turn
  <2>3. PICK keys \in SUBSET Key :
           IsFiniteSet(keys) /\ Begin(j, keys)
    BY <1>1, <1>10, <2>2, KeysType DEF RunBatch, JobsInv
  <2>4. \A m \in Job : batch'[m].rows = batch[m].rows
    BY <1>1, <2>3, BeginFacts
  <2> QED BY <1>4, <1>10, <2>4 DEF RunBatch, redis
<1>11. ASSUME NEW j \in Job, Continue(j)
       PROVE  HoldersInv'
  <2>1. IsFiniteSet(KeysOf(batch[j].rows)) /\ KeysOf(batch[j].rows) \in SUBSET Key
    BY <1>1, KeysType DEF JobsInv
  <2>2. IsFiniteSet(batch[j].todo) /\ batch[j].todo \in SUBSET Key
    BY <1>1, <2>1, FS_Subset DEF JobsInv
  <2>3. PICK keys \in SUBSET Key :
           IsFiniteSet(keys) /\ Begin(j, keys)
    BY <1>11, <2>2 DEF Continue
  <2>4. \A m \in Job : batch'[m].rows = batch[m].rows
    BY <1>1, <2>3, BeginFacts
  <2> QED BY <1>4, <1>11, <2>4 DEF Continue, redis
<1>12. CASE ServePublish
  <2>1. /\ Cmd = sent[1] /\ 1 \in DOMAIN sent /\ Cmd \in Command /\ Cmd.op = "publish"
        /\ End(Cmd.by, Cmd.key)
    BY <1>1, <1>12, CmdType DEF ServePublish
  <2>2. PICK j \in Job : j = Cmd.by /\ Cmd.key \in batch[j].active
    BY <1>1, <2>1, CommandFields DEF CommandsInv, Updating
  <2>3. call[Boot] = "done"
    BY <1>1, <1>3, <2>2 DEF JobsInv, KeysOf
  <2>4. \A m \in Job : batch'[m].rows = batch[m].rows
    BY <1>1, <2>1, <2>2, EndType
  <2> QED BY <1>4, <1>12, <2>3, <2>4 DEF ServePublish
<1>13. CASE ServeKeys /\ Cmd.by = Boot
  <2>1. call[Boot] = "keys"
    <3>1. /\ Cmd = sent[1] /\ 1 \in DOMAIN sent /\ Cmd.op = "keys"
      BY <1>1, <1>13, CmdType DEF ServeKeys
    <3> QED BY <1>1, <1>13, <3>1 DEF CommandsInv, Listing
  <2>2. /\ call'[Boot] = "load" /\ \A w \in War : call'[w] = call[w]
    BY <1>1, <1>3, <1>13, <2>1 DEF ServeKeys
  <2>3. UNCHANGED <<war, batch>> /\ Rows' = Rows
    BY <1>1, <1>13 DEF ServeKeys, Stored
  <2> QED BY <1>1, <1>3, <2>1, <2>2, <2>3 DEF HoldersInv, Listening
<1>14. CASE \/ RunBackground \/ ServeIncr \/ ServeRead
            \/ UNCHANGED <<war, stats, board, sent, turns, batch, reset, call>>
  BY <1>4, <1>14 DEF RunBackground, ServeIncr, ServeRead, redis
<1> QED
  BY <1>5, <1>6, <1>7, <1>8, <1>9, <1>10, <1>11, <1>12, <1>13, <1>14, UntouchedStep

\* No two jobs have the same row.
LEMMA HoldersApart ==
    ASSUME Core, HoldersInv, Untouched
    PROVE  /\ \A j, m \in Job : j # m => batch[j].rows \cap batch[m].rows = {}
           /\ \A j \in Job : batch[j].rows \subseteq Rows
<1>1. /\ JobsInv /\ StoredRows /\ war \in [War -> {"new", "stored", "rolledback"}]
      /\ War \subseteq Job
  BY UntouchedRows DEF Core, TypeOK, Job
<1>2. /\ \A w \in War : Lineup[w] \subseteq Row
      /\ \A w \in War : \A r \in Lineup[w] : r.war = w
      /\ \A n \in Rebuilds : batch[n].rows = {}
  BY <1>1, UntouchedFacts
<1>3. /\ \A w \in War : /\ batch[w].rows \subseteq Lineup[w]
                        /\ batch[w].rows # {} => Lineup[w] \cap batch[Boot].rows = {}
      /\ batch[Boot].rows \subseteq Rows
  BY DEF HoldersInv
<1>4. \A w \in War : batch[w].rows \subseteq Rows
  <2> SUFFICES ASSUME NEW w \in War, batch[w].rows # {}
               PROVE  batch[w].rows \subseteq Rows
    OBVIOUS
  <2>1. war[w] # "new"
    BY <1>1 DEF JobsInv, Idle
  <2>2. war[w] = "stored"
    BY <1>1, <2>1 DEF Untouched
  <2> QED BY <1>1, <1>3, <2>2 DEF StoredRows
<1>5. ASSUME NEW j \in Job, NEW m \in Job, j # m, NEW r, r \in batch[j].rows,
             r \in batch[m].rows
      PROVE  FALSE
  <2>1. j \notin Rebuilds /\ m \notin Rebuilds
    BY <1>2, <1>5
  <2>2. CASE j \in War /\ m \in War
    BY <1>2, <1>3, <1>5, <2>2
  <2>3. CASE j = Boot /\ m \in War
    BY <1>3, <1>5, <2>3
  <2>4. CASE m = Boot /\ j \in War
    BY <1>3, <1>5, <2>4
  <2> QED BY <1>5, <2>1, <2>2, <2>3, <2>4 DEF Job
<1> QED BY <1>2, <1>3, <1>4, <1>5 DEF Job

LEMMA CountedFinite ==
    ASSUME Core, HoldersInv, Untouched, NEW k
    PROVE  Counted(k) \subseteq Rows /\ IsFiniteSet(Counted(k))
<1>1. Counted(k) \subseteq Rows
  BY HoldersApart DEF Counted
<1> QED BY <1>1, RowsType, FS_Subset

\* An increment is in the line, or a turn before it in the queue.
InLine(j, k) == \E i \in DOMAIN sent : sent[i] = Incr(j, k)
Turned(j) == \E i \in DOMAIN turns : turns[i].kind # "reset" /\ turns[i].by = j
LEMMA WaitsMeans ==
    \A j, k : Waits(j, k) <=> k \in batch[j].todo \/ Turned(j) \/ InLine(j, k)
BY DEF Waits, Turned, InLine

LEMMA AskedServed ==
    ASSUME TypeOK, sent # <<>>,
           \/ Follow(<<>>)
           \/ \E c \in Command : c.op # "incr" /\ Follow(<<c>>)
    PROVE  \A j, k :
              InLine(j, k)' <=> \E i \in DOMAIN sent : i # 1 /\ sent[i] = Incr(j, k)
<1>1. \A n \in DOMAIN sent' : \/ n + 1 \in DOMAIN sent /\ sent'[n] = sent[n + 1] /\ n \in Nat \ {0}
                              \/ sent'[n].op # "incr"
  BY Served, ServedOne
<1>2. \A i \in DOMAIN sent : i # 1 => i - 1 \in DOMAIN sent' /\ sent'[i - 1] = sent[i]
  BY Served, ServedOne
<1>3. \A n \in Nat \ {0} : n + 1 # 1
  OBVIOUS
<1> TAKE j, k
<1>4. Incr(j, k).op = "incr"
  BY DEF Incr
<1>5. ASSUME InLine(j, k)'
      PROVE  \E i \in DOMAIN sent : i # 1 /\ sent[i] = Incr(j, k)
  BY <1>1, <1>3, <1>4, <1>5 DEF InLine
<1>6. ASSUME NEW i \in DOMAIN sent, i # 1, sent[i] = Incr(j, k)
      PROVE  InLine(j, k)'
  BY <1>2, <1>6 DEF InLine
<1> QED BY <1>5, <1>6

\* It is enough to look at the keys that wait and the rows of the jobs.
LEMMA CountedSame ==
    ASSUME NEW k,
           \A j \in Job : \/ batch[j].rows = {} /\ Waits(j, k)'
                          \/ /\ batch'[j].rows = batch[j].rows
                             /\ \/ Waits(j, k)' <=> Waits(j, k)
                                \/ k \notin KeysOf(batch[j].rows)
    PROVE  Counted(k)' = Counted(k)
<1>1. \A j \in Job : \A r :
         r \in batch[j].rows /\ KeyOf(r) = k /\ ~Waits(j, k) <=>
         r \in batch'[j].rows /\ KeyOf(r) = k /\ ~Waits(j, k)'
  BY DEF KeysOf
<1> QED BY <1>1 DEF Counted

\* Only an increment of the key changes what has been counted of it.
LEMMA CountedKept ==
    ASSUME Core, [Next]_vars, Untouched', ~Crash, NEW k \in Key
    PROVE  Counted(k)' = Counted(k) \/ (ServeIncr /\ Cmd.key = k)
<1>1. /\ TypeOK /\ JobsInv /\ TurnsInv /\ CommandsInv
      /\ batch \in [Job -> [rows : SUBSET Row, todo : SUBSET Key, active : SUBSET Key]]
      /\ War \subseteq Job /\ Boot \in Job
      /\ \A j \in Job : IsFiniteSet(KeysOf(batch[j].rows))
                        /\ KeysOf(batch[j].rows) \in SUBSET Key
  BY JobsType, KeysType DEF Core, TypeOK, JobsInv
<1>2. ASSUME NEW op, Due(op)
      PROVE  /\ Cmd = sent[1] /\ 1 \in DOMAIN sent /\ Cmd \in Command /\ Cmd.op = op
             /\ sent # <<>> /\ op \in Updating => Cmd.by \in Job
  BY <1>1, <1>2, CmdType, CommandFields
<1>3. ASSUME UNCHANGED <<batch, turns>>, \A j \in Job : InLine(j, k)' <=> InLine(j, k)
      PROVE  Counted(k)' = Counted(k)
  BY <1>3, CountedSame DEF Waits, InLine
<1>4. ASSUME NEW op, Due(op), op # "incr",
             \/ Follow(<<>>)
             \/ \E c \in Command : c.op # "incr" /\ Follow(<<c>>)
      PROVE  \A j \in Job : InLine(j, k)' <=> InLine(j, k)
  <2>1. \A j : sent[1] # Incr(j, k)
    BY <1>2, <1>4 DEF Incr
  <2>2. \A j : InLine(j, k)' <=> \E i \in DOMAIN sent : i # 1 /\ sent[i] = Incr(j, k)
    BY <1>1, <1>2, <1>4, AskedServed
  <2> QED BY <2>1, <2>2 DEF InLine
<1>5. CASE StartUp
  <2>1. PICK c \in Command : c = ListKeys(Boot)
    BY JobsType
  <2>2. sent' = Append(sent, c) /\ \A j : c # Incr(j, k)
    BY <1>5, <2>1 DEF StartUp, ListKeys, Incr
  <2>3. \A j \in Job : InLine(j, k)' <=> InLine(j, k)
    BY <1>1, <2>2, SentOne DEF InLine
  <2> QED BY <1>3, <1>5, <2>3 DEF StartUp
<1>6. ASSUME NEW w \in War, Upload(w)
      PROVE  Counted(k)' = Counted(k)
  BY <1>3, <1>6 DEF Upload, InLine
\* A job that has its rows now waits for its turn.
<1>7. ASSUME NEW j \in Job, NEW rows, NEW t \in Turn, call[j] # "done",
             batch' = [batch EXCEPT ![j] = [@ EXCEPT !.rows = rows]],
             turns' = Append(turns, t), t.kind # "reset", t.by = j, sent' = sent
      PROVE  Counted(k)' = Counted(k)
  <2>1. batch[j].rows = {}
    BY <1>1, <1>7 DEF JobsInv, Idle
  <2>2. /\ \A n \in DOMAIN turns' : \/ n \in DOMAIN turns /\ turns'[n] = turns[n]
                                    \/ turns'[n] = t
        /\ \A i \in DOMAIN turns : i \in DOMAIN turns' /\ turns'[i] = turns[i]
        /\ \E n \in DOMAIN turns' : turns'[n] = t
    BY <1>1, <1>7, TurnsGrow
  <2>3. Waits(j, k)'
    BY <1>7, <2>2 DEF Waits
  <2>4. ASSUME NEW m \in Job, m # j
        PROVE  batch'[m] = batch[m] /\ (Waits(m, k)' <=> Waits(m, k))
    BY <1>1, <1>7, <2>2, <2>4 DEF Waits
  <2> QED BY <2>1, <2>3, <2>4, CountedSame
<1>8. ASSUME NEW w \in War, Announce(w)
      PROVE  Counted(k)' = Counted(k)
  <2>1. PICK rows : rows = {r \in RowsOf(w) : r.player # NoPlayer}
    OBVIOUS
  <2>2. batch' = [batch EXCEPT ![w] = [@ EXCEPT !.rows = rows]]
    BY <1>8, <2>1 DEF Announce
  <2>3. PICK t \in Turn : t = [kind |-> "background", by |-> w]
    BY <1>1 DEF Turn
  <2> QED BY <1>1, <1>7, <1>8, <2>2, <2>3 DEF Announce
<1>9. CASE LoadRows(Boot)
  <2>1. CASE UNCHANGED <<batch, turns>>
    BY <1>3, <1>9, <2>1 DEF LoadRows, InLine
  <2>2. CASE /\ batch' = [batch EXCEPT ![Boot].rows = Rows]
             /\ turns' = Append(turns, [kind |-> "batch", by |-> Boot])
    <3>1. PICK rows : rows = Rows
      OBVIOUS
    <3>2. batch' = [batch EXCEPT ![Boot] = [@ EXCEPT !.rows = rows]]
      BY <2>2, <3>1
    <3>3. PICK t \in Turn : t = [kind |-> "batch", by |-> Boot]
      BY <1>1 DEF Turn
    <3> QED BY <1>1, <1>7, <1>9, <2>2, <3>2, <3>3 DEF LoadRows
  <2> QED BY <1>9, <2>1, <2>2 DEF LoadRows

<1>10. CASE RunBackground
  <2>1. PICK t \in Turn : t = turns[1]
    BY <1>1, <1>10, TailFacts DEF RunBackground, TurnOf, TypeOK
  <2>2. PICK u \in Turn : u = [t EXCEPT !.kind = "batch"]
    BY <2>1 DEF Turn
  <2>3. t.kind = "background" /\ u.kind = "batch" /\ u.by = t.by
    BY <1>1, <1>10, <2>1, <2>2, TailFacts DEF RunBackground, TurnOf, TypeOK, Turn
  <2>4. turns' = Append(Tail(turns), u) /\ UNCHANGED <<batch, sent>> /\ turns # <<>>
    BY <1>1, <1>10, <2>1, <2>2, TailFacts DEF RunBackground, TurnOf, TypeOK
  <2>5. /\ \A n \in DOMAIN turns' : \/ \E i \in DOMAIN turns : turns'[n] = turns[i]
                                    \/ turns'[n] = u
        /\ \E n \in DOMAIN turns' : turns'[n] = u
        /\ \A i \in DOMAIN turns : i # 1 => \E n \in DOMAIN turns' : turns'[n] = turns[i]
        /\ 1 \in DOMAIN turns
    <3>1. turns \in Seq(Turn) /\ <<u>> \in Seq(Turn)
      BY <1>1 DEF TypeOK
    <3>2. turns' = Tail(turns) \o <<u>> /\ <<u>>[1] = u /\ DOMAIN <<u>> = {1}
      <4>1. Tail(turns) \in Seq(Turn)
        BY <2>4, <3>1
      <4> QED BY <2>4, <4>1
    <3>3. PICK z : z = turns'
      OBVIOUS
    <3>4. PICK one \in Seq(Turn) : one = <<u>>
      BY <3>1
    <3>5. /\ \A i \in DOMAIN turns : i # 1 => i - 1 \in DOMAIN z /\ z[i - 1] = turns[i]
          /\ \A i \in DOMAIN one :
                Len(turns) - 1 + i \in DOMAIN z /\ z[Len(turns) - 1 + i] = one[i]
          /\ \A n \in DOMAIN z :
                \/ n + 1 \in DOMAIN turns /\ z[n] = turns[n + 1]
                \/ /\ n > Len(turns) - 1 /\ n - (Len(turns) - 1) \in DOMAIN one
                   /\ z[n] = one[n - (Len(turns) - 1)]
      BY <2>4, <3>1, <3>2, <3>3, <3>4, LineMoves
    <3>6. 1 \in DOMAIN turns
      BY <2>4, <3>1, TailFacts
    <3>7. \A i \in DOMAIN one : one[i] = u
      BY <3>2, <3>4
    <3>8. 1 \in DOMAIN one
      BY <3>2, <3>4
    <3> QED BY <3>3, <3>5, <3>6, <3>7, <3>8
  <2>6. \A j \in Job : Waits(j, k)' <=> Waits(j, k)
    <3> TAKE j \in Job
    <3>1. ASSUME NEW n \in DOMAIN turns', turns'[n].kind # "reset", turns'[n].by = j
          PROVE  Turned(j)
      <4>1. CASE turns'[n] = u
        BY <2>1, <2>3, <2>5, <3>1, <4>1 DEF Turned
      <4> QED BY <2>5, <3>1, <4>1 DEF Turned
    <3>2. ASSUME NEW i \in DOMAIN turns, turns[i].kind # "reset", turns[i].by = j
          PROVE  Turned(j)'
      <4>1. CASE i = 1
        BY <2>1, <2>3, <2>5, <3>2, <4>1 DEF Turned
      <4> QED BY <2>5, <3>2, <4>1 DEF Turned
    <3> QED BY <2>4, <3>1, <3>2 DEF Waits, Turned
  <2> QED BY <2>4, <2>6, CountedSame
\* The keys a job begins with wait for the increments it sends.
<1>11. ASSUME NEW j \in Job, NEW keys \in SUBSET Key, IsFiniteSet(keys), Begin(j, keys),
              NEW m \in Job, \A n \in Job : n # j => (Turned(n)' <=> Turned(n))
       PROVE  /\ batch'[m].rows = batch[m].rows
              /\ m # j => (Waits(m, k)' <=> Waits(m, k))
              /\ m = j /\ k \in keys => Waits(m, k)'
              /\ m = j /\ k \notin keys /\ ~InLine(j, k) => ~InLine(j, k)'
              /\ InLine(m, k) => InLine(m, k)'
              /\ batch'[j].todo \subseteq keys
  <2>1. PICK next \in NextKeys(keys), t \in Seq(Command) :
              /\ Range(next) \subseteq keys
              /\ \A i, n \in DOMAIN next : next[i] = next[n] => i = n
              /\ t = [i \in DOMAIN next |-> Incr(j, next[i])]
              /\ sent' = sent \o t
              /\ batch' \in [Job -> [rows : SUBSET Row, todo : SUBSET Key,
                                     active : SUBSET Key]]
              /\ \A n \in Job : n # j => batch'[n] = batch[n]
              /\ batch'[j].rows = batch[j].rows
              /\ batch'[j].todo = keys \ Range(next)
              /\ batch'[j].active = Range(next)
    BY <1>1, <1>11, BeginType
  <2>2. /\ \A n \in DOMAIN sent' : \/ n \in DOMAIN sent /\ sent'[n] = sent[n]
                                   \/ /\ n - Len(sent) \in DOMAIN t
                                      /\ sent'[n] = t[n - Len(sent)]
        /\ \A i \in DOMAIN sent : i \in DOMAIN sent' /\ sent'[i] = sent[i]
        /\ \A i \in DOMAIN t : Len(sent) + i \in DOMAIN sent' /\ sent'[Len(sent) + i] = t[i]
    BY <1>1, <2>1, SentMore
  <2>3. \A i \in DOMAIN t : t[i] = Incr(j, next[i]) /\ i \in DOMAIN next
    BY <2>1
  <2>4. /\ \A i \in DOMAIN t : next[i] \in Range(next)
        /\ \A l \in Range(next) : \E i \in DOMAIN t : next[i] = l
    BY <2>1, <2>3 DEF Range
  <2>5. \A l \in Range(next) : InLine(j, l)'
    <3> TAKE l \in Range(next)
    <3>1. PICK i \in DOMAIN t : next[i] = l
      BY <2>4
    <3> QED BY <2>2, <2>3, <3>1 DEF InLine
  <2>6. ASSUME NEW n \in Job, NEW l, InLine(n, l)', ~InLine(n, l)
        PROVE  n = j /\ l \in Range(next)
    BY <2>2, <2>3, <2>4, <2>6 DEF InLine, Incr
  <2>7. InLine(m, k) => InLine(m, k)'
    BY <2>2 DEF InLine
  <2>8. m = j /\ k \in keys => Waits(m, k)'
    BY <2>1, <2>5 DEF Waits, InLine
  <2>9. m # j => (Waits(m, k)' <=> Waits(m, k))
    BY <1>11, <2>1, <2>6, <2>7 DEF Waits, InLine, Turned
  <2> QED BY <2>1, <2>6, <2>7, <2>8, <2>9
<1>12. CASE RunBatch
  <2>1. /\ Head(turns) = turns[1] /\ 1 \in DOMAIN turns /\ turns[1] \in Turn
        /\ turns[1].kind = "batch" /\ turns' = Tail(turns) /\ turns # <<>>
    BY <1>1, <1>12, TailFacts DEF RunBatch, TurnOf, TypeOK
  <2>2. PICK j \in Job : j = Head(turns).by
    BY <2>1 DEF Turn
  <2>3. PICK keys \in SUBSET Key :
           keys = KeysOf(batch[j].rows) /\ IsFiniteSet(keys) /\ Begin(j, keys)
    BY <1>1, <1>12, <2>2 DEF RunBatch
  <2>4. /\ \A n \in DOMAIN turns' : n + 1 \in DOMAIN turns /\ turns'[n] = turns[n + 1]
        /\ \A i \in DOMAIN turns : i # 1 => i - 1 \in DOMAIN turns'
                                            /\ turns'[i - 1] = turns[i]
    BY <1>1, <2>1, TurnsMove
  <2>5. \A n \in Job : n # j => (Turned(n)' <=> Turned(n))
    <3> SUFFICES ASSUME NEW n \in Job, n # j
                 PROVE  Turned(n)' <=> Turned(n)
      OBVIOUS
    <3>1. Turned(n)' => Turned(n)
      BY <2>4 DEF Turned
    <3>2. ASSUME NEW i \in DOMAIN turns, turns[i].kind # "reset", turns[i].by = n
          PROVE  Turned(n)'
      <4>1. i # 1
        BY <2>1, <2>2, <3>2
      <4>2. i - 1 \in DOMAIN turns' /\ turns'[i - 1] = turns[i]
        BY <2>4, <4>1
      <4> QED BY <3>2, <4>2 DEF Turned
    <3> QED BY <3>1, <3>2 DEF Turned
  <2>6. Waits(j, k)
    BY <2>1, <2>2 DEF Waits
  <2>7. \A m \in Job : /\ batch'[m].rows = batch[m].rows
                       /\ m # j => (Waits(m, k)' <=> Waits(m, k))
                       /\ m = j /\ k \in keys => Waits(m, k)'
    BY <1>11, <2>3, <2>5
  <2> QED BY <2>3, <2>6, <2>7, CountedSame
<1>13. ASSUME NEW j \in Job, Continue(j)
       PROVE  Counted(k)' = Counted(k)
  <2>1. batch[j].todo \subseteq KeysOf(batch[j].rows)
    BY <1>1 DEF JobsInv
  <2>2. IsFiniteSet(batch[j].todo) /\ batch[j].todo \in SUBSET Key
    BY <1>1, <2>1, FS_Subset
  <2>3. PICK keys \in SUBSET Key :
           keys = batch[j].todo /\ IsFiniteSet(keys) /\ Begin(j, keys)
    BY <1>13, <2>2 DEF Continue
  <2>4. \A n : Turned(n)' <=> Turned(n)
    BY <1>13 DEF Continue, Turned
  <2>5. \A m \in Job : /\ batch'[m].rows = batch[m].rows
                       /\ m # j => (Waits(m, k)' <=> Waits(m, k))
                       /\ m = j /\ k \in keys => Waits(m, k)'
                       /\ m = j /\ k \notin keys /\ ~InLine(j, k) => ~InLine(j, k)'
                       /\ InLine(m, k) => InLine(m, k)'
                       /\ batch'[j].todo \subseteq keys
    BY <1>11, <2>3, <2>4
  <2>6. Waits(j, k)' <=> Waits(j, k)
    <3>1. /\ Waits(j, k) <=> (k \in keys \/ Turned(j) \/ InLine(j, k))
          /\ Waits(j, k)' <=> (k \in batch'[j].todo \/ Turned(j)' \/ InLine(j, k)')
      BY <2>3 DEF Waits, Turned, InLine
    <3> QED BY <2>4, <2>5, <3>1
  <2> QED BY <2>5, <2>6, CountedSame
<1>14. CASE ServeIncr /\ Cmd.key # k
  <2>1. PICK c \in Command : c = Read(Cmd.by, Cmd.key)
    BY <1>2, <1>14, CommandFields, JobsType DEF ServeIncr, Updating
  <2>2. Due("incr") /\ Follow(<<c>>) /\ c.op # "incr" /\ UNCHANGED <<batch, turns>>
    BY <1>14, <2>1 DEF ServeIncr, Read
  <2>3. sent # <<>> /\ \A j : sent[1] # Incr(j, k)
    BY <1>2, <1>14, <2>2 DEF Incr
  <2>4. \A j \in Job : InLine(j, k)' <=> InLine(j, k)
    <3>1. \A j : InLine(j, k)' <=> \E i \in DOMAIN sent : i # 1 /\ sent[i] = Incr(j, k)
      BY <1>1, <2>2, <2>3, AskedServed
    <3> QED BY <2>3, <3>1 DEF InLine
  <2> QED BY <1>3, <2>2, <2>4
<1>15. CASE ServeRead
  <2>1. Cmd.by \in Job /\ Cmd.key \in Key
    BY <1>2, <1>15, CommandFields DEF ServeRead, Updating
  <2>2. stats[Cmd.key] \in Tally
    BY <1>1, <2>1 DEF TypeOK
  <2>3. PICK c \in Command : c = Publish(Cmd.by, Cmd.key, Averages(stats[Cmd.key]))
    BY <2>1, <2>2, JobsType, RecordsType
  <2>4. Due("read") /\ Follow(<<c>>) /\ c.op # "incr" /\ UNCHANGED <<batch, turns>>
    BY <1>15, <2>3 DEF ServeRead, Publish
  <2> QED BY <1>3, <1>4, <2>4
<1>16. CASE ServePublish
  <2>1. Due("publish") /\ Follow(<<>>) /\ UNCHANGED turns /\ End(Cmd.by, Cmd.key)
    BY <1>16 DEF ServePublish
  <2>2. Cmd.by \in Job
    BY <1>2, <2>1 DEF Updating
  <2>3. \A m \in Job : /\ batch'[m].rows = batch[m].rows
                       /\ batch'[m].todo = batch[m].todo
    BY <1>1, <2>1, <2>2, EndType
  <2>4. \A j \in Job : InLine(j, k)' <=> InLine(j, k)
    BY <1>4, <2>1
  <2>5. \A j \in Job : Waits(j, k)' <=> Waits(j, k)
    BY <2>1, <2>3, <2>4 DEF Waits, InLine
  <2> QED BY <2>3, <2>5, CountedSame
<1>17. CASE ServeKeys /\ Cmd.by = Boot
  <2>1. Due("keys") /\ Follow(<<>>) /\ UNCHANGED <<batch, turns>>
    BY <1>17 DEF ServeKeys
  <2> QED BY <1>3, <1>4, <2>1
<1>18. CASE UNCHANGED <<war, stats, board, sent, turns, batch, reset, call>>
  BY <1>3, <1>18 DEF InLine
<1> QED
  BY <1>5, <1>6, <1>8, <1>9, <1>10, <1>12, <1>13, <1>14, <1>15, <1>16, <1>17, <1>18,
     UntouchedStep

\* An increment brings the rows of its job, which were not counted yet.
LEMMA CountedMore ==
    ASSUME Core, HoldersInv, Untouched, ServeIncr,
           NEW j \in Job, NEW k \in Key, j = Cmd.by, k = Cmd.key
    PROVE  /\ Counted(k)' = Counted(k) \cup {r \in batch[j].rows : KeyOf(r) = k}
           /\ Counted(k) \cap {r \in batch[j].rows : KeyOf(r) = k} = {}
<1>1. TypeOK /\ JobsInv /\ TurnsInv /\ CommandsInv /\ Due("incr")
  BY DEF Core, ServeIncr
<1>2. /\ Cmd = sent[1] /\ 1 \in DOMAIN sent /\ Cmd \in Command /\ Cmd.op = "incr"
      /\ sent # <<>> /\ Cmd = Incr(j, k)
  BY <1>1, CmdType, CommandFields DEF Updating
<1>4. k \in batch[j].active /\ k \notin batch[j].todo
  BY <1>1, <1>2 DEF CommandsInv, JobsInv, Updating
<1>5. ~Turned(j)
  BY <1>1, <1>4 DEF TurnsInv, Turned
<1>6. \A i \in DOMAIN sent : sent[i] = Incr(j, k) => i = 1
  BY <1>1, <1>2 DEF CommandsInv, Twins, Updating, Incr
<1>7. \A m : InLine(m, k)' <=> \E i \in DOMAIN sent : i # 1 /\ sent[i] = Incr(m, k)
  <2>1. PICK c \in Command : c = Read(j, k)
    BY JobsType
  <2>2. Follow(<<c>>) /\ c.op # "incr"
    BY <2>1 DEF ServeIncr, Read
  <2> QED BY <1>1, <1>2, <2>2, AskedServed
<1>8. UNCHANGED <<batch, turns>>
  BY DEF ServeIncr
<1>9. Waits(j, k) /\ ~Waits(j, k)'
  <2>1. ~InLine(j, k)'
    BY <1>6, <1>7
  <2> QED BY <1>2, <1>4, <1>5, <1>8, <2>1 DEF Waits, Turned, InLine
<1>10. ASSUME NEW m \in Job, m # j
       PROVE  Waits(m, k)' <=> Waits(m, k)
  <2>1. sent[1] # Incr(m, k)
    BY <1>2, <1>10 DEF Incr
  <2>2. InLine(m, k)' <=> InLine(m, k)
    BY <1>7, <2>1 DEF InLine
  <2> QED BY <1>8, <2>2 DEF Waits, InLine
<1>11. Counted(k)' = Counted(k) \cup {r \in batch[j].rows : KeyOf(r) = k}
  BY <1>8, <1>9, <1>10 DEF Counted
<1>12. Counted(k) \cap {r \in batch[j].rows : KeyOf(r) = k} = {}
  BY <1>9, HoldersApart DEF Counted
<1> QED BY <1>11, <1>12

\* No reset is under way.
LEMMA UntouchedStill ==
    ASSUME Core, Untouched
    PROVE  \A m \in Nat \ {0} : \A b, k : ~ResetFrom(m, b, k)
<1>1. /\ ResetsInv /\ DOMAIN sent = 1..Len(sent) /\ Len(sent) \in Nat
      /\ \A i \in DOMAIN sent : sent[i] \in Command
  BY DEF Core, TypeOK
<1>2. \A i \in DOMAIN sent : sent[i].op \notin Resetting
  BY <1>1, CommandFields DEF ResetsInv, Untouched
<1>3. \A i \in DOMAIN turns : turns[i].kind # "reset"
  BY <1>1 DEF ResetsInv, Untouched
<1>4. \A m \in Nat \ {0} : \A i \in m..Len(sent) : i \in DOMAIN sent
  BY <1>1
<1> QED BY <1>2, <1>3, <1>4 DEF ResetFrom

LEMMA SumsKept ==
    ASSUME Core, HoldersInv, FreshInv, SumsInv, [Next]_vars
    PROVE  SumsInv'
<1> SUFFICES ASSUME Untouched', NEW k \in Key
             PROVE  /\ stats'[k] = Aggregate(Counted(k)', k)
                    /\ \A b \in Board : board'[b][k] = NoTally =>
                          stats'[k] = NoTally \/ ReadFrom(1, k)'
  BY DEF SumsInv
<1>1. /\ TypeOK /\ TypeOK' /\ Core' /\ JobsInv /\ Untouched
      /\ stats \in [Key -> Tally] /\ stats' \in [Key -> Tally]
      /\ Len(sent) \in Nat /\ DOMAIN sent = 1..Len(sent)
      /\ Len(sent') \in Nat /\ DOMAIN sent' = 1..Len(sent')
  <2>1. TypeOK /\ TypeOK' /\ Untouched
    BY TypeKept, UntouchedStep DEF Core
  <2> QED
    BY <2>1, JobsKept, TurnsKept, CommandsKept, ResetsKept DEF Core, TypeOK
<1>2. /\ stats[k] = Aggregate(Counted(k), k)
      /\ \A b \in Board : board[b][k] = NoTally => stats[k] = NoTally \/ ReadFrom(1, k)
  BY <1>1 DEF SumsInv
<1>3. CASE Crash
  <2>1. stats'[k] = NoTally
    BY <1>3, UndamagedStep DEF Untouched, Empty
  <2>2. Counted(k)' = {}
    BY <1>3 DEF Crash, Counted, Idle
  <2> QED BY <2>1, <2>2, AggregateNone
<1>4. ASSUME NEW op, Due(op)
      PROVE  Cmd = sent[1] /\ 1 \in DOMAIN sent /\ Cmd \in Command /\ Cmd.op = op
  BY <1>1, <1>4, CmdType
<1>5. CASE ServeIncr /\ Cmd.key = k
  <2>1. PICK j \in Job : j = Cmd.by
    BY <1>4, <1>5, CommandFields DEF ServeIncr, Updating
  <2>2. PICK rows : rows = {r \in batch[j].rows : KeyOf(r) = k}
    OBVIOUS
  <2>3. /\ Counted(k)' = Counted(k) \cup rows /\ Counted(k) \cap rows = {}
        /\ IsFiniteSet(Counted(k)) /\ IsFiniteSet(rows)
    BY <1>1, <1>5, <2>1, <2>2, CountedMore, CountedFinite, FS_Subset DEF JobsInv
  <2>4. Aggregate(rows, k) = Aggregate(batch[j].rows, k)
    BY <2>2, AggregateOf
  <2>5. /\ stats'[k].games = stats[k].games + Aggregate(rows, k).games
        /\ stats'[k].wins = stats[k].wins + Aggregate(rows, k).wins
    BY <1>1, <1>5, <2>1, <2>4, IncreaseType DEF ServeIncr
  <2>6. /\ Aggregate(Counted(k)', k).games = stats'[k].games
        /\ Aggregate(Counted(k)', k).wins = stats'[k].wins
    BY <1>2, <2>3, <2>5, AggregateJoin
  <2>7. Aggregate(Counted(k)', k) \in Tally /\ stats'[k] \in Tally
    <3>1. IsFiniteSet(Counted(k) \cup rows)
      BY <2>3, FS_Union
    <3> QED BY <1>1, <2>3, <3>1, AggregateType
  <2>8. stats'[k] = Aggregate(Counted(k)', k)
    BY <2>6, <2>7 DEF Tally
  <2>9. ReadFrom(1, k)'
    <3>1. /\ Len(sent') = Len(sent) /\ Len(sent) \in DOMAIN sent'
          /\ sent'[Len(sent)] = Read(Cmd.by, Cmd.key)
      BY <1>5, LastCommand
    <3>2. Reads(Len(sent), k)'
      BY <1>5, <3>1 DEF Read, Reads
    <3> QED BY <1>1, <3>1, <3>2 DEF ReadFrom
  <2> QED BY <2>8, <2>9

<1>6. CASE ~Crash /\ ~(ServeIncr /\ Cmd.key = k)
  <2>1. stats'[k] = stats[k]
    <3>1. CASE ServeIncr
      <4>1. Cmd.by \in Job /\ Cmd.key \in Key
        BY <1>4, <3>1, CommandFields DEF ServeIncr, Updating
      <4> QED BY <1>1, <1>6, <3>1, <4>1, IncreaseType DEF ServeIncr
    <3>2. CASE UNCHANGED stats
      BY <3>2
    <3> QED
      BY <1>6, <3>1, <3>2, UntouchedStep
      DEF StartUp, LoadRows, RunBackground, RunBatch, ServeRead, ServePublish, ServeKeys,
          Upload, Announce, Continue, vars, redis
  <2>2. Counted(k)' = Counted(k)
    BY <1>6, CountedKept
  <2>3. \A b \in Board : \/ board'[b][k] = board[b][k]
                         \/ ServePublish /\ Cmd.key = k
    <3>1. CASE ServePublish
      <4>1. Cmd.key \in Key /\ Cmd.tally \in Tally
        BY <1>4, <3>1, CommandFields DEF ServePublish, Updating
      <4> QED BY <1>1, <3>1, <4>1, ShowType DEF ServePublish
    <3>2. CASE UNCHANGED board
      BY <3>2
    <3> QED
      BY <1>6, <3>1, <3>2, UntouchedStep
      DEF StartUp, LoadRows, RunBackground, RunBatch, ServeIncr, ServeRead, ServeKeys,
          Upload, Announce, Continue, vars, redis
  \* Averages are those of a game at least.
  <2>4. \A t \in Tally : Averages(t) # NoTally
    BY DEF Averages, NoTally, Tally
  <2>5. PICK d \in {0, 1} : Moves(d) /\ (Serve => d = 1) /\ (d = 1 => Serve)
    <3>1. ~Lose
      BY UndamagedStep DEF Untouched
    <3> QED BY <1>6, <3>1, LineStep
  <2>6. ASSUME NEW m \in Nat, m > d, ReadFrom(m, k)
        PROVE  ReadFrom(m - d, k)'
    BY <1>1, <2>1, <2>5, <2>6, ReadStays
  <2>7. ASSUME NEW b \in Board, ReadFrom(1, k)
        PROVE  ReadFrom(1, k)' \/ board'[b][k] # NoTally
    <3>1. CASE d = 0
      <4>1. 1 \in Nat /\ 1 > d /\ 1 - d = 1
        BY <3>1
      <4> QED BY <2>6, <2>7, <4>1
    <3>2. CASE ReadFrom(2, k) /\ d = 1
      <4>1. 2 \in Nat /\ 2 > d /\ 2 - d = 1
        BY <3>2
      <4> QED BY <2>6, <3>2, <4>1
    <3>3. CASE Reads(1, k) /\ d = 1 /\ 1 \in DOMAIN sent
      <4>1. ServeRead /\ Cmd.key = k
        BY <1>4, <2>5, <3>3
        DEF Reads, Serve, ServeIncr, ServeRead, ServePublish, ServeDel, ServeRem, ServeKeys,
            ServeDrop, Due, Cmd
      <4>2. /\ Len(sent') = Len(sent) /\ Len(sent) \in DOMAIN sent'
            /\ sent'[Len(sent)] = Publish(Cmd.by, Cmd.key, Averages(stats[Cmd.key]))
        BY <4>1, LastCommand
      <4>3. Shows(Len(sent), k)' /\ sent'[Len(sent)].tally = Averages(stats'[k])
        BY <2>1, <4>1, <4>2 DEF Publish, Shows
      <4> QED BY <1>1, <4>2, <4>3 DEF ReadFrom
    <3>4. CASE /\ Shows(1, k) /\ sent[1].tally = Averages(stats[k])
               /\ d = 1 /\ 1 \in DOMAIN sent
      <4>1. ServePublish /\ Cmd.key = k
        BY <1>4, <2>5, <3>4
        DEF Shows, Serve, ServeIncr, ServeRead, ServePublish, ServeDel, ServeRem, ServeKeys,
            ServeDrop, Due, Cmd
      <4>2. Show(k, Cmd.tally, Board) /\ Cmd.tally = Averages(stats[k])
        BY <1>4, <3>4, <4>1 DEF ServePublish
      <4>3. Cmd.tally \in Tally
        BY <1>1, <4>2, RecordsType
      <4>4. board'[b][k] = Cmd.tally
        BY <1>1, <4>2, <4>3, ShowType
      <4> QED BY <1>1, <2>4, <4>2, <4>4
    <3>5. PICK i \in 1..Len(sent) :
             Reads(i, k) \/ (Shows(i, k) /\ sent[i].tally = Averages(stats[k]))
      BY <2>7 DEF ReadFrom
    <3>6. i # 1 => i \in 2..Len(sent)
      BY <1>1
    <3>7. i \in DOMAIN sent
      BY <1>1
    <3> QED BY <3>1, <3>2, <3>3, <3>4, <3>5, <3>6, <3>7 DEF ReadFrom
  <2>8. ASSUME NEW b \in Board, board'[b][k] = NoTally
        PROVE  stats'[k] = NoTally \/ ReadFrom(1, k)'
    <3>1. CASE board'[b][k] = board[b][k]
      BY <1>2, <2>1, <2>7, <2>8, <3>1
    <3>2. CASE ServePublish /\ Cmd.key = k
      <4>1. Cmd = sent[1] /\ 1 \in DOMAIN sent /\ Cmd \in Command /\ Shows(1, k)
        BY <1>4, <3>2 DEF ServePublish, Shows, Due, Cmd
      <4>2. Show(k, Cmd.tally, Board) /\ Cmd.tally \in Tally
        BY <1>4, <3>2, <4>1, CommandFields DEF ServePublish
      <4>3. board'[b][k] = Cmd.tally
        BY <1>1, <4>2, ShowType
      <4>4. Cmd.tally # Averages(stats[k])
        BY <1>1, <2>4, <2>8, <4>3
      <4>5. ReadFrom(1 + 1, k) \/ ResetFrom(1 + 1, b, k)
        BY <1>1, <4>1, <4>4 DEF FreshInv, Untouched
      <4>6. ~ResetFrom(1 + 1, b, k)
        BY <1>1, UntouchedStill
      <4>7. 1 + 1 \in Nat /\ 1 + 1 > d /\ d = 1 /\ (1 + 1) - d = 1
        BY <2>5, <3>2 DEF Serve
      <4> QED BY <2>6, <4>5, <4>6, <4>7
    <3> QED BY <2>3, <3>1, <3>2
  <2> QED BY <1>2, <2>1, <2>2, <2>8
<1> QED BY <1>3, <1>5, <1>6

\* As long as nothing is rebuilt or rolled back, every stored performance is with one
\* job, and what the jobs have counted is in the hashes.
THEOREM CountsInvariant == Spec => []CountsInv
<1>1. Init => CountsInv
  <2> SUFFICES ASSUME Init
               PROVE  CountsInv
    OBVIOUS
  <2>1. /\ \A j \in Job : batch[j].rows = {} /\ call[j] = "idle"
        /\ \A b \in Board : board[b] = Empty
        /\ \A k \in Key : stats[k] = NoTally
        /\ War \subseteq Job /\ Boot \in Job
    BY JobsType DEF Init, Idle, Empty
  <2>2. Found = {}
    BY <2>1 DEF Found
  <2>3. \A k : Counted(k) = {}
    BY <2>1 DEF Counted
  <2>4. HoldersInv
    BY <2>1, <2>2 DEF HoldersInv, Listening
  <2>5. SumsInv
    BY <2>1, <2>3, AggregateNone DEF SumsInv
  <2> QED BY <2>4, <2>5 DEF CountsInv
<1>2. LineInv /\ FreshInv /\ CountsInv /\ [Next]_vars => CountsInv'
  BY HoldersKept, SumsKept DEF LineInv, Core, CountsInv
<1> QED BY <1>1, <1>2, LineInvariant, FreshInvariant, PTL DEF Spec

\* Once nothing is left to do, the rows counted are those of the database.
LEMMA EveryoneCounted == LineInv /\ FreshInv /\ CountsInv => CountsMatchDatabase
<1> SUFFICES ASSUME LineInv, FreshInv, CountsInv, Quiet, Untouched, NEW k \in Key
             PROVE  /\ stats[k] = Aggregate(Rows, k)
                    /\ \A b \in Board : board[b][k] = stats[k]
  BY DEF CountsMatchDatabase, Untouched
<1>1. /\ Core /\ TypeOK /\ JobsInv /\ HoldersInv /\ SumsInv /\ GrowsInv
      /\ sent = <<>> /\ DOMAIN sent = {} /\ DOMAIN turns = {} /\ call[Boot] = "done"
      /\ \A j \in Job : call[j] \in {"idle", "done"} /\ batch[j].todo = {}
      /\ War \subseteq Job /\ Boot \in Job
  BY JobsType DEF LineInv, Core, CountsInv, Quiet, Listening
<1>2. \A j \in Job : ~Waits(j, k)
  BY <1>1 DEF Waits
<1>3. ~ReadFrom(1, k)
  BY <1>1 DEF ReadFrom
<1>4. Counted(k) = {r \in Rows : KeyOf(r) = k}
  <2>1. ASSUME NEW r \in Rows
        PROVE  \E j \in Job : r \in batch[j].rows
    <3>1. PICK w \in War : war[w] = "stored" /\ r \in Lineup[w]
      BY UntouchedRows DEF StoredRows
    <3>2. call[w] # "load"
      BY <1>1
    <3>3. r \in batch[w].rows \/ r \in batch[Boot].rows
      BY <1>1, <3>1, <3>2 DEF HoldersInv, Listening
    <3> QED BY <1>1, <3>3
  <2>2. \A j \in Job : batch[j].rows \subseteq Rows
    BY <1>1, HoldersApart
  <2> QED BY <1>2, <2>1, <2>2 DEF Counted
<1>5. stats[k] = Aggregate(Rows, k)
  <2>1. stats[k] = Aggregate(Counted(k), k)
    BY <1>1 DEF SumsInv
  <2> QED BY <1>4, <2>1, AggregateOf
<1>6. ASSUME NEW b \in Board
      PROVE  board[b][k] = stats[k]
  <2>1. ~ResetFrom(1, b, k)
    BY <1>1, UntouchedStill
  <2>2. board[b][k] \in {NoTally, Averages(stats[k])}
    BY <1>3, <2>1 DEF FreshInv, Untouched
  <2>3. board[b][k] = NoTally => stats[k] = NoTally
    BY <1>1, <1>3 DEF SumsInv
  <2>4. CASE board[b][k] = Averages(stats[k]) /\ stats[k].games = 0
    <3>1. board[b][k].games = 1
      BY <2>4 DEF Averages
    <3>2. board[b][k].games =< stats[k].games
      BY <1>1 DEF GrowsInv, Grows, Gone, Untouched
    <3> QED BY <2>4, <3>1, <3>2
  <2> QED BY <2>2, <2>3, <2>4 DEF Averages
<1> QED BY <1>5, <1>6

\* Once nothing is left to do, every stored performance is counted in the hash of its
\* player and class and shown on every sorted set, unless something was rebuilt or
\* rolled back, a command threw, or Redis outlived a restart.
THEOREM EveryPerformanceCounted == Spec => []CountsMatchDatabase
BY EveryoneCounted, LineInvariant, FreshInvariant, CountsInvariant, PTL

-----------------------------------------------------------------------------
(* There is no figure without a game                                       *)

LEMMA PlayedKept ==
    ASSUME Core, PlayedInv, [Next]_vars
    PROVE  PlayedInv'
<1>1. /\ TypeOK /\ TypeOK' /\ JobsInv /\ stats \in [Key -> Tally]
      /\ board \in [Board -> [Key -> Tally]]
      /\ \A i \in DOMAIN sent : sent[i] \in Command
  BY TypeKept DEF Core, TypeOK
<1>2. /\ \A k \in Key : Played(stats[k]) /\ \A b \in Board : Played(board[b][k])
      /\ \A i \in DOMAIN sent : sent[i].op = "publish" => sent[i].tally.games >= 1
      /\ Played(NoTally)
  BY DEF PlayedInv, Played
<1>3. ASSUME NEW op, Due(op)
      PROVE  Cmd = sent[1] /\ 1 \in DOMAIN sent /\ Cmd \in Command /\ Cmd.op = op
  BY <1>1, <1>3, CmdType
<1>4. ASSUME NEW k \in Key, NEW b \in Board
      PROVE  Played(board'[b][k])
  <2>1. CASE Due("publish") /\ Cmd.key = k /\ board'[b][k] = Cmd.tally
    BY <1>2, <1>3, <2>1 DEF Played
  <2> QED BY <1>2, <2>1, BoardStep
<1>5. ASSUME NEW k \in Key
      PROVE  Played(stats'[k])
  <2>1. ASSUME Due("incr"), Increase(Cmd.by, Cmd.key)
        PROVE  Played(stats'[k])
    <3>1. /\ Cmd.by \in Job /\ Cmd.key \in Key
          /\ Aggregate(batch[Cmd.by].rows, Cmd.key).games \in Nat \ {0}
      BY <2>1, CountedRows DEF Updating
    <3>2. PICK n \in Nat \ {0} : n = Aggregate(batch[Cmd.by].rows, Cmd.key).games
      BY <3>1
    <3>3. /\ Cmd.key # k => stats'[k] = stats[k]
          /\ Cmd.key = k => stats'[k].games = stats[k].games + n
      BY <1>1, <2>1, <3>1, <3>2, IncreaseType
    <3>4. stats[k].games \in Nat
      BY <1>1, TallyFields
    <3> QED BY <1>2, <3>2, <3>3, <3>4 DEF Played
  <2>2. ASSUME NEW part, Forget(part)
        PROVE  Played(stats'[k])
    BY <1>1, <1>2, <2>2, ForgetType
  <2>3. CASE Crash
    <3>1. stats' = stats \/ stats' = Empty
      BY <2>3 DEF Crash, redis
    <3> QED BY <1>2, <3>1 DEF Empty
  <2>4. CASE Serve
    BY <1>2, <2>1, <2>2, <2>4
    DEF Serve, ServeIncr, ServeRead, ServePublish, ServeDel, ServeRem, ServeKeys, ServeDrop,
        redis
  <2>5. CASE Lose
    BY <1>2, <2>1, <2>2, <2>5
    DEF Lose, LoseIncr, LoseRead, LosePublish, LoseReset, LoseCall, redis
  <2> QED BY <1>2, <2>3, <2>4, <2>5, LineStep DEF redis
<1>6. ASSUME NEW n \in DOMAIN sent', sent'[n].op = "publish"
      PROVE  sent'[n].tally.games >= 1
  <2>1. CASE Crash
    BY <1>6, <2>1 DEF Crash
  <2>2. ASSUME NEW d \in {0, 1}, Moves(d)
        PROVE  sent'[n].tally.games >= 1
    <3>1. CASE ServeRead /\ sent'[n] = Publish(Cmd.by, Cmd.key, Averages(stats[Cmd.key]))
      <4>1. Cmd.key \in Key
        BY <1>3, <3>1, CommandFields DEF ServeRead, Updating
      <4>2. \A t \in Tally : Averages(t).games >= 1
        BY DEF Averages, Tally
      <4> QED BY <1>1, <3>1, <4>1, <4>2 DEF Publish
    <3> QED BY <1>2, <1>6, <2>2, <3>1 DEF Moves
  <2> QED BY <2>1, <2>2, LineStep
<1> QED BY <1>4, <1>5, <1>6 DEF PlayedInv

\* What is counted or shown of a player and class is that of a game at least.
THEOREM PlayedInvariant == Spec => []PlayedInv
<1>1. Init => PlayedInv
  BY DEF Init, PlayedInv, Played, Empty
<1>2. LineInv /\ PlayedInv /\ [Next]_vars => PlayedInv'
  BY PlayedKept DEF LineInv, Core
<1> QED BY <1>1, <1>2, LineInvariant, PTL DEF Spec
=============================================================================

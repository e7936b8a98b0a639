-------------------------- MODULE NicknamesProofs --------------------------
(***************************************************************************)
(* What levenshtein computes, for words of any length.                     *)
(***************************************************************************)
EXTENDS Nicknames, FiniteSetTheorems, SequenceTheorems, TLAPS

-----------------------------------------------------------------------------
(* Numbers *)

LEMMA LeastOfThree ==
    \A x, y, z \in Nat :
        /\ Least({x, y, z}) \in {x, y, z} /\ Least({x, y, z}) \in Nat
        /\ Least({x, y, z}) =< x /\ Least({x, y, z}) =< y /\ Least({x, y, z}) =< z
<1> SUFFICES ASSUME NEW x \in Nat, NEW y \in Nat, NEW z \in Nat
             PROVE  /\ Least({x, y, z}) \in {x, y, z} /\ Least({x, y, z}) \in Nat
                    /\ Least({x, y, z}) =< x /\ Least({x, y, z}) =< y
                    /\ Least({x, y, z}) =< z
  OBVIOUS
<1>1. \E n \in {x, y, z} : \A m \in {x, y, z} : n =< m
  OBVIOUS
<1> QED BY <1>1 DEF Least

\* A set of natural numbers that has somebody has a smallest.
LEMMA LeastOfSome ==
    \A T \in SUBSET Nat : T # {} => \E n \in T : \A m \in T : n =< m
<1> SUFFICES ASSUME NEW T \in SUBSET Nat, T # {}
             PROVE  \E n \in T : \A m \in T : n =< m
  OBVIOUS
<1> DEFINE Below == {0..n : n \in T}
           R == StrictSubsetOrdering(Nat)
<1>1. Below \subseteq FiniteSubsetsOf(Nat)
  <2>1. \A n \in Nat : IsFiniteSet(0..n)
    BY FS_Interval
  <2> QED BY <2>1 DEF FiniteSubsetsOf
<1>2. PICK s \in Below : \A t \in Below : <<t, s>> \notin R
  <2>1. Below # {}
    OBVIOUS
  <2>2. IsWellFoundedOn(R, FiniteSubsetsOf(Nat))
    BY FS_StrictSubsetOrderingWellFounded
  <2> HIDE DEF Below, R
  <2> QED BY <1>1, <2>1, <2>2, WFMin
<1>3. PICK n \in T : s = 0..n
  BY <1>2
<1>4. ASSUME NEW m \in T
      PROVE  n =< m
  <2> SUFFICES ASSUME m < n PROVE FALSE
    OBVIOUS
  <2>1. <<0..m, 0..n>> \notin R
    BY <1>2, <1>3
  <2>2. 0..m \subseteq 0..n /\ n \in 0..n /\ n \notin 0..m
    OBVIOUS
  <2>3. 0..m \in SUBSET Nat /\ 0..n \in SUBSET Nat
    OBVIOUS
  <2> QED BY <2>1, <2>2, <2>3 DEF StrictSubsetOrdering
<1> QED BY <1>4

\* Induction, as a statement about sets.
LEMMA FromZeroOn ==
    ASSUME NEW n \in Nat, NEW S, 0 \in S, \A i \in 1..n : i - 1 \in S => i \in S
    PROVE  0..n \subseteq S
<1> SUFFICES ASSUME (0..n) \ S # {} PROVE FALSE
  OBVIOUS
<1> DEFINE T == (0..n) \ S
<1>1. PICK i \in T : \A m \in T : i =< m
  <2>1. T \in SUBSET Nat /\ T # {}
    OBVIOUS
  <2> HIDE DEF T
  <2> QED BY <2>1, LeastOfSome
<1>2. i # 0 /\ i \in 1..n
  BY <1>1
<1>3. i - 1 \in 0..n /\ ~(i =< i - 1)
  BY <1>2
<1>4. i - 1 \in S
  BY <1>1, <1>3
<1> QED BY <1>1, <1>2, <1>4

\* The same, where each number may rest on all smaller ones.
LEMMA FromBelow ==
    ASSUME NEW S, \A n \in Nat : (\A m \in 0..n - 1 : m \in S) => n \in S
    PROVE  Nat \subseteq S
<1> SUFFICES ASSUME Nat \ S # {} PROVE FALSE
  OBVIOUS
<1> DEFINE T == Nat \ S
<1>1. PICK n \in T : \A m \in T : n =< m
  <2>1. T \in SUBSET Nat /\ T # {}
    OBVIOUS
  <2> HIDE DEF T
  <2> QED BY <2>1, LeastOfSome
<1>2. ASSUME NEW m \in 0..n - 1
      PROVE  m \in S
  <2>1. m \in Nat /\ ~(n =< m)
    BY <1>1
  <2> QED BY <1>1, <2>1
<1> QED BY <1>1, <1>2

-----------------------------------------------------------------------------
(* The table of distances *)

Cost(x, y) == IF x = y THEN 0 ELSE Replacement

\* What levenshtein fills in: t[i][j] is dp[i][j].
IsTable(t, a, b) ==
    /\ t \in [0..Len(a) -> [0..Len(b) -> Nat]]
    /\ \A j \in 0..Len(b) : t[0][j] = j
    /\ \A i \in 0..Len(a) : t[i][0] = i
    /\ \A i \in 1..Len(a), j \in 1..Len(b) :
          t[i][j] = Least({t[i - 1][j] + 1, t[i][j - 1] + 1, t[i - 1][j - 1] + Cost(a[i], b[j])})

\* A row is what the inner loop makes of the one above it.
LEMMA RowOfTable ==
    ASSUME NEW C, NEW a \in Seq(C), NEW b \in Seq(C), NEW i \in 1..Len(a),
           NEW above \in [1..Len(b) + 1 -> Nat], NEW r, r = NextRow(a, b, i, above)
    PROVE  /\ r \in [1..Len(b) + 1 -> Nat]
           /\ r[1] = i
           /\ \A j \in 1..Len(b) :
                 r[j + 1] = Least({above[j + 1] + 1, r[j] + 1, above[j] + Cost(a[i], b[j])})
<1> DEFINE Longer(left, j) ==
              Append(left, Least({above[j + 1] + 1, left[j] + 1,
                                  above[j] + (IF a[i] = b[j] THEN 0 ELSE Replacement)}))
           Step(f, n) == [j \in 0..n |-> IF j = 0 THEN <<i>> ELSE Longer(f[j - 1], j)]
           Some == {n \in Nat : \E f : f = Step(f, n)}
           row == CHOOSE f : f = Step(f, Len(b))
<1>1. Len(b) \in Some
  <2>1. 0 \in Some
    <3> DEFINE f == [j \in 0..0 |-> <<i>>]
    <3>1. f = Step(f, 0)
      BY DEF Step
    <3> QED BY <3>1
  <2>2. ASSUME NEW n \in 1..Len(b), n - 1 \in Some
        PROVE  n \in Some
    <3>1. PICK f : f = Step(f, n - 1)
      BY <2>2
    <3> DEFINE g == [j \in 0..n |-> IF j = n THEN Longer(f[n - 1], n) ELSE f[j]]
    <3> HIDE DEF Longer
    <3>2. ASSUME NEW j \in 0..n
          PROVE  g[j] = IF j = 0 THEN <<i>> ELSE Longer(g[j - 1], j)
      <4>1. CASE j = n
        BY <4>1
      <4>2. CASE j # n
        <5>1. j \in 0..n - 1 /\ (j # 0 => j - 1 \in 0..n - 1 /\ j - 1 # n)
          BY <4>2
        <5>2. g[j] = f[j] /\ (j # 0 => g[j - 1] = f[j - 1])
          BY <4>2, <5>1
        <5>3. f[j] = IF j = 0 THEN <<i>> ELSE Longer(f[j - 1], j)
          BY <3>1, <5>1
        <5> QED BY <5>2, <5>3
      <4> QED BY <4>1, <4>2
    <3>3. g = Step(g, n)
      BY <3>2
    <3> HIDE DEF g, Step
    <3> QED BY <3>3
  <2> HIDE DEF Some
  <2>3. Len(b) \in Nat
    OBVIOUS
  <2>4. 0..Len(b) \subseteq Some
    BY <2>1, <2>2, <2>3, FromZeroOn
  <2> QED BY <2>3, <2>4
<1>2. row = Step(row, Len(b))
  <2> HIDE DEF Step
  <2> QED BY <1>1
<1>3. NextRow(a, b, i, above) = row[Len(b)]
  BY DEF NextRow
<1> DEFINE Right(j) ==
              /\ row[j] \in [1..j + 1 -> Nat]
              /\ row[j][1] = i
              /\ \A k \in 1..j :
                    row[j][k + 1] = Least({above[k + 1] + 1, row[j][k] + 1,
                                           above[k] + Cost(a[i], b[k])})
           Good == {j \in 0..Len(b) : Right(j)}
<1> HIDE DEF row, Longer
<1>4. /\ row[0] = <<i>>
      /\ \A j \in 1..Len(b) : row[j] = Longer(row[j - 1], j)
  <2>1. 0 \in 0..Len(b) /\ \A j \in 1..Len(b) : j \in 0..Len(b) /\ j # 0
    OBVIOUS
  <2>2. Step(row, Len(b))[0] = <<i>>
    BY <2>1
  <2>3. \A j \in 1..Len(b) : Step(row, Len(b))[j] = Longer(row[j - 1], j)
    BY <2>1
  <2> HIDE DEF Step
  <2> QED BY <1>2, <2>2, <2>3
<1> HIDE DEF Step
<1>5. 0 \in Good
  <2>1. row[0] = <<i>>
    BY <1>4
  <2>2. 0 \in 0..Len(b) /\ i \in Nat
    OBVIOUS
  <2>3. <<i>> \in [1..0 + 1 -> Nat] /\ <<i>>[1] = i
    BY <2>2
  <2>4. Right(0)
    BY <2>1, <2>3
  <2> QED BY <2>2, <2>4
<1>6. ASSUME NEW j \in 1..Len(b), j - 1 \in Good
      PROVE  j \in Good
  <2> DEFINE left == row[j - 1]
             new == Least({above[j + 1] + 1, left[j] + 1, above[j] + Cost(a[i], b[j])})
  <2>1. row[j] = Append(left, new)
    BY <1>4 DEF Cost, Longer
  <2>2. /\ left \in [1..j -> Nat]
        /\ left[1] = i
        /\ \A k \in 1..j - 1 :
              left[k + 1] = Least({above[k + 1] + 1, left[k] + 1, above[k] + Cost(a[i], b[k])})
    <3>1. Right(j - 1)
      <4> HIDE DEF Right
      <4> QED BY <1>6
    <3>2. (j - 1) + 1 = j
      OBVIOUS
    <3> QED BY <3>1, <3>2
  <2>3. new \in Nat
    <3>1. above[j + 1] \in Nat /\ left[j] \in Nat /\ above[j] \in Nat
      <4>1. j + 1 \in 1..Len(b) + 1 /\ j \in 1..Len(b) + 1 /\ j \in 1..j
        OBVIOUS
      <4> QED BY <2>2, <4>1
    <3>2. Cost(a[i], b[j]) \in Nat
      BY DEF Cost, Replacement
    <3> DEFINE x == above[j + 1] + 1
               y == left[j] + 1
               z == above[j] + Cost(a[i], b[j])
    <3>3. x \in Nat /\ y \in Nat /\ z \in Nat
      <4> HIDE DEF left
      <4> QED BY <3>1, <3>2
    <3> HIDE DEF x, y, z
    <3>4. Least({x, y, z}) \in Nat
      BY <3>3, LeastOfThree
    <3> QED BY <3>4 DEF x, y, z
  <2> HIDE DEF left, new
  <2>4. left \in Seq(Nat) /\ Len(left) = j
    BY <2>2
  <2>5. /\ row[j] \in [1..j + 1 -> Nat]
        /\ \A k \in 1..j : row[j][k] = left[k]
        /\ row[j][j + 1] = new
    <3> DEFINE longer == Append(left, new)
    <3>1. /\ longer \in Seq(Nat) /\ Len(longer) = j + 1
          /\ \A k \in 1..j : longer[k] = left[k]
          /\ longer[j + 1] = new
      BY <2>3, <2>4
    <3> HIDE DEF longer
    <3>2. longer \in [1..j + 1 -> Nat]
      BY <3>1
    <3> QED BY <2>1, <3>1, <3>2 DEF longer
  <2>6. ASSUME NEW k \in 1..j
        PROVE  row[j][k + 1] = Least({above[k + 1] + 1, row[j][k] + 1,
                                      above[k] + Cost(a[i], b[k])})
    <3>1. CASE k = j
      BY <2>5, <3>1 DEF new
    <3>2. CASE k # j
      <4>1. k \in 1..j - 1 /\ k + 1 \in 1..j
        BY <3>2
      <4> QED BY <2>2, <2>5, <4>1
    <3> QED BY <3>1, <3>2
  <2>7. row[j][1] = i
    BY <2>2, <2>5
  <2>8. Right(j)
    BY <2>5, <2>6, <2>7
  <2> HIDE DEF Right
  <2> QED BY <2>8
<1>7. Right(Len(b))
  <2> HIDE DEF Good
  <2>1. Len(b) \in Nat
    OBVIOUS
  <2>2. 0..Len(b) \subseteq Good
    BY <1>5, <1>6, <2>1, FromZeroOn
  <2>3. Len(b) \in Good
    BY <2>1, <2>2
  <2> QED BY <2>3 DEF Good
<1> QED BY <1>3, <1>7

\* levenshtein fills in such a table and returns its last entry.
LEMMA DistanceIsInTable ==
    ASSUME NEW C, NEW a \in Seq(C), NEW b \in Seq(C)
    PROVE  \E t : IsTable(t, a, b) /\ levenshtein(a, b) = t[Len(a)][Len(b)]
<1> DEFINE First == [j \in 1..(Len(b) + 1) |-> j - 1]
           Step(f, n) == [i \in 0..n |-> IF i = 0 THEN First ELSE NextRow(a, b, i, f[i - 1])]
           Some == {n \in Nat : \E f : f = Step(f, n)}
           rows == CHOOSE f : f = Step(f, Len(a))
<1>0. Len(a) \in Nat /\ Len(b) \in Nat
  OBVIOUS
<1>1. Len(a) \in Some
  <2> HIDE DEF First
  <2>1. 0 \in Some
    <3> DEFINE f == [i \in 0..0 |-> First]
    <3>1. f = Step(f, 0)
      BY DEF Step
    <3> QED BY <3>1
  <2>2. ASSUME NEW n \in 1..Len(a), n - 1 \in Some
        PROVE  n \in Some
    <3>1. PICK f : f = Step(f, n - 1)
      BY <2>2
    <3> DEFINE g == [i \in 0..n |-> IF i = n THEN NextRow(a, b, n, f[n - 1]) ELSE f[i]]
    <3>2. ASSUME NEW i \in 0..n
          PROVE  g[i] = IF i = 0 THEN First ELSE NextRow(a, b, i, g[i - 1])
      <4>1. CASE i = n
        BY <4>1
      <4>2. CASE i # n
        <5>1. i \in 0..n - 1 /\ (i # 0 => i - 1 \in 0..n - 1 /\ i - 1 # n)
          BY <4>2
        <5>2. g[i] = f[i] /\ (i # 0 => g[i - 1] = f[i - 1])
          BY <4>2, <5>1
        <5>3. f[i] = IF i = 0 THEN First ELSE NextRow(a, b, i, f[i - 1])
          BY <3>1, <5>1
        <5> QED BY <5>2, <5>3
      <4> QED BY <4>1, <4>2
    <3>3. g = Step(g, n)
      BY <3>2
    <3> HIDE DEF g, Step
    <3> QED BY <3>3
  <2> HIDE DEF Some
  <2>3. 0..Len(a) \subseteq Some
    BY <1>0, <2>1, <2>2, FromZeroOn
  <2> QED BY <1>0, <2>3
<1>2. rows = Step(rows, Len(a))
  <2> HIDE DEF Step
  <2> QED BY <1>1
<1>3. levenshtein(a, b) = rows[Len(a)][Len(b) + 1]
  BY DEF levenshtein
<1> HIDE DEF rows
<1>4. /\ rows[0] = First
      /\ \A i \in 1..Len(a) : rows[i] = NextRow(a, b, i, rows[i - 1])
  <2>1. 0 \in 0..Len(a) /\ \A i \in 1..Len(a) : i \in 0..Len(a) /\ i # 0
    OBVIOUS
  <2> HIDE DEF First
  <2>2. Step(rows, Len(a))[0] = First
    BY <2>1
  <2>3. \A i \in 1..Len(a) : Step(rows, Len(a))[i] = NextRow(a, b, i, rows[i - 1])
    BY <2>1
  <2> HIDE DEF Step
  <2> QED BY <1>2, <2>2, <2>3
<1> DEFINE Filled == {i \in 0..Len(a) : rows[i] \in [1..Len(b) + 1 -> Nat]}
<1>5. 0..Len(a) \subseteq Filled
  <2>1. 0 \in Filled
    BY <1>0, <1>4
  <2>2. ASSUME NEW i \in 1..Len(a), i - 1 \in Filled
        PROVE  i \in Filled
    <3>1. rows[i] \in [1..Len(b) + 1 -> Nat]
      BY <1>4, <2>2, RowOfTable
    <3> QED BY <3>1
  <2> HIDE DEF Filled
  <2> QED BY <1>0, <2>1, <2>2, FromZeroOn
<1> DEFINE t == [i \in 0..Len(a) |-> [j \in 0..Len(b) |-> rows[i][j + 1]]]
<1>6. ASSUME NEW i \in 0..Len(a), NEW j \in 0..Len(b)
      PROVE  /\ t[i][j] = rows[i][j + 1]
             /\ rows[i][j + 1] \in Nat
  <2>1. rows[i] \in [1..Len(b) + 1 -> Nat] /\ j + 1 \in 1..Len(b) + 1
    BY <1>5
  <2> QED BY <2>1
<1>7. t \in [0..Len(a) -> [0..Len(b) -> Nat]]
  BY <1>6
<1> HIDE DEF t
<1>8. \A j \in 0..Len(b) : t[0][j] = j
  <2>1. ASSUME NEW j \in 0..Len(b)
        PROVE  t[0][j] = j
    <3>1. 0 \in 0..Len(a) /\ j + 1 \in 1..(Len(b) + 1) /\ (j + 1) - 1 = j
      BY <1>0
    <3>2. First[j + 1] = j
      BY <3>1
    <3> QED BY <1>4, <1>6, <3>1, <3>2
  <2> QED BY <2>1
<1>9. ASSUME NEW i \in 1..Len(a)
      PROVE  /\ rows[i][1] = i
             /\ \A j \in 1..Len(b) :
                   rows[i][j + 1] = Least({rows[i - 1][j + 1] + 1, rows[i][j] + 1,
                                           rows[i - 1][j] + Cost(a[i], b[j])})
  <2>1. rows[i - 1] \in [1..Len(b) + 1 -> Nat]
    BY <1>5
  <2>2. rows[i] = NextRow(a, b, i, rows[i - 1])
    BY <1>4
  <2>3. PICK above, r : above = rows[i - 1] /\ r = rows[i]
    OBVIOUS
  <2>4. above \in [1..Len(b) + 1 -> Nat] /\ r = NextRow(a, b, i, above)
    BY <2>1, <2>2, <2>3
  <2>5. r[1] = i
    BY <2>4, RowOfTable
  <2>6. \A j \in 1..Len(b) :
          r[j + 1] = Least({above[j + 1] + 1, r[j] + 1, above[j] + Cost(a[i], b[j])})
    BY <2>4, RowOfTable
  <2> QED BY <2>3, <2>5, <2>6
<1>10. \A i \in 0..Len(a) : t[i][0] = i
  <2>1. ASSUME NEW i \in 0..Len(a)
        PROVE  t[i][0] = i
    <3>1. 0 \in 0..Len(b) /\ 0 + 1 = 1
      BY <1>0
    <3>2. t[i][0] = rows[i][1]
      BY <1>6, <3>1
    <3>3. CASE i = 0
      BY <1>8, <3>1, <3>3
    <3>4. CASE i # 0
      BY <1>9, <3>2, <3>4
    <3> QED BY <3>3, <3>4
  <2> QED BY <2>1
<1>11. \A i \in 1..Len(a), j \in 1..Len(b) :
          t[i][j] = Least({t[i - 1][j] + 1, t[i][j - 1] + 1, t[i - 1][j - 1] + Cost(a[i], b[j])})
  <2>1. ASSUME NEW i \in 1..Len(a), NEW j \in 1..Len(b)
        PROVE  t[i][j] = Least({t[i - 1][j] + 1, t[i][j - 1] + 1,
                                t[i - 1][j - 1] + Cost(a[i], b[j])})
    <3>1. /\ i \in 0..Len(a) /\ i - 1 \in 0..Len(a)
          /\ j \in 0..Len(b) /\ j - 1 \in 0..Len(b) /\ (j - 1) + 1 = j
      OBVIOUS
    <3>2. /\ t[i][j] = rows[i][j + 1] /\ t[i - 1][j] = rows[i - 1][j + 1]
          /\ t[i][j - 1] = rows[i][j] /\ t[i - 1][j - 1] = rows[i - 1][j]
      BY <1>6, <3>1
    <3> QED BY <1>9, <3>2
  <2> QED BY <2>1
<1>12. IsTable(t, a, b)
  BY <1>7, <1>8, <1>10, <1>11 DEF IsTable
<1>13. levenshtein(a, b) = t[Len(a)][Len(b)]
  BY <1>0, <1>3, <1>6
<1> QED BY <1>12, <1>13

\* A normalised nickname is a word of letters and digits.
Word == Seq(Alnum)

LEMMA NormalIsWord ==
    \A nick \in Seq(Char) : normalizeNick(nick) \in Word
<1> SUFFICES ASSUME NEW nick \in Seq(Char)
             PROVE  normalizeNick(nick) \in Word
  OBVIOUS
<1> DEFINE Longer(s, n) == IF Lower[nick[n]] \in Alnum THEN Append(s, Lower[nick[n]]) ELSE s
           Step(f, n) == [k \in 0..n |-> IF k = 0 THEN <<>> ELSE Longer(f[k - 1], k)]
           Some == {n \in Nat : \E f : f = Step(f, n)}
           kept == CHOOSE f : f = Step(f, Len(nick))
<1>0. Len(nick) \in Nat
  OBVIOUS
<1>1. Len(nick) \in Some
  <2> HIDE DEF Longer
  <2>1. 0 \in Some
    <3> DEFINE f == [k \in 0..0 |-> <<>>]
    <3>1. f = Step(f, 0)
      BY DEF Step
    <3> QED BY <3>1
  <2>2. ASSUME NEW n \in 1..Len(nick), n - 1 \in Some
        PROVE  n \in Some
    <3>1. PICK f : f = Step(f, n - 1)
      BY <2>2
    <3> DEFINE g == [k \in 0..n |-> IF k = n THEN Longer(f[n - 1], n) ELSE f[k]]
    <3>2. ASSUME NEW k \in 0..n
          PROVE  g[k] = IF k = 0 THEN <<>> ELSE Longer(g[k - 1], k)
      <4>1. CASE k = n
        BY <4>1
      <4>2. CASE k # n
        <5>1. k \in 0..n - 1 /\ (k # 0 => k - 1 \in 0..n - 1 /\ k - 1 # n)
          BY <4>2
        <5>2. g[k] = f[k] /\ (k # 0 => g[k - 1] = f[k - 1])
          BY <4>2, <5>1
        <5>3. f[k] = IF k = 0 THEN <<>> ELSE Longer(f[k - 1], k)
          BY <3>1, <5>1
        <5> QED BY <5>2, <5>3
      <4> QED BY <4>1, <4>2
    <3>3. g = Step(g, n)
      BY <3>2
    <3> HIDE DEF g, Step
    <3> QED BY <3>3
  <2> HIDE DEF Some
  <2>3. 0..Len(nick) \subseteq Some
    BY <1>0, <2>1, <2>2, FromZeroOn
  <2> QED BY <1>0, <2>3
<1>2. kept = Step(kept, Len(nick))
  <2> HIDE DEF Step
  <2> QED BY <1>1
<1>3. normalizeNick(nick) = kept[Len(nick)]
  BY DEF normalizeNick
<1> HIDE DEF kept
<1>4. /\ kept[0] = <<>>
      /\ \A n \in 1..Len(nick) : kept[n] = Longer(kept[n - 1], n)
  <2>1. 0 \in 0..Len(nick) /\ \A n \in 1..Len(nick) : n \in 0..Len(nick) /\ n # 0
    OBVIOUS
  <2> HIDE DEF Longer
  <2>2. Step(kept, Len(nick))[0] = <<>>
    BY <2>1
  <2>3. \A n \in 1..Len(nick) : Step(kept, Len(nick))[n] = Longer(kept[n - 1], n)
    BY <2>1
  <2> HIDE DEF Step
  <2> QED BY <1>2, <2>2, <2>3
<1> DEFINE Good == {n \in 0..Len(nick) : kept[n] \in Word}
<1>5. 0 \in Good
  <2>1. kept[0] \in Word
    <3>1. <<>> \in Word
      BY DEF Word
    <3> QED BY <1>4, <3>1
  <2> QED BY <1>0, <2>1
<1>6. ASSUME NEW n \in 1..Len(nick), n - 1 \in Good
      PROVE  n \in Good
  <2>1. kept[n - 1] \in Word
    <3> HIDE DEF Longer
    <3> QED BY <1>6
  <2>2. PICK s : s = kept[n - 1]
    OBVIOUS
  <2>3. kept[n] = Longer(s, n)
    <3> HIDE DEF Longer
    <3> QED BY <1>4, <2>2
  <2>4. Longer(s, n) \in Word
    <3>1. CASE Lower[nick[n]] \in Alnum
      BY <2>1, <2>2, <3>1 DEF Word
    <3>2. CASE Lower[nick[n]] \notin Alnum
      BY <2>1, <2>2, <3>2
    <3> QED BY <3>1, <3>2
  <2>5. kept[n] \in Word
    <3> HIDE DEF Longer
    <3> QED BY <2>3, <2>4
  <2> QED BY <2>5
<1> HIDE DEF Good
<1>7. 0..Len(nick) \subseteq Good
  BY <1>0, <1>5, <1>6, FromZeroOn
<1>8. kept[Len(nick)] \in Word
  BY <1>0, <1>7 DEF Good
<1> QED BY <1>3, <1>8

-----------------------------------------------------------------------------
(* The distance of two words by that of shorter ones *)

SameStart(a, b, n) ==
    n \in 0..Len(a) /\ n \in 0..Len(b) /\ \A i \in 1..n : a[i] = b[i]

\* An entry of the table depends only on the letters before it.
LEMMA TablesAgree ==
    ASSUME NEW a \in Word, NEW b \in Word, NEW t, IsTable(t, a, b),
           NEW c \in Word, NEW d \in Word, NEW u, IsTable(u, c, d),
           NEW m, NEW n, SameStart(a, c, m), SameStart(b, d, n)
    PROVE  t[m][n] = u[m][n]
<1> USE DEF SameStart
<1>0. m \in Nat /\ n \in Nat
  BY DEF Word
<1> DEFINE Same == {i \in 0..m : \A j \in 0..n : t[i][j] = u[i][j]}
<1>1. 0 \in Same
  <2>1. ASSUME NEW j \in 0..n
        PROVE  t[0][j] = u[0][j]
    <3>1. j \in 0..Len(b) /\ j \in 0..Len(d)
      BY DEF Word
    <3> QED BY <3>1 DEF IsTable
  <2> QED BY <2>1
<1>2. ASSUME NEW i \in 1..m, i - 1 \in Same
      PROVE  i \in Same
  <2> DEFINE Here == {j \in 0..n : t[i][j] = u[i][j]}
  <2>1. 0 \in Here
    <3>1. i \in 0..Len(a) /\ i \in 0..Len(c)
      BY DEF Word
    <3> QED BY <3>1 DEF IsTable
  <2>2. ASSUME NEW j \in 1..n, j - 1 \in Here
        PROVE  j \in Here
    <3>1. /\ i \in 1..Len(a) /\ j \in 1..Len(b) /\ i \in 1..Len(c) /\ j \in 1..Len(d)
          /\ j \in 0..n /\ j - 1 \in 0..n
      BY DEF Word
    <3>2. t[i][j] = Least({t[i - 1][j] + 1, t[i][j - 1] + 1, t[i - 1][j - 1] + Cost(a[i], b[j])})
      BY <3>1 DEF IsTable
    <3>3. u[i][j] = Least({u[i - 1][j] + 1, u[i][j - 1] + 1, u[i - 1][j - 1] + Cost(c[i], d[j])})
      BY <3>1 DEF IsTable
    <3>4. /\ t[i - 1][j] = u[i - 1][j] /\ t[i - 1][j - 1] = u[i - 1][j - 1]
          /\ t[i][j - 1] = u[i][j - 1]
      BY <1>2, <2>2, <3>1
    <3>5. a[i] = c[i] /\ b[j] = d[j]
      OBVIOUS
    <3> QED BY <3>1, <3>2, <3>3, <3>4, <3>5
  <2> HIDE DEF Here
  <2>3. 0..n \subseteq Here
    BY <1>0, <2>1, <2>2, FromZeroOn
  <2>4. \A j \in 0..n : t[i][j] = u[i][j]
    BY <2>3 DEF Here
  <2>5. i \in 0..m
    OBVIOUS
  <2> QED BY <2>4, <2>5
<1> HIDE DEF Same
<1>3. 0..m \subseteq Same
  BY <1>0, <1>1, <1>2, FromZeroOn
<1> QED BY <1>0, <1>3 DEF Same

LEMMA DistanceType ==
    \A s, t \in Word : levenshtein(s, t) \in Nat
<1> SUFFICES ASSUME NEW s \in Word, NEW t \in Word
             PROVE  levenshtein(s, t) \in Nat
  OBVIOUS
<1>1. PICK d : IsTable(d, s, t) /\ levenshtein(s, t) = d[Len(s)][Len(t)]
  BY DistanceIsInTable DEF Word
<1>2. Len(s) \in 0..Len(s) /\ Len(t) \in 0..Len(t)
  BY DEF Word
<1> QED BY <1>1, <1>2 DEF IsTable

\* Nothing but insertions or deletions lead from or to the empty word.
LEMMA DistanceOfEmpty ==
    \A s \in Word : levenshtein(<<>>, s) = Len(s) /\ levenshtein(s, <<>>) = Len(s)
<1> SUFFICES ASSUME NEW s \in Word
             PROVE  levenshtein(<<>>, s) = Len(s) /\ levenshtein(s, <<>>) = Len(s)
  OBVIOUS
<1>1. <<>> \in Word /\ Len(<<>>) = 0 /\ Len(s) \in Nat
  BY DEF Word
<1>2. levenshtein(<<>>, s) = Len(s)
  <2>1. PICK d : IsTable(d, <<>>, s) /\ levenshtein(<<>>, s) = d[Len(<<>>)][Len(s)]
    BY <1>1, DistanceIsInTable DEF Word
  <2> QED BY <1>1, <2>1 DEF IsTable
<1>3. levenshtein(s, <<>>) = Len(s)
  <2>1. PICK d : IsTable(d, s, <<>>) /\ levenshtein(s, <<>>) = d[Len(s)][Len(<<>>)]
    BY <1>1, DistanceIsInTable DEF Word
  <2> QED BY <1>1, <2>1 DEF IsTable
<1> QED BY <1>2, <1>3

\* An entry of the table is the distance of the words read so far.
LEMMA EntryIsDistance ==
    ASSUME NEW a \in Word, NEW b \in Word, NEW t, IsTable(t, a, b),
           NEW c \in Word, NEW d \in Word,
           SameStart(a, c, Len(c)), SameStart(b, d, Len(d))
    PROVE  t[Len(c)][Len(d)] = levenshtein(c, d)
<1>1. PICK u : IsTable(u, c, d) /\ levenshtein(c, d) = u[Len(c)][Len(d)]
  BY DistanceIsInTable DEF Word
<1>2. t[Len(c)][Len(d)] = u[Len(c)][Len(d)]
  BY <1>1, TablesAgree
<1> QED BY <1>1, <1>2

LEMMA WordsGrow ==
    \A s \in Word, x \in Alnum :
        /\ Append(s, x) \in Word
        /\ Len(Append(s, x)) = Len(s) + 1
        /\ \A i \in 1..Len(s) : Append(s, x)[i] = s[i]
        /\ Append(s, x)[Len(s) + 1] = x
BY DEF Word

\* The last letters of two words are deleted, inserted, replaced or the same.
LEMMA DistanceByLast ==
    \A s, t \in Word, x, y \in Alnum :
        levenshtein(Append(s, x), Append(t, y)) =
            Least({levenshtein(s, Append(t, y)) + 1, levenshtein(Append(s, x), t) + 1,
                   levenshtein(s, t) + Cost(x, y)})
<1> SUFFICES ASSUME NEW s \in Word, NEW t \in Word, NEW x \in Alnum, NEW y \in Alnum
             PROVE  levenshtein(Append(s, x), Append(t, y)) =
                        Least({levenshtein(s, Append(t, y)) + 1,
                               levenshtein(Append(s, x), t) + 1,
                               levenshtein(s, t) + Cost(x, y)})
  OBVIOUS
<1> DEFINE a == Append(s, x)
           b == Append(t, y)
<1>1. /\ a \in Word /\ Len(a) = Len(s) + 1
      /\ \A i \in 1..Len(s) : a[i] = s[i]
      /\ a[Len(s) + 1] = x
      /\ b \in Word /\ Len(b) = Len(t) + 1
      /\ \A j \in 1..Len(t) : b[j] = t[j]
      /\ b[Len(t) + 1] = y
      /\ Len(s) \in Nat /\ Len(t) \in Nat
  BY WordsGrow DEF Word
<1> HIDE DEF a, b
<1>2. PICK d : IsTable(d, a, b) /\ levenshtein(a, b) = d[Len(a)][Len(b)]
  BY <1>1, DistanceIsInTable DEF Word
<1>3. d[Len(a)][Len(b)] =
          Least({d[Len(s)][Len(b)] + 1, d[Len(a)][Len(t)] + 1, d[Len(s)][Len(t)] + Cost(x, y)})
  <2>1. /\ Len(a) \in 1..Len(a) /\ Len(b) \in 1..Len(b)
        /\ Len(a) - 1 = Len(s) /\ Len(b) - 1 = Len(t)
        /\ a[Len(a)] = x /\ b[Len(b)] = y
    BY <1>1
  <2> QED BY <1>2, <2>1 DEF IsTable
<1>0. /\ SameStart(a, s, Len(s)) /\ SameStart(a, a, Len(a))
      /\ SameStart(b, t, Len(t)) /\ SameStart(b, b, Len(b))
  BY <1>1 DEF SameStart
<1>4. d[Len(s)][Len(b)] = levenshtein(s, b)
  BY <1>0, <1>1, <1>2, EntryIsDistance
<1>5. d[Len(a)][Len(t)] = levenshtein(a, t)
  BY <1>0, <1>1, <1>2, EntryIsDistance
<1>6. d[Len(s)][Len(t)] = levenshtein(s, t)
  BY <1>0, <1>1, <1>2, EntryIsDistance
<1>7. levenshtein(a, b) =
          Least({levenshtein(s, b) + 1, levenshtein(a, t) + 1, levenshtein(s, t) + Cost(x, y)})
  BY <1>2, <1>3, <1>4, <1>5, <1>6
<1> QED BY <1>7 DEF a, b

\* The same without Least
LEMMA DistanceStep ==
    ASSUME NEW s \in Word, NEW t \in Word, NEW x \in Alnum, NEW y \in Alnum
    PROVE  LET d == levenshtein(Append(s, x), Append(t, y))
               deleted == levenshtein(s, Append(t, y)) + 1
               inserted == levenshtein(Append(s, x), t) + 1
               replaced == levenshtein(s, t) + (IF x = y THEN 0 ELSE 1)
           IN  /\ d =< deleted /\ d =< inserted /\ d =< replaced
               /\ d \in {deleted, inserted, replaced}
<1> DEFINE deleted == levenshtein(s, Append(t, y)) + 1
           inserted == levenshtein(Append(s, x), t) + 1
           replaced == levenshtein(s, t) + Cost(x, y)
<1>1. deleted \in Nat /\ inserted \in Nat /\ replaced \in Nat
  <2>1. /\ levenshtein(s, Append(t, y)) \in Nat /\ levenshtein(Append(s, x), t) \in Nat
        /\ levenshtein(s, t) \in Nat
    BY DistanceType, WordsGrow
  <2>2. Cost(x, y) \in Nat
    BY DEF Cost, Replacement
  <2> QED BY <2>1, <2>2
<1>2. levenshtein(Append(s, x), Append(t, y)) = Least({deleted, inserted, replaced})
  BY DistanceByLast
<1>3. replaced = levenshtein(s, t) + (IF x = y THEN 0 ELSE 1)
  BY DEF Cost, Replacement
<1> HIDE DEF deleted, inserted, replaced
<1>4. LET d == levenshtein(Append(s, x), Append(t, y))
      IN  /\ d =< deleted /\ d =< inserted /\ d =< replaced
          /\ d \in {deleted, inserted, replaced}
  BY <1>1, <1>2, LeastOfThree
<1> QED BY <1>3, <1>4 DEF deleted, inserted

LEMMA LastLetter ==
    \A s \in Word : s # <<>> => \E r \in Word, x \in Alnum : s = Append(r, x)
BY SequenceEmptyOrAppend DEF Word

-----------------------------------------------------------------------------
(* The distance is a metric                                                *)

\* The distance does not depend on which of two words comes first.
THEOREM DistanceIsMutual ==
    \A s, t \in Word : levenshtein(s, t) = levenshtein(t, s)
<1> DEFINE Same == {n \in Nat : \A s, t \in Word :
                       Len(s) + Len(t) = n => levenshtein(s, t) = levenshtein(t, s)}
<1>1. ASSUME NEW n \in Nat, \A m \in 0..n - 1 : m \in Same
      PROVE  n \in Same
  <2> SUFFICES ASSUME NEW s \in Word, NEW t \in Word, Len(s) + Len(t) = n
               PROVE  levenshtein(s, t) = levenshtein(t, s)
    OBVIOUS
  <2>1. CASE s = <<>> \/ t = <<>>
    BY <2>1, DistanceOfEmpty
  <2>2. CASE s # <<>> /\ t # <<>>
    <3>1. PICK p \in Word, x \in Alnum : s = Append(p, x)
      BY <2>2, LastLetter
    <3>2. PICK q \in Word, y \in Alnum : t = Append(q, y)
      BY <2>2, LastLetter
    <3>3. /\ Len(s) = Len(p) + 1 /\ Len(t) = Len(q) + 1
          /\ Len(p) \in Nat /\ Len(q) \in Nat
      BY <3>1, <3>2, WordsGrow DEF Word
    <3>4. /\ levenshtein(p, t) = levenshtein(t, p)
          /\ levenshtein(s, q) = levenshtein(q, s)
          /\ levenshtein(p, q) = levenshtein(q, p)
      <4>1. /\ Len(p) + Len(t) \in 0..n - 1
            /\ Len(s) + Len(q) \in 0..n - 1
            /\ Len(p) + Len(q) \in 0..n - 1
        BY <3>3
      <4> QED BY <1>1, <4>1
    <3>5. Cost(x, y) = Cost(y, x)
      BY DEF Cost
    <3>6. /\ levenshtein(s, t) = Least({levenshtein(p, t) + 1, levenshtein(s, q) + 1,
                                        levenshtein(p, q) + Cost(x, y)})
          /\ levenshtein(t, s) = Least({levenshtein(q, s) + 1, levenshtein(t, p) + 1,
                                        levenshtein(q, p) + Cost(y, x)})
      BY <3>1, <3>2, DistanceByLast
    <3>7. {levenshtein(p, t) + 1, levenshtein(s, q) + 1, levenshtein(p, q) + Cost(x, y)}
          = {levenshtein(q, s) + 1, levenshtein(t, p) + 1, levenshtein(q, p) + Cost(y, x)}
      BY <3>4, <3>5
    <3> QED BY <3>6, <3>7
  <2> QED BY <2>1, <2>2
<1> HIDE DEF Same
<1>2. Nat \subseteq Same
  BY <1>1, FromBelow
<1>3. ASSUME NEW s \in Word, NEW t \in Word
      PROVE  levenshtein(s, t) = levenshtein(t, s)
  <2>1. Len(s) + Len(t) \in Nat
    BY DEF Word
  <2> QED BY <1>2, <2>1 DEF Same
<1> QED BY <1>3

\* The distance is zero between a word and itself, and only there.
THEOREM DistanceZeroIsSame ==
    \A s, t \in Word : levenshtein(s, t) = 0 <=> s = t
<1> DEFINE Right == {n \in Nat : \A s, t \in Word :
                        Len(s) + Len(t) = n => (levenshtein(s, t) = 0 <=> s = t)}
<1>1. ASSUME NEW n \in Nat, \A m \in 0..n - 1 : m \in Right
      PROVE  n \in Right
  <2> SUFFICES ASSUME NEW s \in Word, NEW t \in Word, Len(s) + Len(t) = n
               PROVE  levenshtein(s, t) = 0 <=> s = t
    OBVIOUS
  <2>1. CASE s = <<>> \/ t = <<>>
    <3>1. \A r \in Word : Len(r) = 0 <=> r = <<>>
      BY DEF Word
    <3> QED BY <2>1, <3>1, DistanceOfEmpty
  <2>2. CASE s # <<>> /\ t # <<>>
    <3>1. PICK p \in Word, x \in Alnum : s = Append(p, x)
      BY <2>2, LastLetter
    <3>2. PICK q \in Word, y \in Alnum : t = Append(q, y)
      BY <2>2, LastLetter
    <3>3. /\ Len(s) = Len(p) + 1 /\ Len(t) = Len(q) + 1
          /\ Len(p) \in Nat /\ Len(q) \in Nat
      BY <3>1, <3>2, WordsGrow DEF Word
    <3>4. levenshtein(p, q) = 0 <=> p = q
      <4>1. Len(p) + Len(q) \in 0..n - 1
        BY <3>3
      <4> QED BY <1>1, <4>1
    <3>5. s = t <=> p = q /\ x = y
      BY <3>1, <3>2, AppendInjective DEF Word
    <3>6. /\ levenshtein(p, t) \in Nat /\ levenshtein(s, q) \in Nat /\ levenshtein(p, q) \in Nat
          /\ levenshtein(s, t) \in Nat
      BY DistanceType
    <3>7. LET d == levenshtein(s, t)
              replaced == levenshtein(p, q) + (IF x = y THEN 0 ELSE 1)
          IN  /\ d =< replaced
              /\ d \in {levenshtein(p, t) + 1, levenshtein(s, q) + 1, replaced}
      BY <3>1, <3>2, DistanceStep
    <3> QED BY <3>4, <3>5, <3>6, <3>7
  <2> QED BY <2>1, <2>2
<1> HIDE DEF Right
<1>2. Nat \subseteq Right
  BY <1>1, FromBelow
<1>3. ASSUME NEW s \in Word, NEW t \in Word
      PROVE  levenshtein(s, t) = 0 <=> s = t
  <2>1. Len(s) + Len(t) \in Nat
    BY DEF Word
  <2> QED BY <1>2, <2>1 DEF Right
<1> QED BY <1>3

-----------------------------------------------------------------------------
(* The distance counts edits                                               *)

\* r is s with a letter more, after the first n
HasMore(r, s, n) ==
    /\ n \in 0..Len(s) /\ Len(r) = Len(s) + 1
    /\ \A i \in 1..n : r[i] = s[i]
    /\ \A i \in n + 1..Len(s) : r[i + 1] = s[i]
\* r is s but for the letter at n
HasOther(r, s, n) ==
    /\ n \in 1..Len(s) /\ Len(r) = Len(s)
    /\ \A i \in 1..Len(s) : i # n => r[i] = s[i]
\* One edit leads from s to r, or back.
Near(r, s) == \E n \in Nat : HasMore(r, s, n) \/ HasMore(s, r, n) \/ HasOther(r, s, n)

LEMMA NearIsMutual ==
    \A r, s \in Word : Near(r, s) <=> Near(s, r)
<1>1. \A r, s \in Word, n \in Nat : HasOther(r, s, n) => HasOther(s, r, n)
  BY DEF HasOther
<1> QED BY <1>1 DEF Near

\* Words that are near, by their last letters
NearAtEnd(r, s) ==
    \/ \E x \in Alnum : r = Append(s, x) \/ s = Append(r, x)
    \/ \E p \in Word, x, y \in Alnum : r = Append(p, x) /\ s = Append(p, y)
    \/ \E p, q \in Word, x \in Alnum : r = Append(p, x) /\ s = Append(q, x) /\ Near(p, q)

LEMMA SameWord ==
    ASSUME NEW s \in Word, NEW t \in Word, Len(s) = Len(t), \A i \in 1..Len(s) : s[i] = t[i]
    PROVE  s = t
BY DEF Word

LEMMA MoreAtEnd ==
    ASSUME NEW r \in Word, NEW s \in Word, NEW n \in Nat, HasMore(r, s, n)
    PROVE  NearAtEnd(r, s)
<1>1. Len(r) \in Nat /\ Len(s) \in Nat /\ Len(r) = Len(s) + 1
  BY DEF HasMore, Word
<1>2. PICK p \in Word, x \in Alnum : r = Append(p, x)
  <2>1. r # <<>>
    BY <1>1
  <2> QED BY <2>1, LastLetter
<1>3. /\ Len(p) = Len(s)
      /\ \A i \in 1..Len(s) : r[i] = p[i]
      /\ r[Len(s) + 1] = x
  BY <1>1, <1>2, WordsGrow DEF Word
<1>4. CASE n = Len(s)
  <2>1. \A i \in 1..Len(p) : p[i] = s[i]
    BY <1>3, <1>4 DEF HasMore
  <2>2. p = s
    BY <1>3, <2>1, SameWord
  <2> QED BY <1>2, <2>2 DEF NearAtEnd
<1>5. CASE n # Len(s)
  <2>1. n \in 0..Len(s) - 1 /\ s # <<>>
    BY <1>1, <1>5 DEF HasMore
  <2>2. PICK q \in Word, y \in Alnum : s = Append(q, y)
    BY <2>1, LastLetter
  <2>3. /\ Len(s) = Len(q) + 1 /\ Len(q) \in Nat
        /\ \A i \in 1..Len(q) : s[i] = q[i]
        /\ s[Len(s)] = y
    BY <2>2, WordsGrow DEF Word
  <2>4. x = y
    <3>1. Len(s) \in n + 1..Len(s)
      BY <1>1, <2>1
    <3> QED BY <1>3, <2>3, <3>1 DEF HasMore
  <2>5. HasMore(p, q, n)
    <3>1. n \in 0..Len(q) /\ Len(p) = Len(q) + 1
      BY <1>3, <2>1, <2>3
    <3>2. ASSUME NEW i \in 1..n PROVE p[i] = q[i]
      BY <1>3, <2>1, <2>3 DEF HasMore
    <3>3. ASSUME NEW i \in n + 1..Len(q) PROVE p[i + 1] = q[i]
      <4>1. i \in n + 1..Len(s) /\ i + 1 \in 1..Len(s) /\ i \in 1..Len(q)
        BY <2>3
      <4> QED BY <1>3, <2>3, <4>1 DEF HasMore
    <3> QED BY <3>1, <3>2, <3>3 DEF HasMore
  <2> QED BY <1>2, <2>2, <2>4, <2>5 DEF NearAtEnd, Near
<1> QED BY <1>4, <1>5

LEMMA OtherAtEnd ==
    ASSUME NEW r \in Word, NEW s \in Word, NEW n \in Nat, HasOther(r, s, n)
    PROVE  NearAtEnd(r, s)
<1>1. /\ Len(r) \in Nat /\ Len(s) \in Nat /\ Len(r) = Len(s) /\ Len(s) # 0
      /\ r # <<>> /\ s # <<>>
  BY DEF HasOther, Word
<1>2. PICK p \in Word, x \in Alnum : r = Append(p, x)
  BY <1>1, LastLetter
<1>3. PICK q \in Word, y \in Alnum : s = Append(q, y)
  BY <1>1, LastLetter
<1>4. /\ Len(s) = Len(q) + 1 /\ Len(q) \in Nat /\ Len(p) = Len(q)
      /\ \A i \in 1..Len(q) : s[i] = q[i] /\ r[i] = p[i]
      /\ s[Len(s)] = y /\ r[Len(s)] = x
  BY <1>1, <1>2, <1>3, WordsGrow DEF Word
<1>5. CASE n = Len(s)
  <2>1. \A i \in 1..Len(p) : p[i] = q[i]
    BY <1>4, <1>5 DEF HasOther
  <2>2. p = q
    BY <1>4, <2>1, SameWord
  <2> QED BY <1>2, <1>3, <2>2 DEF NearAtEnd
<1>6. CASE n # Len(s)
  <2>1. n \in 1..Len(q)
    BY <1>4, <1>6 DEF HasOther
  <2>2. x = y
    <3>1. Len(s) \in 1..Len(s) /\ Len(s) # n
      BY <1>1, <1>6
    <3> QED BY <1>4, <3>1 DEF HasOther
  <2>3. HasOther(p, q, n)
    BY <1>4, <2>1 DEF HasOther
  <2> QED BY <1>2, <1>3, <2>2, <2>3 DEF NearAtEnd, Near
<1> QED BY <1>5, <1>6

LEMMA NearByLast ==
    ASSUME NEW r \in Word, NEW s \in Word, Near(r, s)
    PROVE  NearAtEnd(r, s)
<1>1. PICK n \in Nat : HasMore(r, s, n) \/ HasMore(s, r, n) \/ HasOther(r, s, n)
  BY DEF Near
<1>2. CASE HasMore(r, s, n)
  BY <1>2, MoreAtEnd
<1>3. CASE HasMore(s, r, n)
  <2>1. NearAtEnd(s, r)
    BY <1>3, MoreAtEnd
  <2> QED BY <2>1, NearIsMutual DEF NearAtEnd
<1>4. CASE HasOther(r, s, n)
  BY <1>4, OtherAtEnd
<1> QED BY <1>1, <1>2, <1>3, <1>4

LEMMA NearFromLast ==
    ASSUME NEW r \in Word, NEW s \in Word, NearAtEnd(r, s)
    PROVE  Near(r, s)
<1>1. ASSUME NEW p \in Word, NEW x \in Alnum
      PROVE  HasMore(Append(p, x), p, Len(p)) /\ Len(p) \in Nat
  BY <1>1, WordsGrow DEF HasMore, Word
<1>2. CASE \E x \in Alnum : r = Append(s, x) \/ s = Append(r, x)
  BY <1>1, <1>2 DEF Near
<1>3. CASE \E p \in Word, x, y \in Alnum : r = Append(p, x) /\ s = Append(p, y)
  <2>1. PICK p \in Word, x \in Alnum, y \in Alnum : r = Append(p, x) /\ s = Append(p, y)
    BY <1>3
  <2>2. /\ Len(p) \in Nat /\ Len(r) = Len(p) + 1 /\ Len(s) = Len(p) + 1
        /\ \A i \in 1..Len(p) : r[i] = p[i] /\ s[i] = p[i]
    BY <2>1, WordsGrow DEF Word
  <2>3. HasOther(r, s, Len(p) + 1)
    BY <2>2 DEF HasOther
  <2>4. Len(p) + 1 \in Nat
    BY <2>2
  <2> QED BY <2>3, <2>4 DEF Near
<1>4. CASE \E p, q \in Word, x \in Alnum : r = Append(p, x) /\ s = Append(q, x) /\ Near(p, q)
  <2>1. PICK p \in Word, q \in Word, x \in Alnum :
            r = Append(p, x) /\ s = Append(q, x) /\ Near(p, q)
    BY <1>4
  <2>2. /\ Len(p) \in Nat /\ Len(r) = Len(p) + 1
        /\ Len(q) \in Nat /\ Len(s) = Len(q) + 1
        /\ \A i \in 1..Len(p) : r[i] = p[i]
        /\ \A i \in 1..Len(q) : s[i] = q[i]
        /\ r[Len(p) + 1] = x /\ s[Len(q) + 1] = x
    BY <2>1, WordsGrow DEF Word
  <2>3. PICK n \in Nat : HasMore(p, q, n) \/ HasMore(q, p, n) \/ HasOther(p, q, n)
    BY <2>1 DEF Near
  <2>4. CASE HasMore(p, q, n)
    <3>1. n \in 0..Len(s) /\ Len(r) = Len(s) + 1
      BY <2>2, <2>4 DEF HasMore
    <3>2. ASSUME NEW i \in 1..n PROVE r[i] = s[i]
      BY <2>2, <2>4 DEF HasMore
    <3>3. ASSUME NEW i \in n + 1..Len(s) PROVE r[i + 1] = s[i]
      BY <2>2, <2>4 DEF HasMore
    <3>4. HasMore(r, s, n)
      BY <3>1, <3>2, <3>3 DEF HasMore
    <3> QED BY <3>4 DEF Near
  <2>5. CASE HasMore(q, p, n)
    <3>1. n \in 0..Len(r) /\ Len(s) = Len(r) + 1
      BY <2>2, <2>5 DEF HasMore
    <3>2. ASSUME NEW i \in 1..n PROVE s[i] = r[i]
      BY <2>2, <2>5 DEF HasMore
    <3>3. ASSUME NEW i \in n + 1..Len(r) PROVE s[i + 1] = r[i]
      BY <2>2, <2>5 DEF HasMore
    <3>4. HasMore(s, r, n)
      BY <3>1, <3>2, <3>3 DEF HasMore
    <3> QED BY <3>4 DEF Near
  <2>6. CASE HasOther(p, q, n)
    <3>1. HasOther(r, s, n)
      BY <2>2, <2>6 DEF HasOther
    <3> QED BY <3>1 DEF Near
  <2> QED BY <2>3, <2>4, <2>5, <2>6
<1> QED BY <1>2, <1>3, <1>4 DEF NearAtEnd

\* A letter more at the end is one more insertion.
LEMMA AppendAddsOne ==
    ASSUME NEW s \in Word, NEW t \in Word, NEW x \in Alnum
    PROVE  levenshtein(s, Append(t, x)) =< levenshtein(s, t) + 1
<1>1. CASE s = <<>>
  <2>1. Append(t, x) \in Word /\ Len(Append(t, x)) = Len(t) + 1
    BY WordsGrow
  <2>2. levenshtein(<<>>, Append(t, x)) = Len(t) + 1 /\ levenshtein(<<>>, t) = Len(t)
    BY <2>1, DistanceOfEmpty
  <2>3. Len(t) \in Nat
    BY DEF Word
  <2> QED BY <1>1, <2>2, <2>3
<1>2. CASE s # <<>>
  <2>1. PICK p \in Word, y \in Alnum : s = Append(p, y)
    BY <1>2, LastLetter
  <2> QED BY <2>1, DistanceStep
<1> QED BY <1>1, <1>2

\* An edit changes the distance from any word by at most one.
LEMMA NearWords ==
    \A r, s, t \in Word : Near(r, s) => levenshtein(r, t) =< levenshtein(s, t) + 1
<1> DEFINE Right == {n \in Nat : \A r, s, t \in Word :
                        Len(r) + Len(s) + Len(t) = n /\ Near(r, s)
                        => levenshtein(r, t) =< levenshtein(s, t) + 1}
<1>1. ASSUME NEW n \in Nat, \A m \in 0..n - 1 : m \in Right
      PROVE  n \in Right
  <2> SUFFICES ASSUME NEW r \in Word, NEW s \in Word, NEW t \in Word,
                      Len(r) + Len(s) + Len(t) = n, Near(r, s)
               PROVE  levenshtein(r, t) =< levenshtein(s, t) + 1
    OBVIOUS
  <2>1. CASE t = <<>>
    <3>1. Len(r) =< Len(s) + 1 /\ Len(s) \in Nat /\ Len(r) \in Nat
      BY DEF Near, HasMore, HasOther, Word
    <3> QED BY <2>1, <3>1, DistanceOfEmpty
  <2>2. CASE t # <<>>
    <3>1. PICK q \in Word, y \in Alnum : t = Append(q, y)
      BY <2>2, LastLetter
    <3>2. /\ Len(t) = Len(q) + 1 /\ Len(q) \in Nat /\ Len(r) \in Nat /\ Len(s) \in Nat
      BY <3>1, WordsGrow DEF Word
    <3>3. /\ levenshtein(r, q) =< levenshtein(s, q) + 1
          /\ levenshtein(r, t) =< levenshtein(r, q) + 1
          /\ levenshtein(r, q) \in Nat /\ levenshtein(s, q) \in Nat
          /\ levenshtein(r, t) \in Nat /\ levenshtein(s, t) \in Nat
      <4>1. Len(r) + Len(s) + Len(q) \in 0..n - 1
        BY <3>2
      <4>2. levenshtein(r, q) =< levenshtein(s, q) + 1
        BY <1>1, <4>1
      <4> QED BY <3>1, <4>2, AppendAddsOne, DistanceType
    <3>4. CASE \E x \in Alnum : r = Append(s, x)
      <4>1. PICK x \in Alnum : r = Append(s, x)
        BY <3>4
      <4> QED BY <3>1, <4>1, DistanceStep
    <3>5. CASE \E x \in Alnum : s = Append(r, x)
      <4>1. PICK x \in Alnum : s = Append(r, x)
        BY <3>5
      <4>2. levenshtein(s, t) \in {levenshtein(r, t) + 1, levenshtein(s, q) + 1,
                                   levenshtein(r, q) + (IF x = y THEN 0 ELSE 1)}
        BY <3>1, <4>1, DistanceStep
      <4> QED BY <3>3, <4>2
    <3>6. CASE \E p \in Word, x, z \in Alnum : r = Append(p, x) /\ s = Append(p, z)
      <4>1. PICK p \in Word, x \in Alnum, z \in Alnum : r = Append(p, x) /\ s = Append(p, z)
        BY <3>6
      <4>2. levenshtein(s, t) \in {levenshtein(p, t) + 1, levenshtein(s, q) + 1,
                                   levenshtein(p, q) + (IF z = y THEN 0 ELSE 1)}
        BY <3>1, <4>1, DistanceStep
      <4>3. /\ levenshtein(r, t) =< levenshtein(p, t) + 1
            /\ levenshtein(r, t) =< levenshtein(p, q) + (IF x = y THEN 0 ELSE 1)
        BY <3>1, <4>1, DistanceStep
      <4>4. levenshtein(p, t) \in Nat /\ levenshtein(p, q) \in Nat
        BY DistanceType
      <4> QED BY <3>3, <4>2, <4>3, <4>4
    <3>7. CASE \E p, o \in Word, x \in Alnum :
                   r = Append(p, x) /\ s = Append(o, x) /\ Near(p, o)
      <4>1. PICK p \in Word, o \in Word, x \in Alnum :
                r = Append(p, x) /\ s = Append(o, x) /\ Near(p, o)
        BY <3>7
      <4>2. levenshtein(s, t) \in {levenshtein(o, t) + 1, levenshtein(s, q) + 1,
                                   levenshtein(o, q) + (IF x = y THEN 0 ELSE 1)}
        BY <3>1, <4>1, DistanceStep
      <4>3. /\ levenshtein(r, t) =< levenshtein(p, t) + 1
            /\ levenshtein(r, t) =< levenshtein(p, q) + (IF x = y THEN 0 ELSE 1)
        BY <3>1, <4>1, DistanceStep
      <4>4. /\ levenshtein(p, t) =< levenshtein(o, t) + 1
            /\ levenshtein(p, q) =< levenshtein(o, q) + 1
        <5>1. /\ Len(p) + Len(o) + Len(t) \in 0..n - 1
              /\ Len(p) + Len(o) + Len(q) \in 0..n - 1
          <6>1. /\ Len(r) = Len(p) + 1 /\ Len(s) = Len(o) + 1
                /\ Len(p) \in Nat /\ Len(o) \in Nat
            BY <4>1, WordsGrow DEF Word
          <6> QED BY <3>2, <6>1
        <5> QED BY <1>1, <4>1, <5>1
      <4>5. /\ levenshtein(p, t) \in Nat /\ levenshtein(p, q) \in Nat
            /\ levenshtein(o, t) \in Nat /\ levenshtein(o, q) \in Nat
        BY DistanceType
      <4> QED BY <3>3, <4>2, <4>3, <4>4, <4>5
    <3>8. NearAtEnd(r, s)
      BY NearByLast
    <3> QED BY <3>4, <3>5, <3>6, <3>7, <3>8 DEF NearAtEnd
  <2> QED BY <2>1, <2>2
<1> HIDE DEF Right
<1>2. Nat \subseteq Right
  BY <1>1, FromBelow
<1>3. ASSUME NEW r \in Word, NEW s \in Word, NEW t \in Word, Near(r, s)
      PROVE  levenshtein(r, t) =< levenshtein(s, t) + 1
  <2>1. Len(r) + Len(s) + Len(t) \in Nat
    BY DEF Word
  <2> QED BY <1>2, <1>3, <2>1 DEF Right
<1> QED BY <1>3

\* Words that differ have an edit that brings the one closer to the other.
LEMMA EditBringsCloser ==
    \A s, t \in Word : s # t =>
        \E r \in Word : Near(r, s) /\ levenshtein(r, t) =< levenshtein(s, t) - 1
<1> DEFINE Closer(s, t) ==
              \E r \in Word : Near(r, s) /\ levenshtein(r, t) =< levenshtein(s, t) - 1
           Right == {n \in Nat : \A s, t \in Word :
                        Len(s) + Len(t) = n /\ s # t => Closer(s, t)}
<1>1. ASSUME NEW n \in Nat, \A m \in 0..n - 1 : m \in Right
      PROVE  n \in Right
  <2> SUFFICES ASSUME NEW s \in Word, NEW t \in Word, Len(s) + Len(t) = n, s # t
               PROVE  Closer(s, t)
    OBVIOUS
  <2>1. \A r \in Word : levenshtein(r, t) \in Nat /\ levenshtein(s, r) \in Nat
    BY DistanceType
  <2>2. CASE t = <<>>
    <3>1. PICK p \in Word, x \in Alnum : s = Append(p, x)
      BY <2>2, LastLetter
    <3>2. levenshtein(p, t) = Len(p) /\ levenshtein(s, t) = Len(p) + 1 /\ Len(p) \in Nat
      <4>1. Len(s) = Len(p) + 1 /\ Len(p) \in Nat
        BY <3>1, WordsGrow DEF Word
      <4>2. levenshtein(p, <<>>) = Len(p) /\ levenshtein(s, <<>>) = Len(s)
        BY DistanceOfEmpty
      <4> QED BY <2>2, <4>1, <4>2
    <3>3. Near(p, s)
      BY <3>1, NearFromLast DEF NearAtEnd
    <3> QED BY <3>2, <3>3
  <2>3. CASE t # <<>> /\ s = <<>>
    <3>1. PICK q \in Word, y \in Alnum : t = Append(q, y)
      BY <2>3, LastLetter
    <3>2. /\ levenshtein(s, t) = Len(q) + 1 /\ levenshtein(s, q) = Len(q) /\ Len(q) \in Nat
      <4>1. Len(t) = Len(q) + 1 /\ Len(q) \in Nat
        BY <3>1, WordsGrow DEF Word
      <4>2. levenshtein(<<>>, q) = Len(q) /\ levenshtein(<<>>, t) = Len(t)
        BY DistanceOfEmpty
      <4> QED BY <2>3, <4>1, <4>2
    <3> DEFINE r == Append(s, y)
    <3>3. r \in Word /\ Near(r, s)
      BY WordsGrow, NearFromLast DEF NearAtEnd
    <3>4. levenshtein(r, t) =< levenshtein(s, q) + (IF y = y THEN 0 ELSE 1)
      BY <3>1, DistanceStep
    <3> HIDE DEF r
    <3> QED BY <2>1, <3>2, <3>3, <3>4
  <2>4. CASE t # <<>> /\ s # <<>>
    <3>1. PICK p \in Word, x \in Alnum : s = Append(p, x)
      BY <2>4, LastLetter
    <3>2. PICK q \in Word, y \in Alnum : t = Append(q, y)
      BY <2>4, LastLetter
    <3>3. levenshtein(s, t) \in {levenshtein(p, t) + 1, levenshtein(s, q) + 1,
                                 levenshtein(p, q) + (IF x = y THEN 0 ELSE 1)}
      BY <3>1, <3>2, DistanceStep
    <3>4. levenshtein(p, q) \in Nat /\ levenshtein(s, t) \in Nat
      BY DistanceType
    <3>5. CASE levenshtein(s, t) = levenshtein(p, t) + 1
      <4>1. Near(p, s)
        BY <3>1, NearFromLast DEF NearAtEnd
      <4> QED BY <2>1, <3>5, <4>1
    <3>6. CASE levenshtein(s, t) = levenshtein(s, q) + 1
      <4> DEFINE r == Append(s, y)
      <4>1. r \in Word /\ Near(r, s)
        BY WordsGrow, NearFromLast DEF NearAtEnd
      <4>2. levenshtein(r, t) =< levenshtein(s, q) + (IF y = y THEN 0 ELSE 1)
        BY <3>2, DistanceStep
      <4> HIDE DEF r
      <4> QED BY <2>1, <3>6, <4>1, <4>2
    <3>7. CASE x # y /\ levenshtein(s, t) = levenshtein(p, q) + 1
      <4> DEFINE r == Append(p, y)
      <4>1. r \in Word
        BY WordsGrow
      <4>2. Near(r, s)
        <5>1. NearAtEnd(r, s)
          BY <3>1 DEF NearAtEnd
        <5> HIDE DEF r
        <5> QED BY <4>1, <5>1, NearFromLast
      <4>3. levenshtein(r, t) =< levenshtein(p, q) + (IF y = y THEN 0 ELSE 1)
        BY <3>2, DistanceStep
      <4> HIDE DEF r
      <4> QED BY <2>1, <3>4, <3>7, <4>1, <4>2, <4>3
    <3>8. CASE x = y /\ levenshtein(s, t) = levenshtein(p, q)
      <4>1. p # q
        BY <3>1, <3>2, <3>8
      <4>2. Len(p) + Len(q) \in 0..n - 1
        BY <3>1, <3>2, WordsGrow DEF Word
      <4>3. PICK o \in Word : Near(o, p) /\ levenshtein(o, q) =< levenshtein(p, q) - 1
        BY <1>1, <4>1, <4>2
      <4> DEFINE r == Append(o, x)
      <4>4. r \in Word
        BY WordsGrow
      <4>5. Near(r, s)
        <5>1. NearAtEnd(r, s)
          BY <3>1, <4>3 DEF NearAtEnd
        <5> HIDE DEF r
        <5> QED BY <4>4, <5>1, NearFromLast
      <4>6. levenshtein(r, t) =< levenshtein(o, q) + (IF x = y THEN 0 ELSE 1)
        BY <3>2, DistanceStep
      <4>7. levenshtein(o, q) \in Nat
        BY DistanceType
      <4> HIDE DEF r
      <4> QED BY <2>1, <3>4, <3>8, <4>3, <4>4, <4>5, <4>6, <4>7
    <3> QED BY <3>3, <3>4, <3>5, <3>6, <3>7, <3>8
  <2> QED BY <2>2, <2>3, <2>4
<1> HIDE DEF Right, Closer
<1>2. Nat \subseteq Right
  BY <1>1, FromBelow
<1>3. ASSUME NEW s \in Word, NEW t \in Word, s # t
      PROVE  Closer(s, t)
  <2>1. Len(s) + Len(t) \in Nat
    BY DEF Word
  <2> QED BY <1>2, <1>3, <2>1 DEF Right
<1> QED BY <1>3 DEF Closer

\* The parts of a word before and after a place
LEMMA Parts ==
    ASSUME NEW s \in Word, NEW m \in 0..Len(s), NEW n \in m..Len(s)
    PROVE  /\ SubSeq(s, 1, m) \in Word /\ Len(SubSeq(s, 1, m)) = m
           /\ \A i \in 1..m : SubSeq(s, 1, m)[i] = s[i]
           /\ SubSeq(s, n + 1, Len(s)) \in Word
           /\ Len(SubSeq(s, n + 1, Len(s))) = Len(s) - n
           /\ \A i \in 1..Len(s) - n : SubSeq(s, n + 1, Len(s))[i] = s[n + i]
<1>1. Len(s) \in Nat /\ m \in Nat /\ n \in Nat /\ n =< Len(s) /\ m =< Len(s)
  BY DEF Word
<1> QED BY <1>1 DEF Word

LEMMA Joined ==
    \A p, q \in Word :
        /\ p \o q \in Word /\ Len(p \o q) = Len(p) + Len(q)
        /\ \A i \in 1..Len(p) : (p \o q)[i] = p[i]
        /\ \A i \in 1..Len(q) : (p \o q)[Len(p) + i] = q[i]
BY DEF Word

LEMMA JoinedBy ==
    ASSUME NEW p \in Word, NEW q \in Word, NEW c \in Alnum
    PROVE  LET r == p \o <<c>> \o q
           IN  /\ r \in Word /\ Len(r) = Len(p) + 1 + Len(q)
               /\ \A i \in 1..Len(p) : r[i] = p[i]
               /\ r[Len(p) + 1] = c
               /\ \A i \in 1..Len(q) : r[Len(p) + 1 + i] = q[i]
<1>1. <<c>> \in Word /\ Len(<<c>>) = 1 /\ <<c>>[1] = c
  BY DEF Word
<1>2. PICK l : l = <<c>>
  OBVIOUS
<1>3. PICK o : o = p \o l
  OBVIOUS
<1>4. /\ o \in Word /\ Len(o) = Len(p) + Len(l)
      /\ \A i \in 1..Len(p) : o[i] = p[i]
      /\ \A i \in 1..Len(l) : o[Len(p) + i] = l[i]
  BY <1>1, <1>2, <1>3, Joined
<1>5. Len(o) = Len(p) + 1 /\ o[Len(p) + 1] = c
  BY <1>1, <1>2, <1>4
<1>6. PICK r : r = o \o q
  OBVIOUS
<1>7. /\ r \in Word /\ Len(r) = Len(o) + Len(q)
      /\ \A i \in 1..Len(o) : r[i] = o[i]
      /\ \A i \in 1..Len(q) : r[Len(o) + i] = q[i]
  BY <1>4, <1>6, Joined
<1>8. Len(p) \in Nat /\ Len(q) \in Nat
  BY DEF Word
<1>9. /\ Len(r) = Len(p) + 1 + Len(q)
      /\ r[Len(p) + 1] = c
      /\ \A i \in 1..Len(p) : r[i] = p[i]
  BY <1>4, <1>5, <1>7, <1>8
<1>11. ASSUME NEW i \in 1..Len(q) PROVE r[Len(p) + 1 + i] = q[i]
  BY <1>5, <1>7
<1>10. r = p \o <<c>> \o q
  BY <1>2, <1>3, <1>6
<1> QED BY <1>7, <1>9, <1>10, <1>11

\* A word with a letter put in after the first n
LEMMA PutIn ==
    ASSUME NEW s \in Word, NEW n \in 0..Len(s), NEW c \in Alnum
    PROVE  /\ With(s, n, c) \in Word /\ HasMore(With(s, n, c), s, n)
           /\ With(s, n, c)[n + 1] = c
<1>0. Len(s) \in Nat /\ n \in Nat /\ n \in n..Len(s)
  BY DEF Word
<1>1. PICK p, q : p = SubSeq(s, 1, n) /\ q = SubSeq(s, n + 1, Len(s))
  OBVIOUS
<1>2. /\ p \in Word /\ Len(p) = n /\ \A i \in 1..n : p[i] = s[i]
      /\ q \in Word /\ Len(q) = Len(s) - n
      /\ \A i \in 1..Len(s) - n : q[i] = s[n + i]
  BY <1>0, <1>1, Parts
<1>3. PICK r : r = p \o <<c>> \o q
  OBVIOUS
<1>4. /\ r \in Word /\ Len(r) = Len(p) + 1 + Len(q)
      /\ \A i \in 1..Len(p) : r[i] = p[i]
      /\ r[Len(p) + 1] = c
      /\ \A i \in 1..Len(q) : r[Len(p) + 1 + i] = q[i]
  BY <1>2, <1>3, JoinedBy
<1>5. r[n + 1] = c /\ Len(r) = Len(s) + 1 /\ \A i \in 1..n : r[i] = s[i]
  BY <1>0, <1>2, <1>4
<1>6. ASSUME NEW i \in n + 1..Len(s) PROVE r[i + 1] = s[i]
  <2>1. PICK j : j = i - n
    OBVIOUS
  <2>2. j \in 1..Len(q) /\ Len(p) + 1 + j = i + 1 /\ n + j = i /\ j \in 1..Len(s) - n
    BY <1>0, <1>2, <2>1
  <2>3. r[Len(p) + 1 + j] = q[j] /\ q[j] = s[n + j]
    BY <1>2, <1>4, <2>2
  <2> QED BY <2>2, <2>3
<1>7. HasMore(r, s, n)
  BY <1>0, <1>5, <1>6 DEF HasMore
<1>8. With(s, n, c) = r
  BY <1>1, <1>3 DEF With
<1> QED BY <1>4, <1>5, <1>7, <1>8

\* A word with the letter at n left out
LEMMA LeftOut ==
    ASSUME NEW s \in Word, NEW n \in 1..Len(s)
    PROVE  Without(s, n) \in Word /\ HasMore(s, Without(s, n), n - 1)
<1>0. /\ Len(s) \in Nat /\ n \in Nat /\ n - 1 \in 0..Len(s) /\ n \in n - 1..Len(s)
  BY DEF Word
<1>1. PICK p, q : p = SubSeq(s, 1, n - 1) /\ q = SubSeq(s, n + 1, Len(s))
  OBVIOUS
<1>2. /\ p \in Word /\ Len(p) = n - 1 /\ \A i \in 1..n - 1 : p[i] = s[i]
      /\ q \in Word /\ Len(q) = Len(s) - n
      /\ \A i \in 1..Len(s) - n : q[i] = s[n + i]
  BY <1>0, <1>1, Parts
<1>3. PICK r : r = p \o q
  OBVIOUS
<1>4. /\ r \in Word /\ Len(r) = Len(p) + Len(q)
      /\ \A i \in 1..Len(p) : r[i] = p[i]
      /\ \A i \in 1..Len(q) : r[Len(p) + i] = q[i]
  BY <1>2, <1>3, Joined
<1>5. Len(s) = Len(r) + 1 /\ n - 1 \in 0..Len(r) /\ \A i \in 1..n - 1 : s[i] = r[i]
  BY <1>0, <1>2, <1>4
<1>6. ASSUME NEW i \in (n - 1) + 1..Len(r) PROVE s[i + 1] = r[i]
  <2>1. PICK j : j = i - n + 1
    OBVIOUS
  <2>2. j \in 1..Len(q) /\ Len(p) + j = i /\ n + j = i + 1 /\ j \in 1..Len(s) - n
    BY <1>0, <1>2, <1>5, <2>1
  <2>3. r[Len(p) + j] = q[j] /\ q[j] = s[n + j]
    BY <1>2, <1>4, <2>2
  <2> QED BY <2>2, <2>3
<1>7. HasMore(s, r, n - 1)
  BY <1>5, <1>6 DEF HasMore
<1>8. Without(s, n) = r
  BY <1>1, <1>3 DEF Without
<1> QED BY <1>4, <1>7, <1>8

LEMMA MoreIsSame ==
    ASSUME NEW s \in Word, NEW r \in Word, NEW t \in Word, NEW n \in Nat,
           HasMore(r, s, n), HasMore(t, s, n), r[n + 1] = t[n + 1]
    PROVE  r = t
<1>1. Len(r) = Len(s) + 1 /\ Len(t) = Len(s) + 1 /\ Len(s) \in Nat
  BY DEF HasMore, Word
<1>2. ASSUME NEW i \in 1..Len(r)
      PROVE  r[i] = t[i]
  <2>1. CASE i \in 1..n
    BY <2>1 DEF HasMore
  <2>2. CASE i = n + 1
    BY <2>2
  <2>3. CASE i > n + 1
    <3>1. i - 1 \in n + 1..Len(s) /\ (i - 1) + 1 = i
      BY <1>1, <2>3
    <3> QED BY <3>1 DEF HasMore
  <2>4. i \in 1..n \/ i = n + 1 \/ i > n + 1
    BY <1>1
  <2> QED BY <2>1, <2>2, <2>3, <2>4
<1> QED BY <1>1, <1>2, SameWord

\* The edits of a word are the words near to it.
LEMMA EditsAreNear ==
    ASSUME NEW s \in Word
    PROVE  Edits(s) = {r \in Word : Near(r, s)}
<1>1. ASSUME NEW r \in Inserted(s) PROVE r \in Word /\ Near(r, s)
  <2>1. PICK n \in 0..Len(s), c \in Alnum : r = With(s, n, c)
    BY DEF Inserted
  <2>2. r \in Word /\ HasMore(r, s, n) /\ n \in Nat
    BY <2>1, PutIn DEF Word
  <2> QED BY <2>2 DEF Near
<1>2. ASSUME NEW r \in Deleted(s) PROVE r \in Word /\ Near(r, s)
  <2>1. PICK n \in 1..Len(s) : r = Without(s, n)
    BY DEF Deleted
  <2>2. r \in Word /\ HasMore(s, r, n - 1) /\ n - 1 \in Nat
    BY <2>1, LeftOut DEF Word
  <2> QED BY <2>2 DEF Near
<1>3. ASSUME NEW r \in Replaced(s) PROVE r \in Word /\ Near(r, s)
  <2>1. PICK n \in 1..Len(s), c \in Alnum : r = Instead(s, n, c)
    BY DEF Replaced
  <2>2. r \in Word /\ Len(r) = Len(s) /\ n \in Nat
    BY <2>1 DEF Word, Instead
  <2>3. HasOther(r, s, n)
    BY <2>1, <2>2 DEF HasOther, Word, Instead
  <2> QED BY <2>2, <2>3 DEF Near
<1>4. ASSUME NEW r \in Word, Near(r, s)
      PROVE  r \in Edits(s)
  <2>1. PICK n \in Nat : HasMore(r, s, n) \/ HasMore(s, r, n) \/ HasOther(r, s, n)
    BY <1>4 DEF Near
  <2>0. Len(s) \in Nat /\ Len(r) \in Nat
    BY DEF Word
  <2>2. CASE HasMore(r, s, n)
    <3>1. n \in 0..Len(s) /\ n + 1 \in 1..Len(r)
      BY <2>0, <2>2 DEF HasMore
    <3>2. PICK c : c = r[n + 1]
      OBVIOUS
    <3>3. c \in Alnum
      BY <3>1, <3>2 DEF Word
    <3>4. PICK t : t = With(s, n, c)
      OBVIOUS
    <3>5. t \in Word /\ HasMore(t, s, n) /\ t[n + 1] = c
      BY <3>1, <3>3, <3>4, PutIn
    <3>6. r = t
      BY <2>2, <3>2, <3>5, MoreIsSame
    <3>7. r \in Inserted(s)
      BY <3>1, <3>3, <3>4, <3>6 DEF Inserted
    <3> QED BY <3>7 DEF Edits
  <2>3. CASE HasMore(s, r, n)
    <3>1. n + 1 \in 1..Len(s) /\ (n + 1) - 1 = n
      BY <2>0, <2>3 DEF HasMore
    <3>2. PICK t : t = Without(s, n + 1)
      OBVIOUS
    <3>3. t \in Word /\ HasMore(s, t, n)
      BY <3>1, <3>2, LeftOut
    <3>4. r = t
      <4>1. Len(r) = Len(t)
        BY <2>0, <2>3, <3>3 DEF HasMore, Word
      <4>2. ASSUME NEW i \in 1..Len(r) PROVE r[i] = t[i]
        BY <2>0, <2>3, <3>3, <4>1 DEF HasMore
      <4> QED BY <3>3, <4>1, <4>2, SameWord
    <3>5. r \in Deleted(s)
      BY <3>1, <3>2, <3>4 DEF Deleted
    <3> QED BY <3>5 DEF Edits
  <2>4. CASE HasOther(r, s, n)
    <3>1. n \in 1..Len(s) /\ Len(r) = Len(s)
      BY <2>4 DEF HasOther
    <3>2. PICK c : c = r[n]
      OBVIOUS
    <3>3. c \in Alnum
      BY <3>1, <3>2 DEF Word
    <3>4. PICK t : t = [s EXCEPT ![n] = c]
      OBVIOUS
    <3>5. t \in Word /\ Len(t) = Len(s)
      BY <3>1, <3>3, <3>4 DEF Word
    <3>6. ASSUME NEW i \in 1..Len(r) PROVE r[i] = t[i]
      BY <2>4, <3>1, <3>2, <3>4 DEF HasOther, Word
    <3>7. r = t
      BY <3>1, <3>5, <3>6, SameWord
    <3>8. r = Instead(s, n, c)
      BY <3>4, <3>7 DEF Instead
    <3>9. r \in Replaced(s)
      BY <3>1, <3>3, <3>8 DEF Replaced
    <3> QED BY <3>9 DEF Edits
  <2> QED BY <2>1, <2>2, <2>3, <2>4
<1> QED BY <1>1, <1>2, <1>3, <1>4 DEF Edits

\* The distance of two normalised nicknames is the least number of letters to
\* insert, delete or replace that leads from the one to the other.
THEOREM DistanceIsLeastEdits ==
    \A a, b \in Word : CountsEdits(levenshtein, a, b)
<1> SUFFICES ASSUME NEW a \in Word, NEW b \in Word
             PROVE  CountsEdits(levenshtein, a, b)
  OBVIOUS
<1>1. levenshtein(a, b) = 0 <=> a = b
  BY DistanceZeroIsSame
<1>2. ASSUME NEW c \in Edits(a)
      PROVE  levenshtein(c, b) - levenshtein(a, b) \in {-1, 0, 1}
  <2>1. c \in Word /\ Near(c, a) /\ Near(a, c)
    BY EditsAreNear, NearIsMutual
  <2>2. levenshtein(c, b) =< levenshtein(a, b) + 1 /\ levenshtein(a, b) =< levenshtein(c, b) + 1
    BY <2>1, NearWords
  <2>3. levenshtein(c, b) \in Nat /\ levenshtein(a, b) \in Nat
    BY <2>1, DistanceType
  <2> QED BY <2>2, <2>3
<1>3. ASSUME a # b
      PROVE  \E c \in Edits(a) : levenshtein(c, b) = levenshtein(a, b) - 1
  <2>1. PICK c \in Word : Near(c, a) /\ levenshtein(c, b) =< levenshtein(a, b) - 1
    BY <1>3, EditBringsCloser
  <2>2. c \in Edits(a)
    BY <2>1, EditsAreNear
  <2>3. levenshtein(c, b) - levenshtein(a, b) \in {-1, 0, 1}
    BY <1>2, <2>2
  <2>4. levenshtein(c, b) \in Nat /\ levenshtein(a, b) \in Nat
    BY DistanceType
  <2>5. levenshtein(c, b) = levenshtein(a, b) - 1
    BY <2>1, <2>3, <2>4
  <2> QED BY <2>2, <2>5
<1> QED BY <1>1, <1>2, <1>3 DEF CountsEdits

-----------------------------------------------------------------------------
(* Who passes for whom *)

LEMMA LeastOfTwo ==
    \A x, y \in Nat : /\ Least({x, y}) \in Nat
                      /\ Least({x, y}) = IF x =< y THEN x ELSE y
<1> SUFFICES ASSUME NEW x \in Nat, NEW y \in Nat
             PROVE  Least({x, y}) \in Nat /\ Least({x, y}) = IF x =< y THEN x ELSE y
  OBVIOUS
<1>1. /\ Least({x, y, y}) \in {x, y, y} /\ Least({x, y, y}) \in Nat
      /\ Least({x, y, y}) =< x /\ Least({x, y, y}) =< y
  BY LeastOfThree
<1>2. {x, y, y} = {x, y}
  OBVIOUS
<1>3. PICK n : n = Least({x, y})
  OBVIOUS
<1>4. n \in {x, y} /\ n \in Nat /\ n =< x /\ n =< y
  BY <1>1, <1>2, <1>3
<1> QED BY <1>3, <1>4

LEMMA ThresholdType ==
    \A s, t \in Word : /\ Threshold(s, t) \in 0..3
                       /\ Threshold(s, t) = Threshold(t, s)
                       /\ Len(t) =< 4 => Threshold(s, t) =< 1
<1> SUFFICES ASSUME NEW s \in Word, NEW t \in Word
             PROVE  /\ Threshold(s, t) \in 0..3
                    /\ Threshold(s, t) = Threshold(t, s)
                    /\ Len(t) =< 4 => Threshold(s, t) =< 1
  OBVIOUS
<1>1. Len(s) \in Nat /\ Len(t) \in Nat
  BY DEF Word
<1>2. PICK n : n = Least({Len(s), Len(t)})
  OBVIOUS
<1>3. {Len(t), Len(s)} = {Len(s), Len(t)}
  OBVIOUS
<1>4. n \in Nat /\ n =< Len(t)
  BY <1>1, <1>2, LeastOfTwo
<1>5. Threshold(s, t) = CASE n =< 2 -> 0
                          [] n \in 3..4 -> 1
                          [] n \in 5..6 -> 2
                          [] OTHER -> Least({3, (3 * n) \div 10})
  BY <1>2 DEF Threshold
<1>6. Threshold(t, s) = Threshold(s, t)
  BY <1>3 DEF Threshold
<1>7. PICK k : k = (3 * n) \div 10
  OBVIOUS
<1>8. n > 6 => k \in Nat
  BY <1>4, <1>7
<1>9. n > 6 => Least({3, k}) \in 0..3
  BY <1>8, LeastOfTwo
<1>10. CASE n > 6
  <2>1. Threshold(s, t) = Least({3, k})
    BY <1>4, <1>5, <1>7, <1>10
  <2> QED BY <1>1, <1>4, <1>6, <1>9, <1>10, <2>1
<1>11. CASE n =< 6
  <2>1. n =< 2 \/ n \in 3..4 \/ n \in 5..6
    BY <1>4, <1>11
  <2>2. CASE n =< 2
    BY <1>4, <1>5, <1>6, <2>2
  <2>3. CASE n \in 3..4
    BY <1>4, <1>5, <1>6, <2>3
  <2>4. CASE n \in 5..6
    BY <1>1, <1>4, <1>5, <1>6, <2>4
  <2> QED BY <2>1, <2>2, <2>3, <2>4
<1> QED BY <1>4, <1>10, <1>11

\* Every nickname passes for itself, and of two the first for the second as the
\* second for the first.
THEOREM EqualityIsMutual ==
    \A m, n \in Seq(Char) : /\ areNicknamesEqual(m, m)
                            /\ areNicknamesEqual(m, n) = areNicknamesEqual(n, m)
<1> SUFFICES ASSUME NEW m \in Seq(Char), NEW n \in Seq(Char)
             PROVE  /\ areNicknamesEqual(m, m)
                    /\ areNicknamesEqual(m, n) = areNicknamesEqual(n, m)
  OBVIOUS
<1>1. PICK s, t : s = normalizeNick(m) /\ t = normalizeNick(n)
  OBVIOUS
<1>2. s \in Word /\ t \in Word
  BY <1>1, NormalIsWord
<1>3. levenshtein(s, s) = 0 /\ 0 =< Threshold(s, s)
  BY <1>2, DistanceZeroIsSame, ThresholdType
<1>4. levenshtein(s, t) = levenshtein(t, s) /\ Threshold(s, t) = Threshold(t, s)
  BY <1>2, DistanceIsMutual, ThresholdType
<1> QED BY <1>1, <1>3, <1>4 DEF areNicknamesEqual
=============================================================================

----------------------------- MODULE Nicknames -----------------------------
(***************************************************************************)
(* Comparison of nicknames: areNicknamesEqual, which uploads resolve their *)
(* entries with, and the distance the player search ranks by.              *)
(*                                                                         *)
(* A nickname is a sequence of characters of a small alphabet.             *)
(***************************************************************************)
EXTENDS Integers, Sequences

CONSTANTS
    Char,   \* the characters nicknames are typed with
    Alnum,  \* those of them that are a to z or 0 to 9
    Lower   \* toLowerCase

ASSUME AlphabetAssumption ==
    /\ Alnum \subseteq Char
    /\ Lower \in [Char -> Char]
    /\ \A c \in Alnum : Lower[c] = c

Least(numbers) == CHOOSE n \in numbers : \A m \in numbers : n =< m

\* The letters that are kept, from left to right
normalizeNick(nick) ==
    LET kept[n \in 0..Len(nick)] ==
          IF n = 0 THEN <<>>
          ELSE IF Lower[nick[n]] \in Alnum THEN Append(kept[n - 1], Lower[nick[n]])
               ELSE kept[n - 1]
    IN  kept[Len(nick)]

ReplacedByTwo == 2  \* (slip) a replacement is a deletion and an insertion
Replacement == 1

\* dp[i] as a sequence, from the one above it: row[j][k + 1] is dp[i][k]
NextRow(a, b, i, above) ==
    LET row[j \in 0..Len(b)] ==
          IF j = 0 THEN <<i>>
          ELSE LET left == row[j - 1]
                   cost == IF a[i] = b[j] THEN 0 ELSE Replacement
               IN  Append(left, Least({above[j + 1] + 1, left[j] + 1, above[j] + cost}))
    IN  row[Len(b)]

\* rows[i][j + 1] is dp[i][j].
levenshtein(a, b) ==
    LET rows[i \in 0..Len(a)] ==
          IF i = 0 THEN [j \in 1..(Len(b) + 1) |-> j - 1]
          ELSE NextRow(a, b, i, rows[i - 1])
    IN  rows[Len(a)][Len(b) + 1]

ThresholdByFirst(a, b) ==  \* (slip) the length of one of the two decides
    CASE Len(a) =< 2 -> 0
      [] Len(a) \in 3..4 -> 1
      [] Len(a) \in 5..6 -> 2
      [] OTHER -> Least({3, (3 * Len(a)) \div 10})

\* The distance two normalised nicknames may have, by the shorter one
Threshold(a, b) ==
    LET minLength == Least({Len(a), Len(b)})
    IN  CASE minLength =< 2 -> 0
          [] minLength \in 3..4 -> 1
          [] minLength \in 5..6 -> 2
          [] OTHER -> Least({3, (3 * minLength) \div 10})

areNicknamesEqual(a, b) ==
    LET m == normalizeNick(a)
        n == normalizeNick(b)
    IN  levenshtein(m, n) =< Threshold(m, n)

-----------------------------------------------------------------------------
(* What the distance is to be: the least number of characters to insert,   *)
(* delete or replace.                                                      *)

\* A word with c put in after its first n characters, without the n-th, or with c
\* in its place
With(s, n, c) == SubSeq(s, 1, n) \o <<c>> \o SubSeq(s, n + 1, Len(s))
Without(s, n) == SubSeq(s, 1, n - 1) \o SubSeq(s, n + 1, Len(s))
Instead(s, n, c) == [s EXCEPT ![n] = c]

Inserted(s) == {With(s, n, c) : n \in 0..Len(s), c \in Alnum}
Deleted(s) == {Without(s, n) : n \in 1..Len(s)}
Replaced(s) == {Instead(s, n, c) : n \in 1..Len(s), c \in Alnum}
Edits(s) == Inserted(s) \cup Deleted(s) \cup Replaced(s)

\* The number of edits between a and b is the only function that is zero where
\* they are equal, changes by at most one with an edit, and can be lowered by an
\* edit wherever it is not zero.
CountsEdits(distance(_, _), a, b) ==
    /\ distance(a, b) = 0 <=> a = b
    /\ \A c \in Edits(a) : distance(c, b) - distance(a, b) \in {-1, 0, 1}
    /\ a # b => \E c \in Edits(a) : distance(c, b) = distance(a, b) - 1
=============================================================================

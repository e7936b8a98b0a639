-------------------------- MODULE MCPlayerQueries --------------------------
(* A small instance of PlayerQueries for TLC. *)
EXTENDS PlayerQueries

CONSTANTS u1, u2, u3, A, B, tank, healer

Letters == {"a", "b"}
Typed == Letters \cup {"A", "-"}
LowerCase == [c \in Typed |-> IF c = "A" THEN "a" ELSE c]

\* Nicknames of every length the thresholds tell apart, and one with letters that
\* normalisation changes and drops; Ab2 passes for Ab
Ab == <<"a", "b">>
Ab2 == <<"A", "-", "b">>
Six == <<"b", "b", "b", "a", "a", "a">>
Ten == <<"a", "a", "a", "b", "b", "b", "b", "b", "b", "b">>
Nicks == {Ab, Ab2, Six, Ten}
Order == <<Six, Ab, Ten, Ab2>>

\* Nothing, no letter at all, a part of some nicknames, and words that are as far
\* from a nickname as one that passes for it may be
Queries == {<<>>, <<"-">>, <<"b", "a">>, <<"b", "a", "b">>,
            <<"b", "b", "b", "b">>,
            <<"b", "b", "b", "a", "b", "b">>,
            <<"b", "b", "b", "b", "b", "b", "b", "b", "b", "b">>}

On(nick, class) == [nick |-> nick, class |-> class]
Lineups == [u \in Upload |->
    CASE u = u1 -> <<On(Ab, tank), On(Six, healer)>>
      [] u = u2 -> <<On(Ab, tank), On(Ab2, healer)>>
      [] u = u3 -> <<On(Ab, tank), On(Ten, tank)>>]
Bouts == [u \in Upload |->
    CASE u = u1 -> [attacker |-> A, defender |-> B, isWinner |-> TRUE]
      [] u = u2 -> [attacker |-> A, defender |-> B, isWinner |-> FALSE]
      [] u = u3 -> [attacker |-> B, defender |-> A, isWinner |-> TRUE]]

Questions ==
    [kind : {"search"}, query : Queries]
    \cup [kind : {"profile"}, nick : {Ab}]
    \cup [kind : {"wins"}, class : {tank, NoClass}, page : {1, 2}]
    \cup [kind : {"company"}, company : {A}]
=============================================================================

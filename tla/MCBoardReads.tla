---------------------------- MODULE MCBoardReads ----------------------------
(* A small instance of BoardReads for TLC. *)
EXTENDS BoardReads

CONSTANTS w1, w2, ana, bo, tank, healer

Did(w, n, player, class, win) ==
    [war |-> w, entry |-> n, player |-> player, class |-> class, win |-> win]

\* One player with two classes, another with one; the second war changes their
\* order.
Lineups ==
    [w \in War |->
        CASE w = w1 -> {Did(w1, 1, ana, tank, TRUE), Did(w1, 2, ana, healer, FALSE)}
          [] w = w2 -> {Did(w2, 1, ana, tank, FALSE), Did(w2, 2, bo, tank, TRUE)}]

At(player, class) == [player |-> player, class |-> class]
Order == <<At(bo, healer), At(ana, tank), At(NoPlayer, tank), At(bo, tank),
           At(ana, healer), At(NoPlayer, healer)>>

Requests ==
    [kind : {"walk"}, board : Board, least : BOOLEAN, limit : {2}]
    \cup [kind : {"winrate"}, board : Board, least : {FALSE}, limit : {2},
          page : {1, 2}, minGames : {2}]
    \cup [kind : {"trending"}, board : Board, least : {FALSE}, limit : {1, 2}]
    \cup [kind : {"best"}, board : Board, least : {FALSE}, limit : {2}]
=============================================================================

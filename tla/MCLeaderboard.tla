--------------------------- MODULE MCLeaderboard ---------------------------
(* Small instances of Leaderboard for TLC. *)
EXTENDS Leaderboard

CONSTANTS n1, w1, w2, w3, ana, bo, tank, healer

Did(w, n, player, class, win) ==
    [war |-> w, entry |-> n, player |-> player, class |-> class, win |-> win]

\* The wars share a player in a class; the first brings more keys than a batch
\* holds, the second brings one key twice.
Lineups ==
    [w \in War |->
        CASE w = w1 -> {Did(w1, 1, ana, tank, TRUE), Did(w1, 2, bo, tank, TRUE),
                         Did(w1, 3, ana, healer, TRUE)}
          [] w = w2 -> {Did(w2, 1, ana, tank, FALSE), Did(w2, 2, ana, tank, FALSE)}
          [] w = w3 -> {Did(w3, 1, ana, healer, TRUE), Did(w3, 2, ana, tank, TRUE)}]
=============================================================================

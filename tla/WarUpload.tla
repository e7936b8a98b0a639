----------------------------- MODULE WarUpload -----------------------------
(***************************************************************************)
(* WarService.uploadWar and all it calls, one action per awaited statement:*)
(* the checks on the request, resolvePerformances with upsertPlayers, the  *)
(* interactive transaction that stores war, side and performances, the     *)
(* tallies the playerPerformance extension writes on its own connection    *)
(* while that transaction is open, and updateRedisLeaderboards, which      *)
(* resolves the performances a second time after the commit.               *)
(***************************************************************************)
EXTENDS WarState

At(u, label) == u \in Uploads /\ pc[u] = label

-----------------------------------------------------------------------------
(* uploadWar: the checks before anything is written. *)

Involves(r, w) == r.company = w.attacker \/ r.company = w.defender

\* (slip) the role of the other company is not checked
OpponentRoleUnchecked(r, w) == FALSE
OpponentRole(r, w) ==
    \/ r.type = "Attacker" /\ r.company = w.defender
    \/ r.type = "Defender" /\ r.company = w.attacker

\* Why an existing war w rejects request r before its sides are looked at
Rejects(w, r) == ~Involves(r, w) \/ OpponentRole(r, w)

\* The call arrives and looks for a war in its slot; findFirst returns any one.
FindWar(u) ==
    /\ At(u, "idle")
    /\ LET found == {w \in wars : w.slot = req[u].slot}
       IN  \/ req[u].company = req[u].opponent /\ Fail(u)
           \/ /\ req[u].company # req[u].opponent /\ Connection
              /\ \/ (\E w \in found : Rejects(w, req[u])) /\ Fail(u)
                 \/ /\ found = {}
                    /\ Goto(u, "players")
                    /\ UNCHANGED <<tables, req, up, rb, open, jobs>>
                 \/ /\ \E w \in found : /\ ~Rejects(w, req[u])
                                        /\ up' = [up EXCEPT ![u].war = w.id]
                    /\ Goto(u, "sides")
                    /\ UNCHANGED <<tables, req, rb, open, jobs>>

SideExists(u) == \E s \in sides : /\ s.war = up[u].war
                                  /\ s.company = req[u].company
                                  /\ s.type = req[u].type

FindSides(u) ==
    /\ At(u, "sides") /\ Connection
    /\ IF SideExists(u)
       THEN Fail(u)
       ELSE Goto(u, "players") /\ UNCHANGED <<tables, req, up, rb, open, jobs>>

-----------------------------------------------------------------------------
(* resolvePerformances and upsertPlayers; runs before the transaction      *)
(* (pass 1) and again after it (pass 2), each statement on its own.        *)

Named(u) == {req[u].stats[n].nick : n \in DOMAIN req[u].stats}
Missing(names, known) ==
    {m \in names : ~\E p \in known : <<p.nick, m>> \in Alike}

\* A body without statistics is refused; one whose statistics list nobody is not.
ReadPlayers(u) ==
    /\ At(u, "players")
    /\ \/ req[u].stats = <<>> /\ Fail(u)
       \/ /\ Connection
          /\ LET missing == Missing(Named(u), players)
             IN  /\ up' = [up EXCEPT ![u].missing = missing]
                 /\ Goto(u, IF missing = {} THEN "fetch" ELSE "create")
          /\ UNCHANGED <<tables, req, rb, open, jobs>>

\* player.createMany with skipDuplicates: nickname is unique.
CreatePlayers(u) ==
    /\ At(u, "create") /\ Connection
    /\ players' = players \cup
          {[nick |-> m, by |-> u, pass |-> up[u].pass] :
              m \in {m \in up[u].missing : ~\E p \in players : p.nick = m}}
    /\ up' = [up EXCEPT ![u].missing = {}]
    /\ Goto(u, "fetch")
    /\ UNCHANGED <<wars, sides, perfs, classes, profile, games,
                   req, rb, open, jobs>>

\* player.findMany by the exact nicknames, alike ones are not returned.
FetchPlayers(u) ==
    /\ At(u, "fetch") /\ Connection
    /\ up' = [up EXCEPT ![u].fetched = {p \in players : p.nick \in Named(u)}]
    /\ Goto(u, "profiles")
    /\ UNCHANGED <<tables, req, rb, open, jobs>>

\* A profile row that an open rollback has deleted: its next writer waits.
Locked(p) == \E r \in Rollbacks : open[r] /\ p \in rb[r].locked

\* (slip) entries are paired with the fetched players in any way
MatchesAnyone(fetched, stats) == [DOMAIN stats -> fetched]

\* Every entry takes the first fetched player with an alike nickname, in the
\* unspecified order of findMany.
Matches(fetched, stats) ==
    {match \in [DOMAIN stats -> fetched] :
        \E rank \in Bijection(fetched, 1..Cardinality(fetched)) :
            \A n \in DOMAIN stats :
                /\ <<match[n].nick, stats[n].nick>> \in Alike
                /\ \A p \in fetched : <<p.nick, stats[n].nick>> \in Alike
                                         => rank[match[n]] =< rank[p]}
Resolutions(u) ==
    LET stats == req[u].stats
    IN  {[n \in DOMAIN stats |-> [player |-> match[n], class |-> stats[n].class]] :
            match \in Matches(up[u].fetched, stats)}

\* playerProfile.createMany with skipDuplicates; the foreign key refuses a
\* player that is gone. Then the entries are resolved, and pass 2 queues the
\* update of the Redis leaderboards.
CreateProfiles(u) ==
    /\ At(u, "profiles") /\ Connection
    /\ \A p \in up[u].fetched : ~Locked(p)
    /\ \/ ~(up[u].fetched \subseteq players) /\ Fail(u)
       \/ /\ up[u].fetched \subseteq players
          /\ profile' = [p \in PlayerId |->
                IF p \in up[u].fetched /\ profile[p] = NoProfile
                THEN NoClass ELSE profile[p]]
          /\ UNCHANGED <<wars, sides, perfs, players, classes, games, req, rb>>
          /\ \/ /\ Resolutions(u) = {}  \* Unresolved player
                /\ Goto(u, "failed")
                /\ UNCHANGED <<up, open, jobs>>
             \/ /\ up[u].pass = 1
                /\ \E res \in Resolutions(u) :
                      up' = [up EXCEPT ![u].resolved = res, ![u].fetched = {}]
                /\ Goto(u, "begin")
                /\ UNCHANGED <<open, jobs>>
             \/ /\ up[u].pass = 2
                /\ \E res \in Resolutions(u) :
                      jobs' = Append(jobs, [by |-> u, rows |-> Range(res)])
                /\ up' = [up EXCEPT ![u].fetched = {}]
                /\ Goto(u, "done")
                /\ UNCHANGED open

-----------------------------------------------------------------------------
(* createWarWithAttachedSide and attachSideToWar: the transaction.         *)

InTx == {"side", "rows", "classes", "counts", "top", "main", "commit"}

\* BEGIN takes a connection and keeps it, while the call waits too.
BeginTx(u) ==
    /\ At(u, "begin") /\ Connection
    /\ open' = [open EXCEPT ![u] = TRUE]
    /\ Goto(u, "side")
    /\ UNCHANGED <<tables, req, up, rb, jobs>>

\* Another open transaction has inserted the same (war, type): wait for it.
SideContended(u) ==
    \E v \in Uploads \ {u} : /\ open[v] /\ pc[v] # "side"
                             /\ up[v].war = up[u].war /\ req[v].type = req[u].type

\* The unique (warId, type) or the foreign key of warId refuses the side.
AttachRefusedByRole(u) ==  \* (slip) no foreign key on warId
    \E s \in sides : s.war = up[u].war /\ s.type = req[u].type
AttachRefused(u) ==
    \/ ~\E w \in wars : w.id = up[u].war
    \/ \E s \in sides : s.war = up[u].war /\ s.type = req[u].type
SideRefused(u) ==
    IF up[u].war = NoWar THEN ~({req[u].company, req[u].opponent} \subseteq Company)
    ELSE AttachRefused(u)

\* war.create and warSide.create, or warSide.create alone.
InsertSide(u) ==
    /\ At(u, "side")
    /\ open[u] /\ up[u].war # NoWar => ~SideContended(u)
    /\ IF open[u] /\ ~SideRefused(u)
       THEN Goto(u, "rows") /\ UNCHANGED <<tables, req, up, rb, open, jobs>>
       ELSE Fail(u)

\* playerPerformance.createMany; its foreign key keeps the players alive
\* until the transaction ends.
InsertPerformances(u) ==
    /\ At(u, "rows")
    /\ IF open[u] /\ Resolved(u) \subseteq players
       THEN /\ up' = [up EXCEPT ![u].todo = Resolved(u)]
            /\ Goto(u, "classes")
            /\ UNCHANGED <<tables, req, rb, open, jobs>>
       ELSE Fail(u)

-----------------------------------------------------------------------------
(* The createMany hook of the playerPerformance extension. Its statements  *)
(* go to the base client: each commits by itself, whatever becomes of the  *)
(* transaction around it, and needs a connection of its own.               *)

\* The players in the order in which the entries first name them
NextPlayer(u) ==
    LET by(n) == up[u].resolved[n].player
    IN  CHOOSE p \in up[u].todo :
          \E n \in DOMAIN up[u].resolved :
             by(n) = p /\ \A i \in 1..(n - 1) : by(i) \notin up[u].todo

\* One UPDATE per player; a player that is gone has no row to update.
AppendClasses(u) ==
    /\ At(u, "classes")
    /\ \/ /\ up[u].todo = {}
          /\ Goto(u, "counts")
          /\ UNCHANGED <<tables, req, up, rb, open, jobs>>
       \/ /\ up[u].todo # {} /\ Connection
          /\ LET p == NextPlayer(u)
             IN  /\ classes' = classes \cup {k \in Range(up[u].resolved) :
                                               k.player = p /\ p \in players}
                 /\ up' = [up EXCEPT ![u].todo = @ \ {p}]
          /\ UNCHANGED <<wars, sides, perfs, players, profile, games,
                         req, pc, rb, open, jobs>>

\* (slips) every class of a request once; the player's games whatever the
\* class; decrement for increment
IncrementOnce(u, k) == IF k \in Range(up[u].resolved) THEN 1 ELSE 0
IncrementAnyClass(u, k) ==
    Cardinality({n \in DOMAIN up[u].resolved : up[u].resolved[n].player = k.player})
IncrementDown(u, k) ==
    0 - Cardinality({n \in DOMAIN up[u].resolved : up[u].resolved[n] = k})

\* counts[playerId::playerClass]
Increment(u, k) ==
    Cardinality({n \in DOMAIN up[u].resolved : up[u].resolved[n] = k})

\* One transaction of upserts; PlayerClassCount has no foreign key.
CountGames(u) ==
    /\ At(u, "counts") /\ Connection
    /\ games' = [k \in PlayerClass |-> games[k] + Increment(u, k)]
    /\ up' = [up EXCEPT ![u].todo = Resolved(u)]
    /\ Goto(u, "top")
    /\ UNCHANGED <<wars, sides, perfs, players, classes, profile,
                   req, rb, open, jobs>>

Games(p, c) == games[[player |-> p, class |-> c]]
\* (slip) findFirst without the player in its where
IsTopOfAnyone(p, c) ==
    \E q \in PlayerId : Games(q, c) > 0 /\ \A d \in Class : Games(q, d) =< Games(q, c)
IsTop(p, c) == Games(p, c) > 0 /\ \A d \in Class : Games(p, d) =< Games(p, c)

\* The class the next player has most games in, any one of them on a tie; a
\* player whose counts are gone is skipped.
ReadTop(u) ==
    /\ At(u, "top")
    /\ \/ /\ up[u].todo = {}
          /\ Goto(u, "commit")
          /\ UNCHANGED <<tables, req, up, rb, open, jobs>>
       \/ /\ up[u].todo # {} /\ Connection
          /\ LET p == NextPlayer(u) IN
             \/ /\ \E c \in Class : IsTop(p, c) /\ up' = [up EXCEPT ![u].top = c]
                /\ Goto(u, "main")
             \/ /\ ~\E c \in Class : IsTop(p, c)
                /\ up' = [up EXCEPT ![u].todo = @ \ {p}]
                /\ UNCHANGED pc
          /\ UNCHANGED <<tables, req, rb, open, jobs>>

SetMain(u) ==
    /\ At(u, "main") /\ Connection
    /\ LET p == NextPlayer(u) IN
       /\ ~Locked(p)
       /\ \/ profile[p] = NoProfile /\ Fail(u)  \* P2025
          \/ /\ profile[p] # NoProfile
             /\ profile' = [profile EXCEPT ![p] = up[u].top]
             /\ up' = [up EXCEPT ![u].todo = @ \ {p}, ![u].top = NoClass]
             /\ Goto(u, "top")
             /\ UNCHANGED <<wars, sides, perfs, players, classes, games,
                            req, rb, open, jobs>>

-----------------------------------------------------------------------------
(* The end of the transaction. *)

\* winnerType ignores which side uploads.
Winner(r) == IF r.isWinner THEN "Attacker" ELSE "Defender"

NewWar(u) == [id |-> u, slot |-> req[u].slot, winner |-> Winner(req[u]),
              attacker |-> IF req[u].type = "Attacker"
                           THEN req[u].company ELSE req[u].opponent,
              defender |-> IF req[u].type = "Attacker"
                           THEN req[u].opponent ELSE req[u].company]
NewSide(u) == [id |-> u, war |-> WarOf(u), type |-> req[u].type,
               company |-> req[u].company]

\* The rows of the transaction become visible; pass 2 starts.
Commit(u) ==
    /\ At(u, "commit")
    /\ IF open[u]
       THEN /\ wars' = wars \cup (IF up[u].war = NoWar THEN {NewWar(u)} ELSE {})
            /\ sides' = sides \cup {NewSide(u)}
            /\ perfs' = [perfs EXCEPT ![u] = up[u].resolved]
            /\ open' = [open EXCEPT ![u] = FALSE]
            /\ up' = [up EXCEPT ![u] = [NoLocals EXCEPT !.pass = 2]]
            /\ Goto(u, "players")
            /\ UNCHANGED <<players, classes, profile, games, req, rb, jobs>>
       ELSE Fail(u)

UploadStep(u) ==
    \/ FindWar(u) \/ FindSides(u)
    \/ ReadPlayers(u) \/ CreatePlayers(u) \/ FetchPlayers(u) \/ CreateProfiles(u)
    \/ BeginTx(u) \/ InsertSide(u) \/ InsertPerformances(u)
    \/ AppendClasses(u) \/ CountGames(u) \/ ReadTop(u) \/ SetMain(u)
    \/ Commit(u)
=============================================================================

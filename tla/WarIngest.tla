----------------------------- MODULE WarIngest -----------------------------
(***************************************************************************)
(* Uploads and rollbacks of wars running concurrently against the          *)
(* database, any of them failing at any await.                             *)
(***************************************************************************)
EXTENDS WarUpload, WarRollback

\* A statement of a running call throws (connection lost, no connection in
\* time, deadlock victim), or the server process dies under it.
Interrupt(x) ==
    /\ pc[x] \notin Ended \cup {"idle"}
    /\ Fail(x)

\* (slip) the uploads' transactions are given no timeout
TxTimeoutOfRollbacks(x) ==
    /\ open[x] /\ x \in Rollbacks
    /\ open' = [open EXCEPT ![x] = FALSE]
    /\ UNCHANGED <<tables, req, pc, up, rb, jobs>>

\* Prisma closes an interactive transaction that has run for five seconds;
\* the call notices at its next statement inside it.
TxTimeout(x) ==
    /\ open[x]
    /\ open' = [open EXCEPT ![x] = FALSE]
    /\ UNCHANGED <<tables, req, pc, up, rb, jobs>>

AllEnded ==
    /\ \A x \in Calls : pc[x] \in Ended
    /\ UNCHANGED vars

Next ==
    \/ \E u \in Uploads : UploadStep(u)
    \/ \E r \in Rollbacks : RollbackStep(r)
    \/ \E x \in Calls : Interrupt(x) \/ TxTimeout(x)
    \/ AllEnded

Spec == Init /\ [][Next]_vars

\* A call that has arrived is run on, and the timer of its transaction fires;
\* nothing obliges a call to arrive or a statement to throw.
Fairness ==
    /\ \A u \in Uploads : WF_vars(pc[u] # "idle" /\ UploadStep(u))
    /\ \A r \in Rollbacks : WF_vars(pc[r] # "idle" /\ RollbackStep(r))
    /\ \A x \in Calls : WF_vars(TxTimeout(x))

FairSpec == Spec /\ Fairness

-----------------------------------------------------------------------------
(* Safety. *)

Committed(u) == \E s \in sides : s.id = u

\* The companies of a war are registered and differ, a side belongs to a
\* stored war and is played by the company that has its role there, and no
\* role of a war is played twice. The checks of uploadWar were made on a war
\* read several awaits earlier, by calls that race.
Plays(r, w) == r.company = IF r.type = "Attacker" THEN w.attacker ELSE w.defender
SidesMatchWar ==
    /\ \A w \in wars : {w.attacker, w.defender} \subseteq Company
                       /\ w.attacker # w.defender
    /\ \A s \in sides : \E w \in wars : w.id = s.war /\ Plays(s, w)
    /\ \A s, t \in sides : s.war = t.war /\ s.type = t.type => s = t

\* An upload leaves a side with all its performances or nothing, a war is
\* never left without a side, and an upload that failed before its commit
\* leaves no row of the three.
AllOrNothing ==
    /\ \A u \in Uploads :
          Len(perfs[u]) = IF Committed(u) THEN Len(req[u].stats) ELSE 0
    /\ \A w \in wars : \E s \in sides : s.war = w.id
    /\ \A u \in Uploads : pc[u] = "failed" /\ up[u].pass = 1 => ~Committed(u)

\* A performance that names a player names one that exists, has a profile and
\* a nickname alike to the one the request reported, in spite of rollbacks
\* deleting players between the awaits of an upload.
PerformancesAttributed ==
    \A u \in Uploads : \A n \in DOMAIN perfs[u] :
        LET p == perfs[u][n].player
        IN  p # NoPlayer => /\ p \in players /\ profile[p] # NoProfile
                            /\ <<p.nick, req[u].stats[n].nick>> \in Alike

\* gamesCount is written outside the transaction of the rows it counts: it
\* may run ahead of them, never behind, and the class is in Player.classes.
CountsCoverPerformances ==
    \A k \in PlayerClass : k.player \in players =>
        /\ Cardinality(Played(k)) =< games[k]
        /\ Played(k) # {} => k \in classes

\* As long as no upload has failed and no rollback has got past its deletes, the
\* counts are exact whenever no upload is running.
CountsExactWithoutFailure ==
    /\ \A u \in Uploads : pc[u] \in {"idle", "done"}
    /\ \A r \in Rollbacks : pc[r] \notin {"queue"} \cup Ended
    => \A k \in PlayerClass : k.player \in players =>
            games[k] = Cardinality(Played(k))

\* A main class is one the player has been counted in: the profile written
\* from a count read earlier never outlives the counts.
MainClassEarned ==
    \A p \in PlayerId : profile[p] \in Class => Games(p, profile[p]) > 0

\* What a finished rollback deleted stays deleted, whatever a concurrent
\* upload had read of the war before.
RollbackIsFinal ==
    \A r \in Rollbacks : pc[r] \in {"queue", "done"} =>
        /\ ~\E w \in wars : w.id = rb[r].war
        /\ ~\E s \in sides : s.war = rb[r].war

\* Every call that arrives ends, although an upload can wait for a row a
\* rollback has deleted while the rollback waits for the upload, and although
\* open transactions can hold every connection the others need.
EveryCallEnds ==
    \A x \in Calls : pc[x] # "idle" ~> pc[x] \in Ended

-----------------------------------------------------------------------------
(* The inductive invariant behind SidesMatchWar and RollbackIsFinal.       *)

\* Where a call stands bounds what it holds.
Phase(u) ==
    /\ open[u] => pc[u] \in InTx
    /\ pc[u] \in InTx \cup {"begin"} => up[u].pass = 1
    /\ pc[u] \notin {"idle", "failed"} => req[u].company # req[u].opponent
PhasesInv == \A u \in Uploads : Phase(u)

\* A war is stored by the commit of the upload that names it, once.
WarsInv ==
    /\ \A w \in wars : up[w.id].pass = 2
    /\ \A v, w \in wars : v.id = w.id => v = w

\* A war that an upload attaches to, or a rollback deletes, was stored once,
\* and if it is still there the upload plays its role in it.
TargetsInv ==
    /\ \A u \in Uploads : up[u].war # NoWar =>
          /\ up[up[u].war].pass = 2
          /\ \A w \in wars : w.id = up[u].war => Plays(req[u], w)
    /\ \A r \in Rollbacks : rb[r].war # NoWar => up[rb[r].war].pass = 2

\* What the locks of an open transaction keep true from its first insert until it
\* ends
Stored(u) == open[u] /\ pc[u] # "side"
LocksInv ==
    /\ \A u \in Uploads : Stored(u) /\ up[u].war = NoWar =>
          {req[u].company, req[u].opponent} \subseteq Company
    /\ \A u \in Uploads : Stored(u) /\ up[u].war # NoWar =>
          /\ \E w \in wars : w.id = up[u].war
          /\ ~\E s \in sides : s.war = up[u].war /\ s.type = req[u].type
    /\ \A u, v \in Uploads :
          /\ Stored(u) /\ Stored(v) /\ up[u].war = up[v].war /\ up[u].war # NoWar
          /\ req[u].type = req[v].type
          => u = v

LedgerInv == /\ TypeOK /\ PhasesInv /\ WarsInv /\ TargetsInv /\ LocksInv
             /\ SidesMatchWar /\ RollbackIsFinal

-----------------------------------------------------------------------------
(* The inductive invariant behind AllOrNothing, PerformancesAttributed,    *)
(* CountsCoverPerformances, CountsExactWithoutFailure and MainClassEarned. *)

\* The only statement that stores p has been awaited: p can be gone, not come back.
Early == {"idle", "sides", "players", "create"}
Born(p) == \/ up[p.by].pass > p.pass
           \/ up[p.by].pass = p.pass /\ pc[p.by] \notin Early
BornInv ==
    /\ \A p \in players : Born(p)
    /\ \A p \in PlayerId : profile[p] # NoProfile => p \in players
    /\ \A k \in PlayerClass : games[k] > 0 => Born(k.player)

\* An upload carries what its request reports, for players that were there with a
\* profile; its transaction holds them once it has written a row of them.
Carries(u) ==
    /\ Len(up[u].resolved) = Len(req[u].stats)
    /\ \A n \in DOMAIN up[u].resolved :
          <<up[u].resolved[n].player.nick, req[u].stats[n].nick>> \in Alike
    /\ \A p \in Resolved(u) : Born(p) /\ (p \in players => profile[p] # NoProfile)
ResolvedInv ==
    \A u \in Uploads :
        /\ pc[u] \in InTx \cup {"begin"} => Carries(u)
        /\ open[u] /\ pc[u] \notin {"side", "rows"} => Resolved(u) \subseteq players

SidesInv == /\ \A s \in sides : up[s.id].pass = 2
            /\ \A s, t \in sides : s.id = t.id => s = t

\* The class about to become the main class has been counted, or the player
\* has gone since.
TopInv ==
    \A u \in Uploads : pc[u] = "main" =>
        LET p == NextPlayer(u)
        IN  p \in PlayerId => \/ up[u].top \in Class /\ Games(p, up[u].top) > 0
                              \/ Born(p) /\ p \notin players

\* The rows of a player and class: committed, or counted by an upload among
\* "us" that has yet to commit them
RowsOf(k, us) ==
    Played(k) \cup {i \in UNION {{u} \X DOMAIN up[u].resolved : u \in us} :
                       up[i[1]].resolved[i[2]] = k}
Counting == {u \in Uploads : pc[u] \in {"top", "main", "commit"}}
Committing == {u \in Counting : open[u]}

\* An open transaction past its rows has appended its classes, or is about to.
Appended(u) ==
    open[u] /\ pc[u] \notin {"side", "rows"} =>
        \A k \in Range(up[u].resolved) :
            k \in classes \/ (pc[u] = "classes" /\ k.player \in up[u].todo)

CoverInv ==
    /\ \A k \in PlayerClass : /\ IsFiniteSet(RowsOf(k, Committing))
                              /\ Cardinality(RowsOf(k, Committing)) =< games[k]
                              /\ Played(k) # {} => k \in classes
    /\ \A u \in Uploads : Appended(u)

Undisturbed == /\ \A u \in Uploads : pc[u] # "failed"
               /\ \A r \in Rollbacks : pc[r] \notin {"queue"} \cup Ended
ExactInv ==
    Undisturbed => \A k \in PlayerClass : /\ IsFiniteSet(RowsOf(k, Counting))
                                          /\ games[k] = Cardinality(RowsOf(k, Counting))

TablesInv == /\ LedgerInv /\ BornInv /\ ResolvedInv /\ SidesInv /\ TopInv
             /\ AllOrNothing /\ PerformancesAttributed
             /\ CoverInv /\ ExactInv /\ MainClassEarned

-----------------------------------------------------------------------------
(* The endpoints implement the ledger of WarLedger.                        *)

\* A call writes with its commit; until it has ended its job is to be queued.
Entered == {u \in Uploads : up[u].pass = 2}
Due == {u \in Entered : pc[u] \notin Ended} \cup {r \in Rollbacks : pc[r] = "queue"}

Ledger == INSTANCE WarLedger WITH
    entered <- Entered,
    due <- Due,
    jobs <- [n \in DOMAIN jobs |-> jobs[n].by]

\* Whatever the awaits of uploads and rollbacks let in between, the tables
\* change as if each call wrote in one step, against the wars as they are then,
\* and a background job is queued only for what has been written, once.
ImplementsLedger == Ledger!Spec

-----------------------------------------------------------------------------
(* What the repository says of this code and it does not do. *)

\* "A war for this time and territory already exists" (war.service.ts)
OneWarPerSlot == \A v, w \in wars : v.slot = w.slot => v = w

\* A rollback deletes "any dynamically created PlayerProfile and Player for
\* this war" and "all PlayerPerformance for both sides" (war.repository.ts):
\* the rows of another war stay as they are.
RollbackSparesOtherWars ==
    [][\A u \in Uploads : Committed(u) /\ Committed(u)' => perfs'[u] = perfs[u]]_vars

=============================================================================

---------------------------- MODULE WarRollback ----------------------------
(***************************************************************************)
(* WarService.rollbackWar: two reads outside any transaction, then one     *)
(* interactive transaction that deletes the war and the players who fought *)
(* it. The transaction is two steps: the delete of the profiles, which     *)
(* locks their rows, and all later deletes with the commit. Those need     *)
(* locks as well, but whoever would wait for them fails on a foreign key   *)
(* once they commit, and goes ahead if they do not, so the order in which  *)
(* they and the commit come makes no difference to another call.           *)
(***************************************************************************)
EXTENDS WarState

FindTarget(r) ==
    /\ pc[r] = "idle" /\ Connection
    /\ \E w \in Uploads :
         \/ ~(\E row \in wars : row.id = w) /\ Fail(r)
         \/ /\ \E row \in wars : row.id = w
            /\ rb' = [rb EXCEPT ![r].war = w]
            /\ Goto(r, "affected")
            /\ UNCHANGED <<tables, req, up, open, jobs>>

SidesOf(w) == {s.id : s \in {s \in sides : s.war = w}}
\* The performances of the war that still name their player
Fought(w) == {k \in UNION {Range(perfs[s]) : s \in SidesOf(w)} :
                 k.player # NoPlayer}

\* getPlayersAffectedByWar
ReadAffected(r) ==
    /\ pc[r] = "affected" /\ Connection
    /\ rb' = [rb EXCEPT ![r].affected = Fought(rb[r].war)]
    /\ Goto(r, "gather")
    /\ UNCHANGED <<tables, req, up, open, jobs>>

GatherPlayers(r) ==
    /\ pc[r] = "gather" /\ Connection
    /\ rb' = [rb EXCEPT ![r].victims = {k.player : k \in Fought(rb[r].war)}]
    /\ open' = [open EXCEPT ![r] = TRUE]
    /\ Goto(r, "lock")
    /\ UNCHANGED <<tables, req, up, jobs>>

\* playerProfile.deleteMany; a row another rollback has deleted is waited for.
DeleteProfiles(r) ==
    /\ pc[r] = "lock"
    /\ IF open[r]
       THEN /\ \A q \in Rollbacks \ {r} :
                  open[q] => rb[q].locked \cap rb[r].victims = {}
            /\ rb' = [rb EXCEPT ![r].locked =
                  {p \in rb[r].victims : profile[p] # NoProfile}]
            /\ Goto(r, "delete")
            /\ UNCHANGED <<tables, req, up, open, jobs>>
       ELSE Fail(r)

\* An open upload transaction references the war, or a player it has written
\* a performance of: the delete of that row waits for it.
HeldByUpload(r) ==
    \E u \in Uploads :
        /\ open[u]
        /\ \/ pc[u] # "side" /\ up[u].war = rb[r].war
           \/ pc[u] \notin {"side", "rows"} /\ Resolved(u) \cap rb[r].victims # {}

\* (slip) a war that is gone is no error
RefusedByProfile(r) == \E p \in rb[r].victims \ rb[r].locked : profile[p] # NoProfile
\* A foreign key refuses the delete of a player whose profile came back, and
\* war.delete refuses a war that is gone.
Refused(r) == \/ ~\E w \in wars : w.id = rb[r].war
              \/ \E p \in rb[r].victims \ rb[r].locked : profile[p] # NoProfile

\* (slips) the performances of the war are anonymised only; those of other
\* wars keep the deleted player
PerfsLeftBehind(w, gone) ==
    [s \in Uploads |-> [n \in DOMAIN perfs[s] |->
        [perfs[s][n] EXCEPT !.player = IF @ \in gone THEN NoPlayer ELSE @]]]
PerfsOfTheDeleted(w, gone) ==
    [s \in Uploads |-> IF s \in SidesOf(w) THEN <<>> ELSE perfs[s]]

\* Rows of PlayerPerformance once the war and the players in gone are deleted:
\* the playerId of a row of another war is set to null.
PerfsWithout(w, gone) ==
    [s \in Uploads |->
        IF s \in SidesOf(w) THEN <<>>
        ELSE [n \in DOMAIN perfs[s] |->
                [perfs[s][n] EXCEPT !.player = IF @ \in gone THEN NoPlayer ELSE @]]]

DeleteWar(r) ==
    LET w == rb[r].war
        gone == rb[r].victims
    IN  /\ wars' = {row \in wars : row.id # w}
        /\ sides' = {s \in sides : s.war # w}
        /\ perfs' = PerfsWithout(w, gone)
        /\ players' = players \ gone
        /\ classes' = {k \in classes : k.player \notin gone}
        /\ profile' = [p \in PlayerId |->
                          IF p \in gone THEN NoProfile ELSE profile[p]]
        /\ games' = [k \in PlayerClass |->
                          IF k.player \in gone THEN 0 ELSE games[k]]

CommitRollback(r) ==
    /\ pc[r] = "delete"
    /\ \/ (open[r] => ~HeldByUpload(r) /\ Refused(r)) /\ Fail(r)
       \/ /\ open[r] /\ ~HeldByUpload(r) /\ ~Refused(r)
          /\ DeleteWar(r)
          /\ rb' = [rb EXCEPT ![r].victims = {}, ![r].locked = {}]
          /\ open' = [open EXCEPT ![r] = FALSE]
          /\ Goto(r, "queue")
          /\ UNCHANGED <<req, up, jobs>>

\* The reset of the players' Redis data, read before the transaction
QueueReset(r) ==
    /\ pc[r] = "queue"
    /\ jobs' = IF rb[r].affected = {} THEN jobs
               ELSE Append(jobs, [by |-> r, rows |-> rb[r].affected])
    /\ Goto(r, "done")
    /\ UNCHANGED <<tables, req, up, rb, open>>

RollbackStep(r) ==
    \/ FindTarget(r) \/ ReadAffected(r) \/ GatherPlayers(r)
    \/ DeleteProfiles(r) \/ CommitRollback(r) \/ QueueReset(r)
=============================================================================

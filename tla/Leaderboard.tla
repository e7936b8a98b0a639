---------------------------- MODULE Leaderboard ----------------------------
(***************************************************************************)
(* LeaderboardService: the figures of every player and class kept in Redis *)
(* hashes and shown on six sorted sets. Uploads, rollbacks, rebuilds and   *)
(* the recovery at start-up run concurrently in one process and share one  *)
(* Redis connection, which executes commands in the order they are sent.   *)
(*                                                                         *)
(* One step serves the next command and runs the code that awaits it up to *)
(* the commands that code sends; answers come back in the same order, so   *)
(* an answer that is handled later changes no command's place in the line. *)
(*                                                                         *)
(* The wars are those of the database, seen as a whole: an upload stores   *)
(* one in a single step and resolves its performances again in another; a  *)
(* rollback reads the players of one, deletes it in a single step and      *)
(* queues their reset.                                                     *)
(***************************************************************************)
EXTENDS Integers, Sequences, FiniteSets, Functions

CONSTANTS
    Player, Class, War,
    NoPlayer,     \* playerId of a performance whose player is deleted
    Lineup,       \* the performances each war brings
    Retracted,    \* the wars whose rollback may be requested
    Rebuilds,     \* calls of POST /statistics/redis/reset
    Boot,         \* checkAndRecoverData
    Boards,       \* number of sorted sets
    BatchSize,
    RedisKept,    \* may Redis keep (TRUE) or lose (FALSE) its data in a restart?
    MaxCrashes,   \* bound on the restarts
    MaxLosses     \* bound on the commands that throw

Key == [player : Player \cup {NoPlayer}, class : Class]
Row == [war : War, entry : Nat, player : Player \cup {NoPlayer}, class : Class,
        win : BOOLEAN]
Job == War \cup Rebuilds \cup {Boot}
Board == 1..Boards

ASSUME LineupAssumption ==
    /\ Lineup \in [War -> SUBSET Row]
    /\ \A w \in War : IsFiniteSet(Lineup[w])
    /\ \A w \in War : \A r \in Lineup[w] : r.war = w /\ r.player \in Player
ASSUME JobsAssumption ==
    Boot \notin War \cup Rebuilds /\ War \cap Rebuilds = {}
ASSUME FiniteAssumption ==
    IsFiniteSet(War) /\ Retracted \subseteq War /\ NoPlayer \notin Player
ASSUME BoundsAssumption ==
    /\ Boards \in Nat \ {0} /\ BatchSize \in Nat \ {0}
    /\ MaxCrashes \in Nat /\ MaxLosses \in Nat /\ RedisKept \subseteq BOOLEAN

VARIABLES
    war,      \* has the database never seen, stored or rolled back each war?
    stats,    \* the hash of a key: gamesPlayed and wins
    board,    \* the figures each sorted set shows of a key
    sent,     \* commands sent to Redis and not executed
    turns,    \* callbacks of setImmediate
    batch,    \* processPerformancesInBatches of every job
    undo,     \* rollbackWar of each war: what it awaits, the keys it has read
    reset,    \* what resetPlayerData of a war has still to remove
    call,     \* where each upload, each rebuild and the start-up are
    crashes, losses

redis == <<stats, board>>
vars == <<war, stats, board, sent, turns, batch, undo, reset, call, crashes, losses>>

\* Sums stand for one another: totalScore, totalKills and the rest are kept as
\* wins is. A hash or member that is not there is NoTally.
Tally == [games : Nat, wins : Nat]
NoTally == [games |-> 0, wins |-> 0]
Idle == [rows |-> {}, todo |-> {}, active |-> {}]

KeyOf(r) == [player |-> r.player, class |-> r.class]
KeysOf(rows) == {KeyOf(r) : r \in rows}

\* Performances aggregated by player and class
Aggregate(rows, k) ==
    [games |-> Cardinality({r \in rows : KeyOf(r) = k}),
     wins |-> Cardinality({r \in rows : KeyOf(r) = k /\ r.win})]

\* A rollback deletes the players of its war; what they did in others is kept
\* without their name.
PlayersOf(w) == {r.player : r \in Lineup[w]}
Gone == UNION {PlayersOf(w) : w \in {w \in War : war[w] = "rolledback"}}
RowsOf(w) == {[r EXCEPT !.player = IF @ \in Gone THEN NoPlayer ELSE @] : r \in Lineup[w]}
Rows == UNION {RowsOf(w) : w \in {w \in War : war[w] = "stored"}}

\* Commands; "incr" stands for the MULTI of six increments, "publish" for the
\* HSET of the averages and the ZADDs, "drop" for the DELs of the sorted sets,
\* "del" for those of the hashes.
Incr(j, k) == [op |-> "incr", by |-> j, key |-> k]
Read(j, k) == [op |-> "read", by |-> j, key |-> k]
Publish(j, k, t) == [op |-> "publish", by |-> j, key |-> k, tally |-> t]
Del(w, ks) == [op |-> "del", by |-> w, keys |-> ks]
Rem(w, b, k) == [op |-> "rem", by |-> w, board |-> b, key |-> k]
ListKeys(j) == [op |-> "keys", by |-> j]
Drop(j, bs) == [op |-> "drop", by |-> j, boards |-> bs]
Command ==
    [op : {"incr", "read"}, by : Job, key : Key]
    \cup [op : {"publish"}, by : Job, key : Key, tally : Tally]
    \cup [op : {"del"}, by : War, keys : SUBSET Key]
    \cup [op : {"rem"}, by : War, board : Board, key : Key]
    \cup [op : {"keys"}, by : Rebuilds \cup {Boot}]
    \cup [op : {"drop"}, by : Rebuilds, boards : SUBSET Board]

Turn == [kind : {"background", "batch", "reset"}, by : Job]

TypeOK ==
    /\ war \in [War -> {"new", "stored", "rolledback"}]
    /\ stats \in [Key -> Tally]
    /\ board \in [Board -> [Key -> Tally]]
    /\ sent \in Seq(Command)
    /\ turns \in Seq(Turn)
    /\ batch \in [Job -> [rows : SUBSET Row, todo : SUBSET Key, active : SUBSET Key]]
    /\ undo \in [War -> [at : {"idle", "delete", "queue"}, keys : SUBSET Key]]
    /\ reset \in [War -> SUBSET (Board \X Key)]
    /\ call \in [Job -> {"idle", "keys", "load", "done"}]
    /\ crashes \in 0..MaxCrashes /\ losses \in 0..MaxLosses

Empty == [k \in Key |-> NoTally]
Init ==
    /\ war = [w \in War |-> "new"]
    /\ stats = Empty /\ board = [b \in Board |-> Empty]
    /\ sent = <<>> /\ turns = <<>>
    /\ batch = [j \in Job |-> Idle]
    /\ undo = [w \in War |-> [at |-> "idle", keys |-> {}]]
    /\ reset = [w \in War |-> {}]
    /\ call = [j \in Job |-> "idle"]
    /\ crashes = 0 /\ losses = 0

-----------------------------------------------------------------------------
(* Requests. The server listens once onModuleInit has returned.            *)

ListeningAtOnce == TRUE  \* (slip) requests are served during the recovery
Listening == call[Boot] = "done"

\* uploadWar: the war is stored. A player that was deleted does not come back
\* under the same id.
Upload(w) ==
    /\ Listening /\ war[w] = "new" /\ PlayersOf(w) \cap Gone = {}
    /\ war' = [war EXCEPT ![w] = "stored"]
    /\ call' = [call EXCEPT ![w] = "load"]
    /\ UNCHANGED <<redis, sent, turns, batch, undo, reset, crashes, losses>>

\* updateRedisLeaderboards: the performances are resolved again and the update
\* is queued. Whoever a rollback has deleted meanwhile is stored under a new
\* id, whose key no other job touches: it is left out.
Announce(w) ==
    /\ call[w] = "load"
    /\ call' = [call EXCEPT ![w] = "done"]
    /\ batch' = [batch EXCEPT ![w].rows = {r \in RowsOf(w) : r.player # NoPlayer}]
    /\ turns' = Append(turns, [kind |-> "background", by |-> w])
    /\ UNCHANGED <<war, redis, sent, undo, reset, crashes, losses>>

\* rollbackWar: getPlayersAffectedByWar, then the transaction that deletes the war
\* with its players, then the reset of those read before is queued.
Affected(w) == {KeyOf(r) : r \in {r \in RowsOf(w) : r.player # NoPlayer}}
ReadAffected(w) ==
    /\ Listening /\ w \in Retracted /\ war[w] = "stored" /\ undo[w].at = "idle"
    /\ undo' = [undo EXCEPT ![w] = [at |-> "delete", keys |-> Affected(w)]]
    /\ UNCHANGED <<war, redis, sent, turns, batch, reset, call, crashes, losses>>
DeleteWar(w) ==
    /\ undo[w].at = "delete"
    /\ war' = [war EXCEPT ![w] = "rolledback"]
    /\ undo' = [undo EXCEPT ![w].at = "queue"]
    /\ UNCHANGED <<redis, sent, turns, batch, reset, call, crashes, losses>>
QueueReset(w) ==
    /\ undo[w].at = "queue"
    /\ undo' = [undo EXCEPT ![w] = [at |-> "idle", keys |-> {}]]
    /\ reset' = [reset EXCEPT ![w] = Board \X undo[w].keys]
    /\ turns' = IF undo[w].keys = {} THEN turns
                ELSE Append(turns, [kind |-> "reset", by |-> w])
    /\ UNCHANGED <<war, redis, sent, batch, call, crashes, losses>>

\* resetRedisData calls clearAllLeaderboards, and the start-up looks for data.
Rebuild(n) ==
    /\ Listening /\ call[n] = "idle"
    /\ call' = [call EXCEPT ![n] = "keys"]
    /\ sent' = Append(sent, ListKeys(n))
    /\ UNCHANGED <<war, redis, turns, batch, undo, reset, crashes, losses>>
StartUp ==
    /\ call[Boot] = "idle"
    /\ call' = [call EXCEPT ![Boot] = "keys"]
    /\ sent' = Append(sent, ListKeys(Boot))
    /\ UNCHANGED <<war, redis, turns, batch, undo, reset, crashes, losses>>

\* initializeFromDatabase; the start-up has counted the rows before.
LoadRows(j) ==
    /\ call[j] = "load"
    /\ call' = [call EXCEPT ![j] = "done"]
    /\ IF Rows = {} THEN UNCHANGED <<batch, turns>>
       ELSE /\ batch' = [batch EXCEPT ![j].rows = Rows]
            /\ turns' = Append(turns, [kind |-> "batch", by |-> j])
    /\ UNCHANGED <<war, redis, sent, undo, reset, crashes, losses>>

-----------------------------------------------------------------------------
(* Background jobs                                                         *)

\* The next keys of a job, at most BatchSize of them, are begun in parallel.
NextKeys(keys) ==
    Injection(1..(IF Cardinality(keys) < BatchSize THEN Cardinality(keys) ELSE BatchSize),
              keys)
\* (slip) the keys beyond the first batch are forgotten
BeginOnce(j, keys) ==
    \E next \in NextKeys(keys) :
        /\ batch' = [batch EXCEPT ![j].todo = {}, ![j].active = Range(next)]
        /\ sent' = sent \o [i \in DOMAIN next |-> Incr(j, next[i])]
Begin(j, keys) ==
    \E next \in NextKeys(keys) :
        /\ batch' = [batch EXCEPT ![j].todo = keys \ Range(next),
                                  ![j].active = Range(next)]
        /\ sent' = sent \o [i \in DOMAIN next |-> Incr(j, next[i])]

TurnOf(kind) == turns # <<>> /\ Head(turns).kind = kind

\* executeInBackground calls updatePlayerStatsBatch, which queues the work again.
RunBackground ==
    /\ TurnOf("background")
    /\ turns' = Append(Tail(turns), [Head(turns) EXCEPT !.kind = "batch"])
    /\ UNCHANGED <<war, redis, sent, batch, undo, reset, call, crashes, losses>>
RunBatch ==
    /\ TurnOf("batch")
    /\ Begin(Head(turns).by, KeysOf(batch[Head(turns).by].rows))
    /\ turns' = Tail(turns)
    /\ UNCHANGED <<war, redis, undo, reset, call, crashes, losses>>
RunReset ==
    /\ TurnOf("reset")
    /\ LET w == Head(turns).by
       IN  sent' = Append(sent, Del(w, {p[2] : p \in reset[w]}))
    /\ turns' = Tail(turns)
    /\ UNCHANGED <<war, redis, batch, undo, reset, call, crashes, losses>>

\* Five milliseconds after the last key of a batch
Continue(j) ==
    /\ batch[j].active = {} /\ batch[j].todo # {}
    /\ Begin(j, batch[j].todo)
    /\ UNCHANGED <<war, redis, turns, undo, reset, call, crashes, losses>>

-----------------------------------------------------------------------------
(* Redis executes the commands in the order they were sent.                *)

Due(op) == sent # <<>> /\ Head(sent).op = op
Cmd == Head(sent)
Follow(cmds) == sent' = Tail(sent) \o cmds
End(j, k) == batch' = [batch EXCEPT ![j].active = @ \ {k}]

\* What a command does to the keys or sorted sets of "part"
Increase(j, k) ==
    LET sum == Aggregate(batch[j].rows, k)
    IN  stats' = [stats EXCEPT ![k] = [games |-> @.games + sum.games,
                                       wins |-> @.wins + sum.wins]]
Show(k, t, part) ==
    board' = [b \in Board |-> IF b \in part THEN [board[b] EXCEPT ![k] = t] ELSE board[b]]
Forget(part) == stats' = [k \in Key |-> IF k \in part THEN NoTally ELSE stats[k]]
Clear(part) == board' = [b \in Board |-> IF b \in part THEN Empty ELSE board[b]]

ServeIncr ==
    /\ Due("incr")
    /\ Increase(Cmd.by, Cmd.key)
    /\ Follow(<<Read(Cmd.by, Cmd.key)>>)
    /\ UNCHANGED <<war, board, turns, batch, undo, reset, call, crashes, losses>>

\* calculateAverages: gamesPlayed || '1'
Averages(t) == IF t.games = 0 THEN [games |-> 1, wins |-> 0] ELSE t

\* (slip) the figures of the job are shown, not those of the hash
ServeReadOwn ==
    /\ Due("read")
    /\ LET k == Cmd.key
       IN  Follow(<<Publish(Cmd.by, k, Aggregate(batch[Cmd.by].rows, k))>>)
    /\ UNCHANGED <<war, redis, turns, batch, undo, reset, call, crashes, losses>>
ServeRead ==
    /\ Due("read")
    /\ LET k == Cmd.key
       IN  Follow(<<Publish(Cmd.by, k, Averages(stats[k]))>>)
    /\ UNCHANGED <<war, redis, turns, batch, undo, reset, call, crashes, losses>>

ServePublish ==
    /\ Due("publish")
    /\ Show(Cmd.key, Cmd.tally, Board)
    /\ Follow(<<>>) /\ End(Cmd.by, Cmd.key)
    /\ UNCHANGED <<war, stats, turns, undo, reset, call, crashes, losses>>

\* The sorted sets are gone through one after the other, each member with a
\* command of its own.
NextRem(w, left) ==
    IF left = {} THEN Follow(<<>>)
    ELSE \E p \in left : /\ \A q \in left : p[1] =< q[1]
                         /\ Follow(<<Rem(w, p[1], p[2])>>)
ServeDel ==
    /\ Due("del")
    /\ Forget(Cmd.keys)
    /\ NextRem(Cmd.by, reset[Cmd.by])
    /\ UNCHANGED <<war, board, turns, batch, undo, reset, call, crashes, losses>>
ServeRem ==
    /\ Due("rem")
    /\ LET w == Cmd.by
           left == reset[w] \ {<<Cmd.board, Cmd.key>>}
       IN  /\ Show(Cmd.key, NoTally, {Cmd.board})
           /\ reset' = [reset EXCEPT ![w] = left]
           /\ NextRem(w, left)
    /\ UNCHANGED <<war, stats, turns, batch, undo, call, crashes, losses>>

Found == {b \in Board : board[b] # Empty}
ServeKeys ==
    /\ Due("keys")
    /\ \/ /\ Found # {} /\ Cmd.by = Boot  \* nothing to recover
          /\ Follow(<<>>) /\ call' = [call EXCEPT ![Boot] = "done"]
       \/ /\ Found # {} /\ Cmd.by # Boot
          /\ Follow(<<Drop(Cmd.by, Found)>>) /\ UNCHANGED call
       \/ /\ Found = {}
          /\ Follow(<<>>) /\ call' = [call EXCEPT ![Cmd.by] = "load"]
    /\ UNCHANGED <<war, redis, turns, batch, undo, reset, crashes, losses>>
\* (slip) the hashes are deleted as well, under the updates that are on their way
ServeDropAll ==
    /\ Due("drop")
    /\ Clear(Cmd.boards) /\ Forget(Key)
    /\ Follow(<<>>) /\ call' = [call EXCEPT ![Cmd.by] = "load"]
    /\ UNCHANGED <<war, turns, batch, undo, reset, crashes, losses>>
ServeDrop ==
    /\ Due("drop")
    /\ Clear(Cmd.boards)
    /\ Follow(<<>>) /\ call' = [call EXCEPT ![Cmd.by] = "load"]
    /\ UNCHANGED <<war, stats, turns, batch, undo, reset, crashes, losses>>

Serve == \/ ServeIncr \/ ServeRead \/ ServePublish \/ ServeDel \/ ServeRem
         \/ ServeKeys \/ ServeDrop

-----------------------------------------------------------------------------
(* Failures                                                                *)

\* A command throws: Redis has executed it, in part if it stands for several,
\* or not at all. The error ends the update of one key, the reset, or the call.
LoseIncr ==
    /\ Due("incr") /\ End(Cmd.by, Cmd.key)
    /\ Increase(Cmd.by, Cmd.key) \/ UNCHANGED stats
    /\ UNCHANGED <<board, reset, call>>
LoseRead ==
    /\ Due("read") /\ End(Cmd.by, Cmd.key)
    /\ UNCHANGED <<redis, reset, call>>
LosePublish ==
    /\ Due("publish") /\ End(Cmd.by, Cmd.key)
    /\ \E part \in SUBSET Board : Show(Cmd.key, Cmd.tally, part)
    /\ UNCHANGED <<stats, reset, call>>
LoseReset ==
    /\ \/ /\ Due("del")
          /\ \E part \in SUBSET Cmd.keys : Forget(part)
          /\ UNCHANGED board
       \/ /\ Due("rem")
          /\ \E part \in SUBSET {Cmd.board} : Show(Cmd.key, NoTally, part)
          /\ UNCHANGED stats
    /\ reset' = [reset EXCEPT ![Cmd.by] = {}]
    /\ UNCHANGED <<batch, call>>
LoseCall ==
    /\ \/ Due("keys") /\ UNCHANGED board
       \/ Due("drop") /\ \E part \in SUBSET Cmd.boards : Clear(part)
    /\ call' = [call EXCEPT ![Cmd.by] = "done"]
    /\ UNCHANGED <<stats, batch, reset>>
Lose ==
    /\ losses < MaxLosses
    /\ LoseIncr \/ LoseRead \/ LosePublish \/ LoseReset \/ LoseCall
    /\ losses' = losses + 1
    /\ Follow(<<>>)
    /\ UNCHANGED <<war, turns, undo, crashes>>

\* An error of the query ends the call; an upload has stored its war.
LoseRows(j) ==
    /\ losses < MaxLosses
    /\ losses' = losses + 1
    /\ call[j] = "load"
    /\ call' = [call EXCEPT ![j] = "done"]
    /\ UNCHANGED <<war, redis, sent, turns, batch, undo, reset, crashes>>

\* The transaction of a rollback fails as a whole.
LoseDelete(w) ==
    /\ losses < MaxLosses
    /\ losses' = losses + 1
    /\ undo[w].at = "delete"
    /\ undo' = [undo EXCEPT ![w] = [at |-> "idle", keys |-> {}]]
    /\ UNCHANGED <<war, redis, sent, turns, batch, reset, call, crashes>>

\* The process dies with everything it has queued; Redis may go down with it.
Crash ==
    /\ crashes < MaxCrashes
    /\ crashes' = crashes + 1
    /\ sent' = <<>> /\ turns' = <<>>
    /\ batch' = [j \in Job |-> Idle]
    /\ undo' = [w \in War |-> [at |-> "idle", keys |-> {}]]
    /\ reset' = [w \in War |-> {}]
    /\ call' = [j \in Job |->
                  IF j = Boot \/ call[j] = "idle" THEN "idle" ELSE "done"]
    /\ \/ TRUE \in RedisKept /\ UNCHANGED redis
       \/ FALSE \in RedisKept /\ stats' = Empty /\ board' = [b \in Board |-> Empty]
    /\ UNCHANGED <<war, losses>>

-----------------------------------------------------------------------------
Background ==
    \/ StartUp \/ Serve \/ RunBackground \/ RunBatch \/ RunReset
    \/ \E w \in War : Announce(w) \/ DeleteWar(w) \/ QueueReset(w)
    \/ \E j \in Rebuilds \cup {Boot} : LoadRows(j)
    \/ \E j \in Job : Continue(j)
Request ==
    \/ \E w \in War : Upload(w) \/ ReadAffected(w)
    \/ \E n \in Rebuilds : Rebuild(n)
Failure == \/ Lose \/ Crash
           \/ \E j \in Job : LoseRows(j)
           \/ \E w \in War : LoseDelete(w)

\* Nothing is left to do before the next request.
Quiet ==
    /\ Listening /\ sent = <<>> /\ turns = <<>>
    /\ \A j \in Job : call[j] \in {"idle", "done"}
    /\ \A j \in Job : batch[j].todo = {} /\ batch[j].active = {}
    /\ \A w \in War : undo[w].at = "idle"
AtRest == Quiet /\ UNCHANGED vars

Next == Background \/ Request \/ Failure \/ AtRest
Spec == Init /\ [][Next]_vars

\* The event loop runs on and Redis answers; no request need come.
FairSpec == Spec /\ WF_vars(Background)

-----------------------------------------------------------------------------
(* Properties                                                              *)

\* Several updates of one player read the hash and write the sorted sets with
\* commands of their own, yet none overwrites the figures of a later one, even
\* if commands fail: what is shown only grows, until the sorted set is cleared.
\* A deleted player's figures start again from zero when a late update comes.
BoardsNeverGoBack ==
    [][\A b \in Board, k \in Key :
          \/ k.player \in Gone
          \/ board'[b][k] = NoTally
          \/ board'[b][k].games >= board[b][k].games]_vars

\* No update or reset of the key is under way.
Settled(k) == /\ \A j \in Job : k \notin batch[j].active
              /\ \A w \in War : \A b \in Board : <<b, k>> \notin reset[w]

\* No command has thrown, and what a restart interrupted is lost with Redis.
Undamaged == losses = 0 /\ (crashes = 0 \/ RedisKept \subseteq {FALSE})

\* What a sorted set shows of a key that nobody is working on are the averages of
\* its hash, whatever updates, resets and rebuilds have run over each other, unless
\* commands throw or Redis keeps its data while the server restarts. (The averages
\* of a missing hash are those of one game.)
ShownIsCurrent ==
    Undamaged =>
        \A k \in Key : Settled(k) =>
            \A b \in Board : board[b][k] \in {NoTally, Averages(stats[k])}

\* Without rebuilds and rollbacks, and unless Redis keeps its data while the server
\* restarts, every stored performance is counted and shown once.
CountsMatchDatabase ==
    /\ Quiet /\ Undamaged
    /\ \A n \in Rebuilds : call[n] = "idle"
    /\ \A w \in War : war[w] # "rolledback"
    => \A k \in Key : /\ stats[k] = Aggregate(Rows, k)
                      /\ \A b \in Board : board[b][k] = stats[k]

\* Every upload shows in the end: the figures of its players are on every sorted
\* set for good, although the batches of the jobs wait for each other.
EveryUploadShows ==
    \A w \in War : war[w] = "stored" ~>
        [](\A k \in KeysOf(Lineup[w]), b \in Board :
              board[b][k].games >= Aggregate(Lineup[w], k).games)

-----------------------------------------------------------------------------
(* The inductive invariants behind BoardsNeverGoBack, ShownIsCurrent and   *)
(* CountsMatchDatabase.                                                    *)

Updating == {"incr", "read", "publish"}
Listing == {"keys", "drop"}
Resetting == {"del", "rem"}

\* A job has its rows, all of them finitely many, once its call has ended.
JobsInv ==
    /\ \A j \in Job :
          /\ IsFiniteSet(batch[j].rows)
          /\ batch[j].todo \cup batch[j].active \subseteq KeysOf(batch[j].rows)
          /\ batch[j].todo \cap batch[j].active = {}
          /\ call[j] # "done" => batch[j] = Idle
    /\ \A w \in War : war[w] = "new" => call[w] = "idle"

\* It waits for one turn until it begins with its keys; a reset has one turn too.
SameTurn(t, u) == t.by = u.by /\ (t.kind = "reset" <=> u.kind = "reset")
TurnsInv ==
    /\ \A i \in DOMAIN turns : turns[i].kind # "reset" =>
          /\ call[turns[i].by] = "done"
          /\ batch[turns[i].by].todo = {} /\ batch[turns[i].by].active = {}
    /\ \A i, n \in DOMAIN turns : SameTurn(turns[i], turns[n]) => i = n

\* A command in the line belongs to what its sender is doing, which has no other
\* command there.
Twins(c, d) ==
    /\ c.by = d.by
    /\ \/ c.op \in Updating /\ d.op \in Updating /\ c.key = d.key
       \/ c.op \in Listing /\ d.op \in Listing
       \/ c.op \in Resetting /\ d.op \in Resetting
CommandsInv ==
    /\ \A i \in DOMAIN sent :
          /\ sent[i].op \in Updating => sent[i].key \in batch[sent[i].by].active
          /\ sent[i].op \in Listing => call[sent[i].by] = "keys"
          /\ sent[i].op = "del" => Board \X sent[i].keys \subseteq reset[sent[i].by]
    /\ \A i, n \in DOMAIN sent : Twins(sent[i], sent[n]) => i = n

\* The reset of a war is begun once, for players that are gone.
ResetsInv ==
    /\ \A w \in War : \A k \in undo[w].keys : k.player \in PlayersOf(w)
    /\ \A w \in War : undo[w].at = "queue" => war[w] = "rolledback"
    /\ \A w \in War : \A p \in reset[w] : p[2].player \in Gone
    /\ \A i \in DOMAIN turns : turns[i].kind = "reset" =>
          LET w == turns[i].by
          IN  /\ w \in War /\ undo[w].at = "idle" /\ war[w] = "rolledback"
              /\ reset[w] = Board \X {p[2] : p \in reset[w]}
              /\ \A n \in DOMAIN sent : sent[n].op \in Resetting => sent[n].by # w
    /\ \A n \in DOMAIN sent : sent[n].op \in Resetting =>
          undo[sent[n].by].at = "idle" /\ war[sent[n].by] = "rolledback"

\* The figures of a player who is not gone only grow: from the sorted sets over
\* those about to be shown, in the order of the line, to the hash.
Shows(i, k) == sent[i].op = "publish" /\ sent[i].key = k
Reads(i, k) == sent[i].op = "read" /\ sent[i].key = k
Grows(k) ==
    /\ \A b \in Board : board[b][k].games =< stats[k].games
    /\ \A i \in DOMAIN sent : Reads(i, k) => stats[k].games >= 1
    /\ \A i \in DOMAIN sent : Shows(i, k) =>
          /\ sent[i].tally.games =< stats[k].games
          /\ \A b \in Board : board[b][k].games =< sent[i].tally.games
    /\ \A i, n \in DOMAIN sent : i < n /\ Shows(i, k) /\ Shows(n, k) =>
          sent[i].tally.games =< sent[n].tally.games
GrowsInv == \A k \in Key : k.player \notin Gone => Grows(k)

\* Figures are those of a game at least, or none.
Played(t) == t = NoTally \/ t.games >= 1
PlayedInv ==
    /\ \A k \in Key : Played(stats[k]) /\ \A b \in Board : Played(board[b][k])
    /\ \A i \in DOMAIN sent : sent[i].op = "publish" => sent[i].tally.games >= 1

LineInv ==
    TypeOK /\ JobsInv /\ TurnsInv /\ CommandsInv /\ ResetsInv /\ GrowsInv

\* At place m of the line or later there is a command after which a sorted set
\* shows what the hash of k says, or nothing.
ReadFrom(m, k) ==
    \E i \in m..Len(sent) :
        Reads(i, k) \/ (Shows(i, k) /\ sent[i].tally = Averages(stats[k]))
ResetFrom(m, b, k) ==
    \/ \E i \in m..Len(sent) :
          sent[i].op \in Resetting /\ <<b, k>> \in reset[sent[i].by]
    \/ \E i \in DOMAIN turns :
          turns[i].kind = "reset" /\ <<b, k>> \in reset[turns[i].by]
FreshInv ==
    Undamaged =>
        \A k \in Key, b \in Board :
            /\ \/ board[b][k] \in {NoTally, Averages(stats[k])}
               \/ ReadFrom(1, k) \/ ResetFrom(1, b, k)
            /\ \A i \in DOMAIN sent : Shows(i, k) =>
                  \/ sent[i].tally = Averages(stats[k])
                  \/ ReadFrom(i + 1, k) \/ ResetFrom(i + 1, b, k)

\* The rows of a job that its increments have brought into the hash of k
Waits(j, k) ==
    \/ k \in batch[j].todo
    \/ \E i \in DOMAIN turns : turns[i].kind # "reset" /\ turns[i].by = j
    \/ \E i \in DOMAIN sent : sent[i] = Incr(j, k)
Counted(k) == UNION {{r \in batch[j].rows : KeyOf(r) = k} : j \in {j \in Job : ~Waits(j, k)}}

Untouched == /\ Undamaged
             /\ \A n \in Rebuilds : call[n] = "idle"
             /\ \A w \in War : war[w] # "rolledback"

\* Every stored performance is with one job, that of its upload or the recovery.
HoldersInv ==
    Untouched =>
        /\ call[Boot] # "done" => /\ \A j \in Job : batch[j].rows = {}
                                  /\ \A w \in War : call[w] # "load"
        /\ call[Boot] \in {"idle", "keys"} => Found = {}
        /\ \A w \in War :
              /\ batch[w].rows \subseteq Lineup[w]
              /\ batch[w].rows # {} \/ call[w] = "load" =>
                    Lineup[w] \cap batch[Boot].rows = {}
              /\ war[w] = "stored" /\ Listening =>
                    call[w] = "load" \/ Lineup[w] \subseteq batch[w].rows \cup batch[Boot].rows
        /\ batch[Boot].rows \subseteq Rows

\* What the jobs have counted so far is in the hashes; a sorted set that shows
\* nothing of it will.
SumsInv ==
    Untouched =>
        \A k \in Key :
            /\ stats[k] = Aggregate(Counted(k), k)
            /\ \A b \in Board : board[b][k] = NoTally => stats[k] = NoTally \/ ReadFrom(1, k)

CountsInv == HoldersInv /\ SumsInv
=============================================================================

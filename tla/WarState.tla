------------------------------ MODULE WarState ------------------------------
(***************************************************************************)
(* The state shared by the war endpoints: the PostgreSQL tables of         *)
(* prisma/schema.prisma that uploads and rollbacks read and write, the     *)
(* local variables of every running call, and the queue of background jobs.*)
(*                                                                         *)
(* Identifiers.  Prisma draws a fresh cuid for every row.  Here a row is   *)
(* named by the call that inserts it: an upload inserts at most one War    *)
(* and one WarSide, both named by the upload, and at most one Player per   *)
(* nickname and pass (a call runs upsertPlayers twice).                    *)
(***************************************************************************)
EXTENDS Integers, Sequences, FiniteSets, Functions

CONSTANTS
    Uploads,    \* calls of POST /war/upload
    Rollbacks,  \* calls of the rollback endpoint
    Company,    \* ids of the companies that are registered
    Stranger,   \* an id no company has
    Nick,       \* nicknames as they are typed
    Alike,      \* the pairs that areNicknamesEqual accepts
    Class,      \* player classes
    Slot,       \* territory and start time of a war
    Requests,   \* upload bodies
    Pool,       \* connections of the Prisma client
    NoWar, NoPlayer, NoClass, NoProfile

Role == {"Attacker", "Defender"}
Other(role) == IF role = "Attacker" THEN "Defender" ELSE "Attacker"
Entry == [nick : Nick, class : Class]
CompanyId == Company \cup {Stranger}
Request == [slot : Slot, company : CompanyId, opponent : CompanyId, type : Role,
            isWinner : BOOLEAN, stats : Seq(Entry)]
Calls == Uploads \cup Rollbacks

ASSUME RequestsAssumption == Requests \subseteq Request
ASSUME CallsAssumption == Uploads \cap Rollbacks = {}
ASSUME AlikeAssumption ==
    /\ Alike \subseteq Nick \X Nick
    /\ \A m \in Nick : <<m, m>> \in Alike
    /\ \A m, n \in Nick : <<m, n>> \in Alike => <<n, m>> \in Alike
ASSUME FreshAssumption ==
    /\ NoWar \notin Uploads /\ Stranger \notin Company
    /\ NoClass \notin Class /\ NoProfile \notin Class /\ NoClass # NoProfile
ASSUME PoolAssumption == Pool \in Nat \ {0}

PlayerId == [nick : Nick, by : Uploads, pass : 1..2]

PlayerClass == [player : PlayerId, class : Class]
PerformanceRow == [player : PlayerId \cup {NoPlayer}, class : Class]

ASSUME NoPlayerAssumption == NoPlayer \notin PlayerId

VARIABLES
    (* committed rows *)
    wars,      \* War
    sides,     \* WarSide
    perfs,     \* PlayerPerformance: perfs[s][n] is the row of entry n of side s
    players,   \* Player
    classes,   \* Player.classes, one element per array entry
    profile,   \* PlayerProfile.mainClass, NoProfile where there is no row
    games,     \* PlayerClassCount.gamesCount, 0 where there is no row
    (* the running calls *)
    req,       \* the body of each upload
    pc,        \* the statement each call awaits next
    up,        \* local variables of the uploads
    rb,        \* local variables of the rollbacks
    open,      \* is the call's interactive transaction open?
    jobs       \* background jobs in the order setImmediate queues them

tables == <<wars, sides, perfs, players, classes, profile, games>>
vars == <<wars, sides, perfs, players, classes, profile, games,
          req, pc, up, rb, open, jobs>>

WarRow == [id : Uploads, slot : Slot, attacker : CompanyId, defender : CompanyId,
           winner : Role]
SideRow == [id : Uploads, war : Uploads, type : Role, company : CompanyId]

UploadPc == {"idle", "sides", "players", "create", "fetch", "profiles",
             "begin", "side", "rows", "classes", "counts", "top", "main", "commit",
             "done", "failed"}
UploadLocals == [war : Uploads \cup {NoWar},  \* existingWar, if any
                 pass : 1..2,                 \* 2: updateRedisLeaderboards
                 missing : SUBSET Nick,       \* toCreate
                 fetched : SUBSET PlayerId,   \* players
                 resolved : Seq(PlayerClass), \* performances
                 todo : SUBSET PlayerId,      \* players a loop has still to do
                 top : Class \cup {NoClass}]  \* top.playerClass
NoLocals == [war |-> NoWar, pass |-> 1, missing |-> {}, fetched |-> {},
             resolved |-> <<>>, todo |-> {}, top |-> NoClass]

RollbackPc == {"idle", "affected", "gather", "lock", "delete", "queue",
               "done", "failed"}
RollbackLocals == [war : Uploads \cup {NoWar},
                   affected : SUBSET PlayerClass, \* affectedPlayers
                   victims : SUBSET PlayerId,   \* playerIds
                   locked : SUBSET PlayerId]    \* profile rows it has deleted

Job == [by : Calls, rows : SUBSET PlayerClass]

TypeOK ==
    /\ wars \subseteq WarRow
    /\ sides \subseteq SideRow
    /\ perfs \in [Uploads -> Seq(PerformanceRow)]
    /\ players \subseteq PlayerId
    /\ classes \subseteq PlayerClass
    /\ profile \in [PlayerId -> Class \cup {NoClass, NoProfile}]
    /\ games \in [PlayerClass -> Nat]
    /\ req \in [Uploads -> Requests]
    /\ pc \in [Calls -> UploadPc \cup RollbackPc]
    /\ up \in [Uploads -> UploadLocals]
    /\ rb \in [Rollbacks -> RollbackLocals]
    /\ open \in [Calls -> BOOLEAN]
    /\ jobs \in Seq(Job)

Init ==
    /\ wars = {} /\ sides = {} /\ players = {} /\ classes = {}
    /\ perfs = [u \in Uploads |-> <<>>]
    /\ profile = [p \in PlayerId |-> NoProfile]
    /\ games = [k \in PlayerClass |-> 0]
    /\ req \in [Uploads -> Requests]
    /\ pc = [x \in Calls |-> "idle"]
    /\ up = [u \in Uploads |-> NoLocals]
    /\ rb = [r \in Rollbacks |-> [war |-> NoWar, affected |-> {},
                                  victims |-> {}, locked |-> {}]]
    /\ open = [x \in Calls |-> FALSE]
    /\ jobs = <<>>

-----------------------------------------------------------------------------
(* What every call shares. *)

Ended == {"done", "failed"}

\* A connection is left for a statement outside the caller's transaction:
\* every open transaction holds one of the pool.
Connection == Cardinality({x \in Calls : open[x]}) < Pool

\* The call ends with an exception (HTTP 500); its transaction, if open, is rolled back.
Fail(x) ==
    /\ pc' = [pc EXCEPT ![x] = "failed"]
    /\ open' = [open EXCEPT ![x] = FALSE]
    /\ UNCHANGED <<tables, req, up, rb, jobs>>

Goto(x, label) == pc' = [pc EXCEPT ![x] = label]

WarOf(u) == IF up[u].war = NoWar THEN u ELSE up[u].war
Resolved(u) == {k.player : k \in Range(up[u].resolved)}
\* The committed performances of a player in a class
Played(k) == {i \in UNION {{s} \X DOMAIN perfs[s] : s \in Uploads} :
                 perfs[i[1]][i[2]] = k}
=============================================================================

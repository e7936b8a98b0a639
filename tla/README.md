# nwscore-api in TLA+

nwscore-api is a NestJS server that keeps score of player-versus-player wars of
a game: companies upload the result of a war, the server stores it in
PostgreSQL (through Prisma), keeps running averages of every player in Redis
and answers with leaderboards. Users log in; their sessions are Redis hashes.

This directory holds TLA+ modules that model the parts of the server where
concurrency, failure and ordering decide whether it is correct, the TLC
configurations that check them on small instances, and proofs of the main
results for instances of any size. `PROJECT.json` maps every definition to the
source lines it stands for.

Paths below are relative to the repository; `war/`, `auth/`, `statistics/`,
`player/` and `company/` are directories of `src/modules/`.

1. [The system](#1-the-system)
2. [Plan](#2-plan)
3. [Module by module](#3-module-by-module)
4. [Runs and bounds](#4-runs-and-bounds)
5. [Fairness](#5-fairness)
6. [Proofs](#6-proofs)
7. [Where the code does not do what it says](#7-where-the-code-does-not-do-what-it-says)
8. [What is not modelled](#8-what-is-not-modelled)

## 1. The system

One Node.js process serves HTTP requests. Between two `await`s nothing else
runs; at every `await` any other request may. State lives in PostgreSQL, in
Redis, and in the process (queued callbacks, commands on their way), which a
restart loses.

| Component | State | Operations | Correct when |
|---|---|---|---|
| **War ingestion** `war/application/services/war.service.ts`, `war/domain/repositories/war.repository.ts` | tables War, WarSide, PlayerPerformance | `uploadWar` (create a war with a side, or attach the second side), `rollbackWar` | a war has two different registered companies and at most one side per role; an upload is stored wholly or not at all; a rolled-back war stays away |
| **Player upsert** `player/domain/repositories/player.repository.ts` (`upsertPlayers`) | tables Player, PlayerProfile | look up nicknames approximately, create the missing players and profiles | performances name players that exist and whose nickname is alike to the reported one |
| **Performance extension** `src/shared/services/prisma/extension/player-performance.extension.ts` | Player.classes, PlayerClassCount, PlayerProfile.mainClass | hook of `playerPerformance.createMany`: append classes, count games, recompute main classes, all on connections of its own | counts never fall behind the rows they count |
| **Sessions** `auth/application/services/redis-session.service.ts`, `auth/presentation/guards/session-auth.guard.ts` | Redis hashes `session:*`, sorted sets `user_sessions:*`, their TTLs | create, read, update activity, extend, delete, list, delete all, clean up, clear | only the user who logged in is let through, nobody after logout; a session lives as long as it should |
| **Leaderboard** `statistics/application/services/leaderboard.service.ts` | Redis hashes `player:*:stats`, six sorted sets `leaderboard:*` | update in batches, reset players, clear, rebuild from the database, recover at start-up | what is shown are the averages of the stored performances, each counted once |
| **Background jobs** `src/shared/services/background/background.service.ts` | queue of `setImmediate` callbacks | run a function after the response | every queued job runs unless the process dies |
| **Accounts** `auth/application/services/auth.service.ts`, `src/modules/user/` | table User | signup, login, set e-mail, validate | one user per name and e-mail; a refusal has a reason; a login finds the owner of the password |
| **Companies** `company/` | table Company | create company and leader, information, leader guard | company and leader are created together; only the leader reads the information; every war it shows was won by the company or by its opponent |
| **Statistics queries** `statistics/application/services/statistics.service.ts`, SQL in `player.repository.ts`, `player/application/services/player.service.ts` | none of their own | pages of leaderboards, trending players, ranks, win streaks, player history, search | pages, totals, ranks and streaks agree with the rows; what is read later never contradicts what was read before it |
| **Nickname matching** `src/shared/utils/nicknames.ts` | none | normalise, Levenshtein distance, comparison by an adaptive threshold | the distance counts edits; the comparison is symmetric and reflexive |
| Redis and Prisma clients, health, logger, filters, configuration, controllers | connections | forwarding, formatting, wiring | — |

How they interact:

```
 POST /war/upload ─► uploadWar ─► upsertPlayers ─► transaction ─► (createMany hook)
                        │                            War, WarSide, PlayerPerformance
                        └► upsertPlayers again ─► executeInBackground ─┐
 rollback ─► rollbackWar ─► transaction (deletes) ─► executeInBackground┤ setImmediate queue
                                                                        ▼
 start-up ─► checkAndRecoverData ──► initializeFromDatabase ─► processPerformancesInBatches
 POST /statistics/redis/reset ─────► (after clearing)            resetPlayerData
                                                                  │ one Redis connection
 every guarded request ─► SessionAuthGuard ─► getSessionById ─────┴► Redis
```

What is hard to test here, and what the properties are for (`PROJECT.json`,
"hazards", gives each at its line):

* checks that are several awaits old when the transaction they guard runs
  (`uploadWar` against another upload or a rollback);
* writes of one upload on different connections: the hook's counts commit
  although the transaction around them does not;
* open transactions that hold connections and row locks others wait for, until
  Prisma's five-second timer ends them;
* updates and resets of one player's figures that interleave command by
  command on one Redis connection, out of the order of their database commits;
* a restart that loses the queue but not Redis, or both;
* session reads that act, commands later, on a session that has been deleted,
  extended or dropped by its TTL meanwhile;
* names and addresses that are looked up awaits before they are stored, and an
  insert that waits for a transaction which may be undone;
* answers put together from several queries or Redis reads, and lists a client
  pages through, while the tables and the sorted sets change.

## 2. Plan

Most important behaviour first; modules that compose others after them.

| Step | Modules | State |
|---|---|---|
| 1 | `WarState`, `WarUpload`, `WarRollback`, composed by `WarIngest`; `WarIngestProofs`, `WarTablesProofs` | modelled, checked; every safety property proved |
| 2 | `RedisSessions`; `RedisSessionsProofs` | modelled, checked; every safety property proved |
| 3 | `Leaderboard`; `LeaderboardProofs` | modelled, checked; every safety property proved |
| 4 | `Accounts`; `AccountsProofs` | modelled, checked; every property of it proved |
| 5 | `WarLedger`, `SessionStore` | abstract specifications; `WarIngest` and `RedisSessions` implement them, checked and proved (in `WarIngestProofs` and `RedisSessionsProofs`) |
| 6 | `Nicknames`; `NicknamesProofs` | distance, threshold and comparison, checked through `PlayerQueries`; proved for words of any length |
| 7 | `PlayerQueries`, `BoardReads`; `PlayerQueriesProofs`, `BoardReadsProofs` | the read side of the database and of the leaderboards, checked; every property of it proved |
| 8 | the *scoreboard* | left. An abstract specification of `Leaderboard`, a multiset of performances that the hashes show while nothing fails and nothing is rebuilt; and `WarIngest` with `Leaderboard` behind it, whose jobs are so far joined only by what `WarLedger` promises of them: queued at most once, after the commit, by the call that wrote |

Modules that theorems are about declare no RECURSIVE operator; constants carry
named assumptions; each invariant is a conjunction of named parts.

## 3. Module by module

### WarState, WarUpload, WarRollback, WarIngest

`WarState` declares the tables and the local variables of the running calls;
`WarUpload` has one action per awaited statement of `uploadWar` and all it
calls, `WarRollback` of `rollbackWar`; `WarIngest` puts them together and adds
what may go wrong at any await.

| Variable | Code |
|---|---|
| `wars`, `sides`, `perfs` | War, WarSide, PlayerPerformance as committed |
| `players`, `classes`, `profile`, `games` | Player with its `classes` array, PlayerProfile.mainClass, PlayerClassCount.gamesCount |
| `req` | the body of each upload |
| `pc`, `up`, `rb` | the statement each call awaits next; its local variables |
| `open` | the call's interactive transaction is open |
| `jobs` | what `executeInBackground` has queued, in order |

| Action | Code |
|---|---|
| `FindWar`, `FindSides` | `findWarByTerritoryAndDateTime`, `findSidesByWarId` and the checks after them |
| `ReadPlayers`, `CreatePlayers`, `FetchPlayers`, `CreateProfiles` | `upsertPlayers` and the matching of `resolvePerformances`; run before the transaction and, after the commit, for Redis |
| `BeginTx`, `InsertSide`, `InsertPerformances`, `Commit` | the transaction of `createWarWithAttachedSide` or `attachSideToWar` |
| `AppendClasses`, `CountGames`, `ReadTop`, `SetMain` | the `createMany` hook, one UPDATE per player, one transaction of upserts, two statements per player |
| `FindTarget` … `QueueReset` | `rollbackWar` |
| `Interrupt`, `TxTimeout` | a statement throws or the process dies under the call; Prisma ends a transaction |

Choices worth knowing. Rows are named by the call that inserts them, so ids
need no supply. A transaction's rows appear at its commit; what its locks
forbid others until then is in the guards (`SideContended`, `Locked`,
`HeldByUpload`). BEGIN is a statement of its own: an upload that waits for a side
another transaction has inserted keeps its connection, and so does one that waits
inside the hook for a second connection. A body without statistics is refused;
one whose statistics list no player is not, and stores a side without
performances. Whether two nicknames are alike is a reflexive, symmetric
relation, not transitive, as `areNicknamesEqual` is (`NicknamesProofs`). The rollback's deletes
after the first are one step with the commit: whoever would wait for their
locks fails on a foreign key after it. `IncrementDown` and the other
definitions marked *(slip)* are mistakes a programmer could have made; they are
not part of the model.

`WarLedger` is what the endpoints promise without the awaits: a ledger in which
an upload registers a war or joins one, a rollback cancels one as a whole, and a
call that has written may queue one background job. `ImplementsLedger` maps the
committed tables to it, the open profiles and transactions being invisible: a
commit is `Register` or `Join` although its checks are long past, and the steps
in between change nothing. The ledger lets two wars have one slot, because the
code does (section 7).

### RedisSessions

One action per awaited Redis command of `RedisSessionService`, for its callers
in the guard and in `AuthService` (`guard`, `validate`, `login`, `logout`) and
the operations no controller reaches (`extend`, `list`, `deleteAll`, `cleanup`,
`clear`). `hash`, `index` and `indexTtl` are Redis; `pc` and `loc` the calls.
Deadlines are kept as the number of ticks left, so that time needs no bound;
`Tick` counts everything down and lets Redis drop keys. `Halt` is a command
that throws or the death of the process. Server and Redis share one clock. The
order in which an index's sessions or all indexes are visited is arbitrary.
A session without `userId` is let through by the guard as the undefined user,
and refused by `validateSession`, whose query throws.

`SessionStore` is the service without Redis: a token is issued once, to one
user, and is worth something until it ends, for good. `ImplementsStore` maps a
hash that names a user to a token, so that a hash a late HSET writes back is
none. A token may end in the last tick of its life or after it; while a call that
has begun and is not done logs it out, deletes all sessions of its user or of
everybody, or cleans it up although an extension has arrived for it (`Ending`);
and between the HSET and the EXPIRE of an extension, when its old TTL may run
out, whenever that is if the extension was halted there. A call that is done ends
nothing any more.

The EXISTS of `cleanupConflictingKey` is a step for the index (`Probe`, `Wipe`) and
left out before the HSET of the session, whose id is fresh: it finds nothing.

### Leaderboard

| Variable | Code |
|---|---|
| `war` | what the database has of each war: an upload stores one, a rollback deletes one |
| `stats` | the hash of a player and class: `gamesPlayed`, and `wins` for the other sums, which are kept alike |
| `board` | what each of the sorted sets shows of a key |
| `sent` | commands sent on the one Redis connection, in order |
| `turns` | the `setImmediate` queue |
| `batch` | for each job, the performances, the keys that wait and those under way in `processPerformancesInBatches` |
| `undo` | `rollbackWar` of each war: what it awaits, the players and classes it has read |
| `reset` | the members `resetPlayerData` has still to remove |
| `call` | where each upload, rebuild and the start-up are |

`ServeX` executes the next command and runs the code that awaited it up to the
commands that code sends. The answers come back in the order of the commands,
and code that handles an answer later only sends later, which the model covers
by other jobs' commands coming first. Callbacks of `setImmediate` may wait for
several answers. `incr` is the MULTI of six increments; `publish` the HSET of
averages and six ZADDs that are sent together and therefore executed together;
`drop` and `del` the DELs sent by one `Promise.all`. A failing command is
executed wholly, in part or not at all (`Lose…`). The averages stored in the
hash are left out: every reader computes them from the sums.

An upload is one step in the database and another (`Announce`) in which its
performances are resolved again. A player who was deleted in between comes back
under a new id, whose figures no other job touches; that key is left out. The
statements of `resolvePerformances` between the commit and the queueing are one
step: they read nothing a leaderboard shows, and an upload that takes long over
them is one whose `Announce` comes late.

A rollback is three steps, as in `rollbackWar`: `ReadAffected` reads whom it will
reset, `DeleteWar` is the transaction (which `LoseDelete` lets fail, so that the
client may ask again), `QueueReset` queues the reset of those read *before* the
delete. Uploads, jobs and a restart may come between any two of them. One upload
stands for one war here, where the program has up to two uploads, one per side:
a second side of the same war would add rows the same rollback deletes, which is
what `WarRollback` has; the figures of a leaderboard do not know sides.

### BoardReads

Extends `Leaderboard` with one client that reads: it turns the pages of a
sorted set (`walk`), or asks for a page of the win-rate leaderboard, for the
trending players or for the best performances of the home page.

| Variable | Code |
|---|---|
| `ask`, `pc`, `page` | the request, what it awaits next, the page it is at |
| `items`, `total` | ZREVRANGE and ZCARD of `getLeaderboard`, sent together |
| `figures` | the hashes `getPlayerStats` has read for the members of the page |
| `named` | members whose player has been looked up |
| `listed`, `ranks` | what KEYS has found of a member's class, and the overall rank computed from it |
| `shown`, `calm` | the rows the client has been given; nothing else has happened meanwhile |

`ReadPage`, `ReadFigures`, `ReadName`, `ListClass`, `RankInClass` are the reads,
`ReadEnds` the answer, `LoseAnswer` a read that fails. One sorted set stands for
all (`Boards = 1` in its run), without the world and class of the request: nothing
writes the keys they select (section 7). `least` says that it keeps the negated figure, as
the board of fewest deaths does. A read of Redis executes at any moment after it
was sent; its place in the line of commands is left out, which only adds
behaviours. Once the client has its answer nothing more is followed.

### Nicknames, PlayerQueries

`Nicknames` has `normalizeNick`, `levenshtein` and `areNicknamesEqual` over
sequences of letters, and what a distance is (`CountsEdits`).

`PlayerQueries` follows one request of the player and company endpoints query by
query, while wars are uploaded and rolled back. Uploads are coarse here (their
players in one step, their war of one side in another), as `WarIngest` has them
in full; what matters to a reader is that the tables change between its queries,
that several rows have one `createdAt`, and that uploads may commit in another
order than they began. `Store` matches entries as `resolvePerformances` does, any
entry with a fetched player whose nickname passes for its own, and fails if one
finds nobody; entries that could have each other's player get the same one, as
each takes the first of the list that passes. The count of a leaderboard and its page are
separate queries, and separate definitions: `CountQualified` groups the joined
performances, `Qualified` goes over the players.

| Action | Code |
|---|---|
| `Enrol`, `Store`, `Rollback` | `upsertPlayers`; the transaction of an upload; `rollbackWar` |
| `SearchPage` | `searchPlayers`, once per page the client turns |
| `ReadPlayer`, `ReadRecents`, `ReadSides`, `ReadFigures` | `findPlayerByNickname`; Prisma reads each relation with a query of its own |
| `ReadTotal`, `ReadRows` | the two queries of `getMostWinsLeaderboard`, with the windows that count win streaks |
| `ReadAttacked`, `ReadDefended` | `getCompanyInformation` |

Sums of a player's rows behave alike, and `wins` stands for them.

### Accounts

`signup`, `login`, `setEmail` (which no controller calls yet),
`createCompanyAndLeader` and the guard before a company's information, one
action per awaited statement; whatever follows a statement up to the next await
belongs to its action.

| Variable | Code |
|---|---|
| `users`, `companies` | User and Company as committed; a row is named by the call that inserts it |
| `req`, `pc` | the body or parameters of each call; the statement it awaits next, or its answer |
| `open` | the call's transaction has inserted its leader and is not committed |
| `found` | the user a call goes on with: found by its password, just created, or named by its token |
| `session` | whom the token a call returned names, until the session ends |

| Action | Code |
|---|---|
| `CheckUsername`, `CheckEmail`, `Create` | `AuthService.signup` |
| `ValidateUser`, `ReadCompanies`, `CreateSession` | `validateUser` and `login`; signing up ends with the last two |
| `CheckNewEmail`, `UpdateEmail` | `setEmail` |
| `InsertLeader`, `InsertCompany`, `Commit` | the transaction of `createCompanyAndLeader` |
| `ReadSession`, `CheckLeader`, `GetInformation` | `CompanyLeaderGuard` and the handler behind it |
| `EndSession`, `Interrupt` | a logout or the clock; a statement throws or the process dies |

The unique index answers for committed rows; an insert of a name that another
transaction has inserted waits for that transaction's end (`Contended`). A
refusal by a check is answered with 409 (`conflict`), one by a unique column
with 500 (`clash`), because the exception filter knows only HttpExceptions. A
statement that throws has not been executed: a commit whose acknowledgement is
lost is left out. bcrypt accepts the password that was hashed and no other.
Tokens are taken at their word until they end, which is what `RedisSessions`
shows of them. That a refusal has a reason is stated with the names and
addresses other calls have *ever* stored, since an address may have been
changed again.

## 4. Runs and bounds

All runs use two workers and end within minutes.

| Run | Instance | Shows |
|---|---|---|
| `war_requests` | 2 uploads of any of 10 requests (both sides of a war, another war of the same player, alike nicknames, every refusal), 1 rollback, failures anywhere | `TypeOK`, `SidesMatchWar`, `AllOrNothing`, `PerformancesAttributed`, `CountsCoverPerformances`, `CountsExactWithoutFailure`, `MainClassEarned`, `RollbackIsFinal`, `ImplementsLedger` |
| `war_two_rollbacks` | 2 uploads, 2 rollbacks | `ImplementsLedger` |
| `war_calls_end` | 2 uploads, 1 rollback, 2 connections | `EveryCallEnds` |
| `sessions_all` | 3 calls of any operation, 2 users, lifetime 1 tick | `TypeOK`, `LoggedOutIsNobody`, `AcceptedIsOwner`, `TtlCoversExpiry`, `IndexOfOwner`, `CleanupSparesLive`, `ImplementsStore` |
| `sessions_live` | 2 calls of any operation but `extend` | `EveryCallEnds` |
| `boards_all` | 2 uploads, 1 of them rolled back, 1 rebuild, 1 restart that Redis survives, 1 failing command | `ShownIsCurrent`, `BoardsNeverGoBack` |
| `boards_exact` | 3 uploads, one with more keys than a batch, 2 restarts that lose Redis too | `CountsMatchDatabase`, `EveryUploadShows` |
| `accounts_all` | 4 calls of any operation over 1 name and 2 addresses that are also names, failures anywhere | `AccountsUnique`, `CompaniesWhole`, `RefusalsHaveReason`, `SessionsOfTheirOwner`, `InformationForLeaders` |
| `queries_all` | 1 request of any of 13 over 3 wars, 1 of them rolled back; nicknames of 2 to 10 letters, pages of 2 | `DistanceCountsEdits`, `AlikeIsMutual`, `SearchMissesNobody`, `ProfileCoversRecents`, `StreakIsLongestRun`, `TotalIsKept`, `CompanyFiguresAddUp` |
| `boards_read` | 1 client; 2 uploads, 1 of them rolled back, 1 restart that loses Redis; 2 players, 2 classes, pages of 2, trending players 1 or 2 | `ReadTypeOK`, `FiguresNotOlderThanPlace`, `QuietWalkIsExact`, `RanksFollowPlaces`, `TrendingShowsBest` |

Two more runs are the counterexamples of section 7. The types of `Accounts`
and of `Leaderboard` are proved (`AccountsProofs.TypeCorrect`,
`LeaderboardProofs.BoardsTypeCorrect`).

Why these bounds are enough to be interesting. Two uploads and a rollback are
the smallest cast in which a check is stale when it is used, a row outlives its
reason, and two calls wait for each other. Two calls that attach the same side
to a war neither has created take a third upload: that race is left to the
proofs of `SidesMatchWar` and `ImplementsLedger`, which hold for any number. Two connections
make the pool scarce (an upload in its transaction needs a second one), four
make it plentiful. Three session calls are a login, a user of the session and
one that deletes, extends or cleans it. A lifetime of one tick has the three
ages that matter: alive, in its last instant, expired. Two sorted sets stand
for six (a reset visits one after the other), batches of two keys for batches
of twenty. `MaxCrashes` and `MaxLosses` bound restarts and failing commands;
both are in guards and named. Four calls on accounts are two that write, one
that logs in and one that comes with its token, so that an address can change
hands between a login and the use of its token. The nicknames of `queries_all`
have every length at which a threshold changes, with letters that normalisation
changes, drops or drops altogether; its three wars bring wins, losses, both roles
and equal times to one player, and a list of more than one page. One reader is
enough, since readers do not disturb each other. In `boards_read` the second war
changes the order of the first one's players, so that every read may find
another order than the one before it, and asks for one trending player as well as
two, so that somebody is left out. Symmetry is used only in runs without liveness
properties, over calls and users the instance treats alike. Deadlock is checked
everywhere: `AllEnded` and `AtRest` are the states in which the system has
nothing to do, and sessions always tick.

## 5. Fairness

* `WarIngest`: weak fairness of the steps of a call that has arrived (Node runs
  every continuation, PostgreSQL answers) and of `TxTimeout` (Prisma starts a
  five-second timer with every interactive transaction, and it fires). No
  fairness of arrivals or of `Interrupt`.
* `RedisSessions`: weak fairness of `Tick` (time passes) and of the steps of a
  call that has arrived. None of arrivals or of `Halt`.
* `Leaderboard`: weak fairness of `Background`, the event loop and Redis as a
  whole: one step is always taken while there is one. No fairness between jobs
  is assumed: the queues are first in, first out, and every job ends. None of
  requests, failures or restarts.
* `Accounts`, `PlayerQueries`, `BoardReads`: none; their properties are all
  safety.

## 6. Proofs

`WarIngestProofs` proves for every number of calls, companies, nicknames,
requests and connections

* `TypeCorrect`: `Spec => []TypeOK`;
* `SidesAlwaysMatch`: `Spec => []SidesMatchWar`;
* `RollbackStaysFinal`: `Spec => []RollbackIsFinal`;
* `EndpointsImplementLedger`: `Spec => ImplementsLedger`.

`SidesMatchWar` is not inductive: a commit adds a side because checks made long
before said it could. `LedgerInv` adds what has stayed true of them: an upload
in its transaction has passed the checks (`PhasesInv`), a war is stored once,
by the upload that names it (`WarsInv`), an upload's target is a war whose role
it plays, or one that is gone for good (`TargetsInv`), and while a transaction
is open its locks keep the war there and the role free, and keep out a second
transaction for the same role, from its first insert on (`Stored`, `LocksInv`).
Because a war's name is never
reused, the same invariant gives `RollbackIsFinal`. The assumptions are those of `WarState`: requests are well-formed, calls have
different names, nicknames are alike to themselves and symmetrically.

`ImplementsLedger` needs one more invariant, `JobsInv`: a call whose job is queued
is done. `LedgerInv` gives what the guards of `Register`, `Join` and `Cancel` ask
for at the moment of a commit, and every other step of a call is shown to leave
the ledger as it is or to queue its job (`UploadMoves`, `RollbackMoves`).

`WarTablesProofs` proves `StoredAllOrNothing` (`AllOrNothing`),
`AttributedToThePresent` (`PerformancesAttributed`), `CountsAlwaysCover`
(`CountsCoverPerformances`), `CountsAreExact` (`CountsExactWithoutFailure`) and
`MainClassesAreEarned` (`MainClassEarned`) from `TablesInv`. It adds to
`LedgerInv` what the statements before a commit have left behind. A player is
stored by one statement and never comes back (`BornInv`), so that what an
upload has resolved is either still there with its profile or gone for good
(`ResolvedInv`), and is held by its transaction once that has written a row of
it. The counts are compared not with the committed rows but with those and the
rows of the uploads that have counted and not yet committed (`CoverInv`, and
`ExactInv` as long as nobody has failed or deleted anything): a commit then
moves rows from one part to the other, and changes no sum. Classes are appended
player by player, so `CoverInv` says of an upload inside that loop that the
classes of each of its rows are there or their player is still to come
(`Appended`). The class an upload
is about to write has been counted, or its player has gone since (`TopInv`).

`RedisSessionsProofs` proves `TypeCorrect`, `LogoutIsFinal`
(`LoggedOutIsNobody`), `AcceptedAsOwner` (`AcceptedIsOwner`),
`SessionsLiveTheirTime` (`TtlCoversExpiry`) and `IndexesOfOwners`
(`IndexOfOwner`) for any number of calls and users and any lifetime, from
`SessionInv`: calls keep to their course and present tokens that were issued
(`OnCourse`), a hash that names a user is the one its login stored
(`NamedInv`), a call that has read a session holds its user or read it without
one (`HoldsOwner`), nobody stores a logged-out hash's user again
(`HasLoggedOut`), and from its first EXPIRE a named hash has a TTL (`TtlInv`).

The same module proves `CleanupsSpareLive` (`CleanupSparesLive`) and
`SessionsImplementStore` (`ImplementsStore`). What a call reads and what it
deletes are commands apart, and `SessionInv` says nothing of what it has read.
`LinkInv` does: a hash exists only of a login that has stored it (`HashesInv`);
until the login has set the TTL there is none (`FirstInv`); an index lists
sessions that have been entered, at the expiry their hashes have (`ListedInv`);
and a call that is about to delete has chosen sessions of its user, or sessions
that have expired (`ChosenInv`). Whatever compares expiries is said of sessions
no extension has arrived for, because only `extendSession` revives one. Every
step but the two writes of a login and the clock is shown once to keep all of
this for the others (`OthersLinked`), and what it chooses itself by one step per
command (`ItselfLinked`). A hash that stops naming a user is then one `Doomed`
names, and a hash names a user anew only as it is issued.

`AccountsProofs` proves `TypeCorrect`, `NoTwoAlike` (`AccountsUnique`),
`NoCompanyAlone` (`CompaniesWhole`), `NobodyRefusedForNothing`
(`RefusalsHaveReason`), `TokensOfOwners` (`SessionsOfTheirOwner`) and
`LeadersOnly` (`InformationForLeaders`) for any number of calls, names,
addresses and requests, from `AccountInv`: a user is the row its call has
inserted, once (`RowsInv`); an open transaction's leader has a name nobody has
stored and no other open transaction uses (`LocksInv`); only a signup with an
address looks for it (`SignupsInv`); every address was stored by a signup or a
change that is done (`MailsInv`), so that a refusal can be blamed on a call;
companies carry the name of the call that made their leader (`LeadersInv`); and
what a call goes on with after a login or after the guard belongs to the owner
of the password (`OwnersInv`). It assumes that names and addresses differ, by
the @, and that requests are well-formed.

`LeaderboardProofs` proves `BoardsTypeCorrect`, `BoardsOnlyGrow`
(`BoardsNeverGoBack`), `SettledIsCurrent` (`ShownIsCurrent`) and
`EveryPerformanceCounted` (`CountsMatchDatabase`) for any number of uploads,
rollbacks, rebuilds, players, sorted sets and failing commands, and any size of
the batches. All of it rests on what stands in the line of commands, `LineInv`:
a job's commands are for keys it has under way, one each (`JobsInv`,
`CommandsInv`); it has one turn in the event loop until it begins (`TurnsInv`);
a rollback that has still to queue its reset has none, its war is deleted once it
comes to that, and a reset is begun once, for players that are gone (`ResetsInv`);
and of a player
who is not gone the figures grow from the sorted sets, over those about to be
shown in the order of the line, to the hash (`GrowsInv`). That a sorted set is
current where nobody is at work needs to be said of every moment: whatever a
sorted set shows that is not current, a command further down the line will
replace, and whatever that command shows that is not current, one behind it
(`FreshInv`). That every performance is counted once is split in two: each is
with one job, that of its upload or the recovery (`HoldersInv`), and a hash is
the sum of what the jobs have counted so far (`SumsInv`). Both properties are
about runs in which no command throws and Redis does not outlive a restart
(`Undamaged`); section 7 has what happens otherwise. `PlayedInvariant` says that
nothing is shown of who has not played, which the reads need.

`BoardReadsProofs` proves `ReadsTypeCorrect`, `FiguresFollowPlaces`
(`FiguresNotOlderThanPlace`), `WalkIsExact` (`QuietWalkIsExact`),
`BestKeepTheirRanks` (`RanksFollowPlaces`) and `TrendingIsBest`
(`TrendingShowsBest`) on top of these. `PlacesInv` says that the figures of a row
have only grown since its place was read; it needs `GrowsInv`, and that a reset
drops nobody who is not gone. `CalmInv` says that what a client has read is what
Redis and the database hold, as long as nothing else happens. What is left is
about sorting: the places on a sorted set are the numbers up to its size
(averages are compared by multiplying crosswise), the pages of a walk cut them
without gap, and a player's overall rank is the number of those before him.
`TrendingIsBest` is about who is shown and who is not: a player comes once, with
his best class, and whoever is better with some class than somebody shown is
shown before him; for the page of twice the limit that is cut down to the limit
drops nobody but doubles and the last.
`BestKeepTheirRanks` assumes that fewer than 999 players and classes are kept:
the code gives 999 to whoever it does not find.

`NicknamesProofs` proves what `levenshtein` computes for words of any length:
`DistanceIsMutual`, `DistanceZeroIsSame` and `DistanceIsLeastEdits`, that is
`CountsEdits`: it is zero only where the words are equal, an edit changes it by at
most one, and where it is not zero some edit lowers it. `EqualityIsMutual`, that
every nickname passes for itself and of two the first for the second as the
second for the first, is what `WarState` assumes of its relation `Alike`. The
table of the code is shown to exist and to be filled by its recurrence
(`DistanceIsInTable`); the last row and column do not depend on what lies behind
them (`EntryIsDistance`), so that the distance of two words is given by those of
the words without their last letters (`DistanceByLast`), and everything else
follows from there by induction over the sum of the lengths. The library's
induction theorems take an operator, which the provers cannot instantiate;
`FromZeroOn` and `FromBelow` say the same of a *set* of numbers, and follow from
the fact that the subsets of a finite set are well-founded.

`PlayerQueriesProofs` proves all properties of `PlayerQueries`. Two are about no
state and follow from `NicknamesProofs` (`DistanceIsRight`, `AlikeIsSymmetric`),
one is about a set of rows (`StreakIsRight`: the groups the window functions make
are runs, and each run lies within a group). The others need to know that a request
goes through the queries of its kind (`StageInv`), that rows name stored wars and
players that are there (`LinkInv`), and that what was there when the request began
goes only with a rollback (`BeforeInv`). `SearchIsComplete`
(`SearchMissesNobody`): whoever matched before and has not been seen comes on the
next page or a later one (`PagesInv`), since players that are added only push others
back, and the last page ends where the list does. `ProfileIsCoherent`
(`ProfileCoversRecents`): the performances shown are still there (`ProfileInv`).
`TotalHolds` (`TotalIsKept`): the page has no fewer players than the total, read by
the query before it, promises, and more only if a war was stored in between, as
long as none is rolled back. The two queries are defined apart, as in the code,
and a lemma says that of the same tables one counts whom the other lists
(`CountIsOfQualified`); `TotalInv` says that players only come to qualify, and
that those an upload adds do not before it stores its war
(`NewcomersDoNotQualify`). `CompanyIsRight` (`CompanyFiguresAddUp`): a war that is still stored
has been shown as one the company attacked or defended in (`CompanyInv`). It
assumes a finite set of nicknames, in the order the database sorts them, and that
no player is null.

Only model-checked: the liveness properties, `EveryCallEnds` of the wars and of
the sessions and `EveryUploadShows` of the leaderboards. The prover has no
fairness and no ENABLED.

## 7. Where the code does not do what it says

Each is a run that TLC finds violated; `PROJECT.json` ("findings") quotes the
line of the repository that says so.

| Run, property | What happens |
|---|---|
| `war_slot_twice` `OneWarPerSlot` | two uploads for one slot both find no war and both create one |
| `war_rollback_spares` `RollbackSparesOtherWars` | rolling back one war takes the players' names off their performances in others |

Other surprises met on the way, which the models follow where they cover the
code and no run is about:

* `winner` ignores which side uploads (`war.repository.ts:203`);
* the update of an upload that is rolled back at once is queued after the reset
  of its rollback and shows the removed players again (`war.service.ts:60`,
  `:84`); a reset and an update also interleave command by command
  (`leaderboard.service.ts:535`);
* a reset names the classes of one war, a deleted player's other classes stay
  (`war.service.ts:79`);
* after a restart any surviving leaderboard keeps lost updates from being
  recovered (`leaderboard.service.ts:29`);
* a rebuild keeps the hashes and counts everything twice
  (`statistics.controller.ts:42`, `leaderboard.service.ts:490`), and shows
  performances without a player as an entry of their own
  (`leaderboard.service.ts:568`);
* cleaning up deletes a session that was extended meanwhile
  (`redis-session.service.ts:192`); reading an expired session whose hash has no
  TTL goes round for ever, since reading and deleting call each other
  (`redis-session.service.ts:84`);
* a login wipes the user's index: `getUserSessions` and `deleteAllUserSessions`
  miss the sessions of earlier logins (`redis-session.service.ts:60`, `:159`,
  `:229`);
* the guard's activity update stores a session again that has been deleted
  since it was read, without user and without TTL (`redis-session.service.ts:107`);
* a login that fails between its HSET and its EXPIRE leaves a session without a
  TTL and without an index, which nobody was given and no clean-up lists
  (`redis-session.service.ts:44`);
* nicknames without a letter a-z or digit are all the empty word once normalised
  and pass for one another: two players with such names in one war are one
  (`nicknames.ts:49`);
* the companies' wars are listed attacks first, whatever their dates, so
  `lastUpload` is not that of "the most recent war" and the five recent wars are
  not the last (`company.repository.ts:88`, `:94`, `:111`;
  `company-information.dto.ts:39`); the wars a company won contradict the `win`
  of its players when the defender uploads (`war.repository.ts:203`); nothing
  sets `PlayerProfile.companyId`, so `membersCount` is 0;
* total and pages of the win-rate leaderboard are those of the one page that was
  filtered, so that a client is never told of a second one
  (`statistics.service.ts:203`); trending players may be fewer than four if they
  have more than two classes (`:46`), and are ordered by win rate but shown with
  the rank of their average score (`:73`);
* a leaderboard of a world or class is read from a key nothing writes
  (`leaderboard.service.ts:342`);
* after a rollback a rebuild puts `player:null` on the boards, and every page that
  shows it fails in `findPlayerById`;
* a reset that fails half-way leaves deleted players on some boards
  (`leaderboard.service.ts:542`);
* the profile is read as if a player had several, so views and likes are always 0
  (`statistics.service.ts:67`, `player.repository.ts:149`); the opponent of a
  player's war is looked for by comparing a company's id with the player's, so it
  is always the attacker (`player.service.ts:52`); players with as many wins and
  as long a streak have no order among them, so that pages may overlap
  (`player.repository.ts:579`);
* who loses a race for a name or an address gets 500 where a check would have
  answered 409 (`auth.service.ts:83`, `http-exception.filter.ts:21`);
* a username with an @ in it is looked for among the addresses, so its owner
  cannot log in with it (`auth.service.ts:23`).

## 8. What is not modelled

* The recent wars and top performers of the home page (`getRecentWars`): one query
  and a sort of its rows.
* The class statistics (`getPlayerClassStats`,
  `findPerformancesWithWarByPlayerClass`), which no route reaches and which look
  up a normalised nickname among raw ones, and the SQL leaderboards of
  `player.repository.ts` (261-489, 615-835), which nothing calls since the boards
  are in Redis.
* `UserRepository.updatePassword`, `CompanyRepository.createCompany` and
  `WarRepository.deleteWar`: no code calls them.
* `updatePlayerStats`, `executeInBackgroundWithDelay`,
  `executeMultipleInBackground`, the extension's `create` hook: no code calls
  them.
* The scores, which `resolvePerformances` draws at random twice, so that Redis
  and the database differ in them from the start; the other sums behave as
  `wins` does.
* The second side of a war in `Leaderboard`, the statements between the commit
  and the queueing in its `Announce`, the world and class a request of
  `BoardReads` selects, and the EXISTS of a login in `RedisSessions` (section 3).
* Health, logging, error formats, configuration, the rate limiter, DTO
  validation: no state the properties speak of.

--------------------------- MODULE RedisSessions ---------------------------
(***************************************************************************)
(* Login sessions in Redis: RedisSessionService and its callers            *)
(* SessionAuthGuard and AuthService, one action per awaited Redis command. *)
(* A session is a hash with a TTL, and an entry of its user's index, a     *)
(* sorted set scored by expiry with a TTL of its own.                      *)
(*                                                                         *)
(* createSession draws 256 random bits for an id: here a session is named  *)
(* by the call that creates it. Times are counted down: a deadline d means *)
(* "d ticks from now", and -1 "in the past", so that time has no bound.    *)
(***************************************************************************)
EXTENDS Integers, FiniteSets

CONSTANTS
    Calls,   \* requests served concurrently
    User,    \* ids of users
    Life,    \* lifetime of a session in ticks (24 hours)
    Ops,     \* the operations each of them may be
    NoUser, Absent, Unset

Operations == {"login", "guard", "validate", "logout", "extend", "list",
               "deleteAll", "cleanup", "clear"}
Session == Calls
\* An id that is missing reads as undefined, and undefined has an index too.
Owner == User \cup {NoUser}
Time == -1..Life
HashRow == [user : Owner,                   \* userId
            expiry : Time \cup {Unset},     \* expiresAt
            ttl : (0..Life) \cup {Unset}]   \* Redis EXPIRE of the hash

ASSUME LifeAssumption == Life \in Nat \ {0}
ASSUME OpsAssumption == Ops \in [Calls -> SUBSET Operations]
ASSUME FreshAssumption ==
    NoUser \notin User /\ Absent \notin HashRow /\ Unset \notin Int

VARIABLES
    hash,      \* session:<id>
    index,     \* user_sessions:<id>: the score of each member
    indexTtl,  \* Redis EXPIRE of the index, Unset if it has none or is empty
    pc,        \* the command each call awaits next
    loc,       \* local variables of the calls
    halted     \* calls that threw or died with the process

vars == <<hash, index, indexTtl, pc, loc, halted>>
redis == <<hash, index, indexTtl>>

Pc == {"idle", "store", "keep", "probe", "wipe", "enlist", "prolong", "get",
       "touch", "renew", "del", "zrem", "range", "next", "drop", "dropindex",
       "scan", "score", "unlist", "keys", "userkeys", "flush", "done", "refused"}
Locals == [op : Operations, sid : Session, user : Owner, expiry : Time,
           purging : BOOLEAN,          \* inside the clean-up of an expired session
           ids : SUBSET Session, owners : SUBSET Owner]
Ended == {"done", "refused"}

TypeOK ==
    /\ hash \in [Session -> HashRow \cup {Absent}]
    /\ index \in [Owner -> [Session -> Time \cup {Unset}]]
    /\ indexTtl \in [Owner -> (0..(Life + 1)) \cup {Unset}]
    /\ pc \in [Calls -> Pc]
    /\ loc \in [Calls -> Locals]
    /\ halted \subseteq Calls

NoEntries == [s \in Session |-> Unset]

Init ==
    /\ hash = [s \in Session |-> Absent]
    /\ index = [u \in Owner |-> NoEntries]
    /\ indexTtl = [u \in Owner |-> Unset]
    /\ pc = [c \in Calls |-> "idle"]
    /\ loc = [c \in Calls |-> [op |-> "guard", sid |-> c, user |-> NoUser,
                               expiry |-> Life, purging |-> FALSE,
                               ids |-> {}, owners |-> {}]]
    /\ halted = {}

-----------------------------------------------------------------------------
Stored(s) == hash[s] # Absent
Named(s) == Stored(s) /\ hash[s].user # NoUser
\* expiresAt < Date.now(): false when the field is missing (NaN)
Expired(s) == Stored(s) /\ hash[s].expiry = -1
Alive(s) == Named(s) /\ ~Expired(s)
Listed(u) == {s \in Session : index[u][s] # Unset}

At(c, label) == pc[c] = label /\ c \notin halted
Goto(c, label) == pc' = [pc EXCEPT ![c] = label]

\* HSET creates the hash where there is none, without a TTL.
Row(s) == IF Stored(s) THEN hash[s]
          ELSE [user |-> NoUser, expiry |-> Unset, ttl |-> Unset]

\* A sorted set that loses its last member is removed, and its TTL with it.
SetIndex(u, entries) ==
    /\ index' = [index EXCEPT ![u] = entries]
    /\ indexTtl' = [indexTtl EXCEPT ![u] = IF entries = NoEntries THEN Unset ELSE @]

Del(ids) == hash' = [s \in Session |-> IF s \in ids THEN Absent ELSE hash[s]]
ZRem(u, ids) ==
    SetIndex(u, [s \in Session |-> IF s \in ids THEN Unset ELSE index[u][s]])

\* The token of a session is known to its client once login has answered.
Issued(s) == loc[s].op = "login" /\ pc[s] = "done"

-----------------------------------------------------------------------------
(* The calls arrive. *)

Arrive(c, op, label, sid, user) ==
    /\ pc[c] = "idle" /\ op \in Ops[c]
    /\ Goto(c, label)
    /\ loc' = [loc EXCEPT ![c] = [op |-> op, sid |-> sid, user |-> user,
                                  expiry |-> Life, purging |-> FALSE,
                                  ids |-> {}, owners |-> {}]]
    /\ UNCHANGED <<redis, halted>>

\* (slip) an id is drawn that another session may have
LoginReusingIds(c) ==
    \E u \in User, s \in Session : Arrive(c, "login", "store", s, u)
\* createSession computes expiresAt; no hash has the id it has drawn.
Login(c) == \E u \in User : Arrive(c, "login", "store", c, u)
WithToken(c) ==
    \E s \in Session, op \in {"guard", "validate", "logout", "extend"} :
        Issued(s) /\ Arrive(c, op, "get", s, NoUser)
ForUser(c) ==
    \E u \in User, op \in {"list", "deleteAll"} : Arrive(c, op, "range", c, u)
Cleanup(c) == Arrive(c, "cleanup", "scan", c, NoUser)
Clear(c) == Arrive(c, "clear", "keys", c, NoUser)

-----------------------------------------------------------------------------
(* createSession *)

Store(c) ==
    /\ At(c, "store")
    /\ hash' = [hash EXCEPT ![loc[c].sid] =
                    [Row(loc[c].sid) EXCEPT !.user = loc[c].user,
                                            !.expiry = loc[c].expiry]]
    /\ Goto(c, "keep")
    /\ UNCHANGED <<index, indexTtl, loc, halted>>

\* (slip) EXPIRE is left out for the session of a login
KeepOnExtend(s, op) ==
    hash' = [hash EXCEPT ![s] = IF @ = Absent \/ op = "login" THEN @
                                ELSE [@ EXCEPT !.ttl = Life]]
\* (slip) the session is given the extra hour of the index
SetTtlOfIndex(s, op) ==
    hash' = [hash EXCEPT ![s] = IF @ = Absent THEN @ ELSE [@ EXCEPT !.ttl = Life + 1]]
\* EXPIRE on a key that is not there does nothing.
SetTtl(s, op) ==
    hash' = [hash EXCEPT ![s] = IF @ = Absent THEN @ ELSE [@ EXCEPT !.ttl = Life]]

\* EXPIRE of the hash, in createSession and in extendSession
Keep(c) ==
    /\ At(c, "keep")
    /\ SetTtl(loc[c].sid, loc[c].op)
    /\ Goto(c, IF loc[c].op = "login" THEN "probe" ELSE "enlist")
    /\ UNCHANGED <<index, indexTtl, loc, halted>>

\* cleanupConflictingKey: an index that exists is wiped, and one whose EXISTS failed.
Probe(c) ==
    /\ At(c, "probe")
    /\ \/ Goto(c, "wipe")
       \/ Listed(loc[c].user) = {} /\ Goto(c, "enlist")
    /\ UNCHANGED <<redis, loc, halted>>

\* An error of the DEL is logged and ignored.
Wipe(c) ==
    /\ At(c, "wipe")
    /\ SetIndex(loc[c].user, NoEntries) \/ UNCHANGED <<index, indexTtl>>
    /\ Goto(c, "enlist")
    /\ UNCHANGED <<hash, loc, halted>>

\* ZADD: the key keeps the TTL it has.
Enlist(c) ==
    /\ At(c, "enlist")
    /\ SetIndex(loc[c].user, [index[loc[c].user] EXCEPT ![loc[c].sid] = loc[c].expiry])
    /\ Goto(c, "prolong")
    /\ UNCHANGED <<hash, loc, halted>>

\* The index may live an hour longer than the session.
Prolong(c) ==
    /\ At(c, "prolong")
    /\ indexTtl' = [indexTtl EXCEPT ![loc[c].user] =
                        IF Listed(loc[c].user) = {} THEN Unset ELSE Life + 1]
    /\ Goto(c, "done")
    /\ UNCHANGED <<hash, index, loc, halted>>

CreateSession(c) ==
    Login(c) \/ Store(c) \/ Keep(c) \/ Probe(c) \/ Wipe(c) \/ Enlist(c) \/ Prolong(c)

-----------------------------------------------------------------------------
(* getSessionById and deleteSession. A read that finds the session expired *)
(* calls deleteSession, which first reads the session with getSessionById: *)
(* the two go on calling each other until a read finds no hash, or one     *)
(* that an extension has revived, and that one deleteSession deletes.      *)

\* What the caller does with null
AfterNull(c) ==
    CASE loc[c].op = "logout" -> "done"
      [] loc[c].op = "list" -> "next"
      [] OTHER -> "refused"

\* What the caller does with the session; validateSession then looks the user
\* up, and the query throws for an id that is undefined.
AfterFound(op, user) ==
    CASE op = "guard" -> "touch"
      [] op = "extend" -> "renew"
      [] op = "list" -> "next"
      [] op = "logout" -> "del"
      [] OTHER -> IF user = NoUser THEN "refused" ELSE "done"

GetNothing(c) ==
    /\ At(c, "get") /\ ~Stored(loc[c].sid)
    /\ Goto(c, AfterNull(c))
    /\ UNCHANGED <<redis, loc, halted>>

GetExpired(c) ==
    /\ At(c, "get") /\ Expired(loc[c].sid)
    /\ loc' = [loc EXCEPT ![c].purging = TRUE]
    /\ UNCHANGED <<redis, pc, halted>>

\* extendSession computes the new expiry as soon as it has read the session.
GetFound(c) ==
    LET s == loc[c].sid
    IN  /\ At(c, "get") /\ Stored(s) /\ ~Expired(s)
        /\ Goto(c, IF loc[c].purging THEN "del" ELSE AfterFound(loc[c].op, hash[s].user))
        /\ loc' = [loc EXCEPT ![c].user = hash[s].user, ![c].expiry = Life]
        /\ UNCHANGED <<redis, halted>>

Delete(c) ==
    /\ At(c, "del")
    /\ Del({loc[c].sid})
    /\ Goto(c, "zrem")
    /\ UNCHANGED <<index, indexTtl, loc, halted>>

Unlist(c) ==
    /\ At(c, "zrem")
    /\ ZRem(loc[c].user, {loc[c].sid})
    /\ Goto(c, AfterNull(c))
    /\ UNCHANGED <<hash, loc, halted>>

\* (slip) the activity update writes back the session that was read
Rewrite(c) ==
    /\ At(c, "touch")
    /\ hash' = [hash EXCEPT ![loc[c].sid] = [Row(loc[c].sid) EXCEPT
                    !.user = loc[c].user, !.expiry = loc[c].expiry]]
    /\ Goto(c, "done")
    /\ UNCHANGED <<index, indexTtl, loc, halted>>

\* updateSessionActivity: HSET of lastActivity, after which the request goes on
\* as the user of the session that was read
Touch(c) ==
    /\ At(c, "touch")
    /\ hash' = [hash EXCEPT ![loc[c].sid] = Row(loc[c].sid)]
    /\ Goto(c, "done")
    /\ UNCHANGED <<index, indexTtl, loc, halted>>

\* extendSession: HSET of expiresAt
Renew(c) ==
    /\ At(c, "renew")
    /\ hash' = [hash EXCEPT ![loc[c].sid] =
                    [Row(loc[c].sid) EXCEPT !.expiry = loc[c].expiry]]
    /\ Goto(c, "keep")
    /\ UNCHANGED <<index, indexTtl, loc, halted>>

UseSession(c) ==
    \/ WithToken(c) \/ GetNothing(c) \/ GetExpired(c) \/ GetFound(c)
    \/ Delete(c) \/ Unlist(c) \/ Touch(c) \/ Renew(c)

-----------------------------------------------------------------------------
(* getUserSessions, deleteAllUserSessions, cleanupExpiredSessions and      *)
(* clearAllSessions                                                        *)

\* ZRANGE of the user's index
ReadIndex(c) ==
    /\ At(c, "range")
    /\ loc' = [loc EXCEPT ![c].ids = Listed(loc[c].user)]
    /\ Goto(c, IF loc[c].op = "list" THEN "next"
               ELSE IF Listed(loc[c].user) = {} THEN "done" ELSE "drop")
    /\ UNCHANGED <<redis, halted>>

\* getUserSessions reads the sessions one after the other.
NextSession(c) ==
    /\ At(c, "next")
    /\ \/ \E s \in loc[c].ids :
             /\ loc' = [loc EXCEPT ![c].sid = s, ![c].ids = @ \ {s},
                                   ![c].purging = FALSE]
             /\ Goto(c, "get")
       \/ loc[c].ids = {} /\ Goto(c, "done") /\ UNCHANGED loc
    /\ UNCHANGED <<redis, halted>>

\* KEYS user_sessions:*
Scan(c) ==
    /\ At(c, "scan")
    /\ loc' = [loc EXCEPT ![c].owners = {u \in Owner : Listed(u) # {}}]
    /\ Goto(c, "score")
    /\ UNCHANGED <<redis, halted>>

\* (slips) whatever is listed is cleaned up; a session is, in the last instant of
\* its life
OverdueOrNot(u) == Listed(u)
OverdueAt(u) == {s \in Listed(u) : index[u][s] =< 0}
\* session.score < now
Overdue(u) == {s \in Listed(u) : index[u][s] = -1}

\* ZRANGE WITHSCORES of the next index
Score(c) ==
    /\ At(c, "score")
    /\ \/ \E u \in loc[c].owners :
             /\ loc' = [loc EXCEPT ![c].owners = @ \ {u}, ![c].user = u,
                                   ![c].ids = Overdue(u)]
             /\ Goto(c, IF Overdue(u) = {} THEN "score" ELSE "drop")
       \/ loc[c].owners = {} /\ Goto(c, "done") /\ UNCHANGED loc
    /\ UNCHANGED <<redis, halted>>

\* MULTI: DEL of every session that was found
Drop(c) ==
    /\ At(c, "drop")
    /\ Del(loc[c].ids)
    /\ Goto(c, IF loc[c].op = "cleanup" THEN "unlist" ELSE "dropindex")
    /\ UNCHANGED <<index, indexTtl, loc, halted>>

DropIndex(c) ==
    /\ At(c, "dropindex")
    /\ SetIndex(loc[c].user, NoEntries)
    /\ Goto(c, "done")
    /\ UNCHANGED <<hash, loc, halted>>

\* The ZREMs are sent in one go and not awaited.
UnlistAll(c) ==
    /\ At(c, "unlist")
    /\ ZRem(loc[c].user, loc[c].ids)
    /\ Goto(c, "score")
    /\ UNCHANGED <<hash, loc, halted>>

\* KEYS session:*, then KEYS user_sessions:*, then one MULTI
SessionKeys(c) ==
    /\ At(c, "keys")
    /\ loc' = [loc EXCEPT ![c].ids = {s \in Session : Stored(s)}]
    /\ Goto(c, "userkeys")
    /\ UNCHANGED <<redis, halted>>
UserKeys(c) ==
    LET owners == {u \in Owner : Listed(u) # {}}
    IN  /\ At(c, "userkeys")
        /\ loc' = [loc EXCEPT ![c].owners = owners]
        /\ Goto(c, IF loc[c].ids = {} /\ owners = {} THEN "done" ELSE "flush")
        /\ UNCHANGED <<redis, halted>>
Flush(c) ==
    /\ At(c, "flush")
    /\ Del(loc[c].ids)
    /\ index' = [u \in Owner |-> IF u \in loc[c].owners THEN NoEntries ELSE index[u]]
    /\ indexTtl' = [u \in Owner |-> IF u \in loc[c].owners THEN Unset ELSE indexTtl[u]]
    /\ Goto(c, "done")
    /\ UNCHANGED <<loc, halted>>

Maintain(c) ==
    \/ ForUser(c) \/ Cleanup(c) \/ Clear(c) \/ ReadIndex(c) \/ NextSession(c) \/ Scan(c)
    \/ Score(c) \/ Drop(c) \/ DropIndex(c) \/ UnlistAll(c) \/ SessionKeys(c)
    \/ UserKeys(c) \/ Flush(c)

-----------------------------------------------------------------------------
(* Failures and time *)

\* A command throws, or the process dies: the call stays where it is.
Halt(c) ==
    /\ pc[c] \notin Ended \cup {"idle"} /\ c \notin halted
    /\ halted' = halted \cup {c}
    /\ UNCHANGED <<redis, pc, loc>>

Later(t) == IF t = Unset THEN Unset ELSE IF t = -1 THEN -1 ELSE t - 1

\* Time passes; Redis drops the keys whose TTL is over.
Tick ==
    /\ hash' = [s \in Session |->
                  IF ~Stored(s) \/ hash[s].ttl = 0 THEN Absent
                  ELSE [hash[s] EXCEPT !.expiry = Later(@), !.ttl = Later(@)]]
    /\ index' = [u \in Owner |->
                  IF indexTtl[u] = 0 THEN NoEntries
                  ELSE [s \in Session |-> Later(index[u][s])]]
    /\ indexTtl' = [u \in Owner |->
                      IF indexTtl[u] = 0 THEN Unset ELSE Later(indexTtl[u])]
    /\ loc' = [c \in Calls |-> [loc[c] EXCEPT !.expiry = Later(@)]]
    /\ UNCHANGED <<pc, halted>>

Step(c) == CreateSession(c) \/ UseSession(c) \/ Maintain(c)
Next == Tick \/ \E c \in Calls : Step(c) \/ Halt(c)
Spec == Init /\ [][Next]_vars

\* A request that has arrived is served on, and time passes; nothing obliges a
\* request to arrive.
Fairness ==
    /\ WF_vars(Tick)
    /\ \A c \in Calls : WF_vars(pc[c] # "idle" /\ Step(c))
FairSpec == Spec /\ Fairness

-----------------------------------------------------------------------------
(* Properties *)

\* A session that a logout has answered for is nobody's ever after: whatever
\* the requests in flight write back, the hash never names a user again.
LoggedOutIsNobody ==
    \A c \in Calls :
        loc[c].op = "logout" /\ pc[c] = "done" => ~Named(loc[c].sid)

\* A request the guard lets through runs as the user who logged in, or as
\* nobody (user undefined) once the session had been deleted.
AcceptedIsOwner ==
    \A c \in Calls :
        pc[c] = "done" /\ loc[c].op \in {"guard", "validate"} =>
            \/ loc[c].user = loc[loc[c].sid].user
            \/ loc[c].user = NoUser /\ ~Named(loc[c].sid)

\* Redis does not drop an issued session before its expiresAt, unless an
\* extension of it has written the new expiresAt and not yet the new TTL.
TtlCoversExpiry ==
    \A s \in Session :
        /\ Issued(s) /\ Named(s)
        /\ ~\E c \in Calls : pc[c] = "keep" /\ loc[c].sid = s
        => hash[s].ttl # Unset /\ hash[s].ttl >= hash[s].expiry

\* A user's index lists sessions of that user only: deleteAllUserSessions
\* never ends a session of another user.
IndexOfOwner ==
    \A u \in User : \A s \in Listed(u) : loc[s].op = "login" /\ loc[s].user = u

\* Clean-up, by a reader that has found the session expired or by
\* cleanupExpiredSessions, deletes no session that is alive, unless an extension
\* has overtaken it.
ToBeExtended(s) ==
    \E c \in Calls : loc[c].op = "extend" /\ pc[c] # "idle" /\ loc[c].sid = s
CleanupSparesLive ==
    [][\A c \in Calls, s \in Session :
          \/ /\ pc[c] = "del" /\ pc'[c] = "zrem"
             /\ loc[c].purging /\ s = loc[c].sid
          \/ pc[c] = "drop" /\ pc'[c] = "unlist" /\ s \in loc[c].ids
          => ~Alive(s) \/ ToBeExtended(s)]_vars

\* Every request is answered, although the read of an expired session goes
\* round in circles until Redis drops the hash.
EveryCallEnds ==
    \A c \in Calls : pc[c] # "idle" ~> pc[c] \in Ended \/ c \in halted

-----------------------------------------------------------------------------
(* The inductive invariant behind the safety properties                    *)

Reads == {"get", "del", "zrem", "refused"}
\* Where the calls of an operation can be
Course(op) ==
    CASE op = "login" -> {"store", "keep", "probe", "wipe", "enlist", "prolong", "done"}
      [] op = "guard" -> Reads \cup {"touch", "done"}
      [] op = "validate" -> Reads \cup {"done"}
      [] op = "logout" -> {"get", "del", "zrem", "done"}
      [] op = "extend" -> Reads \cup {"renew", "keep", "enlist", "prolong", "done"}
      [] op = "list" -> {"range", "next", "get", "del", "zrem", "done"}
      [] op = "deleteAll" -> {"range", "drop", "dropindex", "done"}
      [] op = "cleanup" -> {"scan", "score", "drop", "unlist", "done"}
      [] op = "clear" -> {"keys", "userkeys", "flush", "done"}

\* Calls keep to their course, a login creates the session it names, and a token
\* was issued before it is presented.
OnCourse(c) ==
    /\ \/ pc[c] = "idle" /\ loc[c].op # "login"
       \/ pc[c] \in Course(loc[c].op)
    /\ loc[c].op = "login" => loc[c].sid = c
    /\ loc[c].op \in {"guard", "validate", "logout", "extend"} /\ pc[c] # "idle"
       => Issued(loc[c].sid)

\* A hash that names a user is the one its login stored.
NamedInv ==
    \A s \in Session : Named(s) =>
        /\ loc[s].op = "login" /\ pc[s] # "store"
        /\ hash[s].user = loc[s].user /\ hash[s].expiry # Unset

\* A call that has read a session holds its user, or read it without one.
HoldsOwner(c) ==
    /\ loc[c].op \in {"guard", "validate", "extend"}
    /\ pc[c] \in {"touch", "renew", "keep", "enlist", "prolong", "done"}
    => \/ loc[c].user = loc[loc[c].sid].user
       \/ loc[c].user = NoUser /\ ~Named(loc[c].sid)

\* The logout has deleted the hash, and nobody has stored it again.
HasLoggedOut(c) ==
    loc[c].op = "logout" /\ pc[c] \in {"zrem", "done"} => ~Named(loc[c].sid)

CallsInv == \A c \in Calls : OnCourse(c) /\ HoldsOwner(c) /\ HasLoggedOut(c)

\* From its first EXPIRE on, a session that names a user has a TTL.
TtlInv ==
    \A s \in Session :
        /\ Named(s) /\ ~\E c \in Calls : pc[c] = "keep" /\ loc[c].sid = s
        => hash[s].ttl # Unset /\ hash[s].ttl >= hash[s].expiry

SessionInv == TypeOK /\ CallsInv /\ NamedInv /\ TtlInv /\ IndexOfOwner

-----------------------------------------------------------------------------
(* The Redis hashes implement the store of SessionStore.                   *)

\* A session may end in the last tick of its life and after it; because a logout,
\* the deletion of its user's sessions or of all sessions is under way; or because
\* an extension races with the end of the life it had: a clean-up has found the
\* session expired before, or Redis drops the hash before its new TTL is set (at
\* any time, if the extension was halted in between).
UnderWay(c) == pc[c] \notin Ended \cup {"idle"} /\ c \notin halted
CleansUp(c, s) ==
    \/ pc[c] = "del" /\ loc[c].purging /\ loc[c].sid = s
    \/ pc[c] = "drop" /\ loc[c].op = "cleanup" /\ s \in loc[c].ids
Ending(c, s) ==
    \/ /\ UnderWay(c)
       /\ \/ loc[c].op = "logout" /\ loc[c].sid = s
          \/ loc[c].op = "deleteAll" /\ loc[c].user = hash[s].user
          \/ loc[c].op = "clear"
          \/ CleansUp(c, s) /\ ToBeExtended(s)
    \/ loc[c].op = "extend" /\ pc[c] = "keep" /\ loc[c].sid = s
Doomed == {s \in Session : Named(s) /\ \/ hash[s].expiry =< 0
                                       \/ \E c \in Calls : Ending(c, s)}

Tokens == INSTANCE SessionStore WITH
    owner <- [s \in Session |-> IF Named(s) THEN hash[s].user ELSE NoUser],
    issued <- {s \in Session : loc[s].op = "login" /\ pc[s] \notin {"idle", "store"}},
    doomed <- Doomed

\* Whatever requests in flight write back, delete and clean up, and whenever
\* Redis drops a hash: a session names the user it was created for until it ends
\* for one of those reasons, and never again after.
ImplementsStore == Tokens!Spec
=============================================================================

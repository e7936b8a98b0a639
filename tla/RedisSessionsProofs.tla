------------------------ MODULE RedisSessionsProofs ------------------------
(***************************************************************************)
(* Theorems about RedisSessions, for any number of calls, users and ticks, *)
(* and that it implements SessionStore.                                    *)
(***************************************************************************)
EXTENDS RedisSessions, TLAPS

-----------------------------------------------------------------------------
(* Types *)

\* HSET and EXPIRE leave a row of the right type.
LEMMA RowType ==
    ASSUME TypeOK, NEW s \in Session
    PROVE  Row(s) \in HashRow
BY DEF TypeOK, Row, Stored, HashRow, Owner, Time

\* Writing one field of a row
LEMMA RowUpdate ==
    ASSUME NEW r \in HashRow, NEW u \in Owner, NEW e \in Time
    PROVE  /\ [r EXCEPT !.expiry = e] \in HashRow
           /\ [r EXCEPT !.user = u, !.expiry = e] \in HashRow
           /\ [r EXCEPT !.ttl = Life] \in HashRow
<1>1. Life \in 0..Life
  BY LifeAssumption
<1>2. QED
  BY <1>1 DEF HashRow

\* Every program counter a read can lead to is one of Pc.
LEMMA AfterType ==
    ASSUME TypeOK, NEW c \in Calls, NEW u \in Owner
    PROVE  /\ AfterNull(c) \in Pc \ {"idle", "keep", "store"}
           /\ AfterFound(loc[c].op, u) \in Pc \ {"idle", "keep", "store"}
BY DEF AfterNull, AfterFound, Pc

\* The updates of the local variables
LEMMA LocalsType ==
    ASSUME NEW l \in Locals, NEW s \in Session, NEW u \in Owner, NEW e \in Time,
           NEW ids \in SUBSET Session, NEW owners \in SUBSET Owner, NEW op \in Operations
    PROVE  /\ [l EXCEPT !.purging = TRUE] \in Locals
           /\ [l EXCEPT !.user = u, !.expiry = e] \in Locals
           /\ [l EXCEPT !.ids = ids] \in Locals
           /\ [l EXCEPT !.owners = owners] \in Locals
           /\ [l EXCEPT !.expiry = e] \in Locals
           /\ [l EXCEPT !.sid = s, !.ids = ids, !.purging = FALSE] \in Locals
           /\ [l EXCEPT !.owners = owners, !.user = u, !.ids = ids] \in Locals
           /\ [op |-> op, sid |-> s, user |-> u, expiry |-> e, purging |-> FALSE,
               ids |-> {}, owners |-> {}] \in Locals
BY DEF Locals

\* An index whose entries are times or Unset
LEMMA IndexType ==
    ASSUME TypeOK, NEW u \in Owner, NEW entries \in [Session -> Time \cup {Unset}],
           SetIndex(u, entries)
    PROVE  /\ index' \in [Owner -> [Session -> Time \cup {Unset}]]
           /\ indexTtl' \in [Owner -> (0..(Life + 1)) \cup {Unset}]
BY DEF TypeOK, SetIndex

LEMMA EntriesType ==
    ASSUME TypeOK, NEW u \in Owner, NEW ids, NEW s \in Session, NEW e \in Time
    PROVE  /\ NoEntries \in [Session -> Time \cup {Unset}]
           /\ [index[u] EXCEPT ![s] = e] \in [Session -> Time \cup {Unset}]
           /\ [t \in Session |-> IF t \in ids THEN Unset ELSE index[u][t]]
                \in [Session -> Time \cup {Unset}]
BY DEF TypeOK, NoEntries

LEMMA DelType ==
    ASSUME TypeOK, NEW ids, Del(ids)
    PROVE  hash' \in [Session -> HashRow \cup {Absent}]
BY DEF TypeOK, Del

\* Time keeps deadlines within their ranges.
LEMMA LaterType ==
    /\ \A t \in Time \cup {Unset} : Later(t) \in Time \cup {Unset}
    /\ \A t \in Time : Later(t) \in Time
    /\ \A t \in (1..(Life + 1)) \cup {Unset} : Later(t) \in (0..(Life + 1)) \cup {Unset}
    /\ \A t \in (1..Life) \cup {Unset} : Later(t) \in (0..Life) \cup {Unset}
BY FreshAssumption, LifeAssumption DEF Later, Time

LEMMA ArriveType ==
    ASSUME TypeOK, NEW c \in Calls, NEW op \in Operations, NEW label \in Pc,
           NEW s \in Session, NEW u \in Owner, Arrive(c, op, label, s, u)
    PROVE  TypeOK'
<1>1. Life \in Time
  BY LifeAssumption DEF Time
<1>2. [op |-> op, sid |-> s, user |-> u, expiry |-> Life, purging |-> FALSE,
       ids |-> {}, owners |-> {}] \in Locals
  BY <1>1, LocalsType DEF Locals
<1>3. QED
  BY <1>2 DEF TypeOK, Arrive, Goto, redis

LEMMA StepType ==
    ASSUME TypeOK, NEW c \in Calls, Step(c)
    PROVE  TypeOK'
<1>l. loc[c] \in Locals /\ loc[c].sid \in Session /\ loc[c].user \in Owner
      /\ loc[c].expiry \in Time /\ loc[c].ids \subseteq Session
      /\ loc[c].owners \subseteq Owner /\ loc[c].op \in Operations
  BY DEF TypeOK, Locals
<1>n. Life \in Time /\ Life \in Nat
  BY LifeAssumption DEF Time
<1>1. CASE Login(c)
  BY <1>1, ArriveType DEF Login, Session, Owner, Pc, Operations
<1>2. CASE Store(c)
  <2>1. [Row(loc[c].sid) EXCEPT !.user = loc[c].user, !.expiry = loc[c].expiry] \in HashRow
    BY <1>l, RowType, RowUpdate
  <2>2. QED
    BY <1>2, <1>l, <2>1 DEF TypeOK, Store, Goto, Pc
<1>3. CASE Keep(c)
  <2>1. ASSUME hash[loc[c].sid] # Absent
        PROVE  [hash[loc[c].sid] EXCEPT !.ttl = Life] \in HashRow
    BY <1>l, <1>n, <2>1, RowUpdate DEF TypeOK, Owner, Time
  <2>2. hash' \in [Session -> HashRow \cup {Absent}]
    BY <1>3, <1>l, <2>1 DEF TypeOK, Keep, SetTtl
  <2>3. QED
    BY <1>3, <2>2 DEF TypeOK, Keep, Goto, Pc
<1>4. CASE Probe(c)
  BY <1>4 DEF TypeOK, Probe, Goto, Pc, redis
<1>5. CASE Wipe(c)
  <2>1. /\ index' \in [Owner -> [Session -> Time \cup {Unset}]]
        /\ indexTtl' \in [Owner -> (0..(Life + 1)) \cup {Unset}]
    <3>1. CASE SetIndex(loc[c].user, NoEntries)
      BY <3>1, <1>l, <1>n, IndexType, EntriesType
    <3>2. CASE UNCHANGED <<index, indexTtl>>
      BY <3>2 DEF TypeOK
    <3>3. QED
      BY <1>5, <3>1, <3>2 DEF Wipe
  <2>2. QED
    BY <1>5, <2>1 DEF TypeOK, Wipe, Goto, Pc
<1>6. CASE Enlist(c)
  <2>1. SetIndex(loc[c].user, [index[loc[c].user] EXCEPT ![loc[c].sid] = loc[c].expiry])
    BY <1>6 DEF Enlist
  <2>2. /\ index' \in [Owner -> [Session -> Time \cup {Unset}]]
        /\ indexTtl' \in [Owner -> (0..(Life + 1)) \cup {Unset}]
    BY <2>1, <1>l, IndexType, EntriesType
  <2>3. QED
    BY <1>6, <2>2 DEF TypeOK, Enlist, Goto, Pc
<1>7. CASE Prolong(c)
  <2>1. Life + 1 \in 0..(Life + 1)
    BY <1>n
  <2>2. QED
    BY <1>7, <1>l, <2>1 DEF TypeOK, Prolong, Goto, Pc
<1>8. CASE WithToken(c)
  <2>1. PICK s \in Session, op \in {"guard", "validate", "logout", "extend"} :
            Arrive(c, op, "get", s, NoUser)
    BY <1>8 DEF WithToken
  <2>2. op \in Operations /\ "get" \in Pc /\ NoUser \in Owner
    BY DEF Operations, Pc, Owner
  <2>3. QED
    BY <2>1, <2>2, ArriveType
<1>9. CASE GetNothing(c)
  <2>1. AfterNull(c) \in Pc
    BY <1>l, AfterType
  <2>2. QED
    BY <1>9, <2>1 DEF TypeOK, GetNothing, Goto, redis
<1>10. CASE GetExpired(c)
  <2>1. [loc[c] EXCEPT !.purging = TRUE] \in Locals
    BY <1>l DEF Locals
  <2>2. QED
    BY <1>10, <2>1 DEF TypeOK, GetExpired, redis
<1>11. CASE GetFound(c)
  <2>1. hash[loc[c].sid].user \in Owner
    BY <1>11, <1>l DEF TypeOK, GetFound, Stored, HashRow
  <2>2. AfterFound(loc[c].op, hash[loc[c].sid].user) \in Pc /\ "del" \in Pc
    BY <2>1, AfterType DEF Pc
  <2>3. [loc[c] EXCEPT !.user = hash[loc[c].sid].user, !.expiry = Life] \in Locals
    BY <1>l, <1>n, <2>1 DEF Locals
  <2>4. /\ pc' = [pc EXCEPT ![c] = pc'[c]] /\ pc'[c] \in Pc
    BY <1>11, <2>2 DEF TypeOK, GetFound, Goto
  <2>5. loc' = [loc EXCEPT ![c] = [loc[c] EXCEPT !.user = hash[loc[c].sid].user,
                                                 !.expiry = Life]]
    BY <1>11 DEF TypeOK, GetFound
  <2>6. QED
    BY <1>11, <2>3, <2>4, <2>5 DEF TypeOK, GetFound, redis
<1>12. CASE Delete(c)
  <2>1. hash' \in [Session -> HashRow \cup {Absent}]
    BY <1>12, DelType DEF Delete
  <2>2. QED
    BY <1>12, <2>1 DEF TypeOK, Delete, Goto, Pc
<1>13. CASE Unlist(c)
  <2>1. /\ index' \in [Owner -> [Session -> Time \cup {Unset}]]
        /\ indexTtl' \in [Owner -> (0..(Life + 1)) \cup {Unset}]
    <3>1. [s \in Session |-> IF s \in {loc[c].sid} THEN Unset ELSE index[loc[c].user][s]]
            \in [Session -> Time \cup {Unset}]
      BY <1>l DEF TypeOK
    <3>2. QED
      BY <1>13, <1>l, <3>1, IndexType DEF Unlist, ZRem
  <2>2. AfterNull(c) \in Pc
    BY <1>l, AfterType
  <2>3. QED
    BY <1>13, <2>1, <2>2 DEF TypeOK, Unlist, Goto
<1>14. CASE Touch(c)
  <2>1. Row(loc[c].sid) \in HashRow
    BY <1>l, RowType
  <2>2. QED
    BY <1>14, <2>1 DEF TypeOK, Touch, Goto, Pc
<1>15. CASE Renew(c)
  <2>1. [Row(loc[c].sid) EXCEPT !.expiry = loc[c].expiry] \in HashRow
    BY <1>l, RowType, RowUpdate
  <2>2. QED
    BY <1>15, <2>1 DEF TypeOK, Renew, Goto, Pc
<1>16. CASE ForUser(c)
  <2>1. PICK u \in User, op \in {"list", "deleteAll"} : Arrive(c, op, "range", c, u)
    BY <1>16 DEF ForUser
  <2>2. op \in Operations /\ "range" \in Pc /\ u \in Owner /\ c \in Session
    BY DEF Operations, Pc, Owner, Session
  <2>3. QED
    BY <2>1, <2>2, ArriveType
<1>17. CASE Cleanup(c) \/ Clear(c)
  <2>1. "scan" \in Pc /\ "keys" \in Pc /\ NoUser \in Owner /\ c \in Session
        /\ "cleanup" \in Operations /\ "clear" \in Operations
    BY DEF Operations, Pc, Owner, Session
  <2>2. QED
    BY <1>17, <2>1, ArriveType DEF Cleanup, Clear
<1>18. CASE ReadIndex(c)
  <2>1. [loc[c] EXCEPT !.ids = Listed(loc[c].user)] \in Locals
    BY <1>l DEF Locals, Listed
  <2>2. QED
    BY <1>18, <2>1 DEF TypeOK, ReadIndex, Goto, Pc, redis
<1>19. CASE NextSession(c)
  <2>1. ASSUME NEW s \in loc[c].ids
        PROVE  [loc[c] EXCEPT !.sid = s, !.ids = @ \ {s}, !.purging = FALSE] \in Locals
    BY <1>l DEF Locals
  <2>2. QED
    BY <1>19, <2>1 DEF TypeOK, NextSession, Goto, Pc, redis
<1>20. CASE Scan(c)
  <2>1. [loc[c] EXCEPT !.owners = {u \in Owner : Listed(u) # {}}] \in Locals
    BY <1>l DEF Locals
  <2>2. QED
    BY <1>20, <2>1 DEF TypeOK, Scan, Goto, Pc, redis
<1>21. CASE Score(c)
  <2>1. ASSUME NEW u \in loc[c].owners
        PROVE  [loc[c] EXCEPT !.owners = @ \ {u}, !.user = u, !.ids = Overdue(u)]
                 \in Locals
    BY <1>l DEF Locals, Overdue, Listed
  <2>2. /\ loc' \in [Calls -> Locals]
        /\ pc' = [pc EXCEPT ![c] = "score"] \/ pc' = [pc EXCEPT ![c] = "drop"]
           \/ pc' = [pc EXCEPT ![c] = "done"]
    BY <1>21, <2>1 DEF TypeOK, Score, Goto
  <2>3. QED
    BY <1>21, <2>2 DEF TypeOK, Score, Pc, redis
<1>22. CASE Drop(c)
  <2>1. hash' \in [Session -> HashRow \cup {Absent}]
    BY <1>22, DelType DEF Drop
  <2>2. QED
    BY <1>22, <2>1 DEF TypeOK, Drop, Goto, Pc
<1>23. CASE DropIndex(c)
  <2>1. /\ index' \in [Owner -> [Session -> Time \cup {Unset}]]
        /\ indexTtl' \in [Owner -> (0..(Life + 1)) \cup {Unset}]
    BY <1>23, <1>l, <1>n, IndexType, EntriesType DEF DropIndex
  <2>2. QED
    BY <1>23, <2>1 DEF TypeOK, DropIndex, Goto, Pc
<1>24. CASE UnlistAll(c)
  <2>1. /\ index' \in [Owner -> [Session -> Time \cup {Unset}]]
        /\ indexTtl' \in [Owner -> (0..(Life + 1)) \cup {Unset}]
    <3>1. [s \in Session |-> IF s \in loc[c].ids THEN Unset ELSE index[loc[c].user][s]]
            \in [Session -> Time \cup {Unset}]
      BY <1>l DEF TypeOK
    <3>2. QED
      BY <1>24, <1>l, <3>1, IndexType DEF UnlistAll, ZRem
  <2>2. QED
    BY <1>24, <2>1 DEF TypeOK, UnlistAll, Goto, Pc
<1>25. CASE SessionKeys(c)
  <2>1. [loc[c] EXCEPT !.ids = {s \in Session : Stored(s)}] \in Locals
    BY <1>l DEF Locals
  <2>2. QED
    BY <1>25, <2>1 DEF TypeOK, SessionKeys, Goto, Pc, redis
<1>26. CASE UserKeys(c)
  <2>1. [loc[c] EXCEPT !.owners = {u \in Owner : Listed(u) # {}}] \in Locals
    BY <1>l DEF Locals
  <2>2. QED
    BY <1>26, <2>1 DEF TypeOK, UserKeys, Goto, Pc, redis
<1>27. CASE Flush(c)
  <2>1. hash' \in [Session -> HashRow \cup {Absent}]
    BY <1>27, DelType DEF Flush
  <2>2. NoEntries \in [Session -> Time \cup {Unset}]
    BY DEF NoEntries
  <2>3. QED
    BY <1>27, <2>1, <2>2 DEF TypeOK, Flush, Goto, Pc
<1>28. QED
  BY <1>1, <1>2, <1>3, <1>4, <1>5, <1>6, <1>7, <1>8, <1>9, <1>10, <1>11, <1>12, <1>13,
     <1>14, <1>15, <1>16, <1>17, <1>18, <1>19, <1>20, <1>21, <1>22, <1>23, <1>24,
     <1>25, <1>26, <1>27 DEF Step, CreateSession, UseSession, Maintain

LEMMA TickType ==
    ASSUME TypeOK, Tick
    PROVE  TypeOK'
<1>1. ASSUME NEW s \in Session, Stored(s), hash[s].ttl # 0
      PROVE  [hash[s] EXCEPT !.expiry = Later(@), !.ttl = Later(@)] \in HashRow
  <2>1. hash[s] \in HashRow /\ hash[s].expiry \in Time \cup {Unset}
        /\ hash[s].ttl \in (0..Life) \cup {Unset}
    BY <1>1 DEF TypeOK, Stored, HashRow
  <2>2. hash[s].ttl \in (1..Life) \cup {Unset}
    BY <1>1, <2>1, LifeAssumption
  <2>3. Later(hash[s].expiry) \in Time \cup {Unset}
        /\ Later(hash[s].ttl) \in (0..Life) \cup {Unset}
    BY <2>1, <2>2, LaterType
  <2>4. QED
    BY <2>1, <2>3 DEF HashRow
<1>2. hash' \in [Session -> HashRow \cup {Absent}]
  BY <1>1 DEF Tick
<1>3. index' \in [Owner -> [Session -> Time \cup {Unset}]]
  <2>1. ASSUME NEW u \in Owner
        PROVE  [s \in Session |-> Later(index[u][s])] \in [Session -> Time \cup {Unset}]
    BY LaterType DEF TypeOK
  <2>2. NoEntries \in [Session -> Time \cup {Unset}]
    BY DEF NoEntries
  <2>3. QED
    BY <2>1, <2>2 DEF Tick
<1>4. ASSUME NEW u \in Owner, indexTtl[u] # 0
      PROVE  Later(indexTtl[u]) \in (0..(Life + 1)) \cup {Unset}
  <2>1. indexTtl[u] \in (1..(Life + 1)) \cup {Unset}
    BY <1>4, LifeAssumption DEF TypeOK
  <2>2. QED
    BY <2>1, LaterType
<1>5. indexTtl' \in [Owner -> (0..(Life + 1)) \cup {Unset}]
  BY <1>4 DEF TypeOK, Tick
<1>6. ASSUME NEW c \in Calls
      PROVE  [loc[c] EXCEPT !.expiry = Later(@)] \in Locals
  <2>1. loc[c] \in Locals /\ loc[c].expiry \in Time
    BY DEF TypeOK, Locals
  <2>2. Later(loc[c].expiry) \in Time
    BY <2>1, LaterType
  <2>3. QED
    BY <2>1, <2>2 DEF Locals
<1>7. loc' \in [Calls -> Locals]
  BY <1>6 DEF Tick
<1>8. QED
  BY <1>2, <1>3, <1>5, <1>7 DEF TypeOK, Tick

\* Redis keys, program counters and local variables keep their types.
THEOREM TypeCorrect == Spec => []TypeOK
<1>1. Init => TypeOK
  BY LifeAssumption DEF Init, TypeOK, Locals, Operations, Session, Owner, Time, Pc, NoEntries
<1>2. TypeOK /\ [Next]_vars => TypeOK'
  <2>1. ASSUME TypeOK, NEW c \in Calls, Halt(c)
        PROVE  TypeOK'
    BY <2>1 DEF TypeOK, Halt, redis
  <2>2. ASSUME TypeOK, UNCHANGED vars
        PROVE  TypeOK'
    BY <2>2 DEF TypeOK, vars
  <2>3. QED
    BY <2>1, <2>2, StepType, TickType DEF Next
<1>3. QED
  BY <1>1, <1>2, PTL DEF Spec
-----------------------------------------------------------------------------
(* What a step of one call does to the others                              *)

\* It changes no program counter and no local variable of theirs.
Alone(c) == \A d \in Calls \ {c} : pc'[d] = pc[d] /\ loc'[d] = loc[d]

\* A login remains the login of its session and its user.
Steady(c) ==
    /\ Alone(c)
    /\ pc[c] # "done"
    /\ loc[c].op = "login" =>
          /\ loc'[c].op = "login" /\ loc'[c].sid = loc[c].sid
          /\ loc'[c].user = loc[c].user /\ pc'[c] # "store"

\* No hash that named no user names one.
NoNewNames ==
    \A s \in Session : Named(s)' =>
        /\ Named(s) /\ hash'[s].user = hash[s].user /\ hash'[s].expiry # Unset

\* A hash changes only as an extension begins, or to name nobody.
TtlStays(c) ==
    /\ pc[c] # "keep"
    /\ \A s \in Session :
          \/ hash'[s] = hash[s] \/ ~Named(s)'
          \/ pc'[c] = "keep" /\ loc'[c].sid = s

\* An index gains only sessions of its user.
IndexStays ==
    \A u \in User : \A s \in Session :
        index'[u][s] # Unset =>
            index[u][s] # Unset \/ (loc[s].op = "login" /\ loc[s].user = u)

LEMMA IssuedStays ==
    ASSUME TypeOK, TypeOK', CallsInv, NEW c \in Calls, Steady(c), NEW s \in Session, Issued(s)
    PROVE  Issued(s)' /\ s # c /\ loc'[s] = loc[s]
BY DEF Steady, Alone, Issued, Session

LEMMA OthersStay ==
    ASSUME SessionInv, TypeOK', NEW c \in Calls, Steady(c), NoNewNames,
           NEW d \in Calls \ {c}
    PROVE  OnCourse(d)' /\ HoldsOwner(d)' /\ HasLoggedOut(d)'
<1>1. pc'[d] = pc[d] /\ loc'[d] = loc[d]
  BY DEF Steady, Alone
<1>2. OnCourse(d) /\ HoldsOwner(d) /\ HasLoggedOut(d)
  BY DEF SessionInv, CallsInv
<1>3. PICK s \in Session : s = loc[d].sid /\ s = loc'[d].sid
  BY <1>1 DEF SessionInv, TypeOK, Locals
<1>4. Issued(s) => Issued(s)' /\ loc'[s] = loc[s]
  BY IssuedStays DEF SessionInv
<1>5. ~Named(s) => ~Named(s)'
  BY DEF NoNewNames
<1>6. OnCourse(d)'
  BY <1>1, <1>2, <1>3, <1>4 DEF OnCourse, Issued
<1>7. HoldsOwner(d)'
  <2>1. CASE pc[d] = "idle"
    BY <1>1, <2>1 DEF HoldsOwner
  <2>2. CASE pc[d] # "idle"
    BY <1>1, <1>2, <1>3, <1>4, <1>5, <2>2 DEF OnCourse, HoldsOwner, Named, Stored
  <2>3. QED
    BY <2>1, <2>2
<1>8. HasLoggedOut(d)'
  BY <1>1, <1>2, <1>3, <1>5 DEF HasLoggedOut, Named, Stored
<1>9. QED
  BY <1>6, <1>7, <1>8

LEMMA NamesStay ==
    ASSUME SessionInv, TypeOK', NEW c \in Calls, Steady(c), NoNewNames
    PROVE  NamedInv'
BY DEF SessionInv, NamedInv, Steady, Alone, NoNewNames, Session

LEMMA TtlsStay ==
    ASSUME SessionInv, TypeOK', NEW c \in Calls, Steady(c), TtlStays(c)
    PROVE  TtlInv'
<1> SUFFICES ASSUME NEW s \in Session, Named(s)',
                    ~\E d \in Calls : pc'[d] = "keep" /\ loc'[d].sid = s
             PROVE  hash'[s].ttl # Unset /\ hash'[s].ttl >= hash'[s].expiry
  BY DEF TtlInv
<1>1. hash'[s] = hash[s]
  BY DEF TtlStays
<1>2. ~\E d \in Calls : pc[d] = "keep" /\ loc[d].sid = s
  BY DEF TtlStays, Steady, Alone
<1>3. Named(s)
  BY <1>1 DEF Named, Stored
<1>4. QED
  BY <1>1, <1>2, <1>3 DEF SessionInv, TtlInv

LEMMA IndexesStay ==
    ASSUME SessionInv, TypeOK', NEW c \in Calls, Steady(c), IndexStays
    PROVE  IndexOfOwner'
BY DEF SessionInv, IndexOfOwner, IndexStays, Listed, Steady, Alone, Session
-----------------------------------------------------------------------------
(* Every step but Store, Keep and Tick leaves the sessions of the others   *)
(* alone.                                                                  *)

\* Which operations are at which command
LEMMA Courses ==
    ASSUME NEW op \in Operations
    PROVE  /\ "idle" \notin Course(op) /\ "done" \in Course(op)
           /\ \A l \in {"store", "probe", "wipe"} : l \in Course(op) <=> op = "login"
           /\ \A l \in {"keep", "enlist", "prolong"} :
                 l \in Course(op) <=> op \in {"login", "extend"}
           /\ \A l \in {"get", "del", "zrem"} : l \in Course(op)
                 <=> op \in {"guard", "validate", "logout", "extend", "list"}
           /\ "refused" \in Course(op) <=> op \in {"guard", "validate", "extend"}
           /\ "touch" \in Course(op) <=> op = "guard"
           /\ "renew" \in Course(op) <=> op = "extend"
           /\ "range" \in Course(op) <=> op \in {"list", "deleteAll"}
           /\ "next" \in Course(op) <=> op = "list"
           /\ "drop" \in Course(op) <=> op \in {"deleteAll", "cleanup"}
           /\ "dropindex" \in Course(op) <=> op = "deleteAll"
           /\ \A l \in {"scan", "score", "unlist"} : l \in Course(op) <=> op = "cleanup"
           /\ \A l \in {"keys", "userkeys", "flush"} : l \in Course(op) <=> op = "clear"
<1>1. CASE op = "login"
  BY <1>1 DEF Course
<1>2. CASE op = "guard"
  BY <1>2 DEF Course, Reads
<1>3. CASE op = "validate"
  BY <1>3 DEF Course, Reads
<1>4. CASE op = "logout"
  BY <1>4 DEF Course
<1>5. CASE op = "extend"
  BY <1>5 DEF Course, Reads
<1>6. CASE op = "list"
  BY <1>6 DEF Course
<1>7. CASE op = "deleteAll"
  BY <1>7 DEF Course
<1>8. CASE op = "cleanup"
  BY <1>8 DEF Course
<1>9. CASE op = "clear"
  BY <1>9 DEF Course
<1>10. QED
  BY <1>1, <1>2, <1>3, <1>4, <1>5, <1>6, <1>7, <1>8, <1>9 DEF Operations

\* What is left to show of such a step
Harmless(c) ==
    /\ Steady(c) /\ NoNewNames /\ TtlStays(c) /\ IndexStays
    /\ OnCourse(c)' /\ HoldsOwner(c)' /\ HasLoggedOut(c)'

LEMMA HarmlessStep ==
    ASSUME SessionInv, TypeOK', NEW c \in Calls, Harmless(c)
    PROVE  SessionInv'
BY OthersStay, NamesStay, TtlsStay, IndexesStay DEF SessionInv, CallsInv, Harmless

\* A step from one command of an operation to another of the same
Moves(c) ==
    /\ Alone(c)
    /\ pc[c] \notin {"idle", "done"} /\ pc'[c] # "store"
    /\ pc'[c] \in Course(loc[c].op) /\ loc'[c].op = loc[c].op
    /\ loc[c].op \in {"login", "guard", "validate", "logout", "extend"} =>
          loc'[c].sid = loc[c].sid
    /\ loc[c].op = "login" => loc'[c].user = loc[c].user

LEMMA MoveIsSteady ==
    ASSUME SessionInv, TypeOK', NEW c \in Calls, Moves(c)
    PROVE  Steady(c) /\ OnCourse(c)'
<1>1. TypeOK /\ CallsInv /\ OnCourse(c) /\ pc[c] # "idle"
  BY DEF SessionInv, CallsInv, Moves
<1>a. loc'[c].op = loc[c].op /\ pc'[c] \in Course(loc[c].op)
  BY DEF Moves
<1>b. pc'[c] \in Course(loc'[c].op) /\ (loc'[c].op = "login" => loc'[c].sid = c)
  BY <1>1, <1>a DEF Moves, OnCourse
<1>2. Steady(c)
  BY DEF Moves, Steady
<1>3. CASE loc[c].op \in {"guard", "validate", "logout", "extend"}
  <2>1. PICK s \in Session : s = loc[c].sid /\ s = loc'[c].sid
    BY <1>1, <1>3 DEF Moves, TypeOK, Locals
  <2>2. Issued(s)
    BY <1>1, <1>3, <2>1 DEF OnCourse, Issued
  <2>3. Issued(s)'
    BY <1>1, <1>2, <2>2, IssuedStays
  <2>4. QED
    BY <1>2, <1>b, <2>1, <2>3 DEF OnCourse, Issued
<1>4. CASE loc[c].op \notin {"guard", "validate", "logout", "extend"}
  BY <1>2, <1>4, <1>b DEF Moves, OnCourse
<1>5. QED
  BY <1>2, <1>3, <1>4

\* A step that writes to no hash, or to no index
LEMMA HashesStay ==
    ASSUME SessionInv, NEW c \in Calls, pc[c] # "keep", UNCHANGED hash
    PROVE  NoNewNames /\ TtlStays(c)
<1>1. \A s \in Session : hash'[s] = hash[s]
  OBVIOUS
<1>2. NoNewNames
  BY <1>1 DEF SessionInv, NamedInv, NoNewNames, Named, Stored
<1>3. TtlStays(c)
  BY <1>1 DEF TtlStays
<1>4. QED
  BY <1>2, <1>3

\* Deleting hashes and index entries
LEMMA DeletesStay ==
    ASSUME SessionInv, NEW c \in Calls, pc[c] # "keep", NEW ids, Del(ids)
    PROVE  NoNewNames /\ TtlStays(c)
<1>1. \A s \in Session : hash'[s] = hash[s] \/ hash'[s] = Absent
  BY DEF Del
<1>2. NoNewNames
  BY <1>1 DEF SessionInv, NamedInv, NoNewNames, Named, Stored
<1>3. TtlStays(c)
  BY <1>1 DEF TtlStays, Named, Stored
<1>4. QED
  BY <1>2, <1>3

LEMMA IndexShrinks ==
    ASSUME TypeOK, NEW u,
           NEW entries, \A s \in Session : entries[s] # Unset => index[u][s] # Unset,
           SetIndex(u, entries)
    PROVE  IndexStays
BY DEF SetIndex, IndexStays, TypeOK, Owner

LEMMA IndexUntouched ==
    ASSUME UNCHANGED index
    PROVE  IndexStays
BY DEF IndexStays

\* The steps of operations that hold no token owe nothing more.
LEMMA NoToken ==
    ASSUME NEW c \in Calls,
           loc'[c].op \notin {"guard", "validate", "logout", "extend"}
    PROVE  HoldsOwner(c)' /\ HasLoggedOut(c)'
BY DEF HoldsOwner, HasLoggedOut

\* The commands of getUserSessions, deleteAllUserSessions, cleanupExpiredSessions
\* and clearAllSessions
LEMMA MaintainHarmless ==
    ASSUME SessionInv, TypeOK', NEW c \in Calls,
           \/ ReadIndex(c) \/ NextSession(c) \/ Scan(c) \/ Score(c) \/ Drop(c)
           \/ DropIndex(c) \/ UnlistAll(c) \/ SessionKeys(c) \/ UserKeys(c) \/ Flush(c)
    PROVE  Harmless(c)
<1>0. /\ TypeOK /\ OnCourse(c) /\ loc[c].op \in Operations /\ pc[c] # "keep"
      /\ pc[c] \in Course(loc[c].op)
  BY DEF SessionInv, CallsInv, OnCourse, TypeOK, Locals, At, ReadIndex, NextSession, Scan,
         Score, Drop, DropIndex, UnlistAll, SessionKeys, UserKeys, Flush
<1>1. /\ loc[c].op \in {"list", "deleteAll", "cleanup", "clear"}
      /\ Moves(c)
  <2>1. CASE ReadIndex(c)
    BY <1>0, <2>1, Courses DEF ReadIndex, At, Goto, TypeOK, Moves, Alone
  <2>2. CASE NextSession(c)
    <3>1. pc[c] = "next"
      BY <2>2 DEF NextSession, At
    <3>2. loc[c].op = "list"
      BY <1>0, <3>1, Courses
    <3>3. PICK l \in {"get", "done"} : pc' = [pc EXCEPT ![c] = l]
      BY <2>2 DEF NextSession, Goto
    <3>4. pc'[c] \in Course(loc[c].op) /\ pc'[c] # "store"
      BY <1>0, <3>2, <3>3, Courses DEF TypeOK
    <3>5. CASE UNCHANGED loc
      BY <3>1, <3>2, <3>3, <3>4, <3>5 DEF Moves, Alone, TypeOK
    <3>6. ASSUME NEW s \in loc[c].ids,
                 loc' = [loc EXCEPT ![c].sid = s, ![c].ids = @ \ {s},
                                         ![c].purging = FALSE]
          PROVE  Moves(c)
      <4>1. Alone(c) /\ loc'[c].op = loc[c].op
        BY <1>0, <3>3, <3>6 DEF Alone, TypeOK, Locals
      <4>2. QED
        BY <3>1, <3>2, <3>4, <4>1 DEF Moves
    <3>7. QED
      BY <2>2, <3>2, <3>5, <3>6 DEF NextSession
  <2>3. CASE Scan(c)
    BY <1>0, <2>3, Courses DEF Scan, At, Goto, TypeOK, Moves, Alone
  <2>4. CASE Score(c)
    <3>1. pc[c] = "score"
      BY <2>4 DEF Score, At
    <3>2. loc[c].op = "cleanup"
      BY <1>0, <3>1, Courses
    <3>3. PICK l \in {"score", "drop", "done"} : pc' = [pc EXCEPT ![c] = l]
      BY <2>4 DEF Score, Goto
    <3>4. pc'[c] \in Course(loc[c].op) /\ pc'[c] # "store"
      BY <1>0, <3>2, <3>3, Courses DEF TypeOK
    <3>5. CASE UNCHANGED loc
      BY <3>1, <3>2, <3>3, <3>4, <3>5 DEF Moves, Alone, TypeOK
    <3>6. ASSUME NEW u \in loc[c].owners,
                 loc' = [loc EXCEPT ![c].owners = @ \ {u}, ![c].user = u,
                                         ![c].ids = Overdue(u)]
          PROVE  Moves(c)
      <4>1. Alone(c) /\ loc'[c].op = loc[c].op
        BY <1>0, <3>3, <3>6 DEF Alone, TypeOK, Locals
      <4>2. QED
        BY <3>1, <3>2, <3>4, <4>1 DEF Moves
    <3>7. QED
      BY <2>4, <3>2, <3>5, <3>6 DEF Score
  <2>5. CASE Drop(c)
    BY <1>0, <2>5, Courses DEF Drop, At, Goto, TypeOK, Moves, Alone
  <2>6. CASE DropIndex(c)
    BY <1>0, <2>6, Courses DEF DropIndex, At, Goto, TypeOK, Moves, Alone
  <2>7. CASE UnlistAll(c)
    BY <1>0, <2>7, Courses DEF UnlistAll, At, Goto, TypeOK, Moves, Alone
  <2>8. CASE SessionKeys(c)
    BY <1>0, <2>8, Courses DEF SessionKeys, At, Goto, TypeOK, Moves, Alone
  <2>9. CASE UserKeys(c)
    BY <1>0, <2>9, Courses DEF UserKeys, At, Goto, TypeOK, Moves, Alone
  <2>10. CASE Flush(c)
    BY <1>0, <2>10, Courses DEF Flush, At, Goto, TypeOK, Moves, Alone
  <2>11. QED
    BY <2>1, <2>2, <2>3, <2>4, <2>5, <2>6, <2>7, <2>8, <2>9, <2>10
<1>2. NoNewNames /\ TtlStays(c)
  <2>1. CASE Drop(c) \/ Flush(c)
    BY <2>1, <1>0, DeletesStay DEF Drop, Flush
  <2>2. CASE ~(Drop(c) \/ Flush(c))
    <3>1. UNCHANGED hash
      BY <2>2 DEF ReadIndex, NextSession, Scan, Score, DropIndex, UnlistAll, SessionKeys,
                  UserKeys, redis
    <3>2. QED
      BY <3>1, <1>0, HashesStay
  <2>3. QED
    BY <2>1, <2>2
<1>3. IndexStays
  <2>1. CASE DropIndex(c)
    <3>1. \A s \in Session : NoEntries[s] = Unset
      BY DEF NoEntries
    <3>2. QED
      BY <2>1, <3>1, <1>0, IndexShrinks DEF DropIndex
  <2>2. CASE UnlistAll(c)
    BY <2>2, <1>0, IndexShrinks DEF UnlistAll, ZRem
  <2>3. CASE Flush(c)
    BY <2>3, <1>0 DEF Flush, IndexStays, NoEntries, Owner, TypeOK
  <2>4. CASE ~(DropIndex(c) \/ UnlistAll(c) \/ Flush(c))
    BY <2>4, IndexUntouched DEF ReadIndex, NextSession, Scan, Score, Drop, SessionKeys,
                                UserKeys, redis
  <2>5. QED
    BY <2>1, <2>2, <2>3, <2>4
<1>4. HoldsOwner(c)' /\ HasLoggedOut(c)'
  <2>1. loc'[c].op = loc[c].op
    BY <1>1 DEF Moves
  <2>2. CASE loc[c].op \in {"list", "deleteAll", "cleanup", "clear"}
    BY <2>1, <2>2, NoToken
  <2>3. QED
    BY <1>1, <2>2
<1>5. QED
  BY <1>1, <1>2, <1>3, <1>4, MoveIsSteady DEF Harmless

LEMMA ArriveHarmless ==
    ASSUME SessionInv, TypeOK', NEW c \in Calls, NEW op \in Operations, NEW label \in Course(op),
           NEW s \in Session, NEW u \in Owner, Arrive(c, op, label, s, u),
           label \notin {"done", "zrem", "touch", "renew", "keep", "enlist", "prolong"},
           op = "login" => s = c,
           op \in {"guard", "validate", "logout", "extend"} => Issued(s)
    PROVE  Harmless(c)
<1>0. /\ TypeOK /\ CallsInv /\ OnCourse(c) /\ pc[c] = "idle" /\ loc[c].op # "login"
      /\ pc'[c] = label /\ loc'[c].op = op /\ loc'[c].sid = s /\ Alone(c)
  <2>1. TypeOK /\ CallsInv /\ OnCourse(c) /\ pc[c] = "idle" /\ loc[c].op \in Operations
    BY DEF SessionInv, CallsInv, Arrive, TypeOK, Locals
  <2>2. loc[c].op # "login"
    BY <2>1, Courses DEF OnCourse
  <2>3. QED
    BY <2>1, <2>2 DEF Arrive, Goto, Alone, TypeOK
<1>1. Steady(c)
  BY <1>0 DEF Steady
<1>2. NoNewNames /\ TtlStays(c) /\ IndexStays
  BY <1>0, HashesStay, IndexUntouched DEF Arrive, redis
<1>3. Issued(s) => Issued(s)'
  BY <1>0, <1>1, IssuedStays
<1>4. OnCourse(c)'
  BY <1>0, <1>3 DEF OnCourse, Issued
<1>5. HoldsOwner(c)' /\ HasLoggedOut(c)'
  BY <1>0 DEF HoldsOwner, HasLoggedOut
<1>6. QED
  BY <1>1, <1>2, <1>4, <1>5 DEF Harmless

LEMMA ArrivalsHarmless ==
    ASSUME SessionInv, TypeOK', NEW c \in Calls,
           Login(c) \/ WithToken(c) \/ ForUser(c) \/ Cleanup(c) \/ Clear(c)
    PROVE  Harmless(c)
<1>1. CASE Login(c)
  <2>1. "login" \in Operations /\ "store" \in Course("login") /\ c \in Session
    BY Courses DEF Operations, Session
  <2>2. PICK u \in User : Arrive(c, "login", "store", c, u)
    BY <1>1 DEF Login
  <2>3. QED
    BY <2>1, <2>2, ArriveHarmless DEF Owner
<1>2. CASE WithToken(c)
  <2>1. PICK s \in Session, op \in {"guard", "validate", "logout", "extend"} :
            Issued(s) /\ Arrive(c, op, "get", s, NoUser)
    BY <1>2 DEF WithToken
  <2>2. op \in Operations /\ NoUser \in Owner
    BY DEF Operations, Owner
  <2>3. "get" \in Course(op)
    BY <2>2, Courses
  <2>4. QED
    BY <2>1, <2>2, <2>3, ArriveHarmless
<1>3. CASE ForUser(c)
  <2>1. PICK u \in User, op \in {"list", "deleteAll"} : Arrive(c, op, "range", c, u)
    BY <1>3 DEF ForUser
  <2>2. op \in Operations /\ u \in Owner /\ c \in Session
    BY DEF Operations, Owner, Session
  <2>3. "range" \in Course(op)
    BY <2>2, Courses
  <2>4. QED
    BY <2>1, <2>2, <2>3, ArriveHarmless
<1>4. CASE Cleanup(c) \/ Clear(c)
  <2>1. /\ "cleanup" \in Operations /\ "clear" \in Operations
        /\ NoUser \in Owner /\ c \in Session
    BY DEF Operations, Owner, Session
  <2>2. "scan" \in Course("cleanup") /\ "keys" \in Course("clear")
    BY <2>1, Courses
  <2>3. QED
    BY <1>4, <2>1, <2>2, ArriveHarmless DEF Cleanup, Clear
<1>5. QED
  BY <1>1, <1>2, <1>3, <1>4

\* createSession up to its answer, and the end of extendSession
LEMMA CreateHarmless ==
    ASSUME SessionInv, TypeOK', NEW c \in Calls,
           Probe(c) \/ Wipe(c) \/ Enlist(c) \/ Prolong(c)
    PROVE  Harmless(c)
<1>0. /\ TypeOK /\ OnCourse(c) /\ HoldsOwner(c) /\ loc[c] \in Locals
      /\ loc[c].op \in Operations /\ loc[c].sid \in Session /\ loc[c].user \in Owner
      /\ UNCHANGED <<hash, loc>>
  BY DEF SessionInv, CallsInv, TypeOK, Locals, Probe, Wipe, Enlist, Prolong, redis
<1>a. PICK l \in {"probe", "wipe", "enlist", "prolong"}, m \in {"wipe", "enlist", "prolong", "done"} :
        /\ pc[c] = l /\ pc' = [pc EXCEPT ![c] = m]
        /\ l \in {"enlist", "prolong"} \/ m \in {"wipe", "enlist"}
        /\ l = "prolong" <=> m = "done"
        /\ l = "enlist" <=> m = "prolong"
  BY DEF Probe, Wipe, Enlist, Prolong, At, Goto
<1>b. pc[c] \in Course(loc[c].op)
  BY <1>0, <1>a DEF OnCourse
<1>c. loc[c].op \in {"login", "extend"} /\ (l \in {"probe", "wipe"} => loc[c].op = "login")
  BY <1>0, <1>a, <1>b, Courses
<1>1. Moves(c)
  <2>1. pc'[c] = m /\ m \in Course(loc[c].op)
    BY <1>0, <1>a, <1>c, Courses DEF TypeOK
  <2>2. QED
    BY <1>0, <1>a, <2>1 DEF Moves, Alone, TypeOK
<1>2. NoNewNames /\ TtlStays(c)
  BY <1>0, <1>a, HashesStay
<1>3. IndexStays
  <2>1. CASE UNCHANGED index
    BY <2>1, IndexUntouched
  <2>2. CASE SetIndex(loc[c].user, NoEntries)
    <3>1. \A s \in Session : NoEntries[s] = Unset
      BY DEF NoEntries
    <3>2. QED
      BY <2>2, <3>1, <1>0, IndexShrinks
  <2>3. CASE Enlist(c)
    <3>1. ASSUME NEW u \in User, NEW s \in Session, index'[u][s] # Unset
          PROVE  index[u][s] # Unset \/ (u = loc[c].user /\ s = loc[c].sid)
      BY <1>0, <2>3, <3>1 DEF Enlist, SetIndex, TypeOK, Owner
    <3>2. loc[c].op = "login" => loc[c].sid = c
      BY <1>0 DEF OnCourse
    <3>3. CASE loc[c].op = "login"
      BY <3>1, <3>2, <3>3 DEF IndexStays
    <3>4. CASE loc[c].op = "extend"
      <4>1. pc[c] = "enlist"
        BY <2>3 DEF Enlist, At
      <4>2. loc[loc[c].sid].op = "login"
        BY <1>0, <3>4, <4>1 DEF OnCourse, Issued
      <4>3. loc[c].user \in User => loc[c].user = loc[loc[c].sid].user
        BY <1>0, <3>4, <4>1, FreshAssumption DEF HoldsOwner
      <4>4. QED
        BY <3>1, <4>2, <4>3 DEF IndexStays
    <3>5. QED
      BY <1>c, <3>3, <3>4
  <2>4. QED
    BY <2>1, <2>2, <2>3 DEF Probe, Wipe, Prolong, redis
<1>4. HoldsOwner(c)' /\ HasLoggedOut(c)'
  <2>1. ASSUME loc[c].op = "extend"
        PROVE  pc[c] \in {"enlist", "prolong"}
    BY <1>a, <1>c, <2>1
  <2>2. HoldsOwner(c)'
    BY <1>0, <1>c, <2>1 DEF HoldsOwner, Named, Stored
  <2>3. HasLoggedOut(c)'
    BY <1>0, <1>c DEF HasLoggedOut
  <2>4. QED
    BY <2>2, <2>3
<1>5. QED
  BY <1>1, <1>2, <1>3, <1>4, MoveIsSteady DEF Harmless

\* getSessionById and deleteSession, without the writes of their callers
LEMMA ReadHarmless ==
    ASSUME SessionInv, TypeOK', NEW c \in Calls,
           GetNothing(c) \/ GetExpired(c) \/ GetFound(c) \/ Delete(c) \/ Unlist(c)
    PROVE  Harmless(c)
<1>0. /\ TypeOK /\ NamedInv /\ OnCourse(c) /\ HoldsOwner(c) /\ HasLoggedOut(c)
      /\ loc[c] \in Locals
      /\ loc[c].op \in Operations /\ loc[c].sid \in Session /\ loc[c].user \in Owner
      /\ pc[c] \in {"get", "del", "zrem"}
  BY DEF SessionInv, CallsInv, TypeOK, Locals, GetNothing, GetExpired, GetFound, Delete,
         Unlist, At
<1>a. loc[c].op \in {"guard", "validate", "logout", "extend", "list"}
  <2>1. pc[c] \in Course(loc[c].op)
    BY <1>0 DEF OnCourse
  <2>2. QED
    BY <1>0, <2>1, Courses
<1>b. /\ AfterNull(c) \in Course(loc[c].op)
      /\ AfterNull(c) \in {"done", "next", "refused"}
      /\ AfterNull(c) = "done" => loc[c].op = "logout"
  BY <1>0, <1>a, Courses DEF AfterNull
<1>c. ASSUME NEW u \in Owner
      PROVE  /\ AfterFound(loc[c].op, u) \in Course(loc[c].op)
             /\ AfterFound(loc[c].op, u) \in {"touch", "renew", "next", "del", "done", "refused"}
             /\ loc[c].op = "logout" => AfterFound(loc[c].op, u) = "del"
  BY <1>0, <1>a, Courses DEF AfterFound
<1>d. Alone(c) /\ loc'[c].op = loc[c].op /\ loc'[c].sid = loc[c].sid
  BY <1>0 DEF Alone, TypeOK, Locals, GetNothing, GetExpired, GetFound, Delete, Unlist, Goto
<1>e. GetFound(c) => hash[loc[c].sid].user \in Owner
  BY <1>0 DEF GetFound, Stored, TypeOK, HashRow
<1>1. Moves(c)
  <2>1. pc'[c] \in Course(loc[c].op) /\ pc'[c] # "store"
    <3>1. CASE GetNothing(c) \/ Unlist(c)
      BY <1>0, <1>b, <3>1 DEF GetNothing, Unlist, Goto, TypeOK
    <3>2. CASE GetExpired(c)
      BY <1>0, <3>2 DEF GetExpired, OnCourse
    <3>3. CASE GetFound(c)
      <4>1. "del" \in Course(loc[c].op)
        BY <1>0, <1>a, Courses
      <4>2. QED
        BY <1>0, <1>c, <1>e, <3>3, <4>1 DEF GetFound, Goto, TypeOK
    <3>4. CASE Delete(c)
      <4>1. "zrem" \in Course(loc[c].op)
        BY <1>0, <1>a, Courses
      <4>2. QED
        BY <1>0, <3>4, <4>1 DEF Delete, Goto, TypeOK
    <3>5. QED
      BY <3>1, <3>2, <3>3, <3>4
  <2>2. QED
    BY <1>0, <1>a, <1>d, <2>1 DEF Moves
<1>2. NoNewNames /\ TtlStays(c)
  <2>1. CASE Delete(c)
    BY <2>1, <1>0, DeletesStay DEF Delete
  <2>2. CASE ~Delete(c)
    <3>1. UNCHANGED hash
      BY <2>2 DEF GetNothing, GetExpired, GetFound, Unlist, redis
    <3>2. QED
      BY <3>1, <1>0, HashesStay
  <2>3. QED
    BY <2>1, <2>2
<1>3. IndexStays
  <2>1. CASE Unlist(c)
    BY <2>1, <1>0, IndexShrinks DEF Unlist, ZRem
  <2>2. CASE ~Unlist(c)
    BY <2>2, IndexUntouched DEF GetNothing, GetExpired, GetFound, Delete, redis
  <2>3. QED
    BY <2>1, <2>2
<1>4. HoldsOwner(c)'
  <2>1. CASE GetFound(c)
    <3>1. PICK s \in Session : s = loc[c].sid /\ s = loc'[c].sid
      BY <1>0, <1>d
    <3>2. loc'[c].user = hash[s].user /\ hash' = hash
      BY <1>0, <2>1, <3>1 DEF GetFound, TypeOK, Locals, redis
    <3>3. CASE Named(s)
      <4>1. hash[s].user = loc[s].user
        BY <1>0, <3>3 DEF NamedInv
      <4>2. s # c => loc'[s] = loc[s]
        BY <1>d DEF Alone, Session
      <4>3. QED
        BY <3>1, <3>2, <4>1, <4>2 DEF HoldsOwner
    <3>4. CASE ~Named(s)
      BY <2>1, <3>1, <3>2, <3>4 DEF HoldsOwner, Named, Stored, GetFound
    <3>5. QED
      BY <3>3, <3>4
  <2>2. CASE ~GetFound(c)
    <3>1. CASE GetNothing(c) \/ Unlist(c)
      BY <1>0, <1>b, <1>d, <3>1 DEF GetNothing, Unlist, Goto, TypeOK, HoldsOwner
    <3>2. CASE GetExpired(c) \/ Delete(c)
      BY <1>0, <3>2 DEF GetExpired, Delete, Goto, TypeOK, HoldsOwner
    <3>3. QED
      BY <2>2, <3>1, <3>2
  <2>3. QED
    BY <2>1, <2>2
<1>5. HasLoggedOut(c)'
  <2>1. PICK s \in Session : s = loc[c].sid /\ s = loc'[c].sid
    BY <1>0, <1>d
  <2>2. CASE GetNothing(c)
    BY <2>1, <2>2 DEF GetNothing, HasLoggedOut, Named, Stored, redis
  <2>3. CASE GetExpired(c)
    BY <1>0, <2>3 DEF GetExpired, HasLoggedOut, At
  <2>4. CASE GetFound(c)
    BY <1>0, <1>c, <1>d, <1>e, <2>4 DEF GetFound, Goto, TypeOK, HasLoggedOut
  <2>5. CASE Delete(c)
    BY <2>1, <2>5 DEF Delete, Del, HasLoggedOut, Named, Stored
  <2>6. CASE Unlist(c)
    <3>1. pc[c] = "zrem" /\ hash' = hash
      BY <2>6 DEF Unlist, At
    <3>2. loc[c].op = "logout" => ~Named(s)
      BY <1>0, <2>1, <3>1 DEF HasLoggedOut, Named, Stored
    <3>3. QED
      BY <1>d, <2>1, <3>1, <3>2 DEF HasLoggedOut, Named, Stored
  <2>7. QED
    BY <2>2, <2>3, <2>4, <2>5, <2>6
<1>6. QED
  BY <1>1, <1>2, <1>3, <1>4, <1>5, MoveIsSteady DEF Harmless

\* updateSessionActivity and the first write of extendSession: where the hash is
\* gone they store one that names nobody.
LEMMA WriteHarmless ==
    ASSUME SessionInv, TypeOK', NEW c \in Calls, Touch(c) \/ Renew(c)
    PROVE  Harmless(c)
<1>0. /\ TypeOK /\ NamedInv /\ OnCourse(c) /\ HoldsOwner(c) /\ loc[c] \in Locals
      /\ loc[c].op \in Operations /\ loc[c].sid \in Session /\ loc[c].expiry \in Time
      /\ UNCHANGED <<index, loc>> /\ pc[c] \in {"touch", "renew"}
  BY DEF SessionInv, CallsInv, TypeOK, Locals, Touch, Renew, At
<1>a. /\ loc[c].op \in {"guard", "extend"}
      /\ Touch(c) => loc[c].op = "guard"
      /\ Renew(c) => loc[c].op = "extend"
  <2>1. pc[c] \in Course(loc[c].op)
    BY <1>0 DEF OnCourse
  <2>2. (Touch(c) => pc[c] = "touch") /\ (Renew(c) => pc[c] = "renew")
    BY DEF Touch, Renew, At
  <2>3. QED
    BY <1>0, <2>1, <2>2, Courses
<1>b. /\ Touch(c) => pc'[c] = "done"
      /\ Renew(c) => pc'[c] = "keep"
      /\ Alone(c)
  BY <1>0 DEF Touch, Renew, Goto, Alone, TypeOK
<1>1. Moves(c)
  <2>1. pc'[c] \in Course(loc[c].op)
    BY <1>0, <1>a, <1>b, Courses
  <2>2. QED
    BY <1>0, <1>a, <1>b, <2>1 DEF Moves
<1>2. \A s \in Session :
         /\ s # loc[c].sid => hash'[s] = hash[s]
         /\ Stored(s) /\ Touch(c) => hash'[s] = hash[s]
         /\ ~Stored(s) => hash'[s] = Absent \/ hash'[s].user = NoUser
         /\ Stored(s) /\ Renew(c) => \/ hash'[s] = hash[s]
                                    \/ hash'[s] = [hash[s] EXCEPT !.expiry = loc[c].expiry]
  BY <1>0 DEF Touch, Renew, Row, Stored, TypeOK
<1>3. NoNewNames
  <2> SUFFICES ASSUME NEW s \in Session, Named(s)'
               PROVE  /\ Named(s) /\ hash'[s].user = hash[s].user
                      /\ hash'[s].expiry # Unset
    BY DEF NoNewNames
  <2>1. Stored(s)
    BY <1>2 DEF Named, Stored
  <2>2. CASE hash'[s] = hash[s]
    BY <1>0, <2>2 DEF Named, Stored, NamedInv
  <2>3. CASE hash'[s] = [hash[s] EXCEPT !.expiry = loc[c].expiry]
    <3>1. hash[s] \in HashRow /\ hash'[s].user = hash[s].user
          /\ hash'[s].expiry = loc[c].expiry
      BY <1>0, <2>1, <2>3 DEF TypeOK, Stored, HashRow
    <3>2. loc[c].expiry # Unset
      BY <1>0, FreshAssumption DEF Time
    <3>3. QED
      BY <2>1, <3>1, <3>2 DEF Named, Stored
  <2>4. QED
    BY <1>2, <2>1, <2>2, <2>3
<1>4. TtlStays(c)
  <2> SUFFICES ASSUME NEW s \in Session
               PROVE  \/ hash'[s] = hash[s] \/ ~Named(s)'
                      \/ pc'[c] = "keep" /\ loc'[c].sid = s
    BY <1>0 DEF TtlStays
  <2>1. CASE Touch(c)
    BY <1>2, <2>1 DEF Named, Stored
  <2>2. CASE Renew(c)
    BY <1>0, <1>2, <1>b, <2>2
  <2>3. QED
    BY <2>1, <2>2
<1>5. IndexStays
  BY <1>0, IndexUntouched
<1>6. HoldsOwner(c)' /\ HasLoggedOut(c)'
  <2>1. PICK s \in Session : s = loc[c].sid
    BY <1>0
  <2>2. ~Named(s) => ~Named(s)'
    BY <1>3 DEF NoNewNames
  <2>3. loc[c].user = loc[s].user \/ (loc[c].user = NoUser /\ ~Named(s))
    BY <1>0, <1>a, <2>1 DEF HoldsOwner, Named, Stored
  <2>4. HoldsOwner(c)'
    BY <1>0, <2>1, <2>2, <2>3 DEF HoldsOwner, Named, Stored
  <2>5. HasLoggedOut(c)'
    BY <1>0, <1>a DEF HasLoggedOut
  <2>6. QED
    BY <2>4, <2>5
<1>7. QED
  BY <1>1, <1>3, <1>4, <1>5, <1>6, MoveIsSteady DEF Harmless

-----------------------------------------------------------------------------
(* The three other steps                                                   *)

LEMMA StorePreserves ==
    ASSUME SessionInv, TypeOK', NEW c \in Calls, Store(c)
    PROVE  SessionInv'
<1>0. /\ TypeOK /\ CallsInv /\ NamedInv /\ OnCourse(c) /\ loc[c] \in Locals
      /\ loc[c].op \in Operations /\ loc[c].expiry \in Time /\ pc[c] = "store"
      /\ UNCHANGED <<index, loc>> /\ c \in Session
  BY DEF SessionInv, CallsInv, TypeOK, Locals, Store, At, Session
<1>1. loc[c].op = "login" /\ loc[c].sid = c
  <2>1. pc[c] \in Course(loc[c].op)
    BY <1>0 DEF OnCourse
  <2>2. loc[c].op = "login"
    BY <1>0, <2>1, Courses
  <2>3. QED
    BY <1>0, <2>2 DEF OnCourse
<1>2. pc' = [pc EXCEPT ![c] = "keep"]
  BY DEF Store, Goto
<1>3. \A s \in Session \ {c} : hash'[s] = hash[s]
  BY <1>0, <1>1 DEF Store, TypeOK
<1>4. /\ hash'[c].user = loc[c].user /\ hash'[c].expiry = loc[c].expiry
  <2>1. Row(c) \in HashRow
    BY <1>0, RowType
  <2>2. hash'[c] = [Row(c) EXCEPT !.user = loc[c].user, !.expiry = loc[c].expiry]
    BY <1>0, <1>1 DEF Store, TypeOK
  <2>3. QED
    BY <2>1, <2>2 DEF HashRow
<1>5. CallsInv'
  <2> SUFFICES ASSUME NEW d \in Calls
               PROVE  OnCourse(d)' /\ HoldsOwner(d)' /\ HasLoggedOut(d)'
    BY DEF CallsInv
  <2>1. OnCourse(d) /\ HoldsOwner(d) /\ HasLoggedOut(d)
    BY <1>0 DEF CallsInv
  <2>2. OnCourse(d)'
    <3>1. CASE d = c
      <4>1. "keep" \in Course("login")
        BY Courses DEF Operations
      <4>2. QED
        BY <1>0, <1>1, <1>2, <3>1, <4>1 DEF OnCourse, TypeOK
    <3>2. CASE d # c
      BY <1>0, <1>2, <2>1, <3>2 DEF OnCourse, TypeOK, Issued
    <3>3. QED
      BY <3>1, <3>2
  <2>3. ASSUME loc[d].op # "login", pc[d] # "idle",
               loc[d].op \in {"guard", "validate", "logout", "extend"}
        PROVE  Named(loc[d].sid)' <=> Named(loc[d].sid)
    <3>1. PICK s \in Session : s = loc[d].sid /\ s = loc'[d].sid
      BY <1>0 DEF TypeOK, Locals
    <3>2. s # c
      BY <1>0, <2>1, <2>3, <3>1 DEF OnCourse, Issued
    <3>3. QED
      BY <1>3, <3>1, <3>2 DEF Named, Stored
  <2>4. HoldsOwner(d)' /\ HasLoggedOut(d)'
    <3>1. CASE d = c
      BY <1>0, <1>1, <3>1 DEF HoldsOwner, HasLoggedOut
    <3>2. CASE d # c
      BY <1>0, <1>2, <2>1, <2>3, <3>2 DEF HoldsOwner, HasLoggedOut
    <3>3. QED
      BY <3>1, <3>2
  <2>5. QED
    BY <2>2, <2>4
<1>6. NamedInv'
  <2> SUFFICES ASSUME NEW s \in Session, Named(s)'
               PROVE  /\ loc'[s].op = "login" /\ pc'[s] # "store"
                      /\ hash'[s].user = loc'[s].user /\ hash'[s].expiry # Unset
    BY DEF NamedInv
  <2>1. CASE s = c
    BY <1>0, <1>1, <1>2, <1>4, <2>1, FreshAssumption DEF TypeOK, Time
  <2>2. CASE s # c
    BY <1>0, <1>2, <1>3, <2>2 DEF NamedInv, Named, Stored, TypeOK, Session
  <2>3. QED
    BY <2>1, <2>2
<1>7. TtlInv'
  <2> SUFFICES ASSUME NEW s \in Session, Named(s)',
                      ~\E d \in Calls : pc'[d] = "keep" /\ loc'[d].sid = s
               PROVE  hash'[s].ttl # Unset /\ hash'[s].ttl >= hash'[s].expiry
    BY DEF TtlInv
  <2>1. s # c
    BY <1>0, <1>1, <1>2 DEF TypeOK
  <2>2. ~\E d \in Calls : pc[d] = "keep" /\ loc[d].sid = s
    BY <1>0, <1>2 DEF TypeOK
  <2>3. QED
    BY <1>3, <2>1, <2>2 DEF SessionInv, TtlInv, Named, Stored
<1>8. IndexOfOwner'
  BY <1>0 DEF SessionInv, IndexOfOwner, Listed
<1>9. QED
  BY <1>5, <1>6, <1>7, <1>8 DEF SessionInv

LEMMA KeepPreserves ==
    ASSUME SessionInv, TypeOK', NEW c \in Calls, Keep(c)
    PROVE  SessionInv'
<1>0. /\ TypeOK /\ CallsInv /\ NamedInv /\ OnCourse(c) /\ HoldsOwner(c)
      /\ loc[c] \in Locals /\ loc[c].sid \in Session
      /\ loc[c].op \in Operations /\ pc[c] = "keep" /\ UNCHANGED <<index, loc>>
  BY DEF SessionInv, CallsInv, TypeOK, Locals, Keep, At
<1>1. /\ loc[c].op \in {"login", "extend"}
      /\ pc' = [pc EXCEPT ![c] = IF loc[c].op = "login" THEN "probe" ELSE "enlist"]
  <2>1. pc[c] \in Course(loc[c].op)
    BY <1>0 DEF OnCourse
  <2>2. QED
    BY <1>0, <2>1, Courses DEF Keep, Goto
<1>2. \A s \in Session :
         /\ s # loc[c].sid => hash'[s] = hash[s]
         /\ ~Stored(s) => hash'[s] = Absent
         /\ s = loc[c].sid /\ Stored(s) => hash'[s] = [hash[s] EXCEPT !.ttl = Life]
  BY <1>0 DEF Keep, SetTtl, TypeOK, Stored
<1>3. \A s \in Session : Named(s)' =>
         /\ Named(s) /\ hash'[s].user = hash[s].user /\ hash'[s].expiry = hash[s].expiry
         /\ s = loc[c].sid => hash'[s].ttl = Life
  <2> SUFFICES ASSUME NEW s \in Session, Named(s)'
               PROVE  /\ Named(s) /\ hash'[s].user = hash[s].user
                      /\ hash'[s].expiry = hash[s].expiry
                      /\ s = loc[c].sid => hash'[s].ttl = Life
    OBVIOUS
  <2>1. Stored(s)
    BY <1>2 DEF Named, Stored
  <2>2. hash[s] \in HashRow
    BY <1>0, <2>1 DEF TypeOK, Stored
  <2>3. CASE s # loc[c].sid
    BY <1>2, <2>3 DEF Named, Stored
  <2>4. CASE s = loc[c].sid
    BY <1>2, <2>1, <2>2, <2>4 DEF Named, Stored, HashRow
  <2>5. QED
    BY <2>3, <2>4
<1>4. NoNewNames
  BY <1>0, <1>3 DEF NoNewNames, NamedInv
<1>5. Moves(c)
  <2>1. pc'[c] \in Course(loc[c].op) /\ pc'[c] # "store"
    BY <1>0, <1>1, Courses DEF TypeOK
  <2>2. QED
    BY <1>0, <1>1, <2>1 DEF Moves, Alone, TypeOK
<1>6. Steady(c) /\ OnCourse(c)'
  BY <1>5, MoveIsSteady
<1>7. HoldsOwner(c)' /\ HasLoggedOut(c)'
  <2>1. PICK s \in Session : s = loc[c].sid
    BY <1>0
  <2>2. ~Named(s) => ~Named(s)'
    BY <1>3
  <2>3. loc[c].op = "extend" =>
          loc[c].user = loc[s].user \/ (loc[c].user = NoUser /\ ~Named(s))
    BY <1>0, <2>1 DEF HoldsOwner, Named, Stored
  <2>4. HoldsOwner(c)'
    BY <1>0, <1>1, <2>1, <2>2, <2>3 DEF HoldsOwner, Named, Stored
  <2>5. HasLoggedOut(c)'
    BY <1>0, <1>1 DEF HasLoggedOut
  <2>6. QED
    BY <2>4, <2>5
<1>8. CallsInv'
  BY <1>4, <1>6, <1>7, OthersStay DEF CallsInv
<1>9. NamedInv'
  BY <1>4, <1>6, NamesStay
<1>10. TtlInv'
  <2> SUFFICES ASSUME NEW s \in Session, Named(s)',
                      ~\E d \in Calls : pc'[d] = "keep" /\ loc'[d].sid = s
               PROVE  hash'[s].ttl # Unset /\ hash'[s].ttl >= hash'[s].expiry
    BY DEF TtlInv
  <2>1. CASE s = loc[c].sid
    <3>1. hash[s].expiry \in Time \cup {Unset} /\ hash[s].expiry # Unset
      BY <1>0, <1>3 DEF TypeOK, NamedInv, HashRow, Named, Stored
    <3>2. hash'[s].ttl = Life /\ hash'[s].expiry \in Time
      BY <1>3, <2>1, <3>1
    <3>3. QED
      BY <3>2, LifeAssumption, FreshAssumption DEF Time
  <2>2. CASE s # loc[c].sid
    <3>1. ~\E d \in Calls : pc[d] = "keep" /\ loc[d].sid = s
      BY <1>0, <1>1, <2>2 DEF TypeOK
    <3>2. Named(s) /\ hash'[s] = hash[s]
      BY <1>2, <1>3, <2>2
    <3>3. QED
      BY <3>1, <3>2 DEF SessionInv, TtlInv
  <2>3. QED
    BY <2>1, <2>2
<1>11. IndexOfOwner'
  BY <1>0 DEF SessionInv, IndexOfOwner, Listed
<1>12. QED
  BY <1>8, <1>9, <1>10, <1>11 DEF SessionInv

\* Time names nobody, and takes a tick from the TTL and the expiry alike.
LEMMA TickPreserves ==
    ASSUME SessionInv, TypeOK', Tick
    PROVE  SessionInv'
<1>0. TypeOK /\ CallsInv /\ NamedInv /\ TtlInv /\ IndexOfOwner /\ pc' = pc
  BY DEF SessionInv, Tick
<1>1. ASSUME NEW c \in Calls
      PROVE  /\ loc'[c].op = loc[c].op /\ loc'[c].sid = loc[c].sid
             /\ loc'[c].user = loc[c].user
  <2>1. loc[c] \in Locals /\ loc'[c] = [loc[c] EXCEPT !.expiry = Later(@)]
    BY <1>0 DEF TypeOK, Tick
  <2>2. QED
    BY <2>1 DEF Locals
<1>2. ASSUME NEW s \in Session, Named(s)'
      PROVE  /\ Named(s) /\ hash[s] \in HashRow /\ hash[s].ttl # 0
             /\ hash'[s].user = hash[s].user
             /\ hash'[s].expiry = Later(hash[s].expiry) /\ hash'[s].ttl = Later(hash[s].ttl)
  <2>1. Stored(s) /\ hash[s].ttl # 0
    BY <1>2 DEF Tick, Named, Stored
  <2>2. hash[s] \in HashRow
    BY <1>0, <2>1 DEF TypeOK, Stored
  <2>3. hash'[s] = [hash[s] EXCEPT !.expiry = Later(@), !.ttl = Later(@)]
    BY <2>1 DEF Tick
  <2>4. QED
    BY <1>2, <2>1, <2>2, <2>3 DEF HashRow, Named
<1>3. CallsInv'
  <2> SUFFICES ASSUME NEW c \in Calls
               PROVE  OnCourse(c)' /\ HoldsOwner(c)' /\ HasLoggedOut(c)'
    BY DEF CallsInv
  <2>1. PICK s \in Session : s = loc[c].sid /\ s = loc'[c].sid
    BY <1>0, <1>1 DEF TypeOK, Locals
  <2>2. OnCourse(c) /\ HoldsOwner(c) /\ HasLoggedOut(c)
    BY <1>0 DEF CallsInv
  <2>3. ~Named(s) => ~Named(s)'
    BY <1>2
  <2>4. OnCourse(c)'
    <3>1. Issued(s) => Issued(s)'
      BY <1>0, <1>1 DEF Issued, Session
    <3>2. QED
      BY <1>0, <1>1, <2>1, <2>2, <3>1 DEF OnCourse, Issued
  <2>5. HoldsOwner(c)'
    BY <1>0, <1>1, <2>1, <2>2, <2>3 DEF HoldsOwner, Named, Stored, Session
  <2>6. HasLoggedOut(c)'
    BY <1>0, <1>1, <2>1, <2>2, <2>3 DEF HasLoggedOut, Named, Stored
  <2>7. QED
    BY <2>4, <2>5, <2>6
<1>4. NamedInv'
  <2> SUFFICES ASSUME NEW s \in Session, Named(s)'
               PROVE  /\ loc'[s].op = "login" /\ pc'[s] # "store"
                      /\ hash'[s].user = loc'[s].user /\ hash'[s].expiry # Unset
    BY DEF NamedInv
  <2>1. hash[s].expiry \in Time
    BY <1>0, <1>2 DEF NamedInv, HashRow
  <2>2. Later(hash[s].expiry) # Unset
    BY <2>1, LaterType, FreshAssumption DEF Time
  <2>3. QED
    BY <1>0, <1>1, <1>2, <2>2 DEF NamedInv, Session
<1>5. TtlInv'
  <2> SUFFICES ASSUME NEW s \in Session, Named(s)',
                      ~\E d \in Calls : pc'[d] = "keep" /\ loc'[d].sid = s
               PROVE  hash'[s].ttl # Unset /\ hash'[s].ttl >= hash'[s].expiry
    BY DEF TtlInv
  <2>1. ~\E d \in Calls : pc[d] = "keep" /\ loc[d].sid = s
    BY <1>0, <1>1
  <2>2. Named(s) /\ hash[s].ttl # Unset /\ hash[s].ttl >= hash[s].expiry
    BY <1>0, <1>2, <2>1 DEF TtlInv
  <2>3. hash[s].expiry \in Time /\ hash[s].ttl \in 1..Life
    BY <1>0, <1>2, <2>2, LifeAssumption DEF NamedInv, HashRow
  <2>4. /\ Later(hash[s].ttl) = hash[s].ttl - 1
        /\ Later(hash[s].expiry) = IF hash[s].expiry = -1 THEN -1 ELSE hash[s].expiry - 1
    BY <2>3, FreshAssumption, LifeAssumption DEF Later, Time
  <2>5. Later(hash[s].ttl) # Unset /\ Later(hash[s].ttl) >= Later(hash[s].expiry)
    BY <2>2, <2>3, <2>4, FreshAssumption, LifeAssumption DEF Time
  <2>6. QED
    BY <1>2, <2>5
<1>6. IndexOfOwner'
  <2> SUFFICES ASSUME NEW u \in User, NEW s \in Session, index'[u][s] # Unset
               PROVE  loc'[s].op = "login" /\ loc'[s].user = u
    BY DEF IndexOfOwner, Listed
  <2>1. index[u][s] # Unset
    BY <1>0 DEF Tick, NoEntries, Later, Owner
  <2>2. QED
    BY <1>0, <1>1, <2>1 DEF IndexOfOwner, Listed, Session
<1>7. QED
  BY <1>3, <1>4, <1>5, <1>6 DEF SessionInv

-----------------------------------------------------------------------------
(* The theorems                                                            *)

LEMMA SessionInvHolds == Spec => []SessionInv
<1>1. Init => SessionInv
  <2> SUFFICES ASSUME Init
               PROVE  SessionInv
    OBVIOUS
  <2>1. TypeOK
    BY LifeAssumption DEF Init, TypeOK, Locals, Operations, Session, Owner, Time, Pc, NoEntries
  <2>2. CallsInv
    BY DEF Init, CallsInv, OnCourse, HoldsOwner, HasLoggedOut
  <2>3. NamedInv /\ TtlInv
    BY DEF Init, NamedInv, TtlInv, Named, Stored
  <2>4. IndexOfOwner
    BY DEF Init, IndexOfOwner, Listed, NoEntries, Owner
  <2>5. QED
    BY <2>1, <2>2, <2>3, <2>4 DEF SessionInv
<1>2. SessionInv /\ [Next]_vars => SessionInv'
  <2> SUFFICES ASSUME SessionInv, [Next]_vars
               PROVE  SessionInv'
    OBVIOUS
  <2>0. TypeOK
    BY DEF SessionInv
  <2>1. CASE Tick
    BY <2>0, <2>1, TickType, TickPreserves
  <2>2. ASSUME NEW c \in Calls, Step(c)
        PROVE  SessionInv'
    <3>1. TypeOK'
      BY <2>0, <2>2, StepType
    <3>2. CASE Store(c)
      BY <3>1, <3>2, StorePreserves
    <3>3. CASE Keep(c)
      BY <3>1, <3>3, KeepPreserves
    <3>4. CASE ~Store(c) /\ ~Keep(c)
      <4>1. Harmless(c)
        BY <2>2, <3>1, <3>4, ArrivalsHarmless, CreateHarmless, ReadHarmless, WriteHarmless,
           MaintainHarmless DEF Step, CreateSession, UseSession, Maintain
      <4>2. QED
        BY <3>1, <4>1, HarmlessStep
    <3>5. QED
      BY <3>2, <3>3, <3>4
  <2>3. ASSUME \/ \E c \in Calls : Halt(c)
               \/ UNCHANGED vars
        PROVE  SessionInv'
    <3>1. UNCHANGED <<hash, index, indexTtl, pc, loc>>
      BY <2>3 DEF Halt, vars, redis
    <3>2. TypeOK'
      BY <2>0, <2>3, <3>1 DEF TypeOK, Halt, vars
    <3>3. CallsInv' /\ NamedInv' /\ TtlInv' /\ IndexOfOwner'
      BY <3>1 DEF SessionInv, CallsInv, NamedInv, TtlInv, IndexOfOwner, OnCourse, HoldsOwner,
                  HasLoggedOut, Named, Stored, Listed, Issued
    <3>4. QED
      BY <3>2, <3>3 DEF SessionInv
  <2>4. QED
    BY <2>1, <2>2, <2>3 DEF Next
<1>3. QED
  BY <1>1, <1>2, PTL DEF Spec

\* Once a logout has answered, no request in flight (an activity update, an
\* extension, the clean-up of a reader) makes the session name a user again.
THEOREM LogoutIsFinal == Spec => []LoggedOutIsNobody
<1>1. SessionInv => LoggedOutIsNobody
  BY DEF SessionInv, CallsInv, HasLoggedOut, LoggedOutIsNobody
<1>2. QED
  BY <1>1, SessionInvHolds, PTL

\* A request that the guard or validate-session lets through acts as the user
\* who logged in, or as nobody.
THEOREM AcceptedAsOwner == Spec => []AcceptedIsOwner
<1>1. SessionInv => AcceptedIsOwner
  BY DEF SessionInv, CallsInv, HoldsOwner, AcceptedIsOwner
<1>2. QED
  BY <1>1, SessionInvHolds, PTL

\* An issued session lives as long as its expiresAt says, but for an extension
\* that is between its two writes.
THEOREM SessionsLiveTheirTime == Spec => []TtlCoversExpiry
<1>1. SessionInv => TtlCoversExpiry
  BY DEF SessionInv, TtlInv, TtlCoversExpiry
<1>2. QED
  BY <1>1, SessionInvHolds, PTL

\* A user's index never lists another user's session.
THEOREM IndexesOfOwners == Spec => []IndexOfOwner
<1>1. SessionInv => IndexOfOwner
  BY DEF SessionInv
<1>2. QED
  BY <1>1, SessionInvHolds, PTL

-----------------------------------------------------------------------------
(*****************************************************************************)
(* The session service implements SessionStore, and its clean-ups spare the  *)
(* sessions that are alive.                                                  *)
(*****************************************************************************)

-----------------------------------------------------------------------------
(* The inductive invariant: what a call has read of a session that it will *)
(* delete is still so, unless an extension has arrived since.              *)

\* The login has entered the session in the index.
Known(s) == loc[s].op = "login" /\ pc[s] \in {"prolong", "done"}
Spared(s) == Named(s) /\ ~ToBeExtended(s)

HashesInv == \A s \in Session : Stored(s) => loc[s].op = "login" /\ pc[s] # "store"

\* Between the writes of a login
FirstInv ==
    \A s \in Session : loc[s].op = "login" /\ Spared(s) =>
        /\ pc[s] \in {"keep", "probe", "wipe", "enlist"} => hash[s].expiry = loc[s].expiry
        /\ pc[s] = "keep" => hash[s].ttl = Unset

\* Score and expiresAt agree.
ListedInv ==
    \A u \in Owner, s \in Session : index[u][s] # Unset =>
        Known(s) /\ (Spared(s) => index[u][s] = hash[s].expiry)

\* What a call has chosen to delete
ChosenIds(c) ==
    /\ loc[c].op \in {"list", "deleteAll", "cleanup"} => \A s \in loc[c].ids : Known(s)
    /\ loc[c].op = "deleteAll" => \A s \in loc[c].ids : loc[s].user = loc[c].user
    /\ loc[c].op = "cleanup" /\ pc[c] = "drop" =>
          \A s \in loc[c].ids : Spared(s) => hash[s].expiry = -1
ChosenSid(c) ==
    /\ pc[c] \in {"store", "range"} => loc[c].user \in User
    /\ pc[c] \in {"get", "del"} =>
          /\ Known(loc[c].sid)
          /\ loc[c].purging /\ Spared(loc[c].sid) => hash[loc[c].sid].expiry = -1
    /\ pc[c] = "del" => loc[c].purging \/ loc[c].op = "logout"
ChosenInv == \A c \in Calls : ChosenIds(c) /\ ChosenSid(c)

LinkInv == HashesInv /\ FirstInv /\ ListedInv /\ ChosenInv

-----------------------------------------------------------------------------
(* The steps of a call *)

\* A call does what it arrived for; only a listing goes on to other sessions.
OpStays(c) ==
    /\ Alone(c) /\ pc'[c] # "idle"
    /\ pc[c] # "idle" =>
          /\ loc'[c].op = loc[c].op
          /\ loc[c].op # "list" => loc'[c].sid = loc[c].sid

\* Where the calls at a command come from
LEMMA OpAt ==
    ASSUME SessionInv, NEW c \in Calls, pc[c] # "idle"
    PROVE  /\ pc[c] \in {"store", "probe", "wipe"} => loc[c].op = "login"
           /\ pc[c] \in {"keep", "enlist", "prolong"} => loc[c].op \in {"login", "extend"}
           /\ pc[c] \in {"get", "del", "zrem"}
                 => loc[c].op \in {"guard", "validate", "logout", "extend", "list"}
           /\ pc[c] = "touch" => loc[c].op = "guard"
           /\ pc[c] = "renew" => loc[c].op = "extend"
           /\ pc[c] = "range" => loc[c].op \in {"list", "deleteAll"}
           /\ pc[c] = "next" => loc[c].op = "list"
           /\ pc[c] = "drop" => loc[c].op \in {"deleteAll", "cleanup"}
           /\ pc[c] = "dropindex" => loc[c].op = "deleteAll"
           /\ pc[c] \in {"scan", "score", "unlist"} => loc[c].op = "cleanup"
           /\ pc[c] \in {"keys", "userkeys", "flush"} => loc[c].op = "clear"
<1>1. loc[c].op \in Operations /\ pc[c] \in Course(loc[c].op)
  BY DEF SessionInv, TypeOK, Locals, CallsInv, OnCourse
<1> QED BY <1>1, Courses

LEMMA StepHarmless ==
    ASSUME SessionInv, TypeOK', NEW c \in Calls, Step(c), ~Store(c), ~Keep(c)
    PROVE  Harmless(c)
  BY ArrivalsHarmless, CreateHarmless, ReadHarmless, WriteHarmless, MaintainHarmless
  DEF Step, CreateSession, UseSession, Maintain

LEMMA StepOp ==
    ASSUME SessionInv, NEW c \in Calls, Step(c)
    PROVE  OpStays(c)
<1>1. TypeOK /\ loc[c] \in Locals /\ DOMAIN pc = Calls /\ DOMAIN loc = Calls
  BY DEF SessionInv, TypeOK
<1>2. ASSUME NEW op, NEW label, NEW sid, NEW user, label # "idle",
             Arrive(c, op, label, sid, user)
      PROVE  OpStays(c)
  BY <1>1, <1>2 DEF Arrive, Goto, OpStays, Alone
<1>3. CASE Login(c) \/ WithToken(c) \/ ForUser(c) \/ Cleanup(c) \/ Clear(c)
  BY <1>2, <1>3 DEF Login, WithToken, ForUser, Cleanup, Clear
<1>4. CASE \/ Store(c) \/ Keep(c) \/ Probe(c) \/ Wipe(c) \/ Enlist(c) \/ Prolong(c)
           \/ Delete(c) \/ Touch(c) \/ Renew(c) \/ DropIndex(c) \/ UnlistAll(c)
           \/ Flush(c) \/ Drop(c) \/ GetNothing(c) \/ Unlist(c)
  <2>1. loc' = loc /\ \E label \in Pc \ {"idle"} : Goto(c, label)
    <3>1. AfterNull(c) \in Pc \ {"idle"}
      BY DEF AfterNull, Pc
    <3> QED BY <1>4, <3>1 DEF Store, Keep, Probe, Wipe, Enlist, Prolong, Delete, Touch,
         Renew, DropIndex, UnlistAll, Flush, Drop, GetNothing, Unlist, Pc
  <2> QED BY <1>1, <2>1 DEF Goto, OpStays, Alone
<1>5. CASE GetExpired(c)
  BY <1>1, <1>5 DEF GetExpired, At, OpStays, Alone, Locals
<1>6. CASE GetFound(c)
  <2>1. AfterFound(loc[c].op, hash[loc[c].sid].user) # "idle"
    BY DEF AfterFound
  <2> QED BY <1>1, <1>6, <2>1 DEF GetFound, Goto, OpStays, Alone, Locals
<1>7. CASE ReadIndex(c) \/ Scan(c) \/ SessionKeys(c) \/ UserKeys(c)
  BY <1>1, <1>7 DEF ReadIndex, Scan, SessionKeys, UserKeys, Goto, OpStays, Alone, Locals
<1>8. CASE NextSession(c)
  <2>1. loc[c].op = "list"
    BY <1>8, OpAt DEF NextSession, At
  <2>2. PICK label \in {"get", "done"} : Goto(c, label)
    BY <1>8 DEF NextSession
  <2>3. pc'[c] # "idle"
    BY <1>1, <2>2 DEF Goto
  <2>4. CASE UNCHANGED loc
    BY <1>1, <2>2, <2>3, <2>4 DEF Goto, OpStays, Alone
  <2>5. ASSUME NEW s \in loc[c].ids,
               loc' = [loc EXCEPT ![c].sid = s, ![c].ids = @ \ {s}, ![c].purging = FALSE]
        PROVE  OpStays(c)
    <3>1. Alone(c) /\ loc'[c].op = loc[c].op
      BY <1>1, <2>2, <2>5 DEF Goto, Alone, Locals
    <3> QED BY <2>1, <2>3, <3>1 DEF OpStays
  <2> QED BY <1>8, <2>4, <2>5 DEF NextSession
<1>9. CASE Score(c)
  <2>1. PICK label \in {"score", "drop", "done"} : Goto(c, label)
    BY <1>9 DEF Score
  <2>2. pc'[c] # "idle"
    BY <1>1, <2>1 DEF Goto
  <2>3. CASE UNCHANGED loc
    BY <1>1, <2>1, <2>2, <2>3 DEF Goto, OpStays, Alone
  <2>4. ASSUME NEW u \in loc[c].owners,
               loc' = [loc EXCEPT ![c].owners = @ \ {u}, ![c].user = u,
                                  ![c].ids = Overdue(u)]
        PROVE  OpStays(c)
    <3>1. Alone(c) /\ loc'[c].op = loc[c].op /\ loc'[c].sid = loc[c].sid
      BY <1>1, <2>1, <2>4 DEF Goto, Alone, Locals
    <3> QED BY <2>2, <3>1 DEF OpStays
  <2> QED BY <1>9, <2>3, <2>4 DEF Score
<1> QED BY <1>3, <1>4, <1>5, <1>6, <1>7, <1>8, <1>9
        DEF Step, CreateSession, UseSession, Maintain

\* An extension that has arrived has arrived for good.
LEMMA ExtendedStays ==
    ASSUME NEW c \in Calls, OpStays(c), NEW s \in Session, ToBeExtended(s)
    PROVE  ToBeExtended(s)'
<1>1. PICK d \in Calls : loc[d].op = "extend" /\ pc[d] # "idle" /\ loc[d].sid = s
  BY DEF ToBeExtended
<1>2. loc'[d].op = "extend" /\ pc'[d] # "idle" /\ loc'[d].sid = s
  BY <1>1 DEF OpStays, Alone
<1> QED BY <1>2 DEF ToBeExtended

\* A login that has entered its session stays so.
LEMMA KnownStays ==
    ASSUME NEW c \in Calls, Steady(c), pc[c] = "prolong" => pc'[c] \in {"prolong", "done"},
           NEW s \in Session, Known(s)
    PROVE  Known(s)' /\ loc'[s].user = loc[s].user
  BY DEF Known, Steady, Alone, Session

\* Nothing has been written to a session that no extension has arrived for.
LEMMA SparedStays ==
    ASSUME SessionInv, NEW c \in Calls, Harmless(c), OpStays(c),
           pc'[c] = "keep" => loc'[c].op = "extend",
           NEW s \in Session, Spared(s)'
    PROVE  Spared(s) /\ hash'[s] = hash[s]
<1>1. Named(s)' /\ ~ToBeExtended(s)'
  BY DEF Spared
<1>2. Named(s)
  BY <1>1 DEF Harmless, NoNewNames
<1>3. ~ToBeExtended(s)
  BY <1>1, ExtendedStays
<1>4. hash'[s] = hash[s]
  BY <1>1 DEF Harmless, TtlStays, ToBeExtended, OpStays
<1> QED BY <1>2, <1>3, <1>4 DEF Spared

-----------------------------------------------------------------------------
(* Steps other than Store and Keep *)

\* How such a step writes the hashes, the indexes and the state of a login
Writes(c) ==
    /\ \A s \in Session : Stored(s)' => Stored(s) \/ Issued(s)
    /\ \A u \in Owner, s \in Session :
          \/ index'[u][s] \in {Unset, index[u][s]}
          \/ /\ pc[c] = "enlist" /\ pc'[c] = "prolong" /\ loc' = loc
             /\ s = loc[c].sid /\ index'[u][s] = loc[c].expiry
    /\ loc[c].op = "login" =>
          /\ loc' = loc
          /\ \/ pc[c] \in {"probe", "wipe"} /\ pc'[c] \in {"wipe", "enlist"}
             \/ pc[c] \in {"enlist", "prolong"} /\ pc'[c] \in {"prolong", "done"}
    /\ pc'[c] = "keep" => loc'[c].op = "extend"
    /\ pc[c] = "idle" /\ loc'[c].op = "login" => pc'[c] = "store"

LEMMA StepWrites ==
    ASSUME SessionInv, NEW c \in Calls, Step(c), ~Store(c), ~Keep(c)
    PROVE  Writes(c)
<1>1. TypeOK /\ loc[c] \in Locals /\ DOMAIN pc = Calls /\ DOMAIN loc = Calls /\ OnCourse(c)
  BY DEF SessionInv, TypeOK, CallsInv
<1>2. CASE Login(c) \/ WithToken(c) \/ ForUser(c) \/ Cleanup(c) \/ Clear(c)
  <2>1. ASSUME NEW op, NEW label, NEW sid, NEW user, Arrive(c, op, label, sid, user),
               label # "keep", op = "login" => label = "store"
        PROVE  Writes(c)
    <3>1. /\ pc[c] = "idle" /\ loc[c].op # "login" /\ UNCHANGED redis
          /\ pc'[c] = label /\ loc'[c].op = op
      <4>1. /\ pc[c] = "idle" /\ UNCHANGED redis /\ pc'[c] = label
            /\ loc'[c] = [op |-> op, sid |-> sid, user |-> user, expiry |-> Life,
                          purging |-> FALSE, ids |-> {}, owners |-> {}]
        BY <1>1, <2>1 DEF Arrive, Goto
      <4>2. loc[c].op \in Operations
        BY <1>1 DEF Locals
      <4>3. loc[c].op # "login"
        BY <1>1, <4>1, <4>2, Courses DEF OnCourse
      <4> QED BY <4>1, <4>3
    <3> QED BY <2>1, <3>1 DEF Writes, redis, Stored
  <2> QED BY <1>2, <2>1 DEF Login, WithToken, ForUser, Cleanup, Clear
<1>3. CASE Probe(c) \/ Wipe(c) \/ Enlist(c) \/ Prolong(c)
  <2>1. /\ UNCHANGED <<hash, loc>> /\ pc[c] # "idle"
        /\ \/ pc[c] \in {"probe", "wipe"} /\ pc'[c] \in {"wipe", "enlist"}
           \/ pc[c] \in {"enlist", "prolong"} /\ pc'[c] \in {"prolong", "done"}
    BY <1>1, <1>3 DEF Probe, Wipe, Enlist, Prolong, At, Goto, redis
  <2>2. ASSUME NEW u \in Owner, NEW s \in Session
        PROVE  \/ index'[u][s] \in {Unset, index[u][s]}
               \/ /\ pc[c] = "enlist" /\ pc'[c] = "prolong" /\ loc' = loc
                  /\ s = loc[c].sid /\ index'[u][s] = loc[c].expiry
    BY <1>1, <1>3 DEF Probe, Wipe, Enlist, Prolong, At, Goto, redis, SetIndex, TypeOK,
       NoEntries
  <2> QED BY <2>1, <2>2 DEF Writes, Stored
<1>4. CASE GetNothing(c) \/ GetExpired(c) \/ GetFound(c) \/ Delete(c) \/ Unlist(c)
           \/ Touch(c) \/ Renew(c)
  <2>1. pc[c] \in {"get", "del", "zrem", "touch", "renew"}
    BY <1>4 DEF GetNothing, GetExpired, GetFound, Delete, Unlist, Touch, Renew, At
  <2>2. loc[c].op \in {"guard", "validate", "logout", "extend", "list"}
    BY <2>1, OpAt
  <2>3. \A s \in Session : Stored(s)' => Stored(s) \/ Issued(s)
    BY <1>1, <1>4, <2>1, <2>2, OpAt DEF GetNothing, GetExpired, GetFound, Delete, Unlist,
       Touch, Renew, At, redis, Stored, Del, TypeOK, OnCourse
  <2>4. \A u \in Owner, s \in Session : index'[u][s] \in {Unset, index[u][s]}
    BY <1>1, <1>4 DEF GetNothing, GetExpired, GetFound, Delete, Unlist, Touch, Renew,
       redis, ZRem, SetIndex, TypeOK
  <2>5. pc'[c] = "keep" => loc'[c].op = "extend"
    <3>1. ASSUME NEW u PROVE AfterNull(c) # "keep" /\ AfterFound(loc[c].op, u) # "keep"
      BY DEF AfterNull, AfterFound
    <3>2. ~Renew(c) => pc'[c] # "keep"
      BY <1>1, <1>4, <2>1, <3>1 DEF GetNothing, GetExpired, GetFound, Delete, Unlist, Touch,
         Goto, At
    <3>3. Renew(c) => loc'[c].op = "extend"
      BY <2>1, OpAt DEF Renew, At
    <3> QED BY <3>2, <3>3
  <2> QED BY <2>1, <2>2, <2>3, <2>4, <2>5 DEF Writes
<1>5. CASE ReadIndex(c) \/ NextSession(c) \/ Scan(c) \/ Score(c) \/ Drop(c) \/ DropIndex(c)
           \/ UnlistAll(c) \/ SessionKeys(c) \/ UserKeys(c) \/ Flush(c)
  <2>1. pc[c] \in {"range", "next", "scan", "score", "drop", "dropindex", "unlist", "keys",
                   "userkeys", "flush"}
    BY <1>5 DEF ReadIndex, NextSession, Scan, Score, Drop, DropIndex, UnlistAll,
       SessionKeys, UserKeys, Flush, At
  <2>2. loc[c].op # "login"
    BY <2>1, OpAt
  <2>3. \A s \in Session : Stored(s)' => Stored(s)
    BY <1>5 DEF ReadIndex, NextSession, Scan, Score, Drop, DropIndex, UnlistAll,
       SessionKeys, UserKeys, Flush, redis, Stored, Del
  <2>4. \A u \in Owner, s \in Session : index'[u][s] \in {Unset, index[u][s]}
    <3>1. CASE UNCHANGED index
      BY <3>1
    <3>2. CASE DropIndex(c) \/ UnlistAll(c)
      BY <1>1, <3>2 DEF DropIndex, UnlistAll, ZRem, SetIndex, TypeOK, NoEntries
    <3>3. CASE Flush(c)
      BY <3>3 DEF Flush, NoEntries
    <3> QED BY <1>5, <3>1, <3>2, <3>3 DEF ReadIndex, NextSession, Scan, Score, Drop,
         SessionKeys, UserKeys, redis
  <2>5. pc'[c] # "keep"
    BY <1>1, <1>5 DEF ReadIndex, NextSession, Scan, Score, Drop, DropIndex, UnlistAll,
       SessionKeys, UserKeys, Flush, Goto
  <2> QED BY <2>1, <2>2, <2>3, <2>4, <2>5 DEF Writes
<1> QED BY <1>2, <1>3, <1>4, <1>5 DEF Step, CreateSession, UseSession, Maintain

\* What a call has chosen stays so while it awaits its command, as long as the logins
\* go on and none of the sessions that are spared is revived.
LEMMA ChosenStays ==
    ASSUME SessionInv, LinkInv, NEW d \in Calls,
           pc'[d] = pc[d] \/ pc'[d] \in {"keep", "probe", "enlist"},
           loc'[d].op = loc[d].op, loc'[d].sid = loc[d].sid, loc'[d].user = loc[d].user,
           loc'[d].purging = loc[d].purging, loc'[d].ids = loc[d].ids,
           \A s \in Session : Known(s) => Known(s)' /\ loc'[s].user = loc[s].user,
           \A s \in Session : Known(s) /\ Spared(s)' =>
               Spared(s) /\ (hash[s].expiry = -1 => hash'[s].expiry = -1)
    PROVE  ChosenIds(d)' /\ ChosenSid(d)'
<1>1. ChosenIds(d) /\ ChosenSid(d) /\ loc[d] \in Locals
  BY DEF LinkInv, ChosenInv, SessionInv, TypeOK
<1>2. loc[d].sid \in Session /\ loc[d].ids \subseteq Session
  BY <1>1 DEF Locals
<1>3. ChosenIds(d)'
  BY <1>1, <1>2 DEF ChosenIds
<1>4. PICK s \in Session : s = loc[d].sid /\ s = loc'[d].sid
  BY <1>2
<1>5. pc[d] \in {"get", "del"} =>
          /\ Known(s)'
          /\ loc[d].purging /\ Spared(s)' => hash'[s].expiry = -1
  BY <1>1, <1>4 DEF ChosenSid
<1>6. Known(loc[d].sid)' <=> Known(s)'
  BY <1>4 DEF Known
<1>7. Spared(loc[d].sid)' <=> Spared(s)'
  BY <1>4 DEF Spared, Named, Stored, ToBeExtended
<1> QED BY <1>1, <1>3, <1>4, <1>5, <1>6, <1>7 DEF ChosenSid

\* Such a step leaves the hashes, the indexes and the other calls in order.
LEMMA OthersLinked ==
    ASSUME SessionInv, LinkInv, NEW c \in Calls, Harmless(c), OpStays(c), Writes(c)
    PROVE  /\ HashesInv' /\ FirstInv' /\ ListedInv'
           /\ \A d \in Calls \ {c} : ChosenIds(d)' /\ ChosenSid(d)'
<1>1. Steady(c) /\ Alone(c) /\ OnCourse(c) /\ loc[c] \in Locals
  BY DEF Harmless, Steady, SessionInv, TypeOK, CallsInv
<1>2. ASSUME NEW s \in Session, Known(s) PROVE Known(s)' /\ loc'[s].user = loc[s].user
  <2>1. pc[c] = "prolong" /\ loc[c].op = "login" => pc'[c] \in {"prolong", "done"}
    BY DEF Writes
  <2> QED BY <1>1, <1>2, <2>1 DEF Known, Steady, Alone, Session
<1>3. ASSUME NEW s \in Session, Spared(s)' PROVE Spared(s) /\ hash'[s] = hash[s]
  BY <1>3, SparedStays DEF Writes
<1>4. HashesInv'
  <2> SUFFICES ASSUME NEW s \in Session, Stored(s)'
               PROVE  loc'[s].op = "login" /\ pc'[s] # "store"
    BY DEF HashesInv
  <2>1. loc[s].op = "login" /\ pc[s] # "store"
    BY DEF Writes, LinkInv, HashesInv, Issued
  <2> QED BY <1>1, <2>1 DEF Steady, Alone, Session
<1>5. FirstInv'
  <2> SUFFICES ASSUME NEW s \in Session, loc'[s].op = "login", Spared(s)'
               PROVE  /\ pc'[s] \in {"keep", "probe", "wipe", "enlist"} =>
                            hash'[s].expiry = loc'[s].expiry
                      /\ pc'[s] = "keep" => hash'[s].ttl = Unset
    BY DEF FirstInv
  <2>1. Spared(s) /\ hash'[s] = hash[s]
    BY <1>3
  <2>2. loc[s].op = "login"
    BY <2>1 DEF Spared, Named, LinkInv, HashesInv
  <2>3. CASE s # c
    BY <1>1, <2>1, <2>2, <2>3 DEF Alone, Session, LinkInv, FirstInv
  <2>4. CASE s = c
    BY <2>1, <2>2, <2>4 DEF Writes, LinkInv, FirstInv
  <2> QED BY <2>3, <2>4
<1>6. ListedInv'
  <2> SUFFICES ASSUME NEW u \in Owner, NEW s \in Session, index'[u][s] # Unset
               PROVE  Known(s)' /\ (Spared(s)' => index'[u][s] = hash'[s].expiry)
    BY DEF ListedInv
  <2>1. CASE index'[u][s] = index[u][s]
    BY <1>2, <1>3, <2>1 DEF LinkInv, ListedInv
  <2>2. CASE /\ pc[c] = "enlist" /\ pc'[c] = "prolong" /\ loc' = loc
             /\ s = loc[c].sid /\ index'[u][s] = loc[c].expiry
    <3>1. CASE loc[c].op = "login"
      <4>1. s = c
        BY <1>1, <2>2, <3>1 DEF OnCourse
      <4>2. Known(s)'
        BY <2>2, <3>1, <4>1 DEF Known
      <4>3. Spared(s)' => index'[u][s] = hash'[s].expiry
        BY <1>3, <2>2, <3>1, <4>1 DEF LinkInv, FirstInv
      <4> QED BY <4>2, <4>3
    <3>2. CASE loc[c].op = "extend"
      <4>1. Issued(s)
        BY <1>1, <2>2, <3>2 DEF OnCourse, Issued
      <4>2. Known(s)'
        BY <1>2, <4>1 DEF Known, Issued
      <4>3. ~Spared(s)'
        BY <2>2, <3>2 DEF Spared, ToBeExtended
      <4> QED BY <4>2, <4>3
    <3> QED BY <2>2, <3>1, <3>2, OpAt
  <2> QED BY <2>1, <2>2 DEF Writes
<1>7. ASSUME NEW d \in Calls \ {c} PROVE ChosenIds(d)' /\ ChosenSid(d)'
  <2>1. pc'[d] = pc[d] /\ loc'[d] = loc[d]
    BY <1>1 DEF Alone
  <2> QED BY <1>2, <1>3, <2>1, ChosenStays
<1> QED BY <1>4, <1>5, <1>6, <1>7

\* What the call itself has chosen
LEMMA ItselfLinked ==
    ASSUME SessionInv, LinkInv, NEW c \in Calls, Step(c), ~Store(c), ~Keep(c),
           Harmless(c), OpStays(c), Writes(c)
    PROVE  ChosenIds(c)' /\ ChosenSid(c)'
<1>1. /\ TypeOK /\ loc[c] \in Locals /\ DOMAIN pc = Calls /\ DOMAIN loc = Calls
      /\ Steady(c) /\ OnCourse(c) /\ ChosenIds(c) /\ ChosenSid(c)
      /\ loc[c].sid \in Session /\ loc[c].user \in Owner /\ loc[c].ids \subseteq Session
      /\ loc[c].owners \subseteq Owner
  BY DEF SessionInv, TypeOK, CallsInv, Harmless, LinkInv, ChosenInv, Locals
<1>2. ASSUME NEW s \in Session, Known(s) PROVE Known(s)' /\ loc'[s].user = loc[s].user
  <2>1. pc[c] = "prolong" /\ loc[c].op = "login" => pc'[c] \in {"prolong", "done"}
    BY DEF Writes
  <2> QED BY <1>1, <1>2, <2>1 DEF Known, Steady, Alone, Session
<1>3. ASSUME NEW s \in Session, Spared(s)' PROVE Spared(s) /\ hash'[s] = hash[s]
  BY <1>3, SparedStays DEF Writes
\* Most steps choose nothing.
<1>4. ASSUME UNCHANGED loc, pc'[c] \notin {"store", "range", "get", "del"}, pc'[c] # "drop"
      PROVE  ChosenIds(c)' /\ ChosenSid(c)'
  BY <1>1, <1>2, <1>4 DEF ChosenIds, ChosenSid
<1>5. CASE Login(c) \/ WithToken(c) \/ ForUser(c) \/ Cleanup(c) \/ Clear(c)
  <2>1. ASSUME NEW op, NEW label, NEW sid, NEW user, Arrive(c, op, label, sid, user),
               label \in {"store", "range"} => user \in User,
               label = "get" => Known(sid) /\ sid \in Session, label \notin {"del", "drop"}
        PROVE  ChosenIds(c)' /\ ChosenSid(c)'
    <3>1. /\ pc'[c] = label
          /\ loc'[c] = [op |-> op, sid |-> sid, user |-> user, expiry |-> Life,
                        purging |-> FALSE, ids |-> {}, owners |-> {}]
      BY <1>1, <2>1 DEF Arrive, Goto
    <3>2. ChosenIds(c)'
      BY <2>1, <3>1 DEF ChosenIds
    <3>3. label = "get" => Known(sid)'
      BY <1>2, <2>1
    <3>4. label = "get" => Known(loc[c].sid)'
      BY <3>1, <3>3 DEF Known
    <3> QED BY <2>1, <3>1, <3>2, <3>4 DEF ChosenSid
  <2>2. ASSUME WithToken(c) PROVE ChosenIds(c)' /\ ChosenSid(c)'
    BY <2>1, <2>2 DEF WithToken, Issued, Known
  <2> QED BY <1>5, <2>1, <2>2 DEF Login, ForUser, Cleanup, Clear
<1>6. CASE \/ Probe(c) \/ Wipe(c) \/ Enlist(c) \/ Prolong(c) \/ GetNothing(c) \/ Delete(c)
           \/ Unlist(c) \/ Touch(c) \/ Renew(c) \/ Drop(c) \/ DropIndex(c) \/ UnlistAll(c)
           \/ Flush(c)
  <2>1. AfterNull(c) \in {"done", "next", "refused"}
    BY DEF AfterNull
  <2>2. UNCHANGED loc /\ pc'[c] \notin {"store", "range", "get", "del", "drop"}
    BY <1>1, <1>6, <2>1 DEF Probe, Wipe, Enlist, Prolong, GetNothing, Delete, Unlist, Touch,
       Renew, Drop, DropIndex, UnlistAll, Flush, Goto
  <2> QED BY <1>4, <2>2
<1>7. CASE GetExpired(c)
  <2>1. /\ loc'[c] = [loc[c] EXCEPT !.purging = TRUE] /\ pc' = pc /\ pc[c] = "get"
        /\ Expired(loc[c].sid)
    BY <1>1, <1>7 DEF GetExpired, At
  <2>2. PICK s \in Session : s = loc[c].sid /\ s = loc'[c].sid
    BY <1>1, <2>1 DEF Locals
  <2>3. ChosenIds(c)'
    BY <1>1, <1>2, <2>1 DEF ChosenIds, Locals
  <2>4. Known(s)' /\ (Spared(s)' => hash'[s].expiry = -1)
    BY <1>1, <1>2, <1>3, <2>1, <2>2 DEF ChosenSid, Expired
  <2>5. Known(loc[c].sid)' /\ (Spared(loc[c].sid)' => hash'[loc'[c].sid].expiry = -1)
    BY <2>2, <2>4 DEF Known, Spared, Named, Stored, ToBeExtended
  <2> QED BY <2>1, <2>3, <2>5 DEF ChosenSid
<1>8. CASE GetFound(c)
  <2>0. pc[c] = "get" /\ ~Expired(loc[c].sid) /\ Stored(loc[c].sid)
    BY <1>8 DEF GetFound, At
  <2>1. /\ loc'[c].op = loc[c].op /\ loc'[c].sid = loc[c].sid
        /\ loc'[c].purging = loc[c].purging /\ loc'[c].ids = loc[c].ids
        /\ pc'[c] = IF loc[c].purging THEN "del"
                    ELSE AfterFound(loc[c].op, hash[loc[c].sid].user)
    BY <1>1, <1>8 DEF GetFound, Goto, Locals
  <2>2. /\ pc'[c] \notin {"store", "range", "get", "drop"}
        /\ pc'[c] = "del" => loc[c].purging \/ loc[c].op = "logout"
    BY <2>1 DEF AfterFound
  <2>3. loc[c].op \notin {"deleteAll", "cleanup"}
    BY <2>0, OpAt
  <2>4. ChosenIds(c)'
    BY <1>1, <1>2, <2>1, <2>3 DEF ChosenIds
  <2>5. PICK s \in Session : s = loc[c].sid /\ s = loc'[c].sid
    BY <1>1, <2>1
  <2>6. Known(s)' /\ (loc[c].purging /\ Spared(s)' => hash'[s].expiry = -1)
    BY <1>1, <1>2, <1>3, <2>0, <2>5 DEF ChosenSid
  <2>7. /\ Known(loc[c].sid)'
        /\ loc[c].purging /\ Spared(loc[c].sid)' => hash'[loc'[c].sid].expiry = -1
    BY <2>5, <2>6 DEF Known, Spared, Named, Stored, ToBeExtended
  <2> QED BY <2>1, <2>2, <2>4, <2>7 DEF ChosenSid
<1>9. CASE ReadIndex(c)
  <2>1. pc[c] = "range" /\ loc[c].op \in {"list", "deleteAll"} /\ loc[c].user \in User
    BY <1>1, <1>9, OpAt DEF ReadIndex, At, ChosenSid
  <2>2. /\ loc'[c].op = loc[c].op /\ loc'[c].user = loc[c].user
        /\ loc'[c].ids = Listed(loc[c].user) /\ pc'[c] \in {"next", "done", "drop"}
    BY <1>1, <1>9 DEF ReadIndex, Goto, Locals
  <2>3. ASSUME NEW s \in Listed(loc[c].user)
        PROVE  s \in Session /\ Known(s) /\ loc[s].user = loc[c].user
    BY <1>1, <2>1 DEF Listed, LinkInv, ListedInv, SessionInv, IndexOfOwner
  <2>4. ChosenIds(c)'
    BY <1>2, <2>1, <2>2, <2>3 DEF ChosenIds
  <2> QED BY <2>2, <2>4 DEF ChosenSid
<1>10. CASE NextSession(c)
  <2>1. loc[c].op = "list"
    BY <1>10, OpAt DEF NextSession, At
  <2>2. CASE UNCHANGED loc /\ pc'[c] = "done"
    BY <1>4, <2>2
  <2>3. ASSUME NEW s \in loc[c].ids, Goto(c, "get"),
               loc' = [loc EXCEPT ![c].sid = s, ![c].ids = @ \ {s}, ![c].purging = FALSE]
        PROVE  ChosenIds(c)' /\ ChosenSid(c)'
    <3>1. /\ loc'[c].op = "list" /\ loc'[c].sid = s /\ loc'[c].ids = loc[c].ids \ {s}
          /\ loc'[c].purging = FALSE /\ pc'[c] = "get"
      BY <1>1, <2>1, <2>3 DEF Goto, Locals
    <3>2. \A x \in loc[c].ids : x \in Session /\ Known(x)'
      BY <1>1, <1>2, <2>1 DEF ChosenIds
    <3>3. ChosenIds(c)'
      BY <3>1, <3>2 DEF ChosenIds, Known
    <3>4. Known(loc[c].sid)'
      BY <3>1, <3>2 DEF Known
    <3> QED BY <3>1, <3>3, <3>4 DEF ChosenSid
  <2> QED BY <1>1, <1>10, <2>2, <2>3 DEF NextSession, Goto
<1>11. CASE Score(c)
  <2>1. loc[c].op = "cleanup"
    BY <1>11, OpAt DEF Score, At
  <2>2. CASE UNCHANGED loc /\ pc'[c] = "done"
    BY <1>4, <2>2
  <2>3. ASSUME NEW u \in loc[c].owners,
               Goto(c, IF Overdue(u) = {} THEN "score" ELSE "drop"),
               loc' = [loc EXCEPT ![c].owners = @ \ {u}, ![c].user = u,
                                  ![c].ids = Overdue(u)]
        PROVE  ChosenIds(c)' /\ ChosenSid(c)'
    <3>1. /\ loc'[c].op = "cleanup" /\ loc'[c].ids = Overdue(u)
          /\ pc'[c] \in {"score", "drop"}
      BY <1>1, <2>1, <2>3 DEF Goto, Locals
    <3>2. ASSUME NEW s \in Overdue(u)
          PROVE  s \in Session /\ Known(s)' /\ (Spared(s)' => hash'[s].expiry = -1)
      <4>1. u \in Owner /\ s \in Session /\ index[u][s] # Unset /\ index[u][s] = -1
        BY <1>1, <2>3 DEF Overdue, Listed
      <4>2. Known(s) /\ (Spared(s) => hash[s].expiry = -1)
        BY <4>1 DEF LinkInv, ListedInv
      <4> QED BY <1>2, <1>3, <4>1, <4>2
    <3>3. ChosenIds(c)'
      BY <3>1, <3>2 DEF ChosenIds, Known, Spared, Named, Stored, ToBeExtended
    <3> QED BY <3>1, <3>3 DEF ChosenSid
  <2> QED BY <1>1, <1>11, <2>2, <2>3 DEF Score, Goto
<1>12. CASE Scan(c)
  <2>1. /\ loc[c].op = "cleanup" /\ loc'[c].op = "cleanup" /\ loc'[c].ids = loc[c].ids
        /\ pc'[c] = "score"
    BY <1>1, <1>12, OpAt DEF Scan, At, Goto, Locals
  <2>2. ChosenIds(c)'
    BY <1>1, <1>2, <2>1 DEF ChosenIds
  <2> QED BY <2>1, <2>2 DEF ChosenSid
<1>13. CASE SessionKeys(c) \/ UserKeys(c)
  <2>1. loc'[c].op = "clear" /\ pc'[c] \in {"userkeys", "done", "flush"}
    BY <1>1, <1>13, OpAt DEF SessionKeys, UserKeys, At, Goto, Locals
  <2> QED BY <2>1 DEF ChosenIds, ChosenSid
<1> QED BY <1>5, <1>6, <1>7, <1>8, <1>9, <1>10, <1>11, <1>12, <1>13
        DEF Step, CreateSession, UseSession, Maintain

-----------------------------------------------------------------------------
(* Store, Keep and the passing of time *)

\* A new hash is not in any index yet, and no call has chosen it.
LEMMA StoreLinked ==
    ASSUME SessionInv, LinkInv, NEW c \in Calls, Store(c)
    PROVE  LinkInv'
<1>1. /\ TypeOK /\ DOMAIN pc = Calls /\ OnCourse(c) /\ pc[c] = "store" /\ loc' = loc
      /\ index' = index /\ pc' = [pc EXCEPT ![c] = "keep"] /\ loc[c].op = "login"
  BY OpAt DEF SessionInv, TypeOK, CallsInv, Store, At, Goto
<1>2. loc[c].sid = c /\ c \in Session
  BY <1>1 DEF OnCourse, Session
<1>3. ~Stored(c)
  BY <1>1, <1>2 DEF LinkInv, HashesInv
<1>4. hash'[c].expiry = loc[c].expiry /\ hash'[c].ttl = Unset
  BY <1>1, <1>2, <1>3 DEF Store, Row, TypeOK
<1>5. ASSUME NEW s \in Session, s # c PROVE hash'[s] = hash[s] /\ pc'[s] = pc[s]
  BY <1>1, <1>2, <1>5 DEF Store, TypeOK, Session
<1>6. ASSUME NEW s \in Session, s # c, Spared(s)' PROVE Spared(s)
  BY <1>1, <1>5, <1>6 DEF Spared, Named, Stored, ToBeExtended
<1>7. ASSUME NEW s \in Session, Known(s) PROVE s # c /\ Known(s)'
  BY <1>1, <1>5, <1>7 DEF Known
<1>8. HashesInv'
  <2>1. ASSUME NEW s \in Session, Stored(s)' PROVE loc'[s].op = "login" /\ pc'[s] # "store"
    BY <1>1, <1>2, <1>5, <2>1 DEF LinkInv, HashesInv, Stored
  <2> QED BY <2>1 DEF HashesInv
<1>9. FirstInv'
  BY <1>1, <1>4, <1>5, <1>6 DEF LinkInv, FirstInv
<1>10. ListedInv'
  BY <1>1, <1>5, <1>6, <1>7 DEF LinkInv, ListedInv
<1>11. ASSUME NEW d \in Calls PROVE ChosenIds(d)' /\ ChosenSid(d)'
  <2>1. pc'[d] = pc[d] \/ pc'[d] = "keep"
    BY <1>1
  <2>2. \A s \in Session : Known(s) => Known(s)' /\ loc'[s].user = loc[s].user
    BY <1>1, <1>7
  <2>3. ASSUME NEW s \in Session, Known(s), Spared(s)'
        PROVE  Spared(s) /\ (hash[s].expiry = -1 => hash'[s].expiry = -1)
    BY <1>5, <1>6, <1>7, <2>3
  <2> QED BY <1>1, <2>1, <2>2, <2>3, ChosenStays
<1> QED BY <1>8, <1>9, <1>10, <1>11 DEF LinkInv, ChosenInv

\* What holds of deadlines holds of them a tick later.
LEMMA LaterKeeps ==
    /\ \A t \in Time \cup {Unset} : Later(t) \in Time \cup {Unset}
    /\ \A t \in Time \cup {Unset} : Later(t) = Unset <=> t = Unset
    /\ Later(-1) = -1 /\ Later(Unset) = Unset
BY FreshAssumption, LifeAssumption DEF Later, Time

\* The steps in which hashes lose their TTL or age together with all that refers to them
Ages ==
    /\ \A s \in Session : Stored(s)' =>
          /\ Stored(s) /\ hash'[s].user = hash[s].user
          /\ hash'[s].expiry = Later(hash[s].expiry)
          /\ hash[s].ttl = Unset => hash'[s].ttl = Unset
    /\ \A u \in Owner, s \in Session : index'[u][s] \in {Unset, Later(index[u][s])}
    /\ pc' = pc
    /\ \A c \in Calls :
          /\ loc'[c].op = loc[c].op /\ loc'[c].sid = loc[c].sid
          /\ loc'[c].user = loc[c].user
          /\ loc'[c].purging = loc[c].purging /\ loc'[c].ids = loc[c].ids
          /\ loc'[c].expiry = Later(loc[c].expiry)

LEMMA TickAges ==
    ASSUME TypeOK, Tick
    PROVE  Ages
<1>1. ASSUME NEW s \in Session, Stored(s)'
      PROVE  /\ Stored(s) /\ hash'[s].user = hash[s].user
             /\ hash'[s].expiry = Later(hash[s].expiry)
             /\ hash[s].ttl = Unset => hash'[s].ttl = Unset
  <2>1. Stored(s) /\ hash'[s] = [hash[s] EXCEPT !.expiry = Later(@), !.ttl = Later(@)]
    BY <1>1 DEF Tick, Stored
  <2>2. hash[s] \in HashRow
    BY <2>1 DEF TypeOK, Stored
  <2> QED BY <2>1, <2>2, LaterKeeps DEF HashRow
<1>2. ASSUME NEW u \in Owner, NEW s \in Session
      PROVE  index'[u][s] \in {Unset, Later(index[u][s])}
  BY DEF Tick, NoEntries
<1>3. ASSUME NEW c \in Calls
      PROVE  /\ loc'[c].op = loc[c].op /\ loc'[c].sid = loc[c].sid
             /\ loc'[c].user = loc[c].user
             /\ loc'[c].purging = loc[c].purging /\ loc'[c].ids = loc[c].ids
             /\ loc'[c].expiry = Later(loc[c].expiry)
  <2>1. loc[c] \in Locals /\ loc'[c] = [loc[c] EXCEPT !.expiry = Later(@)]
    BY DEF TypeOK, Tick
  <2> QED BY <2>1 DEF Locals
<1> QED BY <1>1, <1>2, <1>3 DEF Ages, Tick

LEMMA AgesLinked ==
    ASSUME SessionInv, LinkInv, Ages
    PROVE  LinkInv'
<1>1. TypeOK
  BY DEF SessionInv
<1>2. ASSUME NEW s \in Session, Spared(s)'
      PROVE  Spared(s) /\ hash'[s].expiry = Later(hash[s].expiry)
             /\ (hash[s].ttl = Unset => hash'[s].ttl = Unset)
             /\ hash[s].expiry \in Time
  <2>1. Named(s) /\ hash'[s].expiry = Later(hash[s].expiry)
        /\ (hash[s].ttl = Unset => hash'[s].ttl = Unset)
    BY <1>2 DEF Ages, Spared, Named, Stored
  <2>2. ~ToBeExtended(s)
    BY <1>2 DEF Ages, Spared, ToBeExtended
  <2>3. hash[s].expiry \in Time
    BY <1>1, <2>1 DEF SessionInv, NamedInv, Named, Stored, TypeOK, HashRow
  <2> QED BY <2>1, <2>2, <2>3 DEF Spared
<1>3. ASSUME NEW s \in Session, Known(s) PROVE Known(s)' /\ loc'[s].user = loc[s].user
  BY <1>3 DEF Ages, Known, Session
<1>4. HashesInv'
  BY DEF Ages, LinkInv, HashesInv, Session
<1>5. FirstInv'
  <2> SUFFICES ASSUME NEW s \in Session, loc'[s].op = "login", Spared(s)'
               PROVE  /\ pc'[s] \in {"keep", "probe", "wipe", "enlist"} =>
                            hash'[s].expiry = loc'[s].expiry
                      /\ pc'[s] = "keep" => hash'[s].ttl = Unset
    BY DEF FirstInv
  <2>1. pc'[s] = pc[s] /\ loc[s].op = "login" /\ loc'[s].expiry = Later(loc[s].expiry)
    BY DEF Ages, Session
  <2> QED BY <1>2, <2>1 DEF LinkInv, FirstInv
<1>6. ListedInv'
  <2> SUFFICES ASSUME NEW u \in Owner, NEW s \in Session, index'[u][s] # Unset
               PROVE  Known(s)' /\ (Spared(s)' => index'[u][s] = hash'[s].expiry)
    BY DEF ListedInv
  <2>1. index'[u][s] = Later(index[u][s]) /\ index[u][s] # Unset
    BY LaterKeeps DEF Ages
  <2> QED BY <1>2, <1>3, <2>1 DEF LinkInv, ListedInv
<1>7. ASSUME NEW d \in Calls PROVE ChosenIds(d)' /\ ChosenSid(d)'
  <2>1. \A s \in Session : Spared(s)' =>
            Spared(s) /\ (hash[s].expiry = -1 => hash'[s].expiry = -1)
    BY <1>2, LaterKeeps
  <2> QED BY <1>3, <2>1, ChosenStays DEF Ages
<1> QED BY <1>4, <1>5, <1>6, <1>7 DEF LinkInv, ChosenInv

\* EXPIRE changes no name and no expiry, and the login it belongs to goes on.
LEMMA KeepLinked ==
    ASSUME SessionInv, LinkInv, NEW c \in Calls, Keep(c)
    PROVE  LinkInv'
<1>1. /\ TypeOK /\ DOMAIN pc = Calls /\ OnCourse(c) /\ pc[c] = "keep" /\ loc' = loc
      /\ index' = index /\ loc[c].op \in {"login", "extend"}
      /\ pc' = [pc EXCEPT ![c] = IF loc[c].op = "login" THEN "probe" ELSE "enlist"]
  BY OpAt DEF SessionInv, TypeOK, CallsInv, Keep, At, Goto
<1>2. ASSUME NEW s \in Session
      PROVE  /\ Stored(s)' <=> Stored(s)
             /\ Stored(s) =>
                   hash'[s].user = hash[s].user /\ hash'[s].expiry = hash[s].expiry
             /\ s # loc[c].sid => hash'[s] = hash[s]
  <2>1. loc[c].sid \in Session
    BY <1>1 DEF TypeOK, Locals
  <2>2. hash' = [hash EXCEPT ![loc[c].sid] = IF @ = Absent THEN @
                                            ELSE [@ EXCEPT !.ttl = Life]]
    BY DEF Keep, SetTtl
  <2>3. CASE s # loc[c].sid
    BY <1>1, <2>1, <2>2, <2>3 DEF TypeOK, Stored
  <2>4. CASE s = loc[c].sid /\ ~Stored(s)
    BY <1>1, <2>1, <2>2, <2>4 DEF TypeOK, Stored
  <2>5. CASE s = loc[c].sid /\ Stored(s)
    <3>1. hash[s] \in HashRow /\ hash'[s] = [hash[s] EXCEPT !.ttl = Life]
      BY <1>1, <2>2, <2>5 DEF TypeOK, Stored
    <3>2. Life \in (0..Life) \cup {Unset}
      BY LifeAssumption
    <3>3. hash'[s] \in HashRow /\ hash'[s].user = hash[s].user
          /\ hash'[s].expiry = hash[s].expiry
      BY <3>1, <3>2 DEF HashRow
    <3> QED BY <2>5, <3>3, FreshAssumption DEF Stored
  <2> QED BY <2>3, <2>4, <2>5
<1>3. ASSUME NEW s \in Session, Spared(s)'
      PROVE  Spared(s) /\ hash'[s].expiry = hash[s].expiry
  <2>1. Named(s) /\ hash'[s].expiry = hash[s].expiry
    BY <1>2, <1>3 DEF Spared, Named
  <2>2. ~ToBeExtended(s)
    BY <1>1, <1>3 DEF Spared, ToBeExtended
  <2> QED BY <2>1, <2>2 DEF Spared
<1>4. ASSUME NEW s \in Session, Known(s) PROVE Known(s)'
  BY <1>1, <1>4 DEF Known, Session
<1>5. HashesInv'
  <2>1. ASSUME NEW s \in Session, Stored(s)' PROVE loc'[s].op = "login" /\ pc'[s] # "store"
    BY <1>1, <1>2, <2>1 DEF LinkInv, HashesInv, Session
  <2> QED BY <2>1 DEF HashesInv
<1>6. FirstInv'
  <2> SUFFICES ASSUME NEW s \in Session, loc'[s].op = "login", Spared(s)'
               PROVE  /\ pc'[s] \in {"keep", "probe", "wipe", "enlist"} =>
                            hash'[s].expiry = loc'[s].expiry
                      /\ pc'[s] = "keep" => hash'[s].ttl = Unset
    BY DEF FirstInv
  <2>1. Spared(s) /\ hash'[s].expiry = hash[s].expiry /\ loc[s].op = "login"
    BY <1>1, <1>3
  <2>2. CASE s = c
    BY <1>1, <2>1, <2>2 DEF LinkInv, FirstInv
  <2>3. CASE s # c
    <3>1. pc'[s] = pc[s]
      BY <1>1, <2>3 DEF Session
    <3>2. pc[s] = "keep" => s # loc[c].sid
      BY <1>1, <2>3 DEF OnCourse, Issued
    <3> QED BY <1>1, <1>2, <2>1, <3>1, <3>2 DEF LinkInv, FirstInv
  <2> QED BY <2>2, <2>3
<1>7. ListedInv'
  BY <1>1, <1>3, <1>4 DEF LinkInv, ListedInv
<1>8. ASSUME NEW d \in Calls PROVE ChosenIds(d)' /\ ChosenSid(d)'
  <2>1. pc'[d] = pc[d] \/ pc'[d] \in {"probe", "enlist"}
    BY <1>1
  <2> QED BY <1>1, <1>3, <1>4, <2>1, ChosenStays
<1> QED BY <1>5, <1>6, <1>7, <1>8 DEF LinkInv, ChosenInv

LEMMA LinkInvHolds == Spec => [](SessionInv /\ LinkInv)
<1>1. Init => LinkInv
  <2> SUFFICES ASSUME Init PROVE LinkInv
    OBVIOUS
  <2>1. ASSUME NEW s \in Session PROVE ~Stored(s)
    BY DEF Init, Stored
  <2>2. HashesInv /\ FirstInv
    BY <2>1 DEF HashesInv, FirstInv, Spared, Named
  <2>3. ListedInv
    BY DEF Init, ListedInv, NoEntries
  <2>4. ASSUME NEW c \in Calls PROVE ChosenIds(c) /\ ChosenSid(c)
    BY DEF Init, ChosenIds, ChosenSid
  <2> QED BY <2>2, <2>3, <2>4 DEF LinkInv, ChosenInv
<1>2. SessionInv /\ SessionInv' /\ LinkInv /\ [Next]_vars => LinkInv'
  <2> SUFFICES ASSUME SessionInv, SessionInv', LinkInv, [Next]_vars PROVE LinkInv'
    OBVIOUS
  <2>1. TypeOK /\ TypeOK'
    BY DEF SessionInv
  <2>2. CASE Tick
    BY <2>1, <2>2, TickAges, AgesLinked
  <2>3. ASSUME NEW c \in Calls, Step(c) PROVE LinkInv'
    <3>1. CASE Store(c) \/ Keep(c)
      BY <3>1, StoreLinked, KeepLinked
    <3>2. CASE ~Store(c) /\ ~Keep(c)
      <4>1. Harmless(c) /\ OpStays(c) /\ Writes(c)
        BY <2>1, <2>3, <3>2, StepHarmless, StepOp, StepWrites
      <4>2. /\ HashesInv' /\ FirstInv' /\ ListedInv'
            /\ \A d \in Calls \ {c} : ChosenIds(d)' /\ ChosenSid(d)'
        BY <4>1, OthersLinked
      <4>3. ChosenIds(c)' /\ ChosenSid(c)'
        BY <2>3, <3>2, <4>1, ItselfLinked
      <4> QED BY <4>2, <4>3 DEF LinkInv, ChosenInv
    <3> QED BY <3>1, <3>2
  <2>4. ASSUME UNCHANGED <<hash, index, pc, loc>> PROVE LinkInv'
    BY <2>4 DEF LinkInv, HashesInv, FirstInv, ListedInv, ChosenInv, ChosenIds, ChosenSid,
       Known, Spared, Named, Stored, ToBeExtended
  <2> QED BY <2>2, <2>3, <2>4 DEF Next, Halt, vars, redis
<1> QED BY <1>1, <1>2, SessionInvHolds, PTL DEF Spec

-----------------------------------------------------------------------------
(* The clean-ups *)

\* A session that a call is about to clean up has expired, or is being extended.
LEMMA ChosenExpired ==
    ASSUME SessionInv, LinkInv, NEW c \in Calls, NEW s \in Session, Named(s),
           \/ pc[c] = "del" /\ loc[c].purging /\ s = loc[c].sid
           \/ pc[c] = "drop" /\ loc[c].op = "cleanup" /\ s \in loc[c].ids
    PROVE  hash[s].expiry = -1 \/ ToBeExtended(s)
BY DEF LinkInv, ChosenInv, ChosenIds, ChosenSid, Spared

\* A reader that has found a session expired, and cleanupExpiredSessions, delete no
\* session that is alive, unless an extension of it has arrived.
THEOREM CleanupsSpareLive == Spec => CleanupSparesLive
<1>1. SessionInv /\ SessionInv' /\ LinkInv /\ [Next]_vars
      => [\A c \in Calls, s \in Session :
            \/ /\ pc[c] = "del" /\ pc'[c] = "zrem"
               /\ loc[c].purging /\ s = loc[c].sid
            \/ pc[c] = "drop" /\ pc'[c] = "unlist" /\ s \in loc[c].ids
            => ~Alive(s) \/ ToBeExtended(s)]_vars
  <2> SUFFICES ASSUME SessionInv, SessionInv', LinkInv, [Next]_vars,
                      NEW c \in Calls, NEW s \in Session, Alive(s),
                      \/ /\ pc[c] = "del" /\ pc'[c] = "zrem"
                         /\ loc[c].purging /\ s = loc[c].sid
                      \/ pc[c] = "drop" /\ pc'[c] = "unlist" /\ s \in loc[c].ids
               PROVE  ToBeExtended(s)
    OBVIOUS
  <2>1. pc'[c] = "unlist" => loc'[c].op = "cleanup"
    <3>1. loc'[c].op \in Operations /\ OnCourse(c)'
      BY DEF SessionInv, TypeOK, Locals, CallsInv
    <3> QED BY <3>1, Courses DEF OnCourse
  <2>2. pc[c] # "idle" => loc'[c].op = loc[c].op
    <3>1. CASE Tick
      BY <3>1, TickAges DEF SessionInv, Ages
    <3>2. CASE \E d \in Calls : Step(d)
      BY <3>2, StepOp DEF OpStays, Alone
    <3>3. CASE UNCHANGED loc
      BY <3>3
    <3> QED BY <3>1, <3>2, <3>3 DEF Next, Halt, vars
  <2>3. hash[s].expiry = -1 \/ ToBeExtended(s)
    BY <2>1, <2>2, ChosenExpired DEF Alive
  <2> QED BY <2>3 DEF Alive, Expired, Named
<1> QED BY <1>1, LinkInvHolds, SessionInvHolds, PTL DEF Spec, CleanupSparesLive

-----------------------------------------------------------------------------
(* The refinement *)

\* The names that an action takes away
EndsDoomed == \A s \in Session : Named(s) /\ ~Named(s)' => s \in Doomed

\* Only Delete, Drop and Flush delete hashes that name a user.
LEMMA StepEndsDoomed ==
    ASSUME SessionInv, LinkInv, NEW c \in Calls, Step(c)
    PROVE  EndsDoomed
<1> SUFFICES ASSUME NEW s \in Session, Named(s), ~Named(s)' PROVE s \in Doomed
  BY DEF EndsDoomed
<1>1. TypeOK /\ loc[c] \in Locals /\ hash[s] \in HashRow
  BY DEF SessionInv, TypeOK, Named, Stored
<1>2. CASE Delete(c)
  <2>1. s = loc[c].sid /\ pc[c] = "del"
    BY <1>2 DEF Delete, At, Del, Named, Stored
  <2>2. loc[c].purging \/ loc[c].op = "logout"
    BY <2>1 DEF LinkInv, ChosenInv, ChosenSid
  <2>3. hash[s].expiry = -1 \/ ToBeExtended(s) \/ loc[c].op = "logout"
    BY <2>1, <2>2, ChosenExpired
  <2>4. UnderWay(c)
    BY <1>2, <2>1 DEF Delete, At, UnderWay, Ended
  <2> QED BY <2>1, <2>2, <2>3, <2>4 DEF Doomed, Ending, CleansUp
<1>3. CASE Drop(c)
  <2>1. s \in loc[c].ids /\ pc[c] = "drop"
    BY <1>3 DEF Drop, At, Del, Named, Stored
  <2>4. UnderWay(c)
    BY <1>3, <2>1 DEF Drop, At, UnderWay, Ended
  <2>2. CASE loc[c].op = "deleteAll"
    BY <2>1, <2>2, <2>4
       DEF LinkInv, ChosenInv, ChosenIds, SessionInv, NamedInv, Doomed, Ending
  <2>3. CASE loc[c].op = "cleanup"
    <3>1. hash[s].expiry = -1 \/ ToBeExtended(s)
      BY <2>1, <2>3, ChosenExpired
    <3> QED BY <2>1, <2>3, <2>4, <3>1 DEF Doomed, Ending, CleansUp
  <2> QED BY <2>1, <2>2, <2>3, OpAt
<1>4. CASE Flush(c)
  BY <1>4, OpAt DEF Flush, At, Doomed, Ending, UnderWay, Ended
<1>5. CASE Touch(c) \/ Renew(c) \/ Store(c) \/ Keep(c)
  \* These writes take no name away.
  <2>1. loc[c].sid \in Session /\ loc[c].user \in Owner /\ loc[c].expiry \in Time
    BY <1>1 DEF Locals
  <2>2. Stored(s) /\ hash[s].user # NoUser
    BY DEF Named
  <2>3. CASE s # loc[c].sid
    BY <1>1, <1>5, <2>1, <2>2, <2>3
       DEF Touch, Renew, Store, Keep, SetTtl, Named, Stored, TypeOK
  <2>4. CASE s = loc[c].sid
    <3>1. CASE Touch(c)
      BY <1>1, <2>1, <2>2, <2>4, <3>1 DEF Touch, Row, Named, Stored, TypeOK
    <3>2. CASE Renew(c)
      <4>1. hash'[s] = [hash[s] EXCEPT !.expiry = loc[c].expiry]
        BY <1>1, <2>1, <2>2, <2>4, <3>2 DEF Renew, Row, TypeOK
      <4>2. hash'[s] \in HashRow /\ hash'[s].user = hash[s].user
        BY <1>1, <2>1, <4>1 DEF HashRow
      <4> QED BY <2>2, <4>2, FreshAssumption DEF Named, Stored
    <3>3. CASE Store(c)
      <4>1. loc[c].sid = c /\ pc[c] = "store"
        BY <3>3, OpAt DEF Store, At, SessionInv, CallsInv, OnCourse
      <4> QED BY <2>2, <2>4, <4>1 DEF LinkInv, HashesInv
    <3>4. CASE Keep(c)
      <4>1. hash'[s] = [hash[s] EXCEPT !.ttl = Life]
        BY <1>1, <2>1, <2>2, <2>4, <3>4 DEF Keep, SetTtl, Stored, TypeOK
      <4>2. Life \in (0..Life) \cup {Unset}
        BY LifeAssumption
      <4>3. hash'[s] \in HashRow /\ hash'[s].user = hash[s].user
        BY <1>1, <4>1, <4>2 DEF HashRow
      <4> QED BY <2>2, <4>3, FreshAssumption DEF Named, Stored
    <3> QED BY <1>5, <3>1, <3>2, <3>3, <3>4
  <2> QED BY <2>3, <2>4
<1>6. CASE UNCHANGED hash
  BY <1>6 DEF Named, Stored
<1> QED BY <1>2, <1>3, <1>4, <1>5, <1>6
        DEF Step, CreateSession, UseSession, Maintain, Login, WithToken, ForUser, Cleanup,
        Clear, Arrive, Probe, Wipe, Enlist, Prolong, GetNothing, GetExpired, GetFound,
        Unlist, ReadIndex, NextSession, Scan, Score, DropIndex, UnlistAll, SessionKeys,
        UserKeys, redis

\* Redis drops the hash of a session in the last tick of its life or after, or while
\* an extension has not yet set its TTL.
LEMMA TickEndsDoomed ==
    ASSUME SessionInv, LinkInv, Tick
    PROVE  EndsDoomed
<1> SUFFICES ASSUME NEW s \in Session, Named(s), ~Named(s)' PROVE s \in Doomed
  BY DEF EndsDoomed
<1>1. TypeOK /\ hash[s] \in HashRow /\ hash[s].expiry \in Time
  BY DEF SessionInv, TypeOK, Named, Stored, NamedInv, HashRow
<1>2. hash[s].ttl = 0
  <2> SUFFICES ASSUME hash[s].ttl # 0 PROVE FALSE
    OBVIOUS
  <2>1. hash'[s] = [hash[s] EXCEPT !.expiry = Later(@), !.ttl = Later(@)]
    BY DEF Tick, Named
  <2>2. hash'[s].user = hash[s].user
    BY <1>1, <2>1 DEF HashRow
  <2>3. hash'[s] \in HashRow
    <3>1. hash[s].ttl \in (1..Life) \cup {Unset}
      BY <1>1, LifeAssumption DEF HashRow
    <3>2. Later(hash[s].ttl) \in (0..Life) \cup {Unset} /\ Later(hash[s].expiry) \in Time
      BY <1>1, <3>1, LaterType
    <3> QED BY <1>1, <2>1, <3>2 DEF HashRow
  <2> QED BY <2>2, <2>3, FreshAssumption DEF Named, Stored
<1>3. CASE \E d \in Calls : pc[d] = "keep" /\ loc[d].sid = s /\ loc[d].op = "extend"
  BY <1>3 DEF Doomed, Ending
<1>4. CASE ~\E d \in Calls : pc[d] = "keep" /\ loc[d].sid = s /\ loc[d].op = "extend"
  <2>1. ASSUME NEW d \in Calls, pc[d] = "keep", loc[d].sid = s PROVE FALSE
    <3>1. loc[d].op = "login"
      BY <1>4, <2>1, OpAt
    <3>2. d = s
      BY <2>1, <3>1 DEF SessionInv, CallsInv, OnCourse
    \* An extension has a token, and so the login has ended.
    <3>3. ~ToBeExtended(s)
      BY <2>1, <3>2 DEF ToBeExtended, SessionInv, CallsInv, OnCourse, Issued
    <3>4. hash[s].ttl = Unset
      BY <2>1, <3>1, <3>2, <3>3 DEF LinkInv, FirstInv, Spared
    <3> QED BY <1>2, <3>4, FreshAssumption
  <2>2. hash[s].ttl >= hash[s].expiry
    BY <2>1 DEF SessionInv, TtlInv
  <2>3. hash[s].expiry =< 0
    BY <1>1, <1>2, <2>2, LifeAssumption DEF Time
  <2> QED BY <2>3 DEF Doomed
<1> QED BY <1>3, <1>4

\* Whose token it is, and the tokens that have been drawn
Bearer(s) == IF Named(s) THEN hash[s].user ELSE NoUser
Drawn == {s \in Session : loc[s].op = "login" /\ pc[s] \notin {"idle", "store"}}

\* A step that names nobody anew ends the sessions that lose their name.
LEMMA QuietEnds ==
    ASSUME EndsDoomed, Drawn' = Drawn,
           \A s \in Session : Named(s)' => Named(s) /\ hash'[s].user = hash[s].user
    PROVE  Tokens!Next
<1>0. PICK ended \in SUBSET Session :
          \A s \in Session : s \in ended <=> Named(s) /\ ~(Named(s)')
  <2>1. {s \in Session : Named(s) /\ ~(Named(s)')} \in SUBSET Session
    OBVIOUS
  <2> QED BY <2>1
<1>1. ended \in SUBSET Doomed
  BY <1>0 DEF EndsDoomed
<1>2. ASSUME NEW s \in Session
      PROVE  Bearer(s)' = IF s \in ended THEN NoUser ELSE Bearer(s)
  BY <1>0 DEF Bearer
<1>3. Tokens!End(ended)
  BY <1>2 DEF Tokens!End, Drawn, Bearer
<1>4. Doomed' \subseteq Session
  BY DEF Doomed
<1> QED BY <1>1, <1>3, <1>4 DEF Tokens!Next

\* HSET of createSession issues the token, which nobody has drawn before.
LEMMA StoreIssues ==
    ASSUME SessionInv, LinkInv, NEW c \in Calls, Store(c)
    PROVE  Tokens!Next
<1>1. /\ TypeOK /\ DOMAIN pc = Calls /\ OnCourse(c) /\ pc[c] = "store" /\ loc' = loc
      /\ pc' = [pc EXCEPT ![c] = "keep"] /\ loc[c].op = "login" /\ loc[c].user \in User
  BY OpAt DEF SessionInv, TypeOK, CallsInv, Store, At, Goto, LinkInv, ChosenInv, ChosenSid
<1>2. loc[c].sid = c /\ c \in Session
  BY <1>1 DEF OnCourse, Session
<1>3. ~Stored(c)
  BY <1>1, <1>2 DEF LinkInv, HashesInv
<1>4. \A s \in Session \ {c} : hash'[s] = hash[s]
  BY <1>1, <1>2 DEF Store, TypeOK
<1>5. hash'[c] = [[user |-> NoUser, expiry |-> Unset, ttl |-> Unset]
                    EXCEPT !.user = loc[c].user, !.expiry = loc[c].expiry]
  BY <1>1, <1>2, <1>3 DEF Store, Row, TypeOK
<1>6. hash'[c].user = loc[c].user /\ hash'[c] \in HashRow
  <2>1. loc[c].expiry \in Time
    BY <1>1 DEF TypeOK, Locals
  <2> QED BY <1>1, <1>5, <2>1 DEF HashRow, Owner
<1>7. Named(c)' /\ ~Named(c)
  BY <1>1, <1>3, <1>6, FreshAssumption DEF Named, Stored
<1>8. Drawn' = Drawn \cup {c} /\ c \notin Drawn
  BY <1>1, <1>2 DEF Drawn, Session
<1>9. ASSUME NEW s \in Session
      PROVE  Bearer(s)' = IF s = c THEN loc[c].user ELSE Bearer(s)
  BY <1>4, <1>6, <1>7 DEF Bearer, Named, Stored
<1>10. PICK u \in User : u = loc[c].user
  BY <1>1
<1>11. Tokens!Issue(c, u)
  BY <1>2, <1>8, <1>9, <1>10 DEF Tokens!Issue, Drawn, Bearer
<1>12. Doomed' \subseteq Session
  BY DEF Doomed
<1> QED BY <1>2, <1>11, <1>12 DEF Tokens!Next

\* Every other step of a call issues nothing.
LEMMA StepEnds ==
    ASSUME SessionInv, TypeOK', LinkInv, NEW c \in Calls, Step(c), ~Store(c)
    PROVE  Tokens!Next
<1>1. TypeOK /\ Alone(c) /\ OpStays(c) /\ OnCourse(c)
  BY StepOp DEF OpStays, SessionInv, CallsInv
<1>2. EndsDoomed
  BY StepEndsDoomed
<1>3. CASE Keep(c)
  <2>1. /\ pc[c] = "keep" /\ loc' = loc /\ pc'[c] \in {"probe", "enlist"}
        /\ hash' = [hash EXCEPT ![loc[c].sid] = IF @ = Absent THEN @
                                                ELSE [@ EXCEPT !.ttl = Life]]
    BY <1>1, <1>3 DEF Keep, SetTtl, At, Goto, TypeOK
  <2>2. Drawn' = Drawn
    BY <1>1, <2>1 DEF Drawn, Alone, Session
  <2>3. ASSUME NEW s \in Session, Named(s)'
        PROVE  Named(s) /\ hash'[s].user = hash[s].user
    <3>1. loc[c].sid \in Session
      BY <1>1 DEF TypeOK, Locals
    <3>2. CASE s # loc[c].sid \/ ~Stored(s)
      BY <1>1, <2>1, <2>3, <3>1, <3>2 DEF Named, Stored, TypeOK
    <3>3. CASE s = loc[c].sid /\ Stored(s)
      <4>1. hash'[s] = [hash[s] EXCEPT !.ttl = Life] /\ hash[s] \in HashRow
        BY <1>1, <2>1, <3>1, <3>3 DEF Stored, TypeOK
      <4>2. hash'[s].user = hash[s].user
        BY <4>1 DEF HashRow
      <4> QED BY <2>3, <3>3, <4>2 DEF Named
    <3> QED BY <3>2, <3>3
  <2> QED BY <1>2, <2>2, <2>3, QuietEnds
<1>4. CASE ~Keep(c)
  <2>1. Harmless(c) /\ Writes(c)
    BY <1>4, StepHarmless, StepWrites
  <2>2. \A s \in Session : Named(s)' => Named(s) /\ hash'[s].user = hash[s].user
    BY <2>1 DEF Harmless, NoNewNames
  <2>3. pc[c] = "idle" => loc[c].op # "login" /\ (loc'[c].op = "login" => pc'[c] = "store")
    <3>1. loc[c].op \in Operations
      BY <1>1 DEF TypeOK, Locals
    <3> QED BY <1>1, <2>1, <3>1, Courses DEF Writes, OnCourse
  <2>4. pc[c] # "idle" => loc'[c].op = loc[c].op /\ pc'[c] # "idle"
    BY <1>1 DEF OpStays
  <2>5. loc[c].op = "login" => pc[c] # "store" /\ pc'[c] # "store"
    BY <2>1 DEF Writes
  <2>6. c \in Drawn' <=> c \in Drawn
    BY <2>3, <2>4, <2>5 DEF Drawn
  <2>7. Drawn' = Drawn
    BY <1>1, <2>6 DEF Drawn, Alone, Session
  <2> QED BY <1>2, <2>2, <2>7, QuietEnds
<1> QED BY <1>3, <1>4

\* A session names the user it was created for until a logout, a deletion of its
\* user's sessions or of all, or the end of its time ends it, whatever the requests in
\* flight write back, and is nobody's ever after.
THEOREM SessionsImplementStore == Spec => ImplementsStore
<1>1. Init => Tokens!Init
  <2> SUFFICES ASSUME Init PROVE Tokens!Init
    OBVIOUS
  <2>1. \A s \in Session : ~Named(s) /\ loc[s].op # "login"
    BY DEF Init, Named, Stored, Session
  <2> QED BY <2>1 DEF Tokens!Init, Doomed
<1>2. SessionInv /\ SessionInv' /\ LinkInv /\ [Next]_vars => [Tokens!Next]_(Tokens!vars)
  <2> SUFFICES ASSUME SessionInv, SessionInv', LinkInv, [Next]_vars
               PROVE  Tokens!Next \/ UNCHANGED Tokens!vars
    OBVIOUS
  <2>1. TypeOK /\ TypeOK'
    BY DEF SessionInv
  <2>2. CASE Tick
    <3>1. Ages
      BY <2>1, <2>2, TickAges
    <3>2. Drawn' = Drawn
      BY <3>1 DEF Ages, Drawn, Session
    <3>3. \A s \in Session : Named(s)' => Named(s) /\ hash'[s].user = hash[s].user
      BY <3>1 DEF Ages, Named, Stored
    <3> QED BY <2>2, <3>2, <3>3, TickEndsDoomed, QuietEnds
  <2>3. ASSUME NEW c \in Calls, Step(c) PROVE Tokens!Next
    BY <2>1, <2>3, StoreIssues, StepEnds
  <2>4. ASSUME UNCHANGED <<hash, pc, loc>> PROVE Tokens!Next
    <3>1. EndsDoomed /\ Drawn' = Drawn
      BY <2>4 DEF EndsDoomed, Drawn, Named, Stored
    <3>2. \A s \in Session : Named(s)' => Named(s) /\ hash'[s].user = hash[s].user
      BY <2>4 DEF Named, Stored
    <3> QED BY <3>1, <3>2, QuietEnds
  <2> QED BY <2>2, <2>3, <2>4 DEF Next, Halt, vars, redis
<1> QED BY <1>1, <1>2, LinkInvHolds, SessionInvHolds, PTL
        DEF Spec, ImplementsStore, Tokens!Spec
=============================================================================

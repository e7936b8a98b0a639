------------------------------ MODULE Accounts ------------------------------
(***************************************************************************)
(* Signing up, logging in, changing the e-mail address, creating a company *)
(* with its leader, and reading a company's information, which is for its  *)
(* leader. Calls run concurrently against the tables User and Company; any *)
(* statement may throw.                                                    *)
(*                                                                         *)
(* The row a call inserts is named by the call. Sessions are taken at      *)
(* their word: a token names a user until it is ended (RedisSessions says  *)
(* how far that is so). bcrypt accepts the password that was hashed.       *)
(***************************************************************************)
EXTENDS Naturals

CONSTANTS
    Calls,
    Name,       \* strings without @
    Mail,       \* strings with @
    Password,
    Requests,   \* bodies and parameters of the calls
    NoMail, NoUser

Identifier == Name \cup Mail
Request ==
    [op : {"signup"}, username : Identifier, email : Mail \cup {NoMail}, password : Password]
    \cup [op : {"company", "login"}, username : Identifier, password : Password]
    \cup [op : {"setEmail"}, user : Calls, email : Mail]
    \cup [op : {"information"}, token : Calls, company : Calls]

ASSUME RequestsAssumption == Requests \subseteq Request
ASSUME StringsAssumption ==
    Name \cap Mail = {} /\ NoMail \notin Identifier /\ NoUser \notin Calls

User == [id : Calls, username : Identifier, email : Mail \cup {NoMail}, password : Password]
Company == [id : Calls, leaderId : Calls]

VARIABLES
    users, companies,   \* committed rows
    req,                \* the request of each call
    pc,                 \* the statement each call awaits next, or its answer
    open,               \* has the call's transaction inserted its user?
    found,              \* the user a call goes on with
    session             \* the user that the token a call returned names

vars == <<users, companies, req, pc, open, found, session>>

\* 409 from a check, 500 from a unique column, 401 or 403, 500 from an error
Answers == {"done", "conflict", "clash", "denied", "failed"}
TypeOK ==
    /\ users \subseteq User
    /\ companies \subseteq Company
    /\ req \in [Calls -> Requests]
    /\ pc \in [Calls -> {"idle", "email", "create", "company", "commit", "update",
                         "companies", "session", "leader", "read"} \cup Answers]
    /\ open \in [Calls -> BOOLEAN]
    /\ found \in [Calls -> Calls \cup {NoUser}]
    /\ session \in [Calls -> Calls \cup {NoUser}]

Init ==
    /\ users = {} /\ companies = {}
    /\ req \in [Calls -> Requests]
    /\ pc = [c \in Calls |-> "idle"]
    /\ open = [c \in Calls |-> FALSE]
    /\ found = [c \in Calls |-> NoUser]
    /\ session = [c \in Calls |-> NoUser]

At(c, op, stage) == req[c].op = op /\ pc[c] = stage
Goto(c, stage) == pc' = [pc EXCEPT ![c] = stage]
tables == <<users, companies>>

-----------------------------------------------------------------------------
(* The unique columns User.username and User.email                         *)

\* (slip) a row that another transaction has not committed counts
UsernameTakenOrPending(c) ==
    \/ \E u \in users : u.username = req[c].username
    \/ \E d \in Calls : open[d] /\ req[d].username = req[c].username
UsernameTaken(c) == \E u \in users : u.username = req[c].username
EmailTaken(c) == \E u \in users : u.email = req[c].email
Taken(username, email) ==
    \E u \in users : u.username = username \/ (email # NoMail /\ u.email = email)

\* An insert waits for the transaction that has inserted the same name.
Contended(c) == \E d \in Calls : open[d] /\ req[d].username = req[c].username

Row(c, email) ==
    [id |-> c, username |-> req[c].username, email |-> email,
     password |-> req[c].password]

-----------------------------------------------------------------------------
(* POST /auth/signup                                                       *)

CheckUsername(c) ==
    /\ At(c, "signup", "idle")
    /\ Goto(c, IF UsernameTaken(c) THEN "conflict"
               ELSE IF req[c].email = NoMail THEN "create" ELSE "email")
    /\ UNCHANGED <<tables, req, open, found, session>>
CheckEmail(c) ==
    /\ At(c, "signup", "email")
    /\ Goto(c, IF EmailTaken(c) THEN "conflict" ELSE "create")
    /\ UNCHANGED <<tables, req, open, found, session>>

\* (slip) the table has no unique columns
CreateAnyway(c) ==
    /\ At(c, "signup", "create") /\ ~Contended(c)
    /\ users' = users \cup {Row(c, req[c].email)}
    /\ found' = [found EXCEPT ![c] = c]
    /\ Goto(c, "companies")
    /\ UNCHANGED <<companies, req, open, session>>
Create(c) ==
    /\ At(c, "signup", "create") /\ ~Contended(c)
    /\ \/ /\ Taken(req[c].username, req[c].email)
          /\ Goto(c, "clash")
          /\ UNCHANGED <<users, found>>
       \/ /\ ~Taken(req[c].username, req[c].email)
          /\ users' = users \cup {Row(c, req[c].email)}
          /\ found' = [found EXCEPT ![c] = c]
          /\ Goto(c, "companies")
    /\ UNCHANGED <<companies, req, open, session>>

-----------------------------------------------------------------------------
(* POST /auth/login. Signing up ends in the same two steps.                *)

\* (slip) whoever has the password
HasPassword(c, u) == u.password = req[c].password
\* An identifier with @ is an e-mail address, also if it is somebody's username.
Identifies(c, u) ==
    /\ IF req[c].username \in Mail THEN u.email = req[c].username
       ELSE u.username = req[c].username
    /\ u.password = req[c].password
ValidateUser(c) ==
    /\ At(c, "login", "idle")
    /\ \/ \E u \in users : /\ Identifies(c, u)
                           /\ found' = [found EXCEPT ![c] = u.id]
                           /\ Goto(c, "companies")
       \/ /\ ~\E u \in users : Identifies(c, u)
          /\ Goto(c, "denied") /\ UNCHANGED found
    /\ UNCHANGED <<tables, req, open, session>>

\* findByIdWithCompanies
ReadCompanies(c) ==
    /\ pc[c] = "companies"
    /\ Goto(c, IF \E u \in users : u.id = found[c] THEN "session" ELSE "denied")
    /\ UNCHANGED <<tables, req, open, found, session>>
CreateSession(c) ==
    /\ pc[c] = "session"
    /\ session' = [session EXCEPT ![c] = found[c]]
    /\ Goto(c, "done")
    /\ UNCHANGED <<tables, req, open, found>>

\* A logout, or the session's time is up
EndSession(c) ==
    /\ session[c] # NoUser
    /\ session' = [session EXCEPT ![c] = NoUser]
    /\ UNCHANGED <<tables, req, pc, open, found>>

-----------------------------------------------------------------------------
(* setEmail                                                                *)

CheckNewEmail(c) ==
    /\ At(c, "setEmail", "idle")
    /\ \E u \in users : u.id = req[c].user
    /\ Goto(c, IF EmailTaken(c) THEN "conflict" ELSE "update")
    /\ UNCHANGED <<tables, req, open, found, session>>
UpdateEmail(c) ==
    /\ At(c, "setEmail", "update")
    /\ \/ /\ \E u \in users : u.email = req[c].email /\ u.id # req[c].user
          /\ Goto(c, "clash") /\ UNCHANGED users
       \/ /\ ~\E u \in users : u.email = req[c].email /\ u.id # req[c].user
          /\ users' = {[u EXCEPT !.email = IF u.id = req[c].user THEN req[c].email ELSE @] :
                       u \in users}
          /\ Goto(c, "done")
    /\ UNCHANGED <<companies, req, open, found, session>>

-----------------------------------------------------------------------------
(* POST /company: createCompanyAndLeader, one transaction                  *)

\* (slip) the user is created outside the transaction
InsertLeaderAtOnce(c) ==
    /\ At(c, "company", "idle") /\ ~Contended(c)
    /\ \/ /\ Taken(req[c].username, NoMail)
          /\ Goto(c, "clash")
          /\ UNCHANGED <<users, open>>
       \/ /\ ~Taken(req[c].username, NoMail)
          /\ open' = [open EXCEPT ![c] = TRUE]
          /\ users' = users \cup {Row(c, NoMail)}
          /\ Goto(c, "company")
    /\ UNCHANGED <<companies, req, found, session>>
InsertLeader(c) ==
    /\ At(c, "company", "idle") /\ ~Contended(c)
    /\ \/ /\ Taken(req[c].username, NoMail)
          /\ Goto(c, "clash")
          /\ UNCHANGED open
       \/ /\ ~Taken(req[c].username, NoMail)
          /\ open' = [open EXCEPT ![c] = TRUE]
          /\ Goto(c, "company")
    /\ UNCHANGED <<tables, req, found, session>>
InsertCompany(c) ==
    /\ At(c, "company", "company")
    /\ Goto(c, "commit")
    /\ UNCHANGED <<tables, req, open, found, session>>
Commit(c) ==
    /\ At(c, "company", "commit")
    /\ users' = users \cup {Row(c, NoMail)}
    /\ companies' = companies \cup {[id |-> c, leaderId |-> c]}
    /\ open' = [open EXCEPT ![c] = FALSE]
    /\ Goto(c, "done")
    /\ UNCHANGED <<req, found, session>>

-----------------------------------------------------------------------------
(* GET /company/:id/information, behind CompanyLeaderGuard                 *)

\* SessionAuthGuard; a session without a user is refused as well.
ReadSession(c) ==
    /\ At(c, "information", "idle") /\ pc[req[c].token] = "done"
    /\ found' = [found EXCEPT ![c] = session[req[c].token]]
    /\ Goto(c, IF session[req[c].token] = NoUser THEN "denied" ELSE "leader")
    /\ UNCHANGED <<tables, req, open, session>>

\* (slip) the guard looks for any company of the user
LeadsAny(c) == \E k \in companies : k.leaderId = found[c]
Leads(c) == \E k \in companies : k.id = req[c].company /\ k.leaderId = found[c]
CheckLeader(c) ==
    /\ At(c, "information", "leader")
    /\ Goto(c, IF Leads(c) THEN "read" ELSE "denied")
    /\ UNCHANGED <<tables, req, open, found, session>>
GetInformation(c) ==
    /\ At(c, "information", "read")
    /\ Goto(c, "done")
    /\ UNCHANGED <<tables, req, open, found, session>>

-----------------------------------------------------------------------------
\* A statement of a call throws, its first one too, or the process dies under it;
\* the database undoes its transaction.
Interrupt(c) ==
    /\ pc[c] \notin Answers
    /\ Goto(c, "failed")
    /\ open' = [open EXCEPT ![c] = FALSE]
    /\ UNCHANGED <<tables, req, found, session>>

Signup(c) == CheckUsername(c) \/ CheckEmail(c) \/ Create(c)
Login(c) == ValidateUser(c) \/ ReadCompanies(c) \/ CreateSession(c)
SetEmail(c) == CheckNewEmail(c) \/ UpdateEmail(c)
CreateCompanyAndLeader(c) == InsertLeader(c) \/ InsertCompany(c) \/ Commit(c)
Information(c) == ReadSession(c) \/ CheckLeader(c) \/ GetInformation(c)

\* Only calls that wait for a user or a token to exist are left.
AllEnded ==
    /\ \A c \in Calls : pc[c] \in Answers \cup {"idle"}
    /\ UNCHANGED vars

Next ==
    \/ \E c \in Calls : \/ Signup(c) \/ Login(c) \/ SetEmail(c)
                        \/ CreateCompanyAndLeader(c) \/ Information(c)
                        \/ EndSession(c) \/ Interrupt(c)
    \/ AllEnded

Spec == Init /\ [][Next]_vars

-----------------------------------------------------------------------------
(* Properties                                                              *)

\* No two users have one username or one e-mail address, although both are
\* looked up awaits before they are stored.
AccountsUnique ==
    \A u, v \in users :
        \/ u.username = v.username
        \/ u.email = v.email /\ u.email # NoMail
        => u = v

\* A company and its leader are created together or not at all, and nobody leads
\* two companies.
CompaniesWhole ==
    /\ \A c \in Calls : req[c].op = "company" =>
          ((\E u \in users : u.id = c) <=> \E k \in companies : k.id = c)
    /\ \A k \in companies : \E u \in users : u.id = k.leaderId
    /\ \A k, l \in companies : k.leaderId = l.leaderId => k = l

\* What a call has stored: names and e-mail addresses
Stored(c) ==
    IF req[c].op = "setEmail" THEN pc[c] = "done" ELSE \E u \in users : u.id = c
NamesOf(c) == IF req[c].op \in {"signup", "company"} THEN {req[c].username} ELSE {}
MailsOf(c) == IF req[c].op \in {"signup", "setEmail"} THEN {req[c].email} \ {NoMail} ELSE {}

\* Nobody is refused for nothing: whoever is told that a name or an address is
\* taken, by a check or by the database, has lost it to a call that has stored
\* it, never to one that was undone.
RefusalsHaveReason ==
    \A c \in Calls : pc[c] \in {"conflict", "clash"} =>
        \E d \in Calls \ {c} :
            /\ Stored(d)
            /\ NamesOf(c) \cap NamesOf(d) # {} \/ MailsOf(c) \cap MailsOf(d) # {}

\* The addresses and names a user has had
Known(v) ==
    NamesOf(v) \cup MailsOf(v) \cup
    UNION {MailsOf(d) : d \in {d \in Calls : req[d].op = "setEmail" /\ Stored(d)
                                             /\ req[d].user = v}}

\* A token names the user whose password and whose name or address it was got
\* with, also if names look like addresses and addresses change hands.
SessionsOfTheirOwner ==
    \A c \in Calls : session[c] # NoUser =>
        \E u \in users : /\ u.id = session[c] /\ u.password = req[c].password
                         /\ req[c].username \in Known(u.id)

\* Who is shown a company's information has come with a token that was got with
\* the password its leader was created with.
InformationForLeaders ==
    \A c \in Calls : At(c, "information", "done") =>
        \E k \in companies, u \in users :
            /\ k.id = req[c].company /\ u.id = k.leaderId
            /\ req[req[c].token].password = u.password

-----------------------------------------------------------------------------
(* The inductive invariant behind the properties                           *)

\* A user is the row its call has inserted, once.
RowsInv ==
    /\ \A u \in users :
          /\ req[u.id].op \in {"signup", "company"}
          /\ u.username = req[u.id].username /\ u.password = req[u.id].password
          /\ pc[u.id] \notin {"idle", "email", "create", "company", "commit"}
    /\ \A u, v \in users : u.id = v.id => u = v

\* What an open transaction's insert keeps from others
LocksInv ==
    /\ \A c \in Calls : open[c] <=> pc[c] \in {"company", "commit"}
    /\ \A c \in Calls : open[c] => /\ req[c].op = "company"
                                   /\ \A u \in users : u.username # req[c].username
    /\ \A c, d \in Calls :
          open[c] /\ open[d] /\ req[c].username = req[d].username => c = d

\* Only a signup with an address looks for it.
SignupsInv == \A c \in Calls : pc[c] = "email" => req[c].email # NoMail

\* An address was stored by a signup, or by a change that is done.
MailsInv ==
    \A u \in users : u.email # NoMail =>
        \E d \in Calls : Stored(d) /\ u.email \in MailsOf(d) /\ u.email \in Known(u.id)

\* Where a call's user comes from
LeadersInv == \A k \in companies : k.leaderId = k.id /\ req[k.id].op = "company"
Owns(id, c) ==
    /\ req[c].op \in {"signup", "login"}
    /\ \E u \in users : /\ u.id = id /\ u.password = req[c].password
                        /\ req[c].username \in Known(id)
OwnerOf(c) ==
    /\ pc[c] \in {"companies", "session"} => Owns(found[c], c)
    /\ session[c] # NoUser => Owns(session[c], c)
    /\ req[c].op = "information" =>
          /\ pc[c] \in {"leader", "read", "done"} => Owns(found[c], req[c].token)
          /\ pc[c] \in {"read", "done"} => Leads(c)
OwnersInv == \A c \in Calls : OwnerOf(c)

AccountInv == /\ TypeOK /\ RowsInv /\ LocksInv /\ SignupsInv /\ MailsInv
              /\ LeadersInv /\ OwnersInv
              /\ AccountsUnique /\ CompaniesWhole /\ RefusalsHaveReason
=============================================================================

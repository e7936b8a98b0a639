--------------------------- MODULE AccountsProofs ---------------------------
(* Proofs of the properties of Accounts for any number of calls, names,     *)
(* addresses and passwords.                                                 *)
EXTENDS Accounts, TLAPS

LEMMA InitInv == Init => AccountInv
<1> SUFFICES ASSUME Init PROVE AccountInv
  OBVIOUS
<1>1. TypeOK
  BY DEF Init, TypeOK
<1>2. RowsInv /\ SignupsInv /\ MailsInv /\ LeadersInv
  BY DEF Init, RowsInv, SignupsInv, MailsInv, LeadersInv
<1>3. LocksInv
  BY DEF Init, LocksInv
<1>4. OwnersInv
  BY DEF Init, OwnersInv, OwnerOf
<1>5. AccountsUnique /\ CompaniesWhole /\ RefusalsHaveReason
  BY DEF Init, AccountsUnique, CompaniesWhole, RefusalsHaveReason
<1> QED
  BY <1>1, <1>2, <1>3, <1>4, <1>5 DEF AccountInv

-----------------------------------------------------------------------------
(* What the requests are                                                    *)

LEMMA RequestTypes ==
    ASSUME TypeOK, NEW c \in Calls
    PROVE  /\ req[c] \in Request
           /\ req[c].op \in {"signup", "company", "login", "setEmail", "information"}
           /\ req[c].op \in {"signup", "company", "login"} =>
                 req[c].username \in Identifier /\ req[c].password \in Password
           /\ req[c].op = "signup" => req[c].email \in Mail \cup {NoMail}
           /\ req[c].op = "setEmail" => req[c].email \in Mail /\ req[c].user \in Calls
           /\ req[c].op = "information" => req[c].token \in Calls /\ req[c].company \in Calls
<1>1. req[c] \in Request
  BY RequestsAssumption DEF TypeOK
<1> QED
  BY <1>1 DEF Request

-----------------------------------------------------------------------------
(* Types                                                                    *)

LEMMA TypeStep ==
    ASSUME TypeOK, [Next]_vars
    PROVE  TypeOK'
<1>u. CASE UNCHANGED vars
  BY <1>u DEF vars, TypeOK
<1>n. CASE AllEnded
  BY <1>n DEF AllEnded, vars, TypeOK
<1>s. ASSUME NEW c \in Calls, Signup(c)
      PROVE  TypeOK'
  <2> /\ req[c].op = "signup"
      /\ req[c].username \in Identifier /\ req[c].password \in Password
      /\ req[c].email \in Mail \cup {NoMail}
    BY <1>s, RequestTypes DEF Signup, CheckUsername, CheckEmail, Create, At
  <2>1. CASE CheckUsername(c)
    BY <2>1 DEF CheckUsername, Goto, tables, TypeOK, Answers
  <2>2. CASE CheckEmail(c)
    BY <2>2 DEF CheckEmail, Goto, tables, TypeOK, Answers
  <2>3. CASE Create(c)
    <3>1. Row(c, req[c].email) \in User
      BY DEF Row, User
    <3>2. users' \subseteq User
      BY <2>3, <3>1 DEF Create, TypeOK
    <3> QED
      BY <2>3, <3>2 DEF Create, Goto, TypeOK, Answers
  <2> QED
    BY <1>s, <2>1, <2>2, <2>3 DEF Signup
<1>l. ASSUME NEW c \in Calls, Login(c)
      PROVE  TypeOK'
  <2>1. CASE ValidateUser(c)
    BY <2>1 DEF ValidateUser, Goto, tables, TypeOK, User, Answers
  <2>2. CASE ReadCompanies(c)
    BY <2>2 DEF ReadCompanies, Goto, tables, TypeOK, Answers
  <2>3. CASE CreateSession(c)
    BY <2>3 DEF CreateSession, Goto, tables, TypeOK, Answers
  <2> QED
    BY <1>l, <2>1, <2>2, <2>3 DEF Login
<1>m. ASSUME NEW c \in Calls, SetEmail(c)
      PROVE  TypeOK'
  <2> req[c].op = "setEmail" /\ req[c].email \in Mail
    BY <1>m, RequestTypes DEF SetEmail, CheckNewEmail, UpdateEmail, At
  <2>1. CASE CheckNewEmail(c)
    BY <2>1 DEF CheckNewEmail, Goto, tables, TypeOK, Answers
  <2>2. CASE UpdateEmail(c)
    <3>1. users' \subseteq User
      BY <2>2 DEF UpdateEmail, TypeOK, User
    <3> QED
      BY <2>2, <3>1 DEF UpdateEmail, Goto, TypeOK, Answers
  <2> QED
    BY <1>m, <2>1, <2>2 DEF SetEmail
<1>c. ASSUME NEW c \in Calls, CreateCompanyAndLeader(c)
      PROVE  TypeOK'
  <2> /\ req[c].op = "company"
      /\ req[c].username \in Identifier /\ req[c].password \in Password
    BY <1>c, RequestTypes
       DEF CreateCompanyAndLeader, InsertLeader, InsertCompany, Commit, At
  <2>1. CASE InsertLeader(c)
    BY <2>1 DEF InsertLeader, Goto, tables, TypeOK, Answers
  <2>2. CASE InsertCompany(c)
    BY <2>2 DEF InsertCompany, Goto, tables, TypeOK, Answers
  <2>3. CASE Commit(c)
    <3>1. Row(c, NoMail) \in User /\ [id |-> c, leaderId |-> c] \in Company
      BY DEF Row, User, Company
    <3> QED
      BY <2>3, <3>1 DEF Commit, Goto, TypeOK, Answers
  <2> QED
    BY <1>c, <2>1, <2>2, <2>3 DEF CreateCompanyAndLeader
<1>i. ASSUME NEW c \in Calls, Information(c)
      PROVE  TypeOK'
  <2> req[c].op = "information" /\ req[c].token \in Calls
    BY <1>i, RequestTypes DEF Information, ReadSession, CheckLeader, GetInformation, At
  <2>1. CASE ReadSession(c)
    BY <2>1 DEF ReadSession, Goto, tables, TypeOK, Answers
  <2>2. CASE CheckLeader(c)
    BY <2>2 DEF CheckLeader, Goto, tables, TypeOK, Answers
  <2>3. CASE GetInformation(c)
    BY <2>3 DEF GetInformation, Goto, tables, TypeOK, Answers
  <2> QED
    BY <1>i, <2>1, <2>2, <2>3 DEF Information
<1>e. ASSUME NEW c \in Calls, EndSession(c) \/ Interrupt(c)
      PROVE  TypeOK'
  BY <1>e DEF EndSession, Interrupt, Goto, tables, TypeOK, Answers
<1> QED
  BY <1>u, <1>n, <1>s, <1>l, <1>m, <1>c, <1>i, <1>e DEF Next

-----------------------------------------------------------------------------
(* What a step keeps: requests, users but for their address, and changes    *)
(* that are done                                                            *)

Grow ==
    /\ req' = req
    /\ \A u \in users : \E v \in users' : v.id = u.id /\ v.password = u.password
    /\ \A d \in Calls : req[d].op = "setEmail" /\ pc[d] = "done" => pc'[d] = "done"

LEMMA GrowStep ==
    ASSUME TypeOK, [Next]_vars
    PROVE  Grow
<1>u. CASE UNCHANGED vars
  BY <1>u DEF vars, Grow
<1>n. CASE AllEnded
  BY <1>n DEF AllEnded, vars, Grow
<1>s. ASSUME NEW c \in Calls, Signup(c)
      PROVE  Grow
  BY <1>s DEF Signup, CheckUsername, CheckEmail, Create, At, Goto, tables, Grow, TypeOK
<1>l. ASSUME NEW c \in Calls, Login(c)
      PROVE  Grow
  BY <1>l DEF Login, ValidateUser, ReadCompanies, CreateSession, At, Goto, tables, Grow, TypeOK
<1>m. ASSUME NEW c \in Calls, SetEmail(c)
      PROVE  Grow
  <2>1. CASE CheckNewEmail(c)
    BY <2>1 DEF CheckNewEmail, At, Goto, tables, Grow, TypeOK
  <2>2. CASE UpdateEmail(c)
    <3>1. \A d \in Calls : pc[d] = "done" => pc'[d] = "done"
      BY <2>2 DEF UpdateEmail, At, Goto, TypeOK
    <3>2. ASSUME NEW u \in users
          PROVE  \E v \in users' : v.id = u.id /\ v.password = u.password
      <4>1. CASE users' = users
        BY <4>1
      <4>2. CASE users' = {[w EXCEPT !.email = IF w.id = req[c].user THEN req[c].email ELSE @] :
                             w \in users}
        <5> DEFINE v == [u EXCEPT !.email = IF u.id = req[c].user THEN req[c].email ELSE @]
        <5>1. v \in users'
          BY <4>2
        <5>2. v.id = u.id /\ v.password = u.password
          BY DEF TypeOK, User
        <5> QED
          BY <5>1, <5>2
      <4> QED
        BY <2>2, <4>1, <4>2 DEF UpdateEmail
    <3> QED
      BY <2>2, <3>1, <3>2 DEF UpdateEmail, Grow
  <2> QED
    BY <1>m, <2>1, <2>2 DEF SetEmail
<1>c. ASSUME NEW c \in Calls, CreateCompanyAndLeader(c)
      PROVE  Grow
  BY <1>c DEF CreateCompanyAndLeader, InsertLeader, InsertCompany, Commit,
              At, Goto, tables, Grow, TypeOK
<1>i. ASSUME NEW c \in Calls, Information(c)
      PROVE  Grow
  BY <1>i DEF Information, ReadSession, CheckLeader, GetInformation,
              At, Goto, tables, Grow, TypeOK
<1>e. ASSUME NEW c \in Calls, EndSession(c) \/ Interrupt(c)
      PROVE  Grow
  BY <1>e DEF EndSession, Interrupt, Answers, Goto, tables, Grow, TypeOK
<1> QED
  BY <1>u, <1>n, <1>s, <1>l, <1>m, <1>c, <1>i, <1>e DEF Next

LEMMA StoredGrows ==
    ASSUME Grow, NEW d \in Calls, Stored(d)
    PROVE  Stored(d)'
BY DEF Grow, Stored

LEMMA NamesKept ==
    ASSUME Grow, NEW d \in Calls
    PROVE  NamesOf(d)' = NamesOf(d) /\ MailsOf(d)' = MailsOf(d)
BY DEF Grow, NamesOf, MailsOf

LEMMA KnownGrows ==
    ASSUME Grow, NEW v \in Calls
    PROVE  Known(v) \subseteq Known(v)'
<1> SUFFICES ASSUME NEW x \in Known(v) PROVE x \in Known(v)'
  OBVIOUS
<1>1. CASE x \in NamesOf(v) \cup MailsOf(v)
  BY <1>1, NamesKept DEF Known
<1>2. ASSUME NEW d \in Calls, req[d].op = "setEmail", Stored(d), req[d].user = v,
             x \in MailsOf(d)
      PROVE  x \in Known(v)'
  <2>1. Stored(d)' /\ x \in MailsOf(d)'
    BY <1>2, StoredGrows, NamesKept
  <2>2. req'[d].op = "setEmail" /\ req'[d].user = v
    BY <1>2 DEF Grow
  <2> QED
    BY <2>1, <2>2 DEF Known
<1> QED
  BY <1>1, <1>2 DEF Known

LEMMA OwnsGrows ==
    ASSUME TypeOK, Grow, NEW c \in Calls, NEW id, Owns(id, c)
    PROVE  Owns(id, c)'
<1>1. PICK u \in users : /\ u.id = id /\ u.password = req[c].password
                         /\ req[c].username \in Known(id)
  BY DEF Owns
<1>2. id \in Calls
  BY <1>1 DEF TypeOK, User
<1>3. PICK v \in users' : v.id = u.id /\ v.password = u.password
  BY DEF Grow
<1> QED
  BY <1>1, <1>2, <1>3, KnownGrows DEF Owns, Grow

-----------------------------------------------------------------------------
(* Rows and locks                                                           *)

\* The rows after a change of address
LEMMA UpdatedRows ==
    ASSUME TypeOK, NEW c \in Calls, UpdateEmail(c), NEW v \in users'
    PROVE  \E u \in users :
              /\ v.id = u.id /\ v.username = u.username /\ v.password = u.password
              /\ v.email = u.email \/ (v.email = req[c].email /\ v.id = req[c].user
                                       /\ \A w \in users : w.email = req[c].email
                                                           => w.id = req[c].user)
              /\ v.id # req[c].user => v = u
<1>1. CASE users' = users
  BY <1>1
<1>2. CASE /\ users' = {[w EXCEPT !.email = IF w.id = req[c].user THEN req[c].email ELSE @] :
                         w \in users}
           /\ ~\E u \in users : u.email = req[c].email /\ u.id # req[c].user
  <2>1. PICK u \in users :
           v = [u EXCEPT !.email = IF u.id = req[c].user THEN req[c].email ELSE @]
    BY <1>2
  <2>2. u \in [id : Calls, username : Identifier, email : Mail \cup {NoMail},
               password : Password]
    BY DEF TypeOK, User
  <2>3. /\ v.id = u.id /\ v.username = u.username /\ v.password = u.password
        /\ v.email = IF u.id = req[c].user THEN req[c].email ELSE u.email
    BY <2>1, <2>2
  <2>4. u.id # req[c].user => v = u
    BY <2>1, <2>2
  <2> QED
    BY <1>2, <2>3, <2>4
<1> QED
  BY <1>1, <1>2 DEF UpdateEmail

LEMMA RowsStep ==
    ASSUME AccountInv, [Next]_vars
    PROVE  RowsInv'
<1> USE DEF AccountInv, RowsInv
<1> TypeOK
  OBVIOUS
<1> \A u \in users : u.id \in Calls
  BY DEF TypeOK, User
<1>u. CASE UNCHANGED vars
  BY <1>u DEF vars
<1>n. CASE AllEnded
  BY <1>n DEF AllEnded, vars
<1>s. ASSUME NEW c \in Calls, Signup(c)
      PROVE  RowsInv'
  <2>1. CASE CheckUsername(c)
    BY <2>1 DEF CheckUsername, At, Goto, tables, TypeOK
  <2>2. CASE CheckEmail(c)
    BY <2>2 DEF CheckEmail, At, Goto, tables, TypeOK
  <2>3. CASE Create(c)
    <3>1. \A u \in users : u.id # c
      BY <2>3 DEF Create, At
    <3>2. Row(c, req[c].email).id = c /\ Row(c, req[c].email).username = req[c].username
          /\ Row(c, req[c].email).password = req[c].password
      BY DEF Row
    <3>3. pc'[c] \in {"clash", "companies"} /\ \A d \in Calls \ {c} : pc'[d] = pc[d]
      BY <2>3 DEF Create, Goto, TypeOK
    <3>4. req' = req /\ req[c].op = "signup"
      BY <2>3 DEF Create, At
    <3> QED
      BY <2>3, <3>1, <3>2, <3>3, <3>4 DEF Create
  <2> QED
    BY <1>s, <2>1, <2>2, <2>3 DEF Signup
<1>l. ASSUME NEW c \in Calls, Login(c)
      PROVE  RowsInv'
  BY <1>l DEF Login, ValidateUser, ReadCompanies, CreateSession, At, Goto, tables, TypeOK
<1>m. ASSUME NEW c \in Calls, SetEmail(c)
      PROVE  RowsInv'
  <2>1. CASE CheckNewEmail(c)
    BY <2>1 DEF CheckNewEmail, At, Goto, tables, TypeOK
  <2>2. CASE UpdateEmail(c)
    <3>1. req' = req /\ pc'[c] \in {"clash", "done"}
          /\ \A d \in Calls \ {c} : pc'[d] = pc[d]
      BY <2>2 DEF UpdateEmail, Goto, TypeOK
    <3>2. \A v \in users' : \E u \in users :
             v.id = u.id /\ v.username = u.username /\ v.password = u.password
      BY <2>2, UpdatedRows
    <3>3. ASSUME NEW v \in users', NEW w \in users', v.id = w.id
          PROVE  v = w
      <4>1. CASE users' = users
        BY <3>3, <4>1
      <4>2. CASE users' = {[x EXCEPT !.email = IF x.id = req[c].user THEN req[c].email ELSE @] :
                            x \in users}
        <5>1. PICK x \in users :
                 v = [x EXCEPT !.email = IF x.id = req[c].user THEN req[c].email ELSE @]
          BY <4>2
        <5>2. PICK y \in users :
                 w = [y EXCEPT !.email = IF y.id = req[c].user THEN req[c].email ELSE @]
          BY <4>2
        <5>3. v.id = x.id /\ w.id = y.id
          BY <5>1, <5>2 DEF TypeOK, User
        <5> QED
          BY <3>3, <5>1, <5>2, <5>3
      <4> QED
        BY <2>2, <4>1, <4>2 DEF UpdateEmail
    <3> QED
      BY <3>1, <3>2, <3>3
  <2> QED
    BY <1>m, <2>1, <2>2 DEF SetEmail
<1>c. ASSUME NEW c \in Calls, CreateCompanyAndLeader(c)
      PROVE  RowsInv'
  <2>1. CASE InsertLeader(c)
    BY <2>1 DEF InsertLeader, At, Goto, tables, TypeOK
  <2>2. CASE InsertCompany(c)
    BY <2>2 DEF InsertCompany, At, Goto, tables, TypeOK
  <2>3. CASE Commit(c)
    <3>1. \A u \in users : u.id # c
      BY <2>3 DEF Commit, At
    <3>2. Row(c, NoMail).id = c /\ Row(c, NoMail).username = req[c].username
          /\ Row(c, NoMail).password = req[c].password
      BY DEF Row
    <3>3. pc'[c] = "done" /\ \A d \in Calls \ {c} : pc'[d] = pc[d]
      BY <2>3 DEF Commit, Goto, TypeOK
    <3>4. req' = req /\ req[c].op = "company" /\ users' = users \cup {Row(c, NoMail)}
      BY <2>3 DEF Commit, At
    <3> QED
      BY <3>1, <3>2, <3>3, <3>4
  <2> QED
    BY <1>c, <2>1, <2>2, <2>3 DEF CreateCompanyAndLeader
<1>i. ASSUME NEW c \in Calls, Information(c)
      PROVE  RowsInv'
  BY <1>i DEF Information, ReadSession, CheckLeader, GetInformation, At, Goto, tables, TypeOK
<1>e. ASSUME NEW c \in Calls, EndSession(c) \/ Interrupt(c)
      PROVE  RowsInv'
  BY <1>e DEF EndSession, Interrupt, Answers, Goto, tables, TypeOK
<1> QED
  BY <1>u, <1>n, <1>s, <1>l, <1>m, <1>c, <1>i, <1>e DEF Next

LEMMA LocksStep ==
    ASSUME AccountInv, [Next]_vars
    PROVE  LocksInv'
<1> USE DEF AccountInv, LocksInv
<1> TypeOK
  OBVIOUS
<1>u. CASE UNCHANGED vars
  BY <1>u DEF vars
<1>n. CASE AllEnded
  BY <1>n DEF AllEnded, vars
<1>s. ASSUME NEW c \in Calls, Signup(c)
      PROVE  LocksInv'
  <2>1. CASE CheckUsername(c)
    BY <2>1 DEF CheckUsername, At, Goto, tables, TypeOK
  <2>2. CASE CheckEmail(c)
    BY <2>2 DEF CheckEmail, At, Goto, tables, TypeOK
  <2>3. CASE Create(c)
    <3>1. Row(c, req[c].email).username = req[c].username
      BY DEF Row
    <3>2. \A d \in Calls : open[d] => req[d].username # req[c].username
      BY <2>3 DEF Create, Contended
    <3>3. ~open[c] /\ pc'[c] \in {"clash", "companies"}
          /\ \A d \in Calls \ {c} : pc'[d] = pc[d]
      BY <2>3 DEF Create, At, Goto, TypeOK
    <3>4. req' = req /\ open' = open /\ users' \subseteq users \cup {Row(c, req[c].email)}
      BY <2>3 DEF Create
    <3> QED
      BY <3>1, <3>2, <3>3, <3>4
  <2> QED
    BY <1>s, <2>1, <2>2, <2>3 DEF Signup
<1>l. ASSUME NEW c \in Calls, Login(c)
      PROVE  LocksInv'
  BY <1>l DEF Login, ValidateUser, ReadCompanies, CreateSession, At, Goto, tables, TypeOK
<1>m. ASSUME NEW c \in Calls, SetEmail(c)
      PROVE  LocksInv'
  <2>1. CASE CheckNewEmail(c)
    BY <2>1 DEF CheckNewEmail, At, Goto, tables, TypeOK
  <2>2. CASE UpdateEmail(c)
    <3>1. \A v \in users' : \E u \in users : v.username = u.username
      BY <2>2, UpdatedRows
    <3>2. req' = req /\ open' = open /\ pc[c] = "update" /\ pc'[c] \in {"clash", "done"}
          /\ \A d \in Calls \ {c} : pc'[d] = pc[d]
      BY <2>2 DEF UpdateEmail, At, Goto, TypeOK
    <3> QED
      BY <3>1, <3>2
  <2> QED
    BY <1>m, <2>1, <2>2 DEF SetEmail
<1>c. ASSUME NEW c \in Calls, CreateCompanyAndLeader(c)
      PROVE  LocksInv'
  <2>1. CASE InsertLeader(c)
    BY <2>1 DEF InsertLeader, Contended, Taken, At, Goto, tables, TypeOK
  <2>2. CASE InsertCompany(c)
    BY <2>2 DEF InsertCompany, At, Goto, tables, TypeOK
  <2>3. CASE Commit(c)
    <3>1. Row(c, NoMail).username = req[c].username
      BY DEF Row
    <3>2. open[c] /\ \A d \in Calls \ {c} : open[d] => req[d].username # req[c].username
      BY <2>3 DEF Commit, At
    <3>3. req' = req /\ pc' = [pc EXCEPT ![c] = "done"] /\ open' = [open EXCEPT ![c] = FALSE]
          /\ users' = users \cup {Row(c, NoMail)}
      BY <2>3 DEF Commit, Goto
    <3>4. /\ ~open'[c] /\ pc'[c] = "done"
          /\ \A d \in Calls \ {c} : open'[d] = open[d] /\ pc'[d] = pc[d]
      BY <3>3 DEF TypeOK
    <3> QED
      BY <3>1, <3>2, <3>3, <3>4
  <2> QED
    BY <1>c, <2>1, <2>2, <2>3 DEF CreateCompanyAndLeader
<1>i. ASSUME NEW c \in Calls, Information(c)
      PROVE  LocksInv'
  BY <1>i DEF Information, ReadSession, CheckLeader, GetInformation, At, Goto, tables, TypeOK
<1>e. ASSUME NEW c \in Calls, EndSession(c) \/ Interrupt(c)
      PROVE  LocksInv'
  BY <1>e DEF EndSession, Interrupt, Answers, Goto, tables, TypeOK
<1> QED
  BY <1>u, <1>n, <1>s, <1>l, <1>m, <1>c, <1>i, <1>e DEF Next

-----------------------------------------------------------------------------
(* Users, addresses and companies                                           *)

\* The steps that change the tables
LEMMA Changes ==
    ASSUME [Next]_vars
    PROVE  /\ req' = req
           /\ \/ UNCHANGED tables
              \/ \E c \in Calls : Create(c) \/ UpdateEmail(c) \/ Commit(c)
<1>u. CASE UNCHANGED vars
  BY <1>u DEF vars, tables
<1>n. CASE AllEnded
  BY <1>n DEF AllEnded, vars, tables
<1>s. ASSUME NEW c \in Calls, Signup(c) \/ Login(c)
      PROVE  req' = req /\ (UNCHANGED tables \/ Create(c))
  BY <1>s DEF Signup, CheckUsername, CheckEmail, Create,
              Login, ValidateUser, ReadCompanies, CreateSession, tables
<1>m. ASSUME NEW c \in Calls, SetEmail(c) \/ CreateCompanyAndLeader(c)
      PROVE  req' = req /\ (UNCHANGED tables \/ UpdateEmail(c) \/ Commit(c))
  BY <1>m DEF SetEmail, CheckNewEmail, UpdateEmail,
              CreateCompanyAndLeader, InsertLeader, InsertCompany, Commit, tables
<1>i. ASSUME NEW c \in Calls, Information(c) \/ EndSession(c) \/ Interrupt(c)
      PROVE  req' = req /\ UNCHANGED tables
  BY <1>i DEF Information, ReadSession, CheckLeader, GetInformation,
              EndSession, Interrupt, tables
<1> QED
  BY <1>u, <1>n, <1>s, <1>m, <1>i DEF Next

LEMMA UniqueStep ==
    ASSUME AccountInv, [Next]_vars
    PROVE  AccountsUnique'
<1> USE DEF AccountInv, AccountsUnique
<1> TypeOK
  OBVIOUS
<1>1. CASE UNCHANGED tables
  BY <1>1 DEF tables
<1>2. ASSUME NEW c \in Calls, Create(c)
      PROVE  AccountsUnique'
  <2>1. /\ Row(c, req[c].email).username = req[c].username
        /\ Row(c, req[c].email).email = req[c].email
    BY DEF Row
  <2>2. users' = users \/ /\ users' = users \cup {Row(c, req[c].email)}
                          /\ ~Taken(req[c].username, req[c].email)
    BY <1>2 DEF Create
  <2> QED
    BY <2>1, <2>2 DEF Taken
<1>3. ASSUME NEW c \in Calls, UpdateEmail(c)
      PROVE  AccountsUnique'
  <2>1. RowsInv'
    BY RowsStep
  <2>2. SUFFICES ASSUME NEW v \in users', NEW w \in users',
                        v.username = w.username \/ (v.email = w.email /\ v.email # NoMail)
                 PROVE  v.id = w.id
    BY <2>1 DEF RowsInv
  <2>3. req[c].email # NoMail
    BY <1>3, RequestTypes, StringsAssumption DEF UpdateEmail, At, Identifier
  <2>4. PICK x \in users :
              /\ v.id = x.id /\ v.username = x.username
              /\ v.email = x.email \/ (v.email = req[c].email /\ v.id = req[c].user
                                       /\ \A z \in users : z.email = req[c].email
                                                           => z.id = req[c].user)
    BY <1>3, UpdatedRows
  <2>5. PICK y \in users :
              /\ w.id = y.id /\ w.username = y.username
              /\ w.email = y.email \/ (w.email = req[c].email /\ w.id = req[c].user
                                       /\ \A z \in users : z.email = req[c].email
                                                           => z.id = req[c].user)
    BY <1>3, UpdatedRows
  <2> QED
    BY <2>2, <2>4, <2>5
<1>4. ASSUME NEW c \in Calls, Commit(c)
      PROVE  AccountsUnique'
  <2>1. Row(c, NoMail).username = req[c].username /\ Row(c, NoMail).email = NoMail
    BY DEF Row
  <2>2. \A u \in users : u.username # req[c].username
    BY <1>4 DEF Commit, At, LocksInv
  <2>3. users' = users \cup {Row(c, NoMail)}
    BY <1>4 DEF Commit
  <2> QED
    BY <2>1, <2>2, <2>3
<1> QED
  BY <1>1, <1>2, <1>3, <1>4, Changes

LEMMA MailsStep ==
    ASSUME AccountInv, [Next]_vars
    PROVE  MailsInv'
<1> USE DEF AccountInv
<1> TypeOK /\ Grow /\ req' = req
  BY GrowStep, Changes
<1> \A u \in users : u.id \in Calls
  BY DEF TypeOK, User
<1>0. ASSUME NEW u \in users, u.email # NoMail
      PROVE  \E d \in Calls : /\ Stored(d)' /\ u.email \in MailsOf(d)'
                              /\ u.email \in Known(u.id)'
  <2>1. PICK d \in Calls : Stored(d) /\ u.email \in MailsOf(d) /\ u.email \in Known(u.id)
    BY <1>0 DEF MailsInv
  <2> QED
    BY <2>1, StoredGrows, NamesKept, KnownGrows
<1>1. CASE UNCHANGED tables
  BY <1>0, <1>1 DEF tables, MailsInv
<1>2. ASSUME NEW c \in Calls, Create(c)
      PROVE  MailsInv'
  <2> DEFINE r == Row(c, req[c].email)
  <2>1. r.id = c /\ r.email = req[c].email
    BY DEF Row
  <2>2. CASE users' = users
    BY <1>0, <2>2 DEF MailsInv
  <2>3. CASE users' = users \cup {r}
    <3>1. ASSUME r.email # NoMail
          PROVE  Stored(c)' /\ r.email \in MailsOf(c)' /\ r.email \in Known(c)'
      <4>1. req[c].op = "signup"
        BY <1>2 DEF Create, At
      <4>2. Stored(c)'
        BY <2>1, <2>3, <4>1 DEF Stored
      <4>3. r.email \in MailsOf(c)'
        BY <2>1, <3>1, <4>1 DEF MailsOf
      <4> QED
        BY <4>2, <4>3 DEF Known
    <3> QED
      BY <1>0, <2>1, <2>3, <3>1 DEF MailsInv
  <2> QED
    BY <1>2, <2>2, <2>3 DEF Create
<1>3. ASSUME NEW c \in Calls, UpdateEmail(c)
      PROVE  MailsInv'
  <2>1. CASE users' = users
    BY <1>0, <2>1 DEF MailsInv
  <2>2. CASE pc' = [pc EXCEPT ![c] = "done"]
    <3>1. req[c].op = "setEmail" /\ req[c].user \in Calls
      BY <1>3, RequestTypes DEF UpdateEmail, At
    <3>2. Stored(c)'
      BY <2>2, <3>1 DEF Stored, TypeOK
    <3>3. SUFFICES ASSUME NEW v \in users', v.email # NoMail
                   PROVE  \E d \in Calls : /\ Stored(d)' /\ v.email \in MailsOf(d)'
                                           /\ v.email \in Known(v.id)'
      BY DEF MailsInv
    <3>4. PICK u \in users :
              /\ v.id = u.id
              /\ v.email = u.email \/ (v.email = req[c].email /\ v.id = req[c].user)
      BY <1>3, UpdatedRows
    <3>5. CASE v.email = u.email
      BY <1>0, <3>3, <3>4, <3>5
    <3>6. CASE v.email = req[c].email /\ v.id = req[c].user
      <4>1. v.email \in MailsOf(c)'
        BY <3>1, <3>3, <3>6 DEF MailsOf
      <4>2. v.email \in Known(v.id)'
        BY <3>1, <3>2, <3>6, <4>1 DEF Known
      <4> QED
        BY <3>2, <4>1, <4>2
    <3> QED
      BY <3>4, <3>5, <3>6
  <2> QED
    BY <1>3, <2>1, <2>2 DEF UpdateEmail, Goto
<1>4. ASSUME NEW c \in Calls, Commit(c)
      PROVE  MailsInv'
  <2>1. Row(c, NoMail).email = NoMail /\ users' = users \cup {Row(c, NoMail)}
    BY <1>4 DEF Commit, Row
  <2> QED
    BY <1>0, <2>1 DEF MailsInv
<1> QED
  BY <1>1, <1>2, <1>3, <1>4, Changes

LEMMA CompaniesStep ==
    ASSUME AccountInv, [Next]_vars
    PROVE  LeadersInv' /\ CompaniesWhole'
<1> USE DEF AccountInv
<1> TypeOK /\ req' = req
  BY Changes
<1> /\ \A u \in users : u.id \in Calls
    /\ \A k \in companies : k.id \in Calls
  BY DEF TypeOK, User, Company
<1>1. CASE UNCHANGED tables
  BY <1>1 DEF tables, LeadersInv, CompaniesWhole
<1>2. ASSUME NEW c \in Calls, Create(c)
      PROVE  LeadersInv' /\ CompaniesWhole'
  <2>1. Row(c, req[c].email).id = c /\ req[c].op = "signup"
    BY <1>2 DEF Create, At, Row
  <2>2. users' = users \/ users' = users \cup {Row(c, req[c].email)}
    BY <1>2 DEF Create
  <2>3. companies' = companies
    BY <1>2 DEF Create
  <2> QED
    BY <2>1, <2>2, <2>3 DEF LeadersInv, CompaniesWhole
<1>3. ASSUME NEW c \in Calls, UpdateEmail(c)
      PROVE  LeadersInv' /\ CompaniesWhole'
  <2>1. \A v \in users' : \E u \in users : u.id = v.id
    BY <1>3, UpdatedRows
  <2>2. \A u \in users : \E v \in users' : v.id = u.id
    BY GrowStep DEF Grow
  <2>3. companies' = companies
    BY <1>3 DEF UpdateEmail
  <2> QED
    BY <2>1, <2>2, <2>3 DEF LeadersInv, CompaniesWhole
<1>4. ASSUME NEW c \in Calls, Commit(c)
      PROVE  LeadersInv' /\ CompaniesWhole'
  <2>1. Row(c, NoMail).id = c /\ req[c].op = "company"
    BY <1>4 DEF Commit, At, Row
  <2>2. \A u \in users : u.id # c
    BY <1>4 DEF Commit, At, RowsInv
  <2>3. \A k \in companies : k.id # c
    BY <2>1, <2>2 DEF CompaniesWhole
  <2>4. /\ users' = users \cup {Row(c, NoMail)}
        /\ companies' = companies \cup {[id |-> c, leaderId |-> c]}
    BY <1>4 DEF Commit
  <2>5. LeadersInv'
    BY <2>1, <2>4 DEF LeadersInv
  <2>6. \A k \in companies : k.leaderId # c
    BY <2>3 DEF LeadersInv
  <2>7. CompaniesWhole'
    <3>1. ASSUME NEW d \in Calls, req[d].op = "company"
          PROVE  (\E u \in users' : u.id = d) <=> \E k \in companies' : k.id = d
      <4>1. CASE d = c
        <5> DEFINE new == [id |-> c, leaderId |-> c]
        <5>1. new \in companies' /\ new.id = c
          BY <2>4
        <5>2. Row(c, NoMail) \in users'
          BY <2>4
        <5> QED
          BY <2>1, <4>1, <5>1, <5>2
      <4>2. CASE d # c
        <5>1. (\E u \in users : u.id = d) <=> \E k \in companies : k.id = d
          BY <3>1 DEF CompaniesWhole
        <5>2. (\E u \in users' : u.id = d) <=> \E u \in users : u.id = d
          BY <2>1, <2>4, <4>2
        <5>3. (\E k \in companies' : k.id = d) <=> \E k \in companies : k.id = d
          BY <2>4, <4>2
        <5> QED
          BY <5>1, <5>2, <5>3
      <4> QED
        BY <4>1, <4>2
    <3>2. \A k \in companies' : \E u \in users' : u.id = k.leaderId
      BY <2>1, <2>4 DEF CompaniesWhole
    <3>3. \A k, l \in companies' : k.leaderId = l.leaderId => k = l
      BY <2>4, <2>6 DEF CompaniesWhole
    <3> QED
      BY <3>1, <3>2, <3>3 DEF CompaniesWhole
  <2> QED
    BY <2>5, <2>7
<1> QED
  BY <1>1, <1>2, <1>3, <1>4, Changes

-----------------------------------------------------------------------------
(* Whose token it is                                                        *)

LEMMA OwnerKept ==
    ASSUME TypeOK, Grow, companies \subseteq companies', NEW d \in Calls, OwnerOf(d),
           pc'[d] = pc[d], found'[d] = found[d], session'[d] \in {session[d], NoUser}
    PROVE  OwnerOf(d)'
<1>1. req'[d] = req[d]
  BY DEF Grow
<1>2. PICK f : f = found[d] /\ f = found'[d]
  OBVIOUS
<1>3. PICK s : s = session[d]
  OBVIOUS
<1>4. PICK k : k = req[d].token /\ k = req'[d].token
  BY <1>1
<1>5. pc'[d] \in {"companies", "session"} => Owns(f, d)'
  BY <1>2, OwnsGrows DEF OwnerOf
<1>6. s # NoUser => Owns(s, d)'
  BY <1>3, OwnsGrows DEF OwnerOf
<1>7. session'[d] # NoUser => session'[d] = s
  BY <1>3
<1>8. req'[d].op = "information" /\ pc'[d] \in {"leader", "read", "done"} => Owns(f, k)'
  <2>1. req[d].op = "information" => k \in Calls
    BY <1>4, RequestTypes
  <2> QED
    BY <1>1, <1>2, <1>4, <2>1, OwnsGrows DEF OwnerOf
<1>9. req'[d].op = "information" /\ pc'[d] \in {"read", "done"} => Leads(d)'
  BY <1>1 DEF OwnerOf, Leads
<1> QED
  BY <1>2, <1>4, <1>5, <1>6, <1>7, <1>8, <1>9 DEF OwnerOf

LEMMA OwnersStep ==
    ASSUME AccountInv, [Next]_vars
    PROVE  OwnersInv'
<1> USE DEF AccountInv
<1> TypeOK /\ Grow /\ req' = req
  BY GrowStep, Changes
<1>k. companies \subseteq companies'
  BY Changes DEF tables, Create, UpdateEmail, Commit
<1> DEFINE Same(d) == /\ pc'[d] = pc[d] /\ found'[d] = found[d]
                      /\ session'[d] \in {session[d], NoUser}
<1>0. ASSUME NEW d \in Calls, Same(d)
      PROVE  OwnerOf(d)'
  BY <1>0, <1>k, OwnerKept DEF OwnersInv
<1>u. CASE UNCHANGED vars
  BY <1>0, <1>u DEF vars, OwnersInv
<1>n. CASE AllEnded
  BY <1>0, <1>n DEF AllEnded, vars, OwnersInv
\* A step of c leaves c with no user, or with one that it may have.
<1>c. ASSUME NEW c \in Calls, \A d \in Calls \ {c} : Same(d), OwnerOf(c)'
      PROVE  OwnersInv'
  BY <1>0, <1>c DEF OwnersInv
<1>s. ASSUME NEW c \in Calls, Signup(c)
      PROVE  OwnersInv'
  <2>1. \A d \in Calls \ {c} : Same(d)
    BY <1>s DEF Signup, CheckUsername, CheckEmail, Create, Goto, TypeOK
  <2>2. req[c].op = "signup" /\ session'[c] = session[c]
    BY <1>s DEF Signup, CheckUsername, CheckEmail, Create, At
  <2>3. PICK s : s = session[c] /\ s = session'[c]
    BY <2>2
  <2>4. s # NoUser => Owns(s, c)'
    BY <2>3, OwnsGrows DEF OwnersInv, OwnerOf
  <2>5. CASE CheckUsername(c) \/ CheckEmail(c) \/ pc'[c] = "clash"
    <3>1. pc'[c] \notin {"companies", "session"}
      BY <2>5 DEF CheckUsername, CheckEmail, Goto, TypeOK
    <3> QED
      BY <1>c, <2>1, <2>2, <2>3, <2>4, <3>1 DEF OwnerOf
  <2>6. CASE Create(c) /\ users' = users \cup {Row(c, req[c].email)} /\ found'[c] = c
    <3>1. Row(c, req[c].email).id = c /\ Row(c, req[c].email).password = req[c].password
      BY DEF Row
    <3>2. req[c].username \in Known(c)'
      BY <2>2 DEF Known, NamesOf
    <3>3. Owns(c, c)'
      BY <2>2, <2>6, <3>1, <3>2 DEF Owns
    <3>4. Owns(found[c], c)'
      BY <2>6, <3>3 DEF Owns
    <3> QED
      BY <1>c, <2>1, <2>2, <2>3, <2>4, <3>4 DEF OwnerOf
  <2> QED
    BY <1>s, <2>5, <2>6 DEF Signup, Create, Goto, TypeOK
<1>l. ASSUME NEW c \in Calls, Login(c)
      PROVE  OwnersInv'
  <2>1. \A d \in Calls \ {c} : Same(d)
    BY <1>l DEF Login, ValidateUser, ReadCompanies, CreateSession, Goto, TypeOK
  <2>2. CASE ValidateUser(c)
    <3>1. req[c].op = "login" /\ session'[c] = session[c] /\ UNCHANGED tables
      BY <2>2 DEF ValidateUser, At
    <3>2. PICK s : s = session[c] /\ s = session'[c]
      BY <3>1
    <3>3. s # NoUser => Owns(s, c)'
      BY <3>2, OwnsGrows DEF OwnersInv, OwnerOf
    <3>4. CASE pc'[c] = "denied"
      BY <1>c, <2>1, <3>1, <3>2, <3>3, <3>4 DEF OwnerOf
    <3>5. ASSUME NEW u \in users, Identifies(c, u), found'[c] = u.id
          PROVE  OwnersInv'
      <4>1. u.username \in Known(u.id)
        BY DEF RowsInv, Known, NamesOf
      <4>2. req[c].username \in Known(u.id)
        <5>1. CASE req[c].username \in Mail
          BY <3>5, <5>1, StringsAssumption DEF Identifies, MailsInv, Identifier
        <5>2. CASE req[c].username \notin Mail
          BY <3>5, <4>1, <5>2 DEF Identifies
        <5> QED
          BY <5>1, <5>2
      <4>3. PICK f : f = u.id /\ f = found'[c]
        BY <3>5
      <4>4. Owns(f, c)
        BY <3>1, <3>5, <4>2, <4>3 DEF Owns, Identifies
      <4>5. Owns(f, c)'
        BY <4>4, OwnsGrows
      <4> QED
        BY <1>c, <2>1, <3>1, <3>2, <3>3, <4>3, <4>5 DEF OwnerOf
    <3> QED
      BY <2>2, <3>4, <3>5 DEF ValidateUser, Goto, TypeOK
  <2>3. CASE ReadCompanies(c) \/ CreateSession(c)
    <3>1. /\ pc[c] \in {"companies", "session"} /\ found' = found
          /\ pc'[c] \in {"session", "denied", "done"}
          /\ session'[c] \in {session[c], found[c]}
      BY <2>3 DEF ReadCompanies, CreateSession, Goto, TypeOK
    <3>2. PICK f : f = found[c] /\ f = found'[c]
      BY <3>1
    <3>3. Owns(f, c) /\ req[c].op # "information"
      BY <3>1, <3>2 DEF OwnersInv, OwnerOf, Owns
    <3>4. Owns(f, c)'
      BY <3>3, OwnsGrows
    <3>5. PICK s : s = session'[c]
      OBVIOUS
    <3>6. s # NoUser => Owns(s, c)
      BY <3>1, <3>2, <3>3, <3>5 DEF OwnersInv, OwnerOf
    <3>7. s # NoUser => Owns(s, c)'
      BY <3>6, OwnsGrows
    <3> QED
      BY <1>c, <2>1, <3>2, <3>3, <3>4, <3>5, <3>7 DEF OwnerOf
  <2> QED
    BY <1>l, <2>2, <2>3 DEF Login
<1>o. ASSUME NEW c \in Calls, SetEmail(c) \/ CreateCompanyAndLeader(c)
      PROVE  OwnersInv'
  <2>1. \A d \in Calls \ {c} : Same(d)
    BY <1>o DEF SetEmail, CheckNewEmail, UpdateEmail, CreateCompanyAndLeader, InsertLeader,
                InsertCompany, Commit, Goto, TypeOK
  <2>2. /\ req[c].op \in {"setEmail", "company"} /\ session'[c] = session[c]
        /\ pc'[c] \notin {"companies", "session"}
    BY <1>o DEF SetEmail, CheckNewEmail, UpdateEmail, CreateCompanyAndLeader, InsertLeader,
                InsertCompany, Commit, At, Goto, TypeOK
  <2>3. PICK s : s = session[c] /\ s = session'[c]
    BY <2>2
  <2>4. s # NoUser => Owns(s, c)'
    BY <2>3, OwnsGrows DEF OwnersInv, OwnerOf
  <2> QED
    BY <1>c, <2>1, <2>2, <2>3, <2>4 DEF OwnerOf
<1>i. ASSUME NEW c \in Calls, Information(c)
      PROVE  OwnersInv'
  <2>1. \A d \in Calls \ {c} : Same(d)
    BY <1>i DEF Information, ReadSession, CheckLeader, GetInformation, Goto, TypeOK
  <2>2. /\ req[c].op = "information" /\ session'[c] = session[c] /\ UNCHANGED tables
        /\ pc'[c] \notin {"companies", "session"} /\ req[c].token \in Calls
    BY <1>i, RequestTypes DEF Information, ReadSession, CheckLeader, GetInformation, At, Goto,
                tables, TypeOK
  <2>3. session[c] = NoUser
    BY <2>2 DEF OwnersInv, OwnerOf, Owns
  <2>4. PICK f : f = found'[c]
    OBVIOUS
  <2>5. PICK t : t = req[c].token /\ t = req'[c].token
    OBVIOUS
  <2>6. pc'[c] \in {"leader", "read", "done"} => Owns(f, t)
    <3>1. CASE ReadSession(c)
      BY <2>2, <2>4, <2>5, <3>1 DEF ReadSession, Goto, TypeOK, OwnersInv, OwnerOf
    <3>2. CASE CheckLeader(c) \/ GetInformation(c)
      BY <2>2, <2>4, <2>5, <3>2 DEF CheckLeader, GetInformation, At, OwnersInv, OwnerOf
    <3> QED
      BY <1>i, <3>1, <3>2 DEF Information
  <2>7. pc'[c] \in {"leader", "read", "done"} => Owns(f, t)'
    BY <2>2, <2>5, <2>6, OwnsGrows
  <2>8. pc'[c] \in {"read", "done"} => Leads(c)'
    BY <1>i, <2>2 DEF Information, ReadSession, CheckLeader, GetInformation, At, Goto, TypeOK,
                      tables, Leads, OwnersInv, OwnerOf
  <2> QED
    BY <1>c, <2>1, <2>2, <2>3, <2>4, <2>5, <2>7, <2>8 DEF OwnerOf
<1>e. ASSUME NEW c \in Calls, EndSession(c)
      PROVE  OwnersInv'
  BY <1>0, <1>e DEF EndSession, TypeOK, OwnersInv
<1>x. ASSUME NEW c \in Calls, Interrupt(c)
      PROVE  OwnersInv'
  <2>1. \A d \in Calls \ {c} : Same(d)
    BY <1>x DEF Interrupt, Goto, TypeOK
  <2>2. pc'[c] = "failed" /\ session'[c] = session[c]
    BY <1>x DEF Interrupt, Goto, TypeOK
  <2>3. PICK s : s = session[c] /\ s = session'[c]
    BY <2>2
  <2>4. s # NoUser => Owns(s, c)'
    BY <2>3, OwnsGrows DEF OwnersInv, OwnerOf
  <2> QED
    BY <1>c, <2>1, <2>2, <2>3, <2>4 DEF OwnerOf
<1> QED
  BY <1>u, <1>n, <1>s, <1>l, <1>o, <1>i, <1>e, <1>x DEF Next

-----------------------------------------------------------------------------
(* Refusals                                                                 *)

Reason(c) ==
    \E d \in Calls \ {c} :
        /\ Stored(d)
        /\ NamesOf(c) \cap NamesOf(d) # {} \/ MailsOf(c) \cap MailsOf(d) # {}

LEMMA SignupsStep ==
    ASSUME AccountInv, [Next]_vars
    PROVE  SignupsInv'
<1> USE DEF AccountInv, SignupsInv, Goto, TypeOK, tables
<1>1. CASE UNCHANGED vars \/ AllEnded
  BY <1>1 DEF AllEnded, vars
<1>2. ASSUME NEW c \in Calls, Signup(c)
      PROVE  SignupsInv'
  BY <1>2 DEF Signup, CheckUsername, CheckEmail, Create
<1>3. ASSUME NEW c \in Calls, Login(c) \/ Information(c) \/ EndSession(c) \/ Interrupt(c)
      PROVE  SignupsInv'
  BY <1>3 DEF Login, ValidateUser, ReadCompanies, CreateSession, Information, ReadSession,
              CheckLeader, GetInformation, EndSession, Interrupt
<1>4. ASSUME NEW c \in Calls, SetEmail(c) \/ CreateCompanyAndLeader(c)
      PROVE  SignupsInv'
  BY <1>4 DEF SetEmail, CheckNewEmail, UpdateEmail,
              CreateCompanyAndLeader, InsertLeader, InsertCompany, Commit
<1> QED
  BY <1>1, <1>2, <1>3, <1>4 DEF Next

LEMMA NameReason ==
    ASSUME AccountInv, NEW c \in Calls, req[c].op \in {"signup", "company"},
           pc[c] \in {"idle", "create"}, NEW u \in users, u.username = req[c].username
    PROVE  Reason(c)
<1>1. /\ u.id \in Calls /\ u.id # c
      /\ req[u.id].op \in {"signup", "company"} /\ req[u.id].username = req[c].username
  BY DEF AccountInv, RowsInv, TypeOK, User
<1>2. Stored(u.id)
  BY <1>1 DEF Stored
<1>3. req[c].username \in NamesOf(c) \cap NamesOf(u.id)
  BY <1>1 DEF NamesOf
<1> QED
  BY <1>1, <1>2, <1>3 DEF Reason

LEMMA MailReason ==
    ASSUME AccountInv, NEW c \in Calls, req[c].op \in {"signup", "setEmail"},
           pc[c] \in {"idle", "email", "create"} \/ (req[c].op = "setEmail" /\ pc[c] = "update"),
           NEW u \in users, u.email = req[c].email, req[c].email # NoMail
    PROVE  Reason(c)
<1>1. PICK d \in Calls : Stored(d) /\ u.email \in MailsOf(d)
  BY DEF AccountInv, MailsInv
<1>2. ~Stored(c)
  BY DEF AccountInv, RowsInv, Stored
<1>3. u.email \in MailsOf(c)
  BY DEF MailsOf
<1> QED
  BY <1>1, <1>2, <1>3 DEF Reason

LEMMA RefusalsStep ==
    ASSUME AccountInv, [Next]_vars
    PROVE  RefusalsHaveReason'
<1> USE DEF AccountInv
<1> TypeOK /\ Grow /\ req' = req
  BY GrowStep, Changes
<1>0. ASSUME NEW c \in Calls, Reason(c)
      PROVE  Reason(c)'
  BY <1>0, StoredGrows, NamesKept DEF Reason
<1>1. SUFFICES ASSUME NEW c \in Calls, pc'[c] \in {"conflict", "clash"},
                      pc[c] \notin {"conflict", "clash"}
               PROVE  Reason(c)
  BY <1>0 DEF RefusalsHaveReason, Reason
<1>u. CASE UNCHANGED vars
  BY <1>1, <1>u DEF vars
<1>n. CASE AllEnded
  BY <1>1, <1>n DEF AllEnded, vars
<1>s. ASSUME NEW d \in Calls, Signup(d)
      PROVE  Reason(c)
  <2>1. c = d
    BY <1>1, <1>s DEF Signup, CheckUsername, CheckEmail, Create, Goto, TypeOK
  <2>2. CASE CheckUsername(c)
    BY <1>1, <2>2, NameReason DEF CheckUsername, UsernameTaken, At, Goto, TypeOK
  <2>3. CASE CheckEmail(c)
    <3>1. EmailTaken(c) /\ req[c].op = "signup" /\ pc[c] = "email"
      BY <1>1, <2>3 DEF CheckEmail, At, Goto, TypeOK
    <3>2. req[c].email # NoMail
      BY <3>1 DEF SignupsInv
    <3> QED
      BY <3>1, <3>2, MailReason DEF EmailTaken
  <2>4. CASE Create(c)
    <3>1. Taken(req[c].username, req[c].email) /\ req[c].op = "signup" /\ pc[c] = "create"
      BY <1>1, <2>4 DEF Create, At, Goto, TypeOK
    <3> QED
      BY <3>1, NameReason, MailReason DEF Taken
  <2> QED
    BY <1>s, <2>1, <2>2, <2>3, <2>4 DEF Signup
<1>m. ASSUME NEW d \in Calls, SetEmail(d)
      PROVE  Reason(c)
  <2>1. c = d
    BY <1>1, <1>m DEF SetEmail, CheckNewEmail, UpdateEmail, Goto, TypeOK
  <2>2. req[c].op = "setEmail" /\ pc[c] \in {"idle", "update"}
    BY <1>m, <2>1 DEF SetEmail, CheckNewEmail, UpdateEmail, At
  <2>3. req[c].email # NoMail
    BY <2>2, RequestTypes, StringsAssumption DEF Identifier
  <2>4. EmailTaken(c)
    BY <1>1, <1>m, <2>1 DEF SetEmail, CheckNewEmail, UpdateEmail, EmailTaken, Goto, TypeOK
  <2> QED
    BY <2>2, <2>3, <2>4, MailReason DEF EmailTaken
<1>c. ASSUME NEW d \in Calls, CreateCompanyAndLeader(d)
      PROVE  Reason(c)
  <2>1. c = d
    BY <1>1, <1>c DEF CreateCompanyAndLeader, InsertLeader, InsertCompany, Commit, Goto, TypeOK
  <2>2. \E u \in users : u.username = req[c].username \/ (NoMail # NoMail /\ u.email = NoMail)
    BY <1>1, <1>c, <2>1 DEF CreateCompanyAndLeader, InsertLeader, InsertCompany, Commit,
                            Taken, Goto, TypeOK
  <2>3. req[c].op = "company" /\ pc[c] = "idle"
    BY <1>1, <1>c, <2>1 DEF CreateCompanyAndLeader, InsertLeader, InsertCompany, Commit,
                            At, Goto, TypeOK
  <2> QED
    BY <2>2, <2>3, NameReason
<1>o. ASSUME NEW d \in Calls, Login(d) \/ Information(d) \/ EndSession(d) \/ Interrupt(d)
      PROVE  Reason(c)
  BY <1>1, <1>o DEF Login, ValidateUser, ReadCompanies, CreateSession, Information, ReadSession,
                    CheckLeader, GetInformation, EndSession, Interrupt, Goto, TypeOK
<1> QED
  BY <1>u, <1>n, <1>s, <1>m, <1>c, <1>o DEF Next

-----------------------------------------------------------------------------
(* Theorems                                                                 *)

LEMMA InvStep == AccountInv /\ [Next]_vars => AccountInv'
<1> SUFFICES ASSUME AccountInv, [Next]_vars PROVE AccountInv'
  OBVIOUS
<1>1. TypeOK'
  BY TypeStep DEF AccountInv
<1>2. RowsInv' /\ LocksInv' /\ SignupsInv' /\ MailsInv' /\ OwnersInv'
  BY RowsStep, LocksStep, SignupsStep, MailsStep, OwnersStep
<1>3. LeadersInv' /\ CompaniesWhole' /\ AccountsUnique' /\ RefusalsHaveReason'
  BY CompaniesStep, UniqueStep, RefusalsStep
<1> QED
  BY <1>1, <1>2, <1>3 DEF AccountInv

LEMMA Invariance == Spec => []AccountInv
BY InitInv, InvStep, PTL DEF Spec

\* Tables, requests and what calls hold keep their types.
THEOREM TypeCorrect == Spec => []TypeOK
<1>1. AccountInv => TypeOK
  BY DEF AccountInv
<1> QED
  BY <1>1, Invariance, PTL

\* Usernames and addresses stay unique, although they are checked awaits before
\* signup, setEmail and createCompanyAndLeader store them.
THEOREM NoTwoAlike == Spec => []AccountsUnique
<1>1. AccountInv => AccountsUnique
  BY DEF AccountInv
<1> QED
  BY <1>1, Invariance, PTL

\* createCompanyAndLeader leaves a company and its leader or neither.
THEOREM NoCompanyAlone == Spec => []CompaniesWhole
<1>1. AccountInv => CompaniesWhole
  BY DEF AccountInv
<1> QED
  BY <1>1, Invariance, PTL

\* A name or an address is refused only for one that has been stored.
THEOREM NobodyRefusedForNothing == Spec => []RefusalsHaveReason
<1>1. AccountInv => RefusalsHaveReason
  BY DEF AccountInv
<1> QED
  BY <1>1, Invariance, PTL

\* The token of a signup or login names the one whose password was given.
THEOREM TokensOfOwners == Spec => []SessionsOfTheirOwner
<1>1. AccountInv => SessionsOfTheirOwner
  BY DEF AccountInv, OwnersInv, OwnerOf, Owns, SessionsOfTheirOwner
<1> QED
  BY <1>1, Invariance, PTL

\* A company's information goes to tokens got with its leader's password.
THEOREM LeadersOnly == Spec => []InformationForLeaders
<1>1. AccountInv => InformationForLeaders
  <2> SUFFICES ASSUME AccountInv, NEW c \in Calls, At(c, "information", "done")
               PROVE  \E k \in companies, u \in users :
                         /\ k.id = req[c].company /\ u.id = k.leaderId
                         /\ req[req[c].token].password = u.password
    BY DEF InformationForLeaders
  <2>1. Owns(found[c], req[c].token) /\ Leads(c)
    BY DEF AccountInv, OwnersInv, OwnerOf, At
  <2> QED
    BY <2>1 DEF Owns, Leads
<1> QED
  BY <1>1, Invariance, PTL
=============================================================================

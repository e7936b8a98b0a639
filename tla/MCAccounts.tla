----------------------------- MODULE MCAccounts -----------------------------
(* Small instances of Accounts for TLC. *)
EXTENDS Accounts, TLC

CONSTANTS c1, c2, c3, c4, ann, mail1, mail2, secret, other

SignupAs(username, email, password) ==
    [op |-> "signup", username |-> username, email |-> email, password |-> password]
LoginAs(username, password) ==
    [op |-> "login", username |-> username, password |-> password]
CompanyOf(username, password) ==
    [op |-> "company", username |-> username, password |-> password]

\* One name, an address that is also somebody's name, and an address to change to
AllRequests ==
    {SignupAs(ann, mail1, secret), SignupAs(ann, NoMail, other),
     SignupAs(mail1, NoMail, other), SignupAs(mail2, mail1, other),
     CompanyOf(ann, secret), CompanyOf(mail2, other),
     LoginAs(ann, secret), LoginAs(mail1, secret), LoginAs(mail1, other)}
    \cup {[op |-> "setEmail", user |-> c, email |-> m] : c \in Calls, m \in {mail1, mail2}}
    \cup {[op |-> "information", token |-> t, company |-> k] : t, k \in Calls}

Interchangeable == Permutations(Calls)
=============================================================================

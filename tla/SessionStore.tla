---------------------------- MODULE SessionStore ----------------------------
(***************************************************************************)
(* What the session service promises, without Redis: a token is issued     *)
(* once, to one user, and is worth something until it ends, for good. It   *)
(* ends only for a reason: its time is over, or somebody ends it.          *)
(***************************************************************************)
CONSTANTS Session, User, NoUser

VARIABLES
    owner,    \* whose token it is; NoUser before it is issued and after it ended
    issued,   \* the tokens that have been drawn
    doomed    \* the tokens that may end: given by the environment

vars == <<owner, issued, doomed>>

Init ==
    /\ owner = [s \in Session |-> NoUser]
    /\ issued = {}
    /\ doomed \subseteq Session

Issue(s, u) ==
    /\ s \notin issued
    /\ issued' = issued \cup {s}
    /\ owner' = [owner EXCEPT ![s] = u]

End(ended) ==
    /\ owner' = [s \in Session |-> IF s \in ended THEN NoUser ELSE owner[s]]
    /\ UNCHANGED issued

Next ==
    /\ \/ \E s \in Session, u \in User : Issue(s, u)
       \/ \E ended \in SUBSET doomed : End(ended)
    /\ doomed' \subseteq Session

Spec == Init /\ [][Next]_vars
=============================================================================

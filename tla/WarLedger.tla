----------------------------- MODULE WarLedger -----------------------------
(***************************************************************************)
(* What the war endpoints promise, without the awaits: a ledger of wars    *)
(* that is written in single steps. An upload registers a war with its     *)
(* first side or joins a war that is there; a rollback cancels a war as a  *)
(* whole. A call that has written may then queue one background job, and a *)
(* call that has not may not.                                              *)
(***************************************************************************)
EXTENDS Sequences, Functions

CONSTANTS Uploads, Rollbacks, Company, Slot, Role

VARIABLES
    wars,     \* the wars of the ledger
    sides,    \* the sides that have been uploaded
    entered,  \* the uploads that have written: none of them writes again
    due,      \* the calls whose background job is to be queued
    jobs      \* by whom the background jobs were queued, in order

vars == <<wars, sides, entered, due, jobs>>

Player(war, role) == IF role = "Attacker" THEN war.attacker ELSE war.defender

Init ==
    /\ wars = {} /\ sides = {}
    /\ entered = {} /\ due = {}
    /\ jobs = <<>>

Enter(u) ==
    /\ u \notin entered
    /\ entered' = entered \cup {u}
    /\ due' = due \cup {u}
    /\ UNCHANGED jobs

SideOf(u, war, role) ==
    [id |-> u, war |-> war.id, type |-> role, company |-> Player(war, role)]

\* Two different registered companies fight a war; nothing is said of its slot.
Register(u) ==
    /\ Enter(u)
    /\ \E attacker, defender \in Company, role, winner \in Role, slot \in Slot :
          LET war == [id |-> u, slot |-> slot, attacker |-> attacker,
                      defender |-> defender, winner |-> winner]
          IN  /\ attacker # defender
              /\ wars' = wars \cup {war}
              /\ sides' = sides \cup {SideOf(u, war, role)}

\* The other side of a war, while nobody has uploaded it
Join(u) ==
    /\ Enter(u)
    /\ \E war \in wars, role \in Role :
          /\ ~\E s \in sides : s.war = war.id /\ s.type = role
          /\ sides' = sides \cup {SideOf(u, war, role)}
    /\ UNCHANGED wars

\* A war that is in the ledger, with every side of it
Cancel(r) ==
    /\ r \notin due \cup Range(jobs)
    /\ \E war \in wars :
          /\ wars' = wars \ {war}
          /\ sides' = {s \in sides : s.war # war.id}
    /\ due' = due \cup {r}
    /\ UNCHANGED <<entered, jobs>>

\* The job of a call is queued once, after the call has written; or never, if
\* the call fails first or has nothing to update.
Queue(x) ==
    /\ x \in due
    /\ due' = due \ {x}
    /\ jobs' \in {jobs, Append(jobs, x)}
    /\ UNCHANGED <<wars, sides, entered>>

Next ==
    \/ \E u \in Uploads : Register(u) \/ Join(u)
    \/ \E r \in Rollbacks : Cancel(r)
    \/ \E x \in Uploads \cup Rollbacks : Queue(x)

Spec == Init /\ [][Next]_vars
=============================================================================

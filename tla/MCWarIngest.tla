---------------------------- MODULE MCWarIngest ----------------------------
(* Small instances of WarIngest for TLC. *)
EXTENDS WarIngest, TLC

CONSTANTS u1, u2, r1, r2,              \* calls
          A, B, C,                     \* companies
          ana, anna, bo,               \* nicknames; ana and anna are alike
          tank, healer,                \* classes
          s1, s2                       \* slots

MCAlike == {<<m, n>> \in Nick \X Nick : m = n \/ {m, n} = {ana, anna}}

On(nick, class) == [nick |-> nick, class |-> class]
Body(slot, company, opponent, type, isWinner, stats) ==
    [slot |-> slot, company |-> company, opponent |-> opponent, type |-> type,
     isWinner |-> isWinner, stats |-> stats]

\* Two sides of one war, and another war of the same company and player
Attack == Body(s1, A, B, "Attacker", TRUE, <<On(ana, tank)>>)
Defend == Body(s1, B, A, "Defender", FALSE, <<On(bo, healer), On(bo, healer)>>)
Elsewhere == Body(s2, A, B, "Attacker", FALSE, <<On(ana, healer)>>)

RaceRequests == {Attack, Defend, Elsewhere}

\* Nicknames alike to a stored one, alike to each other, and every refusal
Misspelt == Body(s2, A, B, "Attacker", TRUE, <<On(anna, tank), On(bo, tank)>>)
TwoAlike == Body(s1, B, A, "Defender", TRUE, <<On(anna, tank), On(ana, tank)>>)
OppositeRole == Body(s1, B, A, "Attacker", TRUE, <<On(bo, tank)>>)
ThirdCompany == Body(s1, C, A, "Defender", TRUE, <<On(bo, tank)>>)
AgainstItself == Body(s1, A, A, "Attacker", TRUE, <<On(bo, tank)>>)
Unregistered == Body(s2, A, Stranger, "Attacker", TRUE, <<On(bo, tank)>>)
NoStats == Body(s2, A, B, "Defender", TRUE, <<>>)

OddRequests == {Attack, Misspelt, TwoAlike, OppositeRole, ThirdCompany,
                AgainstItself, Unregistered, NoStats}

AllRequests == RaceRequests \cup OddRequests

Interchangeable == Permutations(Uploads) \cup Permutations(Rollbacks)
=============================================================================

-------------------------- MODULE MCRedisSessions --------------------------
(* Small instances of RedisSessions for TLC. *)
EXTENDS RedisSessions, TLC

CONSTANTS c1, c2, c3, alice, bob

AnyOf(ops) == [c \in Calls |-> ops]
AllOps == AnyOf(Operations)
\* The operations that requests reach through the controllers and the guard
Requested == AnyOf({"login", "guard", "validate", "logout"})
WithoutExtend == AnyOf(Operations \ {"extend"})

Interchangeable == Permutations(Calls) \cup Permutations(User)
=============================================================================

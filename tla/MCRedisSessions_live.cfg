SPECIFICATION FairSpec
CONSTANTS
    c1 = c1  c2 = c2  c3 = c3  alice = alice  bob = bob
    Calls = {c1, c2}
    User = {alice}
    Life = 1
    Ops <- WithoutExtend
    NoUser = NoUser  Absent = Absent  Unset = Unset
PROPERTIES EveryCallEnds

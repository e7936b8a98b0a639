SPECIFICATION Spec
CONSTANTS
    c1 = c1  c2 = c2  c3 = c3  alice = alice  bob = bob
    Calls = {c1, c2, c3}
    User = {alice, bob}
    Life = 1
    Ops <- AllOps
    NoUser = NoUser  Absent = Absent  Unset = Unset
SYMMETRY Interchangeable
INVARIANTS TypeOK LoggedOutIsNobody AcceptedIsOwner TtlCoversExpiry IndexOfOwner
PROPERTIES CleanupSparesLive ImplementsStore

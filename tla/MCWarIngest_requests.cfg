SPECIFICATION Spec
CONSTANTS
    u1 = u1  u2 = u2  r1 = r1  r2 = r2
    A = A  B = B  C = C
    ana = ana  anna = anna  bo = bo
    tank = tank  healer = healer
    s1 = s1  s2 = s2
    Uploads = {u1, u2}
    Rollbacks = {r1}
    Company = {A, B, C}
    Stranger = Stranger
    Nick = {ana, anna, bo}
    Alike <- MCAlike
    Class = {tank, healer}
    Slot = {s1, s2}
    Requests <- AllRequests
    Pool = 4
    NoWar = NoWar  NoPlayer = NoPlayer  NoClass = NoClass  NoProfile = NoProfile
SYMMETRY Interchangeable
INVARIANTS TypeOK SidesMatchWar AllOrNothing PerformancesAttributed
    CountsCoverPerformances CountsExactWithoutFailure MainClassEarned RollbackIsFinal
PROPERTIES ImplementsLedger

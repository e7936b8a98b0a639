SPECIFICATION Spec
CONSTANTS
    u1 = u1  u2 = u2  u3 = u3  A = A  B = B  tank = tank  healer = healer
    Char <- Typed
    Alnum <- Letters
    Lower <- LowerCase
    Nick <- Nicks
    NickOrder <- Order
    Query <- Queries
    Class = {tank, healer}
    Company = {A, B}
    Upload = {u1, u2, u3}
    Lineup <- Lineups
    Fought <- Bouts
    Rollbacks = {u2}
    Asked <- Questions
    Limit = 2
    Recent = 2
    NoPlayer = NoPlayer  NoClass = NoClass
INVARIANTS DistanceCountsEdits AlikeIsMutual SearchMissesNobody
    ProfileCoversRecents StreakIsLongestRun TotalIsKept CompanyFiguresAddUp

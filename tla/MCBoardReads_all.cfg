SPECIFICATION ReadSpec
CONSTANTS
    w1 = w1  w2 = w2  ana = ana  bo = bo  tank = tank  healer = healer
    Player = {ana, bo}
    Class = {tank, healer}
    NoPlayer = NoPlayer  Boot = Boot
    War = {w1, w2}
    Lineup <- Lineups
    Retracted = {w2}
    Rebuilds = {}
    Boards = 1
    BatchSize = 2
    RedisKept = {FALSE}
    MaxCrashes = 1
    MaxLosses = 0
    MemberOrder <- Order
    Asked <- Requests
INVARIANTS ReadTypeOK FiguresNotOlderThanPlace QuietWalkIsExact
    RanksFollowPlaces TrendingShowsBest

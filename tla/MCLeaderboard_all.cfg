SPECIFICATION Spec
CONSTANTS
    n1 = n1  w1 = w1  w2 = w2  w3 = w3  ana = ana  bo = bo  tank = tank  healer = healer
    Player = {ana, bo}
    Class = {tank, healer}
    NoPlayer = NoPlayer  Boot = Boot
    War = {w2, w3}
    Lineup <- Lineups
    Retracted = {w2}
    Rebuilds = {n1}
    Boards = 2
    BatchSize = 2
    RedisKept = {TRUE}
    MaxCrashes = 1
    MaxLosses = 1
INVARIANTS ShownIsCurrent
PROPERTIES BoardsNeverGoBack

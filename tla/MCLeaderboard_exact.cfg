SPECIFICATION FairSpec
CONSTANTS
    n1 = n1  w1 = w1  w2 = w2  w3 = w3  ana = ana  bo = bo  tank = tank  healer = healer
    Player = {ana, bo}
    Class = {tank, healer}
    NoPlayer = NoPlayer  Boot = Boot
    War = {w1, w2, w3}
    Lineup <- Lineups
    Retracted = {}
    Rebuilds = {}
    Boards = 2
    BatchSize = 2
    RedisKept = {FALSE}
    MaxCrashes = 2
    MaxLosses = 0
INVARIANTS CountsMatchDatabase
PROPERTIES EveryUploadShows

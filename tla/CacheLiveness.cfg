SPECIFICATION FairSpec
CONSTANTS
    Originals = {o1}
    Renders = {r1, r2}
    Writers = {w1}
    Sweeper = sweeper
    Admins = {}
    SizesOf <- MCSizesOf
    Budget <- MCBudget
    LowWater <- MCLowWater
    EvictionBatchSize = 2
    OriginalsMaxAge = 0
    Nobody = Nobody
    NoRow = NoRow
    MaxClock = 2
    MaxWrites = 2
    MaxPurges = 0
    MaxKills = 0
    ReadKeys = {r1}
    MayDiscon = FALSE
    MayStick = TRUE
PROPERTIES BudgetKept ExpiredRowsGo EvictsColdest

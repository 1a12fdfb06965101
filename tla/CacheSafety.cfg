SPECIFICATION Spec
CONSTANTS
    Originals = {o1}
    Renders = {r1}
    Writers = {w1, w2}
    Sweeper = sweeper
    Admins = {a1, a2}
    SizesOf <- MCOversize
    Budget <- MCLowWater
    LowWater <- MCLowWater
    EvictionBatchSize = 2
    OriginalsMaxAge = 1
    Nobody = Nobody
    NoRow = NoRow
    MaxClock = 3
    MaxWrites = 2
    MaxPurges = 2
    MaxKills = 1
    ReadKeys = {}
    MayDiscon = TRUE
    MayStick = TRUE
SYMMETRY MCSymmetry
INVARIANTS TypeOK SavesNeverConflict InStep PurgeLeavesNothing

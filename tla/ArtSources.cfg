SPECIFICATION FairSpec
CONSTANTS
    Fetches = {"f1", "f2"}
    Source = {"gametdb", "libretro", "dsiware"}
    Walk <- MCWalk
    Embedded = "dsiware"
    Urls <- MCUrls
    Mirrored = {"libretro"}
    Linking = {"libretro"}
    Slots = 1
    MaxRetries = 2
    MaxRetryAfter = 2
    RetryDelay = 1
INVARIANTS
    TypeOK
    GateKept
    OutageIsNoMiss
PROPERTIES
    PausesKept
    FetchesEnd
CHECK_DEADLOCK FALSE

SPECIFICATION FairSpec
CONSTANTS
    Cover = {c1, c2}
    Formats = Formats
    Shape <- MCShape
    StreakLimit = 2
    BufferSize = 2
INVARIANTS
    TypeOK
    KeptIsClean
    NoReuseOnceStale
    NoLitter
PROPERTIES
    ImplementsTransfer
    RequestEnds

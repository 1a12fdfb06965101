SPECIFICATION Spec
CONSTANTS
    Byte = {0, 1}
    Window = 2
    MinRun = 1
    MaxRun = 2
    TokensPerFlags = 1
    YieldEvery = 1
    MaxDeclared = 3
    Formats = Formats
    Cover <- MCCover
    Dir = {"root", "own", "sub", "sub2"}
    Root = "root"
    Listing <- MCListing
    BuiltinRom = {"b.lz77.gba", "sub2/b.lz77.gba", "a.nds", "own/a.nds"}
    ServedRom = {"a.gba", "a.nds", "own/a.nds"}
    NoRom = NoRom
    OwnDir = {"own"}
    BuiltinRoot = {}
    ServedRoot = {"sub"}
    ServedSkip = {"sub"}
    Compressed <- MCLz77
    DsRom <- MCNds
    CoverPath <- MCCoverPath
    MaxDepth = 1
    Servable = {{}, {"rom"}, {"root"}, {"rom", "dirs"}}
    Options <- MCOptions
    MaxResults = 2
INVARIANTS
    TypeOK
    RingHoldsTail
    DecodesPlain
    ScanAddsUp
    ScanIsWhole
    MarksTell
PROPERTIES
    OverwriteOffKeeps
CHECK_DEADLOCK FALSE

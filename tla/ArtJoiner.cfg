SPECIFICATION Spec
CONSTANTS
    title = title
    good = good
    bad = bad
    artName = artName
    oldName = oldName
    Titles = {title}
    SerialTitles = {}
    Names = {artName}
    Filed <- MCFiled
    Shas = {good}
    Covers <- MCGoodCover
    Broken = {}
    Options = {o1}
    Requests = {r1, r2}
    None = None
    NegativeCacheDuration = 2
    TransientFailureBackoff = 1
    MaxClock = 3
    MaxEvictions = 0
    MaxOutages = 1
    MaxRebuilds = 0
    MaxFaults = 0
    MaxArrivals = 2
INVARIANTS GoneIsRefetched
SYMMETRY MCSymmetry

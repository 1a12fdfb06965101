SPECIFICATION Spec
CONSTANTS
    title = title
    good = good
    bad = bad
    artName = artName
    oldName = oldName
    Titles = {title}
    SerialTitles = {title}
    Names = {}
    Filed <- MCNotFiled
    Shas = {good, bad}
    Covers <- MCAnyCover
    Broken = {bad}
    Options = {o1, o2}
    Requests = {r1, r2}
    None = None
    NegativeCacheDuration = 1
    TransientFailureBackoff = 1
    MaxClock = 1
    MaxEvictions = 1
    MaxOutages = 0
    MaxRebuilds = 0
    MaxFaults = 0
    MaxArrivals = 2
INVARIANTS TypeOK FetchesOnlyMissing RefetchSticks
SYMMETRY MCSymmetry

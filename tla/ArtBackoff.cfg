SPECIFICATION Spec
CONSTANTS
    title = title
    good = good
    bad = bad
    artName = artName
    oldName = oldName
    Titles = {title}
    SerialTitles = {}
    Names = {artName, oldName}
    Filed <- MCFiled
    Shas = {}
    Covers <- MCNoCover
    Broken = {}
    Options = {o1}
    Requests = {r1, r2}
    None = None
    NegativeCacheDuration = 2
    TransientFailureBackoff = 1
    MaxClock = 3
    MaxEvictions = 0
    MaxOutages = 1
    MaxRebuilds = 1
    MaxFaults = 0
    MaxArrivals = 3
PROPERTIES BackoffHonoured
SYMMETRY MCSymmetry

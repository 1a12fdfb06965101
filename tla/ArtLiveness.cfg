SPECIFICATION FairSpec
CONSTANTS
    title = title
    good = good
    bad = bad
    artName = artName
    oldName = oldName
    Titles = {title}
    SerialTitles = {title}
    Names = {}
    Filed <- MCNotFiled
    Shas = {good}
    Covers <- MCGoodCover
    Broken = {}
    Options = {o1}
    Requests = {r1, r2}
    None = None
    NegativeCacheDuration = 2
    TransientFailureBackoff = 1
    MaxClock = 1
    MaxEvictions = 0
    MaxOutages = 0
    MaxRebuilds = 0
    MaxFaults = 1
    MaxArrivals = 2
PROPERTIES EveryRequestAnswered

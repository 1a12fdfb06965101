SPECIFICATION FairSpec
CONSTANTS
    Keys = {k1, k2}
    Callers = {c1, c2, c3}
    Flights = {f1, f2, f3}
    None = None
INVARIANTS TypeOK OneExecution
PROPERTIES Coalesces CallsReturn EndedIsForgotten
CHECK_DEADLOCK FALSE

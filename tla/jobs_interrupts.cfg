SPECIFICATION Spec
CONSTANTS
    Jobs = {j1}
    Items = {i1, i2}
    NoItem = NoItem
    Workers = {w1, w2}
    Callers = {c1, c2}
    Boot = Boot
    NoProc = NoProc
    KeyOf <- OwnKeys
    Outcomes = {"ok"}
    Hooked = {j1}
    Readers = {}
    MaxJobs = 1
    ArgusLimit = 1
    MaxAttempts = 1
    PageLimit = 1
    Timed = TRUE
    LateWrites = TRUE
    Ops = {"submit", "cancel", "resume"}
    MaxCalls = 3
    MaxStops = 0
SYMMETRY Symmetry
INVARIANT Exclusive
INVARIANT ProgressNotAhead
PROPERTY ResultsAreALog
CHECK_DEADLOCK FALSE

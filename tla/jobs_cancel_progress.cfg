SPECIFICATION Spec
CONSTANTS
    Jobs = {j1}
    Items = {i1, i2}
    NoItem = NoItem
    Workers = {w1, w2}
    Callers = {c1}
    Boot = Boot
    NoProc = NoProc
    KeyOf <- OwnKeys
    Outcomes = {"ok"}
    Hooked = {}
    Readers = {}
    MaxJobs = 1
    ArgusLimit = 1
    MaxAttempts = 1
    PageLimit = 1
    Timed = FALSE
    LateWrites = FALSE
    Ops = {"submit", "cancel"}
    MaxCalls = 2
    MaxStops = 0
INVARIANT ProgressAgrees
CHECK_DEADLOCK FALSE

SPECIFICATION Spec
CONSTANTS
    Jobs = {j1}
    Items = {i1}
    NoItem = NoItem
    Workers = {w1}
    Callers = {c1}
    Boot = Boot
    NoProc = NoProc
    KeyOf <- OwnKeys
    Outcomes = {"ok"}
    Hooked = {}
    Readers = {}
    MaxJobs = 1
    ArgusLimit = 1
    MaxAttempts = 1
    PageLimit = 1
    Timed = FALSE
    LateWrites = FALSE
    Ops = {"submit", "cancel"}
    MaxCalls = 2
    MaxStops = 0
INVARIANT AckedIsCancelled
CHECK_DEADLOCK FALSE

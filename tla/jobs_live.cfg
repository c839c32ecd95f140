SPECIFICATION FairSpec
CONSTANTS
    Jobs = {j1, j2}
    Items = {i1}
    NoItem = NoItem
    Workers = {w1, w2}
    Callers = {c1, c2}
    Boot = Boot
    NoProc = NoProc
    KeyOf <- OwnKeys
    Outcomes = {"ok"}
    Hooked = {}
    Readers = {}
    MaxJobs = 1
    ArgusLimit = 1
    MaxAttempts = 1
    PageLimit = 1
    Timed = TRUE
    LateWrites = FALSE
    Ops = {"submit", "resume"}
    MaxCalls = 2
    MaxStops = 1
PROPERTY EveryJobEnds
PROPERTY EveryCallAnswered
CHECK_DEADLOCK FALSE

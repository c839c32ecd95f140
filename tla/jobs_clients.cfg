SPECIFICATION ClientsSpec
CONSTANTS
    Jobs = {j1}
    Items = {i1, i2, i3}
    NoItem = NoItem
    Workers = {w1}
    Callers = {c1, c2}
    Silent = c2
    Boot = Boot
    NoProc = NoProc
    KeyOf <- OwnKeys
    Outcomes = {"ok", "fail"}
    Hooked = {j1}
    Readers = {j1}
    MaxJobs = 1
    ArgusLimit = 1
    MaxAttempts = 2
    PageLimit = 2
    Timed = TRUE
    LateWrites = FALSE
    Ops = {"submit", "resume"}
    MaxCalls = 4
    MaxStops = 0
SYMMETRY ItemSymmetry
INVARIANT TypeOK
INVARIANT ProgressAgrees
INVARIANT ReaderMissesNothing
INVARIANT WebhookSettled
PROPERTY AckedIsFrozen
CHECK_DEADLOCK FALSE

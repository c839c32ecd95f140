SPECIFICATION Spec
CONSTANTS
    Jobs = {j1, j2}
    Items = {i1, i2, i3}
    NoItem = NoItem
    Workers = {w1, w2}
    Callers = {c1, c2}
    Boot = Boot
    NoProc = NoProc
    KeyOf <- SameKey
    Outcomes = {"ok", "fail", "argus"}
    Hooked = {j1}
    Readers = {}
    MaxJobs = 1
    ArgusLimit = 2
    MaxAttempts = 1
    PageLimit = 1
    Timed = FALSE
    LateWrites = TRUE
    Ops = {"submit"}
    MaxCalls = 2
    MaxStops = 2
SYMMETRY ItemSymmetry
INVARIANT OneJobPerKey
INVARIANT CompletedHasAll
PROPERTY ImplementsLedger
CHECK_DEADLOCK FALSE

SPECIFICATION Spec
CONSTANTS
    k1 = k1
    k2 = k2
    p = p
    q = q
    Keys = {k1, k2}
    Platforms = {p, q}
    PlatformOf <- Placed
    PlatformLimit <- Limits
    GlobalLimit = 2
    Callers = {s1, b1, b2}
    Batch = {b1, b2}
    MaxEntries = 1
    MaxBytes = 2
    Sizes = {1, 2}
    KeepsResults = TRUE
    KeepsFailures = TRUE
    Results <- SomeResults
    Threshold = 2
    MaxAttempts = 1
    MaxBrowserAttempts = 2
    RecoveringPlatforms = {p}
    BrowserPlatforms = {p}
    TimedPlatforms = {p}
    Cancels = TRUE
SYMMETRY BatchSymmetry
INVARIANT TypeOK
INVARIANT WaitersCounted
INVARIANT CollectionsBounded
INVARIANT NoStandstill
PROPERTY CooldownHonoured

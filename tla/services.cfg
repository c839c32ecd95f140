SPECIFICATION ServicesSpec
CONSTANTS
    Reads = {r1, r2}
    Refreshes = {f1, f2}
    Logins = {l1, l2}
    NoLogin = NoLogin
    Callbacks = {o1, o2}
    Incidents = {i1, i2}
    NoIncident = NoIncident
    Buckets = {"a", "b"}
    Ids = {c1, c2, c3, c4}
    NoId = NoId
    None = None
    Size = 2
    MaxPosted = 5
    MaxPages = 5
    MaxWorks = 4
    Owners = {h1, h2}
    MaxRestarts = 1
    Keys = {"k1", "k2", "k3", "k4"}
    MaxEntries = 3
    MaxBytes = 5
    Sizes = {1, 2, 3, 6}
INVARIANT AllTypeOK
INVARIANT ToldOnce
INVARIANT OneCardPerOutage
INVARIANT ListHasAll
INVARIANT OneAuthor
INVARIANT WalkHasAll
INVARIANT InPlace
PROPERTY NoReadAfterRefusal
PROPERTY CacheSized

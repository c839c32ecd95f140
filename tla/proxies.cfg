SPECIFICATION PlansSpec
CONSTANTS
    Endpoints = {e1, e2}
    NoEndpoint = NoEndpoint
    Stray = Stray
    Platforms = {"p"}
    t1 = t1
    t2 = t2
    t3 = t3
    Tasks = {t1, t2, t3}
    PlatformOf <- SamePlatform
    Plans <- BothPlans
    PoolSize = 2
    MaxUsers = 2
    RefillBatch = 1
    ErrorLimit = 1
    RequestNeed = 2
    BrowserSlots = 1
    OptModes = {TRUE, FALSE}
    Faults = {"task", "platform", "transport"}
    Cancels = TRUE
SYMMETRY LeaseSymmetry
INVARIANT TypeOK
INVARIANT HoldingsExact
INVARIANT ExclusiveAlone
INVARIANT NoLostWakeup
INVARIANT NoStandstill
INVARIANT VisitorFiled
PROPERTY IdentityStable
PROPERTY ImplementsTable

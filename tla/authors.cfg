SPECIFICATION Spec
CONSTANTS
    w1 = w1
    w2 = w2
    Works = {w1, w2}
    PageWorks <- TwoPages
    Listed = {}
    Workers = {d1, d2}
    Limit = 1
    MaxResumes = 1
    MaxFaults = 1
SYMMETRY WorkerSymmetry
INVARIANT CompletedMeansAll
INVARIANT ReaderHasAll
INVARIANT WorksKept
INVARIANT OpenHasTask
PROPERTY CancelledIsStopped

SPECIFICATION Spec
CONSTANTS
    p1 = p1
    p2 = p2
    p3 = p3
    Proc = {p1, p2}
    WorkerId <- OwnWorker
    NoOne = NoOne
    LeaseDuration = 1
    MaxAttempts = 1
    MaxGeneration = 3
    MaxCrashes = 0
    SlowTransactions = TRUE
INVARIANT
    ExhaustedMeansFailed

SPECIFICATION FairSpec
CONSTANTS
    p1 = p1
    p2 = p2
    p3 = p3
    Proc = {p1, p2}
    WorkerId <- SharedWorker
    NoOne = NoOne
    LeaseDuration = 1
    MaxAttempts = 2
    MaxGeneration = 4
    MaxCrashes = 1
    SlowTransactions = FALSE
PROPERTIES
    RunTerminates
    RequestsAnswered

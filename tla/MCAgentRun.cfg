SPECIFICATION Spec
CONSTANTS
    p1 = p1
    p2 = p2
    p3 = p3
    Proc = {p1, p2}
    WorkerId <- SharedWorker
    NoOne = NoOne
    LeaseDuration = 2
    MaxAttempts = 2
    MaxGeneration = 3
    MaxCrashes = 1
    SlowTransactions = TRUE
SYMMETRY Requests
INVARIANTS
    TypeOK
    PublishedUnderCurrentToken
    OpenAttemptIsCurrent
    FinaliserOwnsOpenAttempt
    AnswersAgree
    IndInv
PROPERTIES
    NoOverlappingLeases
    HistoryIsFinal
    FencedLeaseSpec

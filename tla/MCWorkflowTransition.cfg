SPECIFICATION FairSpec
CONSTANTS
    Client = {c1, c2}
    Producer = {p1}
    Object = {o1, o2}
    Version = {v1, w1}
    o1 = o1
    o2 = o2
    v1 = v1
    w1 = w1
    ObjectOf <- VersionOwner
    TargetOf <- RunTarget
    Payload <- Plain
    Key = {k1, k2}
    MaxCrashes = 1
    NoOne = NoOne
INVARIANTS TypeOK LifecycleFollowsTransitions OneDecisionPerKey ConflictsStayTrue
PROPERTIES RequestsAnswered ExactlyOnceSpec

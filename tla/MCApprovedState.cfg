SPECIFICATION FairSpec
CONSTANTS
    Proc = {p1, p2}
    Object = {o1, o2}
    Version = {v1, v2, w1}
    o1 = o1
    o2 = o2
    v1 = v1
    v2 = v2
    w1 = w1
    ObjectOf <- VersionOwner
    Payload <- Asks
    Key = {k1, k2, k3}
    MaxCrashes = 1
    Null = Null
    NoOne = NoOne
INVARIANTS TypeOK ApprovalsFormAChain OneCommitPerKey
PROPERTIES PointerFollowsCommits ExactlyOnceSpec RequestsAnswered

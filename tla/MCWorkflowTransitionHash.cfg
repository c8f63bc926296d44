SPECIFICATION Spec
CONSTANTS
    Client = {c1, c2}
    Producer = {p1}
    Object = {o1, o2}
    Version = {v1, w1}
    o1 = o1
    o2 = o2
    v1 = v1
    w1 = w1
    ObjectOf <- VersionOwner
    TargetOf <- RunTarget
    Payload <- Separators
    Key = {k1}
    MaxCrashes = 0
    NoOne = NoOne
INVARIANTS RequestersAreDistinct

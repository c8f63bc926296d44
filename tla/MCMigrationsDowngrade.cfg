SPECIFICATION Spec
CONSTANTS
    Object = {o1, o2}
    Version = {v1, v2, w1}
    o1 = o1
    o2 = o2
    v1 = v1
    v2 = v2
    w1 = w1
    ObjectOf <- VersionOwner
    Number <- Numbers
    Key = {k1, k2}
    Fresh = {2, 3, 4}
    MaxWrites = 4
    MaxCommands = 2
    Null = Null


PROPERTIES DowngradesAbortOverTheirData
CHECK_DEADLOCK FALSE

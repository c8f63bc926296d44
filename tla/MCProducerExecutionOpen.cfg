SPECIFICATION Spec
CONSTANTS
    Proc = {p1, p2}
    Object = {o1, o2}
    o1 = o1
    o2 = o2
    Key = {k1}
    Identity <- ThreeIdentities
    MaxCrashes = 0
    NoOne = NoOne
INVARIANTS AnswersLeaveNoTransaction

SPECIFICATION Spec
CONSTANTS
    Proc = {p1, p2}
    Object = {o1, o2}
    o1 = o1
    o2 = o2
    Key = {k1, k2}
    Identity <- ThreeIdentities
    MaxCrashes = 1
    NoOne = NoOne
SYMMETRY Interchangeable
INVARIANTS TypeOK OneRunPerKey OneActiveRunPerVersion VersionsAreNumbered RunIsAboutItsObject
           NoRuntimeError
PROPERTIES ExactlyOnceSpec

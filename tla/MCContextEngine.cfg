SPECIFICATION Spec
CONSTANTS
    Proc = {p1, p2}
    Object = {t, a, l, u}
    Registered = {t, a, l}
    t = t
    a = a
    l = l
    u = u
    t1 = t1
    t2 = t2
    a1 = a1
    l1 = l1
    Version = {t1, t2, a1, l1}
    TypeOf <- Types
    ObjectOf <- Owner
    Number <- Numbers
    Link <- Links
    Source <- Sources
    Initial <- Started
    Payload <- Asks
    Key = {k1}
    MaxChanges = 2
    MaxCrashes = 1
    Null = Null
    NoOne = NoOne
SYMMETRY Interchangeable
INVARIANTS TypeOK OnePackagePerKey TwoRoundsSuffice
PROPERTIES PackageIsOneMoment AcceptedIffGrounded ExactlyOnceSpec

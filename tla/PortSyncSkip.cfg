SPECIFICATION Spec
CONSTANTS
    p1 = p1
    p2 = p2
    eth = eth
    m1 = m1
    m2 = m2
    PortOrder <- TwoPorts
    OwnMac <- TwoMacs
    NoMac = NoMac
    NoData = NoData
    Foreign = {eth}
    Outcomes = {"own"}
    MaxSyncs = 1
INVARIANTS
    SkippedKeepsBoth
CHECK_DEADLOCK FALSE

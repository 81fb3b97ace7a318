SPECIFICATION Spec
CONSTANTS
    p1 = p1
    p2 = p2
    eth = eth
    m1 = m1
    m2 = m2
    PortOrder <- TwoPorts
    OwnMac <- TwoMacs
    NoMac = NoMac
    NoData = NoData
    Foreign = {eth}
    Outcomes = {"gone", "unread", "nomac", "own", "shared"}
    MaxSyncs = 1
INVARIANTS
    TypeOK
    DataLostOnlyWithRemovedPort
    PortsConverge
    DataFollowsMac
    SettledStays
CHECK_DEADLOCK FALSE

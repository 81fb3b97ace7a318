SPECIFICATION FairSpec
CONSTANTS
    mgmt = mgmt
    m1 = m1
    m2 = m2
    a1 = a1
    a2 = a2
    IDrac = IDrac
    Admin = {mgmt}
    Macs = {m1, m2}
    Addrs = {a1, a2}
    Masks = {24}
    Host = 32
    MaxIps = 4
    None = None
    MaxChanges = 2
    MaxFaults = 1
INVARIANTS
    TypeOK
    OneManagementInterface
    DoneSettles
PROPERTIES
    SyncKeepsData
    SyncKeepsOthers
    NoSecondCopy
    SettledStays
    Quiesces

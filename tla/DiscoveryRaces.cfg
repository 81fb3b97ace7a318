SPECIFICATION Spec
CONSTANTS
    m1 = m1
    m2 = m2
    s1 = s1
    s2 = s2
    siteA = siteA
    siteB = siteB
    n1 = n1
    e1 = e1
    Targets <- OneTarget
    SiteOf <- TwoSites
    NameOf <- OneName
    Scans = {s1, s2}
    Editors = {e1}
    Tagless = {}
    UpdateSerial = TRUE
    UserOps = {"resync", "confirm", "delete", "add", "edit"}
    MaxDevices = 2
    MaxServers = 2
    MaxEdits = 1
    MaxFaults = 1
INVARIANTS
    TypeOK
    AutoSiteAwaitsReview
    DuplicateOnlyIfExcused
SYMMETRY RangeSymmetry
CHECK_DEADLOCK FALSE

SPECIFICATION FairSpec
CONSTANTS
    m1 = m1
    m2 = m2
    s1 = s1
    s2 = s2
    siteA = siteA
    siteB = siteB
    n1 = n1
    e1 = e1
    Targets <- TwoTargets
    SiteOf <- TwoSites
    NameOf <- SameName
    Scans = {s1, s2}
    Editors = {}
    Tagless = {m2}
    UpdateSerial = TRUE
    UserOps = {"resync"}
    MaxDevices = 5
    MaxServers = 5
    MaxEdits = 0
    MaxFaults = 2
PROPERTIES
    RescansCover

SPECIFICATION FairSpec
CONSTANTS
    cpu = cpu
    disk = disk
    p1 = p1
    p2 = p2
    v1 = v1
    v2 = v2
    j1 = j1
    j2 = j2
    Keys = {cpu, disk}
    Rank <- Reporting
    Getters <- TwoGetters
    GetterOf <- ByGetter
    Parts = {p1, p2}
    FirmwareOf <- Installed
    Telling = {p2}
    None = None
    Jobs = {j1, j2}
    MaxSwaps = 1
    MaxFaults = 2
INVARIANTS
    TypeOK
    CleanSyncMirrors
PROPERTIES
    KeepsPromise
    Converges

SPECIFICATION Spec
CONSTANTS
    j1 = j1
    j2 = j2
    i1 = i1
    e1 = e1
    SyncJobs = {j1}
    Imports = {i1}
    Editors = {e1}
    UserOps = {"create", "review", "delete"}
    Budget = 2
    Slack = 1
    StartDelays = {1}
    Durations = {0, 1}
    Horizon = 3
    MaxRows = 2
    DbFaults = TRUE
    Crashes = TRUE
INVARIANTS
    TypeOK
    IntentKept
    TruncatedNeverSynced
    DoneMeansComplete
PROPERTIES
    RowPromise
CHECK_DEADLOCK FALSE

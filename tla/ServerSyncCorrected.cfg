SPECIFICATION FairSpec
CONSTANTS
    j1 = j1
    j2 = j2
    i1 = i1
    e1 = e1
    SyncJobs = {j1, j2}
    Imports = {}
    Editors = {}
    UserOps = {"create", "delete"}
    Budget = 2
    Slack = 1
    StartDelays = {1}
    Durations = {0, 2}
    Horizon = 3
    MaxRows = 1
    DbFaults = TRUE
    Crashes = TRUE
PROPERTIES
    OverrunCorrected
CHECK_DEADLOCK FALSE

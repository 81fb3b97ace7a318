SPECIFICATION Spec
CONSTANTS
    j1 = j1
    j2 = j2
    i1 = i1
    e1 = e1
    SyncJobs = {j1}
    Imports = {i1}
    Editors = {}
    UserOps = {"review"}
    Budget = 2
    Slack = 1
    StartDelays = {1}
    Durations = {0, 2}
    Horizon = 3
    MaxRows = 1
    DbFaults = FALSE
    Crashes = FALSE
INVARIANTS
    ConfirmationKept
CHECK_DEADLOCK FALSE

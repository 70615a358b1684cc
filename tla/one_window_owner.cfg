SPECIFICATION RSpec
CONSTANTS
    h1 = h1
    r1 = r1
    r2 = r2
    MaxJobs = 3
    MaxTime = 0
    MaxCrashes = 0
    MaxFaults = 0
    Handlers = {h1}
    Endpoints = {"schedule-sweep"}
    Registered = {"update_sweep"}
    Restores = {r1}
    MaxRestores = 1
    MaxRequests = 1
INVARIANT OneWindowOwner
CHECK_DEADLOCK FALSE

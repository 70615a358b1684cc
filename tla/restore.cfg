SPECIFICATION RSpec
CONSTANTS
    h1 = h1
    r1 = r1
    r2 = r2
    MaxJobs = 3
    MaxTime = 0
    MaxCrashes = 0
    MaxFaults = 0
    Handlers = {h1}
    Endpoints = {"schedule-sweep"}
    Registered = {"user_scrape", "backup", "update_sweep"}
    Restores = {r1, r2}
    MaxRestores = 2
    MaxRequests = 2
SYMMETRY RestoreSymmetry
INVARIANTS GateHasOwner SequenceCoversRows
CHECK_DEADLOCK FALSE

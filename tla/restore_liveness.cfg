SPECIFICATION RFairSpec
CONSTANTS
    h1 = h1
    r1 = r1
    r2 = r2
    MaxJobs = 2
    MaxTime = 0
    MaxCrashes = 1
    MaxFaults = 0
    Handlers = {h1}
    Endpoints = {"backups", "jobs/scrape"}
    Registered = {"user_scrape", "backup"}
    Restores = {r1}
    MaxRestores = 1
    MaxRequests = 2
PROPERTIES RGateReopens RJobsFinish
CHECK_DEADLOCK FALSE

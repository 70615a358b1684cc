SPECIFICATION RSpec
CONSTANTS
    h1 = h1
    r1 = r1
    r2 = r2
    MaxJobs = 5
    MaxTime = 0
    MaxCrashes = 0
    MaxFaults = 0
    Handlers = {h1}
    Endpoints = {"backups", "jobs/scrape"}
    Registered = {"user_scrape", "backup"}
    Restores = {r1}
    MaxRestores = 1
    MaxRequests = 3
PROPERTY AuditRowsReturn
CHECK_DEADLOCK FALSE

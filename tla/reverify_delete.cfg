SPECIFICATION Spec
CONSTANTS
    Restores = {}
    Uploads = {u1}
    Namers = {}
    Viewers = {}
    SundayOf <- Weekdays
    RecentKept = 2
    SundaysKept = 1
    PreRestoresKept = 1
    UploadsKept = 1
    MaxOps = 4
    MaxFaults = 1
PROPERTIES DeleteFailsNoJob
CHECK_DEADLOCK FALSE

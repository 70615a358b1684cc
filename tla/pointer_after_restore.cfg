SPECIFICATION Spec
CONSTANTS
    Restores = {r1}
    Uploads = {}
    Namers = {}
    Viewers = {}
    SundayOf <- Weekdays
    RecentKept = 2
    SundaysKept = 1
    PreRestoresKept = 1
    UploadsKept = 1
    MaxOps = 4
    MaxFaults = 0
PROPERTIES PointerMovesToLive
CHECK_DEADLOCK FALSE

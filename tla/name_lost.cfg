SPECIFICATION Spec
CONSTANTS
    Restores = {}
    Uploads = {}
    Namers = {n1}
    Viewers = {v1}
    SundayOf <- Weekdays
    RecentKept = 2
    SundaysKept = 1
    PreRestoresKept = 1
    UploadsKept = 1
    MaxOps = 3
    MaxFaults = 1
PROPERTIES NamesAreKept
CHECK_DEADLOCK FALSE

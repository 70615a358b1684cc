SPECIFICATION Spec
CONSTANTS
    Restores = {r1, r2}
    Uploads = {}
    Namers = {}
    Viewers = {}
    SundayOf <- Weekdays
    RecentKept = 3
    SundaysKept = 1
    PreRestoresKept = 1
    UploadsKept = 1
    MaxOps = 4
    MaxFaults = 1
SYMMETRY Interchangeable
PROPERTY LinkedSnapshotStays
CHECK_DEADLOCK FALSE

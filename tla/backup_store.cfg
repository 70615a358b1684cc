SPECIFICATION Spec
CONSTANTS
    Restores = {}
    Uploads = {u1}
    Namers = {n1}
    Viewers = {v1}
    SundayOf <- TwoSundays
    RecentKept = 1
    SundaysKept = 1
    PreRestoresKept = 1
    UploadsKept = 1
    MaxOps = 5
    MaxFaults = 1
INVARIANT OneDumpPerContent
PROPERTIES NamedDumpsStay AnchorSurvives
CHECK_DEADLOCK FALSE

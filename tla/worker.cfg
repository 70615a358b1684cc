SPECIFICATION Spec
CONSTANTS
    h1 = h1
    h2 = h2
    MaxJobs = 2
    MaxTime = 1
    MaxCrashes = 1
    MaxFaults = 1
    Handlers = {h1, h2}
    Endpoints = {"schedule-nightly", "schedule-seasonal"}
    Registered = {"user_scrape", "update_sweep", "seasonal_sweep"}
SYMMETRY HandlerSymmetry
INVARIANTS RunningIsHeld FlagMatchesBracket BannerHasWindow
PROPERTY ImplementsLifecycle
CHECK_DEADLOCK FALSE

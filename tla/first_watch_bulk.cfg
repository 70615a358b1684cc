SPECIFICATION AllOverlap
CONSTANTS
    m1 = m1
    m2 = m2
    m3 = m3
    r1 = r1
    r2 = r2
    Order <- TwoSeasons
    Anchors = {m1, m2}
    Unaired = {}
    Requests = {r1, r2}
    Operations = {"upsert", "bulk_upsert"}
    Wipes = {FALSE}
    MaxRequests = 3
    MaxEvents = 3
SYMMETRY RequestSymmetry
INVARIANTS FirstWatchLoggedOnce
CHECK_DEADLOCK FALSE

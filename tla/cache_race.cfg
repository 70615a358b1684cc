SPECIFICATION AllOverlap
CONSTANTS
    m1 = m1
    m2 = m2
    m3 = m3
    r1 = r1
    r2 = r2
    Order <- SeasonsAndOVA
    Anchors = {m1, m2}
    Unaired = {}
    Requests = {r1, r2}
    Operations = {"upsert"}
    Wipes = {FALSE}
    MaxRequests = 2
    MaxEvents = 3
SYMMETRY RequestSymmetry
INVARIANTS CacheMatchesRatings
CHECK_DEADLOCK FALSE

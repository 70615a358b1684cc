SPECIFICATION PSpec
CONSTANTS
    m1 = m1
    m2 = m2
    m3 = m3
    r1 = r1
    r2 = r2
    Listed <- TwoSeasons
    ListMains = {m1}
    Default = watch
    CustomLists = {extra, late, third}
    Notes = {"none", "soon"}
    Keep = "keep"
    ListLimit = 2
    MaxFilings = 3
    Order <- SeasonsAndOVA
    Anchors = {m1, m2}
    Unaired = {m3}
    Requests = {r1, r2}
    Operations = {"upsert", "delete", "rewatch", "bulk_upsert", "bulk_delete", "refresh"}
    Wipes = {TRUE, FALSE}
    MaxRequests = 4
    MaxEvents = 3
SYMMETRY PersonalSymmetry
INVARIANTS FirstWatchLoggedOnce CompletedHasEvent CacheKeptSerially ListsBounded
PROPERTY NotesKept
CHECK_DEADLOCK FALSE

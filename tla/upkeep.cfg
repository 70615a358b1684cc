SPECIFICATION USpec
CONSTANTS
    r1 = r1
    r2 = r2
    q1 = q1
    q2 = q2
    s1 = s1
    s2 = s2
    d1 = d1
    d2 = d2
    d3 = d3
    w1 = w1
    w2 = w2
    Names = {"ann"}
    Seeds <- MCSeeds
    TokenRole <- MCTokenRole
    Shows = {"show"}
    Legacies <- MCLegacies
    Issued = {"first"}
    Requests = {r1, r2}
    MaxRequests = 5
    MaxEdition = 2
    People = {"ann", "root"}
    Operators = {"root"}
    Titles = {q1, q2}
    ActiveLimit = 1
    DailyLimit = 2
    PageLimit = 1
    Submissions = {s1, s2}
    MaxJobs = 4
    Documents = {d1, d2, d3}
    Suffixed = {d1}
    Bare = {d2}
    Unborn = {d3}
    Writers = {w1, w2}
    BatchSize = 2
    MaxChanges = 2
    Wheels <- MCWheels
    Hashes <- MCHashes
    Rest = 1
    Progresses <- MCProgresses
    Spins = {r1, r2}
    FirstDay = 0
    MaxDay = 5
    Desks = {"bundle", "trio"}
    Starts <- MCStarts
    Resembles <- MCResembles
    Changes <- MCChanges
    MaxAnime = 4
SYMMETRY UpkeepSymmetry
INVARIANTS OneDecision DismissalSticks UmbrellaMatchesMedia NamedForOwn AccountsComplete TokenBuysOne LimitsBounded NoRowOverlooked WheelHolds
PROPERTY VectorsFollow
CHECK_DEADLOCK FALSE

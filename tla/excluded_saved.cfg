SPECIFICATION Spec
CONSTANTS
    Media = {1, 2, 3, 4}
    Catalogue <- Crossover
    Related <- CrossoverRelated
    Roots = {}
    Mains = {1, 2, 3}
    Recent = {1}
    LowSignal = {}
    Threshold = 1
    Week = 1
    Long = 2
    Cap = 3
    Breaker = 2
    Moves <- Failing
    MaxMoves = 1
    MaxFaults = 1
INVARIANT ExcludedIsSaved
